---------------------------- MODULE MemHeapProofs ---------------------------
(***************************************************************************)
(* Proofs about MemHeap, and about the walk of MemHeapDiag beside it, for   *)
(* every number of heaps, every memory areas and every sizes of requests.  *)
(***************************************************************************)
EXTENDS MemHeapDiag, FiniteSetTheorems, WellFoundedInduction, TLAPS

\* The blocks of f (address -> size) cover the addresses from lo up to hi
\* exactly once.
Tiles(f, lo, hi) ==
  /\ lo \in DOMAIN f
  /\ \A a \in DOMAIN f :
       /\ a \in Int /\ lo <= a /\ a < hi
       /\ f[a] \in Int /\ 0 < f[a]
       /\ a + f[a] = hi \/ a + f[a] \in DOMAIN f
       /\ \A b \in DOMAIN f : a < b => a + f[a] <= b

\* All blocks of heap h.
Layout(h) == [a \in Blocks(h) |-> Len(h, a)]

\* The blocks of a heap lie inside the area it was given.
Geometry ==
  \A h \in Slots :
    /\ base[h] \in Nat /\ size[h] \in Nat
    /\ size[h] > 0 => /\ First(h) \in Nat /\ Limit(h) \in Nat
                      /\ base[h] <= First(h) /\ First(h) < Limit(h)
                      /\ Limit(h) <= base[h] + size[h]

\* No two heaps share memory.
Apart ==
  \A h, i \in Slots : h # i /\ size[h] > 0 /\ size[i] > 0 =>
    base[h] + size[h] <= base[i] \/ base[i] + size[i] <= base[h]

\* A free list has blocks of its heap only.
Lists ==
  \A h \in Slots : \A a \in DOMAIN list[h] :
    size[h] > 0 /\ First(h) <= a /\ a < Limit(h)

\* A block in use is in some heap, and reaches beyond its header.
InUse ==
  \A p \in DOMAIN used :
    /\ p \in Nat /\ used[p] \in Nat /\ HeadSize < used[p]
    /\ \E h \in Slots : p \in BlocksOf(h, used)

Tiled ==
  \A h \in Slots : size[h] > 0 =>
    Tiles(Layout(h), First(h), Limit(h)) /\ DOMAIN list[h] \cap DOMAIN used = {}

\* A reallocation under way holds a block that is in use, under a handle that
\* finds it, and no two hold the same one.
Moves ==
  \A m \in moving :
    /\ m = <<m[1], m[2]>> /\ m[1] \in DOMAIN used
    /\ m[2] = 0 \/ (m[2] \in Slots /\ m[1] \in BlocksOf(m[2], used))
    /\ \A k \in moving : k[1] = m[1] => k = m

Shape == DOMAIN base = Slots /\ DOMAIN size = Slots /\ DOMAIN list = Slots

Heaps == Shape /\ Geometry /\ Apart /\ Lists /\ InUse /\ Tiled
IInv == Heaps /\ FullyCoalesced /\ TagsAgree /\ Moves

-----------------------------------------------------------------------------
(* Sums over a finite set.                                                 *)

\* A set of numbers has a least one: what the inductions below rest on.
LEMMA Smallest ==
  ASSUME NEW T \in SUBSET Nat, T # {}
  PROVE  \E x \in T : \A y \in T : x <= y
<1>1. \A x, y : <<y, x>> \in OpToRel(<, Nat) <=> x \in Nat /\ y \in Nat /\ y < x
  BY DEF OpToRel
<1>2. PICK R : /\ IsWellFoundedOn(R, Nat)
               /\ \A x, y : <<y, x>> \in R <=> x \in Nat /\ y \in Nat /\ y < x
  BY <1>1, NatLessThanWellFounded, Zenon
<1>3. PICK x \in T : \A y \in T : ~(<<y, x>> \in R)
  BY <1>2, WFMin
<1>4. \A y \in T : ~(y < x)
  BY <1>2, <1>3
<1> QED
  BY <1>4

\* The sum that MapThenSumSet computes, one element at a time: g gives that of
\* every subset of S.
Total(f, S) == MapThenSumSet(LAMBDA a : f[a], S)

Picked(s) == CHOOSE x \in s : TRUE

Sums(g, f, S) ==
  g = [s \in SUBSET S |-> IF s = {} THEN 0 ELSE f[Picked(s)] + g[s \ {Picked(s)}]]

LEMMA TotalSums ==
  ASSUME NEW f, NEW S, \E g : Sums(g, f, S)
  PROVE  \E g : Sums(g, f, S) /\ Total(f, S) = g[S]
<1>1. Total(f, S) = (CHOOSE g : g = [s \in SUBSET S |->
                       IF s = {} THEN 0
                       ELSE f[CHOOSE x \in s : TRUE] + g[s \ {CHOOSE x \in s : TRUE}]])[S]
  BY Zenon DEF Total, MapThenSumSet, MapThenFoldSet
<1>2. Total(f, S) = (CHOOSE g : Sums(g, f, S))[S]
  BY <1>1, Zenon DEF Sums, Picked
<1>3. PICK g : g = CHOOSE k : Sums(k, f, S)
  OBVIOUS
<1>4. Sums(g, f, S)
  BY <1>3, Zenon
<1> QED
  BY <1>2, <1>3, <1>4

\* Taking any element out of a finite set makes it one smaller.  The lemmas on
\* sums argue with it: Bad is the set of the sizes at which the claim fails, and
\* the smallest of them leads to a smaller one.
LEMMA Picks ==
  ASSUME NEW s, s # {}, IsFiniteSet(s)
  PROVE  /\ Picked(s) \in s
         /\ \A x \in s : /\ IsFiniteSet(s \ {x})
                         /\ Cardinality(s) \in Nat /\ Cardinality(s \ {x}) \in Nat
                         /\ Cardinality(s) = Cardinality(s \ {x}) + 1
<1>1. Picked(s) \in s
  BY DEF Picked
<1>2. ASSUME NEW x \in s
      PROVE  /\ IsFiniteSet(s \ {x})
             /\ Cardinality(s) \in Nat /\ Cardinality(s \ {x}) \in Nat
             /\ Cardinality(s) = Cardinality(s \ {x}) + 1
  <2>1. IsFiniteSet(s \ {x}) /\ Cardinality(s \ {x}) = Cardinality(s) - 1
    BY FS_RemoveElement
  <2>2. Cardinality(s) \in Nat /\ Cardinality(s \ {x}) \in Nat
    BY <2>1, FS_CardinalityType
  <2> QED
    BY <2>1, <2>2
<1> QED
  BY <1>1, <1>2

\* The equation of Sums for the subsets of at most n elements has a solution.
SumsUpTo(g, f, S, n) ==
  \A s \in SUBSET S : Cardinality(s) <= n =>
    g[s] = IF s = {} THEN 0 ELSE f[Picked(s)] + g[s \ {Picked(s)}]

LEMMA SumsExist ==
  ASSUME NEW S, IsFiniteSet(S), NEW f
  PROVE  \E g : Sums(g, f, S)
<1> DEFINE Bad == {n \in Nat : ~\E g : DOMAIN g = SUBSET S /\ SumsUpTo(g, f, S, n)}
<1>0. \A s \in SUBSET S : IsFiniteSet(s) /\ Cardinality(s) \in Nat
  BY FS_Subset, FS_CardinalityType
<1>1. Bad = {}
  <2> SUFFICES ASSUME Bad # {} PROVE FALSE
    OBVIOUS
  <2>1. PICK n \in Bad : \A m \in Bad : n <= m
    BY Smallest
  <2>2. CASE n = 0
    <3> DEFINE g == [s \in SUBSET S |-> 0]
    <3>1. ASSUME NEW s \in SUBSET S, Cardinality(s) <= 0 PROVE s = {}
      BY <1>0, <3>1, FS_EmptySet
    <3>2. DOMAIN g = SUBSET S /\ SumsUpTo(g, f, S, 0)
      BY <3>1 DEF SumsUpTo
    <3> QED
      BY <2>2, <3>2
  <2>3. CASE n # 0
    <3>1. n - 1 \in Nat /\ n - 1 \notin Bad
      BY <2>1, <2>3
    <3>2. PICK g : DOMAIN g = SUBSET S /\ SumsUpTo(g, f, S, n - 1)
      BY <3>1
    <3>3. PICK k : k = [s \in SUBSET S |-> IF Cardinality(s) <= n - 1 THEN g[s]
                                           ELSE f[Picked(s)] + g[s \ {Picked(s)}]]
      OBVIOUS
    <3>4. ASSUME NEW s \in SUBSET S, Cardinality(s) <= n
          PROVE  k[s] = IF s = {} THEN 0 ELSE f[Picked(s)] + k[s \ {Picked(s)}]
      <4>1. CASE s = {}
        <5>1. Cardinality(s) = 0 /\ 0 <= n - 1
          BY <3>1, <4>1, FS_EmptySet
        <5>2. k[s] = g[s]
          BY <3>3, <5>1
        <5> QED
          BY <3>2, <4>1, <5>1, <5>2 DEF SumsUpTo
      <4>2. CASE s # {}
        <5>1. PICK x \in s : x = Picked(s)
          BY <4>2 DEF Picked
        <5>2. /\ Cardinality(s) \in Nat /\ Cardinality(s \ {x}) \in Nat
              /\ Cardinality(s) = Cardinality(s \ {x}) + 1
          BY <1>0, <4>2, Picks
        <5>3. s \ {x} \in SUBSET S /\ Cardinality(s \ {x}) <= n - 1
          BY <3>1, <3>4, <5>2
        <5>4. k[s \ {x}] = g[s \ {x}]
          BY <3>3, <5>3
        <5>5. CASE Cardinality(s) <= n - 1
          <6>1. k[s] = g[s]
            BY <3>3, <5>5
          <6>2. g[s] = f[x] + g[s \ {x}]
            BY <3>2, <4>2, <5>1, <5>5 DEF SumsUpTo
          <6> QED
            BY <4>2, <5>1, <5>4, <6>1, <6>2
        <5>6. CASE ~(Cardinality(s) <= n - 1)
          <6>1. k[s] = f[x] + g[s \ {x}]
            BY <3>3, <5>1, <5>6
          <6> QED
            BY <4>2, <5>1, <5>4, <6>1
        <5> QED
          BY <5>5, <5>6
      <4> QED
        BY <4>1, <4>2
    <3>5. DOMAIN k = SUBSET S /\ SumsUpTo(k, f, S, n)
      BY <3>3, <3>4, Zenon DEF SumsUpTo
    <3> QED
      BY <2>1, <3>5
  <2> QED
    BY <2>2, <2>3
<1>2. Cardinality(S) \in Nat
  BY FS_CardinalityType
<1>3. PICK g : DOMAIN g = SUBSET S /\ SumsUpTo(g, f, S, Cardinality(S))
  BY <1>1, <1>2
<1>4. \A s \in SUBSET S : Cardinality(s) <= Cardinality(S)
  BY FS_Subset
<1>5. PICK k : k = [s \in SUBSET S |-> g[s]]
  OBVIOUS
<1>6. ASSUME NEW s \in SUBSET S
      PROVE  k[s] = IF s = {} THEN 0 ELSE f[Picked(s)] + k[s \ {Picked(s)}]
  <2>1. s \ {Picked(s)} \in SUBSET S
    OBVIOUS
  <2>2. g[s] = IF s = {} THEN 0 ELSE f[Picked(s)] + g[s \ {Picked(s)}]
    BY <1>3, <1>4 DEF SumsUpTo
  <2> QED
    BY <1>5, <2>1, <2>2
<1>7. Sums(k, f, S)
  BY <1>5, <1>6, Zenon DEF Sums
<1> QED
  BY <1>7

\* Two such functions agree on the sets they both have and see alike.
LEMMA SumsAgree ==
  ASSUME NEW S, NEW T, NEW f, NEW e, NEW g, NEW k, Sums(g, f, S), Sums(k, e, T),
         NEW U \in SUBSET (S \cap T), IsFiniteSet(U), \A x \in U : f[x] = e[x]
  PROVE  g[U] = k[U]
<1> DEFINE Bad == {n \in Nat : \E s \in SUBSET U : Cardinality(s) = n /\ g[s] # k[s]}
<1>0. \A s \in SUBSET U : IsFiniteSet(s) /\ Cardinality(s) \in Nat
  BY FS_Subset, FS_CardinalityType
<1>1. Bad = {}
  <2> SUFFICES ASSUME Bad # {} PROVE FALSE
    OBVIOUS
  <2>1. PICK n \in Bad : \A m \in Bad : n <= m
    BY Smallest
  <2>2. PICK s \in SUBSET U : Cardinality(s) = n /\ g[s] # k[s]
    BY <2>1
  <2>3. /\ g[s] = IF s = {} THEN 0 ELSE f[Picked(s)] + g[s \ {Picked(s)}]
        /\ k[s] = IF s = {} THEN 0 ELSE e[Picked(s)] + k[s \ {Picked(s)}]
    BY Zenon DEF Sums
  <2>4. s # {}
    BY <2>2, <2>3
  <2>5. PICK x \in s : x = Picked(s)
    BY <2>4 DEF Picked
  <2>6. Cardinality(s \ {x}) \in Nat /\ n = Cardinality(s \ {x}) + 1
    BY <1>0, <2>2, <2>4, Picks
  <2>7. PICK m \in Nat : m = Cardinality(s \ {x})
    BY <2>6
  <2>8. g[s \ {x}] = k[s \ {x}]
    <3>1. m \notin Bad
      <4>1. n = m + 1 /\ n \in Nat
        BY <2>1, <2>6, <2>7
      <4>2. m \in Bad => n <= m
        BY <2>1, Zenon
      <4> QED
        BY <4>1, <4>2
    <3>2. PICK r \in SUBSET U : r = s \ {x}
      OBVIOUS
    <3>3. g[r] = k[r]
      BY <2>7, <3>1, <3>2, Zenon
    <3> QED
      BY <3>2, <3>3
  <2>9. f[x] = e[x]
    OBVIOUS
  <2> QED
    BY <2>2, <2>3, <2>4, <2>5, <2>8, <2>9
<1> QED
  BY <1>0, <1>1

\* The sum does not depend on the order in which the elements are taken.
LEMMA SumsTakeAny ==
  ASSUME NEW S, NEW f, NEW g, Sums(g, f, S), IsFiniteSet(S), \A x \in S : f[x] \in Int
  PROVE  \A s \in SUBSET S : g[s] \in Int /\ \A x \in s : g[s] = f[x] + g[s \ {x}]
<1> DEFINE Bad == {n \in Nat : \E s \in SUBSET S :
                     Cardinality(s) = n /\ ~(g[s] \in Int /\ \A x \in s : g[s] = f[x] + g[s \ {x}])}
<1>0. \A s \in SUBSET S : IsFiniteSet(s) /\ Cardinality(s) \in Nat
  BY FS_Subset, FS_CardinalityType
<1>1. Bad = {}
  <2> SUFFICES ASSUME Bad # {} PROVE FALSE
    OBVIOUS
  <2>1. PICK n \in Bad : \A m \in Bad : n <= m
    BY Smallest
  <2>2. PICK s \in SUBSET S : /\ Cardinality(s) = n
                              /\ ~(g[s] \in Int /\ \A x \in s : g[s] = f[x] + g[s \ {x}])
    BY <2>1
  <2>3. g[s] = IF s = {} THEN 0 ELSE f[Picked(s)] + g[s \ {Picked(s)}]
    BY Zenon DEF Sums
  <2>4. s # {}
    BY <2>2, <2>3
  <2>5. PICK p \in s : p = Picked(s)
    BY <2>4 DEF Picked
  <2>6. ASSUME NEW t \in SUBSET S, Cardinality(t) < n
        PROVE  g[t] \in Int /\ \A x \in t : g[t] = f[x] + g[t \ {x}]
    <3>1. Cardinality(t) \in Nat /\ Cardinality(t) \notin Bad
      BY <1>0, <2>1, <2>6
    <3> QED
      BY <3>1
  <2>7. ASSUME NEW x \in s PROVE Cardinality(s \ {x}) < n
    BY <1>0, <2>2, Picks
  <2>8. g[s] = f[p] + g[s \ {p}] /\ g[s \ {p}] \in Int /\ f[p] \in Int
    BY <2>3, <2>4, <2>5, <2>6, <2>7
  <2>9. ASSUME NEW x \in s PROVE g[s] = f[x] + g[s \ {x}]
    <3>1. CASE x = p
      BY <2>8, <3>1
    <3>2. CASE x # p
      <4>1. x \in s \ {p} /\ p \in s \ {x} /\ s \ {p} \in SUBSET S /\ s \ {x} \in SUBSET S
        BY <3>2
      <4>2. g[s \ {p}] = f[x] + g[(s \ {p}) \ {x}]
        BY <2>6, <2>7, <4>1
      <4>3. g[s \ {x}] = f[p] + g[(s \ {x}) \ {p}]
        BY <2>6, <2>7, <4>1
      <4>4. PICK t : t = (s \ {p}) \ {x}
        OBVIOUS
      <4>5. t = (s \ {x}) \ {p} /\ t \in SUBSET S
        BY <4>4
      <4>6. Cardinality(t) < n
        <5>1. IsFiniteSet(s \ {x}) /\ s \ {x} # {}
          BY <1>0, <4>1
        <5>2. /\ Cardinality(s \ {x}) \in Nat /\ Cardinality(t) \in Nat
              /\ Cardinality(s \ {x}) = Cardinality(t) + 1
          BY <4>1, <4>5, <5>1, Picks
        <5>3. Cardinality(s \ {x}) < n /\ n \in Nat
          BY <2>1, <2>7
        <5> QED
          BY <5>2, <5>3
      <4>7. g[t] \in Int /\ f[x] \in Int
        BY <2>6, <4>5, <4>6
      <4>8. g[s \ {p}] = f[x] + g[t] /\ g[s \ {x}] = f[p] + g[t]
        BY <4>2, <4>3, <4>4, <4>5
      <4> QED
        BY <2>8, <4>7, <4>8
    <3> QED
      BY <3>1, <3>2
  <2> QED
    BY <2>2, <2>8, <2>9
<1> QED
  BY <1>0, <1>1

\* What the sums of the free lists need: no blocks, one more, one less, and
\* blocks of the same sizes.
LEMMA TotalOfNone ==
  ASSUME NEW f
  PROVE  Total(f, {}) = 0
<1>1. IsFiniteSet({})
  BY FS_EmptySet
<1>2. PICK g : Sums(g, f, {}) /\ Total(f, {}) = g[{}]
  BY <1>1, SumsExist, TotalSums
<1>3. g[{}] = 0
  BY <1>2, Zenon DEF Sums
<1> QED
  BY <1>2, <1>3

LEMMA TotalSame ==
  ASSUME NEW S, IsFiniteSet(S), NEW f, NEW e, \A x \in S : f[x] = e[x]
  PROVE  Total(f, S) = Total(e, S)
<1>1. PICK g : Sums(g, f, S) /\ Total(f, S) = g[S]
  BY SumsExist, TotalSums
<1>2. PICK k : Sums(k, e, S) /\ Total(e, S) = k[S]
  BY SumsExist, TotalSums
<1>3. g[S] = k[S]
  BY <1>1, <1>2, SumsAgree
<1> QED
  BY <1>1, <1>2, <1>3

LEMMA TotalSplits ==
  ASSUME NEW S, IsFiniteSet(S), NEW f, \A x \in S : f[x] \in Int, NEW x \in S
  PROVE  /\ Total(f, S) = f[x] + Total(f, S \ {x})
         /\ Total(f, S) \in Int /\ Total(f, S \ {x}) \in Int
<1>1. PICK g : Sums(g, f, S) /\ Total(f, S) = g[S]
  BY SumsExist, TotalSums
<1>2. IsFiniteSet(S \ {x}) /\ S \ {x} \in SUBSET S
  BY FS_Subset
<1>3. PICK k : Sums(k, f, S \ {x}) /\ Total(f, S \ {x}) = k[S \ {x}]
  BY <1>2, SumsExist, TotalSums
<1>4. g[S \ {x}] = k[S \ {x}]
  BY <1>1, <1>2, <1>3, SumsAgree
<1>5. g[S] \in Int /\ g[S] = f[x] + g[S \ {x}] /\ g[S \ {x}] \in Int
  BY <1>1, <1>2, SumsTakeAny
<1> QED
  BY <1>1, <1>3, <1>4, <1>5

USE SlotsAssumption, AreasAssumption, SizesAssumption, LayoutAssumption

-----------------------------------------------------------------------------
(* Numbers.                                                                *)

LEMMA SlotsAreNumbers == Slots \subseteq Nat \ {0} /\ \A h \in Slots : 1..h \subseteq Slots
<1>1. Cardinality(Slots) \in Nat
  BY FS_CardinalityType
<1> QED
  BY <1>1

LEMMA Largest ==
  ASSUME NEW T \in SUBSET Nat, T # {}, NEW top \in Nat, \A x \in T : x <= top
  PROVE  \E x \in T : \A y \in T : y <= x
<1> DEFINE U == {top - x : x \in T}
<1>1. U \in SUBSET Nat /\ U # {}
  <2>1. \A x \in T : top - x \in Nat
    OBVIOUS
  <2>2. PICK x \in T : TRUE
    OBVIOUS
  <2>3. top - x \in U
    BY Zenon
  <2> QED
    BY <2>1, <2>3, Zenon
<1>2. PICK u \in U : \A v \in U : u <= v
  BY <1>1, Smallest
<1>3. PICK x \in T : u = top - x
  BY Zenon
<1>4. \A y \in T : top - x <= top - y
  <2>1. \A y \in T : top - y \in U
    BY Zenon
  <2> QED
    BY <1>2, <1>3, <2>1, Zenon
<1>5. \A y \in T : y <= x
  BY <1>4
<1> QED
  BY <1>5

\* Lowest is the least element where there is one.
LEMMA LowestLemma ==
  ASSUME NEW S \in SUBSET Int, NEW a \in S, \A b \in S : a <= b
  PROVE  Lowest(S) = a
<1> DEFINE L == CHOOSE x \in S : \A b \in S : x <= b
<1>1. L \in S /\ \A b \in S : L <= b
  OBVIOUS
<1>2. L <= a /\ a <= L /\ L \in Int /\ a \in Int
  BY <1>1
<1>3. L = a
  BY <1>2
<1> QED
  BY <1>3 DEF Lowest

LEMMA WordLemma ==
  ASSUME NEW x \in Nat
  PROVE  /\ x % WordMod \in Nat /\ x % WordMod < WordMod
         /\ x < WordMod => x % WordMod = x
         /\ WordMod <= x /\ x < 2 * WordMod => x % WordMod = x - WordMod
<1>1. WordMod \in Nat \ {0}
  OBVIOUS
<1>2. x % WordMod \in 0..(WordMod - 1)
  BY <1>1
<1>3. ASSUME x < WordMod PROVE x % WordMod = x
  BY <1>1, <1>3
<1>4. ASSUME WordMod <= x, x < 2 * WordMod PROVE x % WordMod = x - WordMod
  BY <1>1, <1>4
<1> QED
  BY <1>2, <1>3, <1>4

LEMMA AlignLemma ==
  ASSUME NEW x \in Nat
  PROVE  /\ AlignDown(x) \in Nat /\ AlignDown(x) <= x /\ x < AlignDown(x) + Align
         /\ x + Align <= WordMod
              => AlignUp(x) \in Nat /\ x <= AlignUp(x) /\ AlignUp(x) < x + Align
         /\ AlignUp(x) \in Nat /\ AlignUp(x) < WordMod
         /\ x < WordMod /\ WordMod < x + Align => AlignUp(x) < Align
<1>1. ASSUME NEW y \in Nat
      PROVE  AlignDown(y) \in Nat /\ AlignDown(y) <= y /\ y < AlignDown(y) + Align
  <2>1. y % Align \in 0..(Align - 1) /\ y % Align <= y
    OBVIOUS
  <2> QED
    BY <2>1 DEF AlignDown
<1> DEFINE z == (x + Align - 1) % WordMod
<1>2. x + Align - 1 \in Nat
  OBVIOUS
<1>3. /\ z \in Nat /\ z < WordMod
      /\ x + Align - 1 < WordMod => z = x + Align - 1
      /\ x < WordMod /\ WordMod <= x + Align - 1 => z = x + Align - 1 - WordMod
  BY <1>2, WordLemma
<1>4. AlignUp(x) = AlignDown(z)
  BY DEF AlignUp
<1> HIDE DEF z
<1>5. AlignUp(x) \in Nat /\ AlignUp(x) <= z /\ z < AlignUp(x) + Align
  BY <1>1, <1>3, <1>4
<1>6. AlignDown(x) \in Nat /\ AlignDown(x) <= x /\ x < AlignDown(x) + Align
  BY <1>1
<1>7. ASSUME x + Align <= WordMod PROVE x <= AlignUp(x) /\ AlignUp(x) < x + Align
  BY <1>3, <1>5, <1>7
<1>8. ASSUME x < WordMod, WordMod < x + Align PROVE AlignUp(x) < Align
  BY <1>3, <1>5, <1>8
<1>9. AlignUp(x) < WordMod
  BY <1>3, <1>5
<1> QED
  BY <1>5, <1>6, <1>7, <1>8, <1>9

\* The size of the block for n bytes holds them with its header and its tag,
\* or is recognized as wrapped around.
LEMMA BlockSizeLemma ==
  ASSUME NEW n \in 1..(WordMod - 1)
  PROVE  /\ BlockSize(n) \in Nat
         /\ ~Overflows(n) => /\ AtLeast4(n) + 1 + HeadSize <= BlockSize(n)
                             /\ BlockSize(n) = AlignUp(AtLeast4(n) + 1) + HeadSize
<1> DEFINE m == AtLeast4(n)
<1> DEFINE x == (m + 1) % WordMod
<1> DEFINE y == AlignUp(x)
<1>1. m \in Nat /\ 4 <= m /\ m < WordMod
  BY DEF AtLeast4
<1> HIDE DEF m
<1>2. /\ x \in Nat /\ x < WordMod /\ (m + 1 < WordMod => x = m + 1)
      /\ m + 1 = WordMod => x = 0
  <2>1. m + 1 \in Nat /\ m + 1 < 2 * WordMod
    BY <1>1
  <2> QED
    BY <1>1, <2>1, WordLemma
<1> HIDE DEF x
<1>3. /\ y \in Nat /\ y < WordMod
      /\ x + Align <= WordMod => x <= y /\ y < x + Align
      /\ WordMod < x + Align => y < Align
  BY <1>2, AlignLemma
<1> HIDE DEF y
<1>a. PICK w : w = y + HeadSize
  OBVIOUS
<1>4. /\ w % WordMod \in Nat
      /\ w < WordMod => w % WordMod = w
      /\ WordMod <= w => w % WordMod = w - WordMod
  <2>1. w \in Nat /\ w < 2 * WordMod
    BY <1>3, <1>a
  <2> QED
    BY <2>1, WordLemma
<1>5. BlockSize(n) = w % WordMod
  BY <1>a DEF BlockSize, x, y, m
<1>6. ASSUME ~(BlockSize(n) < m)
      PROVE  m + 1 + HeadSize <= BlockSize(n) /\ x = m + 1 /\ BlockSize(n) = y + HeadSize
  BY <1>1, <1>2, <1>3, <1>a, <1>4, <1>5, <1>6
<1> QED
  BY <1>4, <1>5, <1>6 DEF Overflows, m, x, y

-----------------------------------------------------------------------------
(* Tilings.                                                                *)

\* A block of a tiling is cut in two, of which the second has n bytes.
LEMMA CutLemma ==
  ASSUME NEW f, NEW lo \in Int, NEW hi \in Int, Tiles(f, lo, hi),
         NEW a \in DOMAIN f, NEW c \in Int, NEW n \in Int, a < c, 0 < n, c + n = a + f[a],
         NEW g, DOMAIN g = DOMAIN f \cup {c}, g[a] = c - a, g[c] = n,
         \A x \in DOMAIN f : x # a => g[x] = f[x]
  PROVE  Tiles(g, lo, hi)
<1>1. /\ a \in Int /\ f[a] \in Int /\ lo <= a /\ a < hi
      /\ a + f[a] = hi \/ a + f[a] \in DOMAIN f
      /\ \A b \in DOMAIN f : a < b => a + f[a] <= b
      /\ lo \in DOMAIN f /\ \A b \in DOMAIN f : b \in Int /\ b < hi
  BY DEF Tiles
<1>a. c < a + f[a]
  BY <1>1
<1>3. g[c] = n /\ g[a] = c - a /\ c + n = a + f[a] /\ DOMAIN g = DOMAIN f \cup {c}
  OBVIOUS
<1>b. c \notin DOMAIN f
  BY <1>1, <1>a
<1>2. c \notin DOMAIN f /\ a + f[a] <= hi /\ c + n <= hi
  BY <1>1, <1>3, <1>b
<1>4. ASSUME NEW x \in DOMAIN g
      PROVE  /\ x \in Int /\ lo <= x /\ x < hi /\ g[x] \in Int /\ 0 < g[x]
             /\ x + g[x] = hi \/ x + g[x] \in DOMAIN g
             /\ \A b \in DOMAIN g : x < b => x + g[x] <= b
  <2>1. CASE x = a
    <3>1. a + g[a] = c /\ g[a] \in Int /\ 0 < g[a] /\ c \in DOMAIN g
      BY <1>1, <1>a, <1>3
    <3>2. \A b \in DOMAIN g : a < b => c <= b
      BY <1>1, <1>a, <1>3
    <3> QED
      BY <1>1, <2>1, <3>1, <3>2
  <2>2. CASE x = c
    <3>1. \A b \in DOMAIN g : c < b => c + n <= b
      BY <1>1, <1>a, <1>3
    <3>2. c + n = hi \/ c + n \in DOMAIN g
      BY <1>1, <1>3
    <3>3. lo <= c /\ c < hi /\ 0 < n
      BY <1>1, <1>a, <1>2
    <3> QED
      BY <1>a, <1>3, <2>2, <3>1, <3>2, <3>3
  <2>3. CASE x \in DOMAIN f /\ x # a
    <3>1. /\ g[x] = f[x] /\ x \in Int /\ lo <= x /\ x < hi /\ f[x] \in Int /\ 0 < f[x]
          /\ x + f[x] = hi \/ x + f[x] \in DOMAIN f
          /\ \A b \in DOMAIN f : x < b => x + f[x] <= b
      BY <2>3 DEF Tiles
    <3>2. x < c => x + f[x] <= c
      <4>1. x < a \/ a < x
        BY <1>1, <2>3, <3>1
      <4> QED
        BY <1>1, <1>a, <1>2, <1>3, <3>1, <4>1
    <3> QED
      BY <1>3, <3>1, <3>2
  <2> QED
    BY <1>3, <2>1, <2>2, <2>3
<1> QED
  BY <1>2, <1>3, <1>4 DEF Tiles

\* Two adjacent blocks of a tiling become one.
LEMMA JoinLemma ==
  ASSUME NEW f, NEW lo \in Int, NEW hi \in Int, Tiles(f, lo, hi),
         NEW a \in DOMAIN f, NEW c, c = a + f[a], c \in DOMAIN f,
         NEW g, DOMAIN g = DOMAIN f \ {c}, g[a] = f[a] + f[c],
         \A x \in DOMAIN g : x # a => g[x] = f[x]
  PROVE  Tiles(g, lo, hi)
<1>1. /\ a \in Int /\ f[a] \in Int /\ 0 < f[a] /\ lo <= a /\ a < hi
      /\ c \in Int /\ f[c] \in Int /\ 0 < f[c] /\ a < c /\ lo < c
      /\ c + f[c] = hi \/ c + f[c] \in DOMAIN f
      /\ \A b \in DOMAIN f : a < b => c <= b
      /\ \A b \in DOMAIN f : c < b => c + f[c] <= b
  BY DEF Tiles
<1>2. a \in DOMAIN g /\ a + g[a] = c + f[c] /\ lo \in DOMAIN g
  BY <1>1 DEF Tiles
<1>3. ASSUME NEW x \in DOMAIN g
      PROVE  /\ x \in Int /\ lo <= x /\ x < hi /\ g[x] \in Int /\ 0 < g[x]
             /\ x + g[x] = hi \/ x + g[x] \in DOMAIN g
             /\ \A b \in DOMAIN g : x < b => x + g[x] <= b
  <2>1. CASE x = a
    <3>1. \A b \in DOMAIN g : a < b => c < b
      BY SMTT(30), <1>1 DEF Tiles
    <3> QED
      BY <1>1, <1>2, <2>1, <3>1
  <2>2. CASE x # a
    <3>1. /\ x \in DOMAIN f /\ x # c /\ g[x] = f[x] /\ x \in Int /\ lo <= x /\ x < hi
          /\ f[x] \in Int /\ 0 < f[x]
          /\ x + f[x] = hi \/ x + f[x] \in DOMAIN f
          /\ \A b \in DOMAIN f : x < b => x + f[x] <= b
      BY <2>2 DEF Tiles
    <3>2. x + f[x] # c
      <4>1. x < a \/ c < x
        BY SMTT(30), <1>1, <2>2, <3>1
      <4> QED
        BY <1>1, <3>1, <4>1
    <3> QED
      BY <3>1, <3>2
  <2> QED
    BY <2>1, <2>2
<1> QED
  BY <1>2, <1>3 DEF Tiles

LEMMA SameTiles ==
  ASSUME NEW f, NEW lo, NEW hi, Tiles(f, lo, hi),
         NEW g, DOMAIN g = DOMAIN f, \A x \in DOMAIN f : g[x] = f[x]
  PROVE  Tiles(g, lo, hi)
  BY DEF Tiles

-----------------------------------------------------------------------------
(* Blocks of one heap, and of two.                                         *)

LEMMA BlockFacts ==
  ASSUME Heaps, NEW h \in Slots, NEW x \in Blocks(h)
  PROVE  /\ size[h] > 0 /\ First(h) \in Nat /\ Limit(h) \in Nat
         /\ x \in Nat /\ Len(h, x) \in Nat /\ 0 < Len(h, x)
         /\ First(h) <= x /\ x + Len(h, x) <= Limit(h)
         /\ x + Len(h, x) = Limit(h) \/ x + Len(h, x) \in Blocks(h)
         /\ \A y \in Blocks(h) : x < y => x + Len(h, x) <= y
<1>1. size[h] > 0
  BY DEF Heaps, Lists, Blocks, BlocksOf
<1>2. First(h) \in Nat /\ Limit(h) \in Nat
  BY <1>1 DEF Heaps, Geometry
<1>3. Tiles(Layout(h), First(h), Limit(h))
  BY <1>1 DEF Heaps, Tiled
<1>4. DOMAIN Layout(h) = Blocks(h) /\ \A y \in Blocks(h) : Layout(h)[y] = Len(h, y)
  BY DEF Layout
<1>5. /\ x \in Int /\ First(h) <= x /\ x < Limit(h) /\ Len(h, x) \in Int /\ 0 < Len(h, x)
      /\ x + Len(h, x) = Limit(h) \/ x + Len(h, x) \in Blocks(h)
      /\ \A y \in Blocks(h) : y < Limit(h) /\ (x < y => x + Len(h, x) <= y)
  BY <1>3, <1>4 DEF Tiles
<1> QED
  BY <1>1, <1>2, <1>5

\* Different blocks have no byte in common, in whichever heaps they are.
LEMMA BlocksApart ==
  ASSUME Heaps, NEW h \in Slots, NEW i \in Slots, NEW x \in Blocks(h), NEW y \in Blocks(i),
         h # i \/ x # y
  PROVE  x + Len(h, x) <= y \/ y + Len(i, y) <= x
<1>1. CASE h = i
  <2>1. x \in Blocks(h) /\ y \in Blocks(h) /\ x # y
    BY <1>1
  <2>2. x \in Nat /\ y \in Nat
    BY <2>1, BlockFacts
  <2>3. CASE x < y
    BY <2>1, <2>3, BlockFacts
  <2>4. CASE y < x
    <3>1. y + Len(h, y) <= x
      BY <2>1, <2>4, BlockFacts
    <3> QED
      BY <1>1, <3>1
  <2> QED
    BY <2>1, <2>2, <2>3, <2>4
<1>2. CASE h # i
  <2>1. /\ size[h] > 0 /\ size[i] > 0
        /\ x \in Nat /\ Len(h, x) \in Nat /\ y \in Nat /\ Len(i, y) \in Nat
        /\ First(h) <= x /\ x + Len(h, x) <= Limit(h)
        /\ First(i) <= y /\ y + Len(i, y) <= Limit(i)
    BY BlockFacts
  <2>2. /\ base[h] \in Nat /\ size[h] \in Nat /\ base[i] \in Nat /\ size[i] \in Nat
        /\ First(h) \in Nat /\ Limit(h) \in Nat /\ First(i) \in Nat /\ Limit(i) \in Nat
        /\ base[h] <= First(h) /\ Limit(h) <= base[h] + size[h]
        /\ base[i] <= First(i) /\ Limit(i) <= base[i] + size[i]
    BY <2>1 DEF Heaps, Geometry
  <2>3. base[h] + size[h] <= base[i] \/ base[i] + size[i] <= base[h]
    BY <1>2, <2>1 DEF Heaps, Apart
  <2>4. ASSUME base[h] + size[h] <= base[i] PROVE x + Len(h, x) <= y
    BY SMTT(30), <2>1, <2>2, <2>4
  <2>5. ASSUME base[i] + size[i] <= base[h] PROVE y + Len(i, y) <= x
    BY SMTT(30), <2>1, <2>2, <2>5
  <2> QED
    BY <2>3, <2>4, <2>5
<1> QED
  BY <1>1, <1>2

LEMMA UsedBlock ==
  ASSUME Heaps, NEW p \in DOMAIN used
  PROVE  \E h \in Slots : /\ p \in BlocksOf(h, used) /\ p \in Blocks(h)
                          /\ Len(h, p) = used[p] /\ p \notin DOMAIN list[h]
<1>1. PICK h \in Slots : p \in BlocksOf(h, used)
  BY DEF Heaps, InUse
<1>2. p \in Blocks(h) /\ size[h] > 0
  BY <1>1 DEF Blocks, BlocksOf
<1>3. p \notin DOMAIN list[h]
  BY <1>2 DEF Heaps, Tiled
<1> QED
  BY <1>1, <1>2, <1>3 DEF Len

\* A used block is in one heap only.
LEMMA OneHeap ==
  ASSUME Heaps, NEW h \in Slots, NEW i \in Slots, NEW x \in Blocks(h), x \in Blocks(i)
  PROVE  h = i
  BY BlocksApart, BlockFacts

-----------------------------------------------------------------------------
(* Allocation.                                                             *)

\* In a finite set of addresses there is one with k before it, or the last
\* one has fewer than k before it.
LEMMA NthLemma ==
  ASSUME NEW C \in SUBSET Nat, C # {}, NEW top \in Nat, \A x \in C : x <= top, NEW k \in Nat
  PROVE  \E a \in C : LET before == Cardinality({b \in C : b < a})
                      IN  before = k \/ (before < k /\ \A b \in C : b <= a)
<1> DEFINE Below(a) == {b \in C : b < a}
<1>1. IsFiniteSet(C)
  <2>1. IsFiniteSet(0..top) /\ C \subseteq 0..top
    BY FS_Interval
  <2> QED
    BY <2>1, FS_Subset
<1>2. \A a : IsFiniteSet(Below(a)) /\ Cardinality(Below(a)) \in Nat
  BY <1>1, FS_Subset, FS_CardinalityType
<1>a. \A a, b : b \in Below(a) <=> b \in C /\ b < a
  OBVIOUS
<1>b. \A a : Below(a) \in SUBSET Nat /\ Below(a) \subseteq C
  OBVIOUS
<1> HIDE DEF Below
<1>3. CASE \A a \in C : ~(k <= Cardinality(Below(a)))
  <2>1. PICK a \in C : \A b \in C : b <= a
    BY Largest
  <2>2. Cardinality(Below(a)) < k
    BY <1>2, <1>3
  <2> QED
    BY <2>1, <2>2 DEF Below
<1>4. CASE \E a \in C : k <= Cardinality(Below(a))
  <2> DEFINE D == {a \in C : k <= Cardinality(Below(a))}
  <2>0. D \in SUBSET Nat /\ D # {}
    BY <1>4
  <2>1. PICK a \in D : \A b \in D : a <= b
    BY <2>0, Smallest
  <2>2. Cardinality(Below(a)) = k
    <3> SUFFICES ASSUME Cardinality(Below(a)) # k PROVE FALSE
      OBVIOUS
    <3>0. a \in C /\ a \in Nat /\ k <= Cardinality(Below(a)) /\ Cardinality(Below(a)) \in Nat
      BY <1>2
    <3>1. k < Cardinality(Below(a)) /\ Cardinality(Below(a)) # 0
      BY <3>0
    <3>a. Below(a) # {}
      BY <3>1, FS_EmptySet
    <3>b. \A x \in Below(a) : x <= a
      BY <1>a, <1>b, <3>0
    <3>2. PICK c \in Below(a) : \A b \in Below(a) : b <= c
      BY <1>b, <3>0, <3>a, <3>b, Largest
    <3>c. c \in C /\ c < a /\ c \in Nat
      BY <1>a, <1>b
    <3>3. Below(a) = Below(c) \cup {c} /\ c \notin Below(c)
      <4>1. ASSUME NEW b \in Below(a) PROVE b \in Below(c) \/ b = c
        <5>1. b \in C /\ b \in Nat /\ b <= c
          BY <1>a, <1>b, <3>2
        <5> QED
          BY <1>a, <3>c, <5>1
      <4>2. ASSUME NEW b \in Below(c) PROVE b \in Below(a)
        <5>1. b \in C /\ b \in Nat /\ b < c
          BY <1>a, <1>b
        <5> QED
          BY <1>a, <3>0, <3>c, <5>1
      <4>3. c \in Below(a) /\ c \notin Below(c)
        BY <1>a, <3>2, <3>c
      <4> QED
        BY <4>1, <4>2, <4>3
    <3>4. Cardinality(Below(a)) = Cardinality(Below(c)) + 1
      <4>1. IsFiniteSet(Below(c))
        BY <1>2
      <4> QED
        BY <3>3, <4>1, FS_AddElement
    <3>5. c \in D
      <4>1. Cardinality(Below(c)) \in Nat
        BY <1>2
      <4> QED
        BY <3>0, <3>1, <3>c, <3>4, <4>1
    <3>6. a <= c
      BY <2>1, <3>5
    <3> QED
      BY <3>0, <3>c, <3>6
  <2> QED
    BY <2>2 DEF Below
<1> QED
  BY <1>3, <1>4

\* mem_chunk_get settles on a free block that is large enough.
LEMMA ChosenLemma ==
  ASSUME Heaps, NEW h \in Slots, NEW n \in Nat, Fitting(h, n) # {}
  PROVE  Chosen(h, n) \in DOMAIN list[h] /\ n <= list[h][Chosen(h, n)]
<1> DEFINE C == Candidates(h, n)
<1>1. Fitting(h, n) \subseteq DOMAIN list[h] /\ DOMAIN list[h] \subseteq Blocks(h)
  BY DEF Fitting, Blocks
<1>2. \A a \in Blocks(h) : a \in Nat /\ a <= Limit(h) /\ Limit(h) \in Nat
  <2> SUFFICES ASSUME NEW a \in Blocks(h) PROVE a \in Nat /\ a <= Limit(h) /\ Limit(h) \in Nat
    OBVIOUS
  <2>1. a \in Nat /\ Len(h, a) \in Nat /\ Limit(h) \in Nat /\ a + Len(h, a) <= Limit(h)
    BY BlockFacts
  <2> QED
    BY <2>1
<1>3. C \in SUBSET Nat /\ C \subseteq Fitting(h, n)
  BY <1>1, <1>2 DEF Candidates
<1>4. C # {}
  <2>1. PICK a \in Fitting(h, n) : \A b \in Fitting(h, n) : a <= b
    BY <1>1, <1>2, Smallest
  <2>2. \A b \in Fitting(h, n) : ~(b < a)
    BY <1>1, <1>2, <2>1
  <2> QED
    BY <2>2 DEF Candidates
<1>5. Limit(h) \in Nat /\ \A a \in C : a <= Limit(h)
  BY <1>1, <1>2, <1>3, <1>4
<1> DEFINE Take(a) == LET before == Cardinality({b \in C : b < a})
                      IN  \/ before = FitDepth
                          \/ before < FitDepth /\ \A b \in C : b <= a
<1>6. \E a \in C : Take(a)
  <2> HIDE DEF C
  <2> QED
    BY <1>3, <1>4, <1>5, NthLemma
<1>7. Chosen(h, n) = CHOOSE a \in C : Take(a)
  BY DEF Chosen
<1>8. Chosen(h, n) \in C
  <2> HIDE DEF C, Take
  <2> QED
    BY <1>6, <1>7
<1> QED
  BY <1>3, <1>8 DEF Fitting

\* A request does not exceed what a call of malloc can pass on.
Requests == {n \in Nat : n < WordMod}

\* What Allocate does to the heap, with the block it takes in its place: c is
\* its address, s its size, and a the free block it comes from.
AllocatesAt(h, a, c, s) ==
  /\ a \in DOMAIN list[h] /\ s \in Nat /\ HeadSize < s
  /\ \/ /\ s < list[h][a] /\ c = a + list[h][a] - s
        /\ list' = [list EXCEPT ![h] = With(list[h], a, list[h][a] - s)]
        /\ dog' = With(With(dog, End(list[h], a) - 1, "use"), End(list[h], a) - s - 1, "free")
     \/ /\ s = list[h][a] /\ c = a
        /\ list' = [list EXCEPT ![h] = Without(list[h], {a})]
        /\ dog' = With(dog, End(list[h], a) - 1, "use")
  /\ used' = With(used, c, s)
  /\ UNCHANGED <<base, size>>

LEMMA AllocateLemma ==
  ASSUME Heaps, NEW h \in Slots, NEW n \in Requests, NEW rec, Allocate(h, n, rec)
  PROVE  \E a \in DOMAIN list[h], c \in Nat, s \in Nat :
           /\ AllocatesAt(h, a, c, s)
           /\ BlockSize(n) <= s /\ ~Overflows(n) /\ n > 0
           /\ want' = With(want, c, rec)
<1> DEFINE len == BlockSize(n)
           a == Chosen(h, len)
           b == Carve(h, len, a)
<1>1. n \in 1..(WordMod - 1) /\ ~Overflows(n) /\ Fitting(h, len) # {}
  BY DEF Allocate, CanAllocate, Requests
<1>2. len \in Nat /\ HeadSize < len
  BY <1>1, BlockSizeLemma DEF AtLeast4
<1>3. a \in DOMAIN list[h] /\ len <= list[h][a]
  BY <1>1, <1>2, ChosenLemma
<1>4. a \in Nat /\ list[h][a] \in Nat
  <2>1. a \in Blocks(h) /\ Len(h, a) = list[h][a]
    BY <1>3 DEF Blocks, Len
  <2> QED
    BY <2>1, BlockFacts
<1>5. /\ list' = [list EXCEPT ![h] = IF Splits(h, a, len)
                                       THEN With(list[h], a, list[h][a] - len)
                                       ELSE Without(list[h], {a})]
      /\ dog' = Tags(h, len, a)
      /\ used' = With(used, b.at, b.len) /\ want' = With(want, b.at, rec)
      /\ UNCHANGED <<base, size>>
  BY DEF Allocate
<1> HIDE DEF len, a
<1>6. CASE Splits(h, a, len)
  <2>1. b = [at |-> a + list[h][a] - len, len |-> len]
    BY <1>6 DEF Carve
  <2>2. b.at = a + list[h][a] - len /\ b.len = len /\ b.at \in Nat
    BY <1>2, <1>3, <1>4, <2>1
  <2>3. len < list[h][a]
    BY SMTT(30), <1>2, <1>4, <1>6 DEF Splits, HeapMin
  <2>4. dog' = With(With(dog, End(list[h], a) - 1, "use"), End(list[h], a) - len - 1, "free")
    BY <1>5, <1>6 DEF Tags
  <2>5. AllocatesAt(h, a, b.at, len)
    BY <1>2, <1>3, <1>5, <1>6, <2>2, <2>3, <2>4 DEF AllocatesAt
  <2> QED
    <3>1. BlockSize(n) <= len
      BY <1>2 DEF len
    <3>2. want' = With(want, b.at, rec)
      BY <1>5
    <3> HIDE DEF b
    <3> QED
      BY <1>1, <1>2, <1>3, <2>2, <2>5, <3>1, <3>2
<1>7. CASE ~Splits(h, a, len)
  <2>1. b = [at |-> a, len |-> list[h][a]]
    BY <1>7 DEF Carve
  <2>2. b.at = a /\ b.len = list[h][a]
    BY <2>1
  <2>3. HeadSize < list[h][a]
    BY <1>2, <1>3, <1>4
  <2>4. dog' = With(dog, End(list[h], a) - 1, "use")
    BY <1>5, <1>7 DEF Tags
  <2>5. AllocatesAt(h, a, a, list[h][a])
    BY <1>3, <1>4, <1>5, <1>7, <2>2, <2>3, <2>4 DEF AllocatesAt
  <2> QED
    BY <1>1, <1>3, <1>4, <1>5, <2>2, <2>5 DEF len
<1> QED
  BY <1>6, <1>7

\* No address is in two heaps.
LEMMA AreasApart ==
  ASSUME Geometry, Apart, NEW h \in Slots, NEW i \in Slots, size[h] > 0, size[i] > 0,
         NEW x \in Nat, First(h) <= x, x < Limit(h), First(i) <= x, x < Limit(i)
  PROVE  h = i
<1> SUFFICES ASSUME h # i PROVE FALSE
  OBVIOUS
<1>1. /\ base[h] \in Nat /\ size[h] \in Nat /\ base[i] \in Nat /\ size[i] \in Nat
      /\ First(h) \in Nat /\ Limit(h) \in Nat /\ First(i) \in Nat /\ Limit(i) \in Nat
      /\ base[h] <= First(h) /\ Limit(h) <= base[h] + size[h]
      /\ base[i] <= First(i) /\ Limit(i) <= base[i] + size[i]
  BY DEF Geometry
<1>2. CASE base[h] + size[h] <= base[i]
  BY <1>1, <1>2
<1>3. CASE base[i] + size[i] <= base[h]
  BY <1>1, <1>3
<1> QED
  BY <1>2, <1>3 DEF Apart

LEMMA FreeBlockFacts ==
  ASSUME Heaps, NEW h \in Slots, NEW a \in DOMAIN list[h]
  PROVE  /\ size[h] > 0 /\ First(h) \in Nat /\ Limit(h) \in Nat
         /\ a \in Blocks(h) /\ Len(h, a) = list[h][a] /\ a \notin DOMAIN used
         /\ a \in Nat /\ list[h][a] \in Nat /\ 0 < list[h][a]
         /\ First(h) <= a /\ a + list[h][a] <= Limit(h)
<1>1. a \in Blocks(h) /\ Len(h, a) = list[h][a]
  BY DEF Blocks, Len
<1>2. /\ size[h] > 0 /\ First(h) \in Nat /\ Limit(h) \in Nat
      /\ a \in Nat /\ Len(h, a) \in Nat /\ 0 < Len(h, a)
      /\ First(h) <= a /\ a + Len(h, a) <= Limit(h)
  BY <1>1, BlockFacts
<1>3. a \notin DOMAIN used
  BY <1>2 DEF Heaps, Tiled
<1> QED
  BY <1>1, <1>2, <1>3

\* A new block lies in the free block it is cut from.
LEMMA NewBlock ==
  ASSUME Heaps, NEW h \in Slots, NEW a \in DOMAIN list[h], NEW c \in Nat, NEW s \in Nat,
         AllocatesAt(h, a, c, s)
  PROVE  /\ a <= c /\ c + s = a + list[h][a] /\ 0 < s /\ c < Limit(h) /\ First(h) <= c
         /\ c \notin DOMAIN used
         /\ c = a \/ (a < c /\ c \notin Blocks(h))
<1>1. /\ size[h] > 0 /\ First(h) \in Nat /\ Limit(h) \in Nat
      /\ a \in Blocks(h) /\ Len(h, a) = list[h][a] /\ a \notin DOMAIN used
      /\ a \in Nat /\ list[h][a] \in Nat /\ 0 < list[h][a]
      /\ First(h) <= a /\ a + list[h][a] <= Limit(h)
  BY FreeBlockFacts
<1>2. /\ a <= c /\ c + s = a + list[h][a] /\ 0 < s /\ c < Limit(h) /\ First(h) <= c
      /\ c = a \/ (a < c /\ c < a + list[h][a])
  BY <1>1 DEF AllocatesAt
<1>3. ASSUME a < c PROVE c \notin Blocks(h)
  <2> SUFFICES ASSUME c \in Blocks(h) PROVE FALSE
    OBVIOUS
  <2>1. a + Len(h, a) <= c
    BY <1>1, <1>3, BlockFacts
  <2> QED
    BY <1>1, <1>2, <1>3, <2>1
<1>4. c \notin DOMAIN used
  <2> SUFFICES ASSUME c \in DOMAIN used PROVE FALSE
    OBVIOUS
  <2>1. PICK i \in Slots : c \in BlocksOf(i, used)
    BY DEF Heaps, InUse
  <2>2. i = h
    BY <1>1, <1>2, <2>1, AreasApart DEF BlocksOf, Heaps
  <2> QED
    BY <1>1, <1>2, <1>3, <2>1, <2>2 DEF Blocks
<1> QED
  BY <1>2, <1>3, <1>4

LEMMA SameAreas ==
  ASSUME UNCHANGED <<base, size>>
  PROVE  \A i : First(i)' = First(i) /\ Limit(i)' = Limit(i) /\ size'[i] = size[i]
  BY DEF First, Limit

\* What the blocks of the heaps are after an allocation.
LEMMA BlocksAfterAllocate ==
  ASSUME Heaps, NEW h \in Slots, NEW a \in DOMAIN list[h], NEW c \in Nat, NEW s \in Nat,
         AllocatesAt(h, a, c, s)
  PROVE  /\ \A i \in Slots \ {h} : Blocks(i)' = Blocks(i) /\ \A x \in Blocks(i) : Len(i, x)' = Len(i, x)
         /\ \A i \in Slots \ {h} : list'[i] = list[i] /\ BlocksOf(i, used)' = BlocksOf(i, used)
         /\ BlocksOf(h, used)' = BlocksOf(h, used) \cup {c}
         /\ Blocks(h)' = Blocks(h) \cup {c} /\ Len(h, c)' = s
         /\ DOMAIN list'[h] = Blocks(h) \ (BlocksOf(h, used) \cup {c})
         /\ a # c => Len(h, a)' = list[h][a] - s
         /\ \A x \in Blocks(h) \ {a, c} : Len(h, x)' = Len(h, x)
<1>1. /\ \A i : First(i)' = First(i) /\ Limit(i)' = Limit(i) /\ size'[i] = size[i]
      /\ used' = With(used, c, s)
  BY SameAreas DEF AllocatesAt
<1>2. /\ size[h] > 0 /\ First(h) \in Nat /\ Limit(h) \in Nat
      /\ a \in Blocks(h) /\ Len(h, a) = list[h][a] /\ a \notin DOMAIN used
      /\ a \in Nat /\ list[h][a] \in Nat /\ 0 < list[h][a]
      /\ First(h) <= a /\ a + list[h][a] <= Limit(h)
  BY FreeBlockFacts
<1>3. /\ a <= c /\ c + s = a + list[h][a] /\ 0 < s /\ c < Limit(h) /\ First(h) <= c
      /\ c \notin DOMAIN used
      /\ c = a \/ (a < c /\ c \notin Blocks(h))
  BY NewBlock
<1>4. /\ DOMAIN used' = DOMAIN used \cup {c} /\ used'[c] = s
      /\ \A p \in DOMAIN used : used'[p] = used[p]
  BY <1>1, <1>3 DEF With
<1>5. /\ \A i \in Slots \ {h} : list'[i] = list[i]
      /\ c # a => DOMAIN list'[h] = DOMAIN list[h] /\ list'[h][a] = list[h][a] - s
      /\ c = a => DOMAIN list'[h] = DOMAIN list[h] \ {a}
      /\ \A x \in DOMAIN list[h] \ {a} : list'[h][x] = list[h][x]
  <2>1. h \in DOMAIN list /\ DOMAIN list = Slots
    BY DEF Heaps, Shape
  <2>2. CASE c # a
    <3>1. list' = [list EXCEPT ![h] = With(list[h], a, list[h][a] - s)]
      BY <1>3, <2>2 DEF AllocatesAt
    <3>2. list'[h] = With(list[h], a, list[h][a] - s) /\ \A i \in Slots \ {h} : list'[i] = list[i]
      BY <2>1, <3>1
    <3> QED
      BY <2>2, <3>2 DEF With
  <2>3. CASE c = a
    <3>1. list' = [list EXCEPT ![h] = Without(list[h], {a})]
      BY <1>2, <1>3, <2>3 DEF AllocatesAt
    <3>2. list'[h] = Without(list[h], {a}) /\ \A i \in Slots \ {h} : list'[i] = list[i]
      BY <2>1, <3>1
    <3> QED
      BY <2>3, <3>2 DEF Without
  <2> QED
    BY <2>2, <2>3
<1>6. \A i \in Slots \ {h} : BlocksOf(i, used)' = BlocksOf(i, used)
  <2> SUFFICES ASSUME NEW i \in Slots \ {h} PROVE BlocksOf(i, used)' = BlocksOf(i, used)
    OBVIOUS
  <2>1. ~(First(i) <= c /\ c < Limit(i) /\ size[i] > 0)
    BY <1>2, <1>3, AreasApart DEF Heaps
  <2> QED
    BY <1>1, <1>4, <2>1 DEF BlocksOf
<1>7. BlocksOf(h, used)' = BlocksOf(h, used) \cup {c}
  BY <1>1, <1>2, <1>3, <1>4 DEF BlocksOf
<1>8. /\ Blocks(h)' = Blocks(h) \cup {c}
      /\ DOMAIN list'[h] = Blocks(h) \ (BlocksOf(h, used) \cup {c})
  <2>1. DOMAIN list[h] \cap BlocksOf(h, used) = {} /\ Blocks(h) = DOMAIN list[h] \cup BlocksOf(h, used)
    BY <1>2 DEF Blocks, BlocksOf, Heaps, Tiled
  <2>2. Blocks(h)' = DOMAIN list'[h] \cup BlocksOf(h, used)'
    BY DEF Blocks
  <2>3. CASE c = a
    BY <1>5, <1>7, <2>1, <2>2, <2>3
  <2>4. CASE c # a
    BY <1>3, <1>5, <1>7, <2>1, <2>2, <2>4
  <2> QED
    BY <2>3, <2>4
<1>9. ASSUME NEW i \in Slots \ {h}
      PROVE  Blocks(i)' = Blocks(i) /\ \A x \in Blocks(i) : Len(i, x)' = Len(i, x)
  <2>1. Blocks(i)' = Blocks(i)
    BY <1>5, <1>6 DEF Blocks
  <2>2. ASSUME NEW x \in Blocks(i) PROVE Len(i, x)' = Len(i, x)
    BY <1>4, <1>5 DEF Blocks, BlocksOf, Len
  <2> QED
    BY <2>1, <2>2
<1>10. Len(h, c)' = s /\ (a # c => Len(h, a)' = list[h][a] - s)
  BY <1>2, <1>4, <1>5, <1>8, <1>3 DEF Len
<1>11. ASSUME NEW x \in Blocks(h) \ {a, c} PROVE Len(h, x)' = Len(h, x)
  BY <1>4, <1>5 DEF Blocks, BlocksOf, Len
<1> QED
  BY <1>5, <1>6, <1>7, <1>8, <1>9, <1>10, <1>11

\* An allocation leaves heaps that are tiled, coalesced and tagged.
LEMMA AllocateKeepsHeaps ==
  ASSUME Heaps, NEW h \in Slots, NEW a \in DOMAIN list[h], NEW c \in Nat, NEW s \in Nat,
         AllocatesAt(h, a, c, s)
  PROVE  Heaps'
<1>1. /\ \A i : First(i)' = First(i) /\ Limit(i)' = Limit(i) /\ size'[i] = size[i]
      /\ UNCHANGED <<base, size>> /\ used' = With(used, c, s) /\ HeadSize < s
  BY SameAreas DEF AllocatesAt
<1>2. /\ size[h] > 0 /\ First(h) \in Nat /\ Limit(h) \in Nat
      /\ a \in Blocks(h) /\ Len(h, a) = list[h][a] /\ a \notin DOMAIN used
      /\ a \in Nat /\ list[h][a] \in Nat /\ 0 < list[h][a]
      /\ First(h) <= a /\ a + list[h][a] <= Limit(h)
  BY FreeBlockFacts
<1>3. /\ a <= c /\ c + s = a + list[h][a] /\ 0 < s /\ c < Limit(h) /\ First(h) <= c
      /\ c \notin DOMAIN used
      /\ c = a \/ (a < c /\ c \notin Blocks(h))
  BY NewBlock
<1>4. /\ \A i \in Slots \ {h} : Blocks(i)' = Blocks(i) /\ \A x \in Blocks(i) : Len(i, x)' = Len(i, x)
      /\ \A i \in Slots \ {h} : list'[i] = list[i] /\ BlocksOf(i, used)' = BlocksOf(i, used)
      /\ BlocksOf(h, used)' = BlocksOf(h, used) \cup {c}
      /\ Blocks(h)' = Blocks(h) \cup {c} /\ Len(h, c)' = s
      /\ DOMAIN list'[h] = Blocks(h) \ (BlocksOf(h, used) \cup {c})
      /\ a # c => Len(h, a)' = list[h][a] - s
      /\ \A x \in Blocks(h) \ {a, c} : Len(h, x)' = Len(h, x)
  BY BlocksAfterAllocate
<1>5. Shape' /\ Geometry' /\ Apart'
  <2>1. Shape'
    BY DEF AllocatesAt, Heaps, Shape
  <2> QED
    BY <1>1, <2>1 DEF Heaps, Geometry, Apart
<1>6. Lists'
  <2> SUFFICES ASSUME NEW i \in Slots, NEW x \in DOMAIN list'[i]
               PROVE  size'[i] > 0 /\ First(i)' <= x /\ x < Limit(i)'
    BY DEF Lists
  <2>1. CASE i = h
    <3>1. x \in Blocks(h)
      BY <1>4, <2>1
    <3> QED
      BY <1>1, <2>1, <3>1 DEF Heaps, Lists, Blocks, BlocksOf
  <2>2. CASE i # h
    BY <1>1, <1>4, <2>2 DEF Heaps, Lists
  <2> QED
    BY <2>1, <2>2
<1>7. InUse'
  <2> SUFFICES ASSUME NEW p \in DOMAIN used'
               PROVE  /\ p \in Nat /\ used'[p] \in Nat /\ HeadSize < used'[p]
                      /\ \E i \in Slots : p \in BlocksOf(i, used)'
    BY DEF InUse
  <2>1. CASE p = c
    <3>1. used'[p] = s
      BY <1>1, <2>1 DEF With
    <3> QED
      BY <1>1, <1>4, <2>1, <3>1
  <2>2. CASE p # c
    <3>1. p \in DOMAIN used /\ used'[p] = used[p]
      BY <1>1, <2>2 DEF With
    <3>2. PICK i \in Slots : p \in BlocksOf(i, used)
      BY <3>1 DEF Heaps, InUse
    <3>3. p \in BlocksOf(i, used)'
      BY <1>4, <3>2
    <3> QED
      BY <3>1, <3>3 DEF Heaps, InUse
  <2> QED
    BY <2>1, <2>2
<1>8. Tiled'
  <2> SUFFICES ASSUME NEW i \in Slots, size'[i] > 0
               PROVE  /\ Tiles(Layout(i)', First(i)', Limit(i)')
                      /\ DOMAIN list'[i] \cap DOMAIN used' = {}
    BY DEF Tiled
  <2>0. Tiles(Layout(i), First(i), Limit(i)) /\ DOMAIN list[i] \cap DOMAIN used = {}
    BY <1>1 DEF Heaps, Tiled
  <2>a. /\ DOMAIN Layout(i) = Blocks(i) /\ \A x \in Blocks(i) : Layout(i)[x] = Len(i, x)
        /\ DOMAIN Layout(i)' = Blocks(i)' /\ \A x \in Blocks(i)' : Layout(i)'[x] = Len(i, x)'
    BY DEF Layout
  <2>b. DOMAIN used' = DOMAIN used \cup {c}
    BY <1>1 DEF With
  <2>1. CASE i # h
    <3>1. Tiles(Layout(i)', First(i), Limit(i))
      BY <1>4, <2>0, <2>a, <2>1, SameTiles
    <3>2. c \notin DOMAIN list[i]
      <4> SUFFICES ASSUME c \in DOMAIN list[i] PROVE FALSE
        OBVIOUS
      <4>1. size[i] > 0 /\ First(i) <= c /\ c < Limit(i)
        BY DEF Heaps, Lists
      <4> QED
        BY <1>2, <1>3, <2>1, <4>1, AreasApart DEF Heaps
    <3> QED
      BY <1>1, <1>4, <2>0, <2>b, <2>1, <3>1, <3>2
  <2>2. CASE i = h
    <3>1. DOMAIN list'[h] \cap DOMAIN used' = {}
      <4>1. DOMAIN list'[h] \subseteq DOMAIN list[h] \ {c}
        BY <1>4 DEF Blocks
      <4> QED
        BY <2>0, <2>2, <2>b, <4>1
    <3>2. CASE c = a
      <4>0. s = Len(h, c) /\ c \in Blocks(h)
        BY SMTT(30), <1>2, <1>3, <3>2
      <4>1. /\ DOMAIN Layout(h)' = DOMAIN Layout(h)
            /\ \A x \in DOMAIN Layout(h) : Layout(h)'[x] = Layout(h)[x]
        <5>1. \A x \in Blocks(h) : Len(h, x)' = Len(h, x)
          BY <1>4, <3>2, <4>0
        <5>2. Blocks(h)' = Blocks(h)
          BY <1>4, <4>0
        <5> QED
          BY <2>2, <2>a, <5>1, <5>2
      <4> QED
        BY <1>1, <2>0, <2>2, <3>1, <4>1, SameTiles
    <3>3. CASE c # a
      <4>1. PICK f, g, lo, hi : f = Layout(h) /\ g = Layout(h)' /\ lo = First(h) /\ hi = Limit(h)
        OBVIOUS
      <4>2. /\ DOMAIN f = Blocks(h) /\ \A x \in Blocks(h) : f[x] = Len(h, x)
            /\ DOMAIN g = Blocks(h)' /\ \A x \in Blocks(h)' : g[x] = Len(h, x)'
        BY <2>2, <2>a, <4>1
      <4>3. /\ s \in Int /\ c \in Int /\ 0 < s /\ a < c /\ c + s = a + list[h][a]
            /\ c \notin Blocks(h) /\ list[h][a] - s = c - a
        <5>1. 0 < s /\ a < c /\ c + s = a + list[h][a] /\ c \notin Blocks(h)
          BY <1>3, <3>3
        <5>2. a \in Nat /\ list[h][a] \in Nat
          BY <1>2
        <5>3. list[h][a] - s = c - a
          BY <5>1, <5>2
        <5> QED
          BY <5>1, <5>3
      <4>4. a \in DOMAIN f /\ f[a] = list[h][a] /\ DOMAIN g = DOMAIN f \cup {c} /\ g[c] = s
        BY <1>2, <1>4, <4>2
      <4>5. g[a] = list[h][a] - s
        BY <1>2, <1>4, <3>3, <4>2, <4>4
      <4>6. \A x \in DOMAIN f : x # a => g[x] = f[x]
        BY <1>4, <4>2, <4>3
      <4>7. Tiles(f, lo, hi) /\ lo \in Int /\ hi \in Int
        BY <1>2, <2>0, <2>2, <4>1
      <4>8. Tiles(g, lo, hi)
        <5>1. c + s = a + f[a] /\ g[a] = c - a
          BY <4>3, <4>4, <4>5
        <5> QED
          BY ZenonT(30), <4>3, <4>4, <4>5, <4>6, <4>7, <5>1, CutLemma
      <4> QED
        BY <1>1, <2>2, <3>1, <4>1, <4>8
    <3> QED
      BY <3>2, <3>3
  <2> QED
    BY <2>1, <2>2
<1> QED
  BY <1>5, <1>6, <1>7, <1>8 DEF Heaps

LEMMA AllocateKeepsCoalesced ==
  ASSUME Heaps, FullyCoalesced,
         NEW h \in Slots, NEW a \in DOMAIN list[h], NEW c \in Nat, NEW s \in Nat,
         AllocatesAt(h, a, c, s)
  PROVE  FullyCoalesced'
<1>1. /\ \A i \in Slots \ {h} : list'[i] = list[i]
      /\ DOMAIN list'[h] = Blocks(h) \ (BlocksOf(h, used) \cup {c})
      /\ a # c => Len(h, a)' = list[h][a] - s
      /\ \A x \in Blocks(h) \ {a, c} : Len(h, x)' = Len(h, x)
  BY SMTT(30), BlocksAfterAllocate
<1>2. a <= c /\ c + s = a + list[h][a] /\ (c = a \/ (a < c /\ c \notin Blocks(h)))
  BY NewBlock
<1>3. a \in Nat /\ list[h][a] \in Nat
  BY FreeBlockFacts
<1>4. \A i \in Slots : \A x, y \in DOMAIN list[i] : End(list[i], x) # y
  BY DEF FullyCoalesced
<1> SUFFICES ASSUME NEW i \in Slots, NEW x \in DOMAIN list'[i], NEW y \in DOMAIN list'[i]
             PROVE  End(list'[i], x) # y
  BY DEF FullyCoalesced
<1>5. CASE i # h
  BY <1>1, <1>4, <1>5
<1>6. CASE i = h
  <2>1. x \in DOMAIN list[h] \ {c} /\ y \in DOMAIN list[h] \ {c}
    BY <1>1, <1>6 DEF Blocks
  <2>2. CASE x = a
    <3>1. list'[h][a] = list[h][a] - s /\ a # c
      BY <1>1, <1>6, <2>1, <2>2 DEF Len
    <3>2. End(list'[h], a) = c
      BY SMTT(30), <1>2, <1>3, <3>1 DEF End
    <3> QED
      BY <1>6, <2>1, <2>2, <3>2
  <2>3. CASE x # a
    <3>1. list'[h][x] = list[h][x]
      BY <1>1, <1>6, <2>1, <2>3 DEF Len, Blocks
    <3> QED
      BY <1>4, <1>6, <2>1, <3>1 DEF End
  <2> QED
    BY <2>2, <2>3
<1> QED
  BY <1>5, <1>6

\* The last byte of another block is not one of those of a free block.
LEMMA OtherEnds ==
  ASSUME Heaps, NEW h \in Slots, NEW a \in Blocks(h), NEW i \in Slots, NEW x \in Blocks(i),
         h # i \/ a # x
  PROVE  LET e == x + Len(i, x) IN e \in Nat /\ (e <= a \/ a + Len(h, a) < e)
<1>1. x + Len(i, x) <= a \/ a + Len(h, a) <= x
  BY BlocksApart
<1>2. /\ a \in Nat /\ Len(h, a) \in Nat /\ 0 < Len(h, a)
      /\ x \in Nat /\ Len(i, x) \in Nat /\ 0 < Len(i, x)
  BY BlockFacts
<1> QED
  BY <1>1, <1>2

\* Writing one tag, and two.
LEMMA TagWritten ==
  ASSUME NEW x, NEW v, dog' = With(dog, x, v)
  PROVE  TagIs(x, v)' /\ \A t, u : t # x /\ TagIs(t, u) => TagIs(t, u)'
  BY DEF TagIs, With

LEMMA TagsWritten ==
  ASSUME NEW x, NEW v, NEW y, NEW u, x # y, dog' = With(With(dog, x, v), y, u)
  PROVE  /\ TagIs(x, v)' /\ TagIs(y, u)'
         /\ \A t, w : t # x /\ t # y /\ TagIs(t, w) => TagIs(t, w)'
  BY DEF TagIs, With

LEMMA AllocateKeepsTags ==
  ASSUME Heaps, TagsAgree,
         NEW h \in Slots, NEW a \in DOMAIN list[h], NEW c \in Nat, NEW s \in Nat,
         AllocatesAt(h, a, c, s)
  PROVE  TagsAgree'
<1>1. /\ \A i \in Slots \ {h} : list'[i] = list[i]
      /\ DOMAIN list'[h] = Blocks(h) \ (BlocksOf(h, used) \cup {c})
      /\ a # c => Len(h, a)' = list[h][a] - s
      /\ \A x \in Blocks(h) \ {a, c} : Len(h, x)' = Len(h, x)
  BY SMTT(30), BlocksAfterAllocate
<1>2. a <= c /\ c + s = a + list[h][a] /\ (c = a \/ (a < c /\ c \notin Blocks(h))) /\ 0 < s
  BY NewBlock
<1>3. a \in Nat /\ list[h][a] \in Nat /\ a \in Blocks(h) /\ Len(h, a) = list[h][a]
  BY FreeBlockFacts
<1>e. PICK e \in Nat : e = a + list[h][a]
  BY <1>3
<1>4. c + s = e /\ e - s = c /\ c < e
  BY <1>2, <1>3, <1>e
<1>5. /\ TagIs(e - 1, "use")'
      /\ a # c => TagIs(c - 1, "free")'
      /\ \A t, v : t # e - 1 /\ (a # c => t # c - 1) /\ TagIs(t, v) => TagIs(t, v)'
  <2>1. CASE a = c
    <3>1. dog' = With(dog, e - 1, "use")
      BY <1>2, <1>3, <1>e, <2>1 DEF AllocatesAt, End
    <3> QED
      BY <2>1, <3>1, TagWritten
  <2>2. CASE a # c
    <3>1. dog' = With(With(dog, e - 1, "use"), e - s - 1, "free")
      BY <1>e, <2>2 DEF AllocatesAt, End
    <3>2. dog' = With(With(dog, e - 1, "use"), c - 1, "free") /\ c - 1 # e - 1
      BY <1>4, <3>1
    <3> QED
      BY <2>2, <3>2, TagsWritten
  <2> QED
    BY <2>1, <2>2
<1>6. ASSUME NEW i \in Slots, NEW x \in Blocks(i), i # h \/ x # a,
             NEW f, f = x + Len(i, x), NEW v, TagIs(f - 1, v)
      PROVE  TagIs(f - 1, v)'
  <2>1. f \in Nat /\ (f <= a \/ e < f)
    BY <1>3, <1>e, <1>6, OtherEnds
  <2>2. f - 1 # e - 1 /\ (a # c => f - 1 # c - 1)
    <3>1. f # e /\ (a # c => f # c)
      BY <1>2, <1>3, <1>4, <2>1
    <3>2. f \in Int /\ e \in Int /\ c \in Int
      BY <2>1
    <3> QED
      BY <3>1, <3>2
  <2> QED
    BY <1>5, <1>6, <2>2
<1>7. ASSUME NEW i \in Slots, NEW x \in DOMAIN list'[i]
      PROVE  TagIs(End(list[i], x) - 1, "free")'
  <2>1. CASE i = h /\ x = a
    <3>1. a # c /\ list'[h][a] = list[h][a] - s
      BY <1>1, <2>1 DEF Len
    <3>2. End(list'[h], a) = c
      BY <1>3, <1>4, <1>e, <3>1 DEF End
    <3> QED
      BY <1>5, <2>1, <3>1, <3>2
  <2>2. CASE ~(i = h /\ x = a)
    <3>1. x \in DOMAIN list[i] /\ list'[i][x] = list[i][x]
      <4>1. CASE i = h
        BY <1>1, <2>2, <4>1 DEF Blocks, Len
      <4>2. CASE i # h
        BY <1>1, <4>2
      <4> QED
        BY <4>1, <4>2
    <3>2. /\ x \in Blocks(i) /\ Len(i, x) = list[i][x] /\ x \in Nat /\ list[i][x] \in Nat
      BY <3>1, FreeBlockFacts
    <3>3. PICK f : f = x + Len(i, x)
      OBVIOUS
    <3>4. End(list'[i], x) = f /\ End(list[i], x) = f
      BY <3>1, <3>2, <3>3 DEF End
    <3>5. TagIs(f - 1, "free")
      BY <3>1, <3>4 DEF TagsAgree
    <3>6. TagIs(f - 1, "free")'
      BY <1>6, <2>2, <3>2, <3>3, <3>5
    <3> QED
      BY <3>4, <3>6
  <2> QED
    BY <2>1, <2>2
<1>8. ASSUME NEW p \in DOMAIN used'
      PROVE  TagIs(End(used, p) - 1, "use")'
  <2>1. CASE p = c
    <3>1. used'[p] = s
      BY <2>1 DEF AllocatesAt, With
    <3>2. End(used', p) = e
      BY <1>4, <2>1, <3>1 DEF End
    <3> QED
      BY <1>5, <3>2
  <2>2. CASE p # c
    <3>1. p \in DOMAIN used /\ used'[p] = used[p]
      BY <2>2 DEF AllocatesAt, With
    <3>2. PICK i \in Slots : p \in Blocks(i) /\ Len(i, p) = used[p] /\ p \notin DOMAIN list[i]
      BY <3>1, UsedBlock
    <3>3. PICK f : f = p + Len(i, p)
      OBVIOUS
    <3>4. End(used', p) = f /\ End(used, p) = f
      BY <3>1, <3>2, <3>3 DEF End
    <3>5. TagIs(f - 1, "use")
      BY <3>1, <3>4 DEF TagsAgree
    <3>6. TagIs(f - 1, "use")'
      BY <1>6, <3>2, <3>3, <3>5
    <3> QED
      BY <3>4, <3>6
  <2> QED
    BY <2>1, <2>2
<1> QED
  BY <1>7, <1>8 DEF TagsAgree

\* An allocation hands out a block that none in use overlaps.
LEMMA AllocateHandsOut ==
  ASSUME Heaps, NEW h \in Slots, NEW a \in DOMAIN list[h], NEW c \in Nat, NEW s \in Nat,
         AllocatesAt(h, a, c, s)
  PROVE  Abstract!AllocNext
<1>1. /\ a <= c /\ c + s = a + list[h][a] /\ 0 < s /\ c < Limit(h) /\ First(h) <= c
      /\ c \notin DOMAIN used
      /\ c = a \/ (a < c /\ c \notin Blocks(h))
  BY NewBlock
<1>2. a \in Nat /\ list[h][a] \in Nat /\ a \in Blocks(h) /\ Len(h, a) = list[h][a] /\ a \notin DOMAIN used
  BY FreeBlockFacts
<1>3. used' = With(used, c, s)
  BY DEF AllocatesAt
<1>4. c \in DOMAIN used' /\ used'[c] = s
  BY <1>3 DEF With
<1>5. ASSUME NEW b \in DOMAIN used PROVE c + s <= b \/ b + used[b] <= c
  <2>1. PICK i \in Slots : b \in Blocks(i) /\ Len(i, b) = used[b]
    BY UsedBlock
  <2>2. b \in Nat /\ used[b] \in Nat
    BY <2>1, BlockFacts
  <2>3. a + list[h][a] <= b \/ b + used[b] <= a
    BY <1>2, <2>1, BlocksApart
  <2> QED
    BY <1>1, <1>2, <2>2, <2>3
<1>6. Abstract!HandOut(c, s)
  BY <1>1, <1>3, <1>5 DEF Abstract!HandOut, Abstract!Disjoint, With
<1> QED
  BY <1>4, <1>6 DEF Abstract!AllocNext

-----------------------------------------------------------------------------
(* Freeing.                                                                *)

\* What Deallocate does with the block p of heap h: it ends up in a free block
\* from start to stop.
DeallocatesTo(h, p, start, stop) ==
  LET end == End(used, p)
  IN  /\ \/ start = p /\ \A q \in DOMAIN list[h] : End(list[h], q) # p
         \/ start \in DOMAIN list[h] /\ End(list[h], start) = p
      /\ \/ stop = end /\ end \notin DOMAIN list[h]
         \/ end \in DOMAIN list[h] /\ stop = End(list[h], end)
      /\ list' = [list EXCEPT ![h] = With(Without(list[h], {start, end}), start, stop - start)]

LEMMA UsedBlockFacts ==
  ASSUME Heaps, NEW h \in Slots, NEW p \in BlocksOf(h, used)
  PROVE  /\ p \in Blocks(h) /\ Len(h, p) = used[p] /\ p \notin DOMAIN list[h]
         /\ size[h] > 0 /\ First(h) \in Nat /\ Limit(h) \in Nat
         /\ p \in Nat /\ used[p] \in Nat /\ 0 < used[p]
         /\ First(h) <= p /\ p + used[p] <= Limit(h)
         /\ End(used, p) = p + used[p] /\ p \in DOMAIN used
<1>1. p \in Blocks(h) /\ p \in DOMAIN used /\ size[h] > 0
  BY DEF Blocks, BlocksOf
<1>2. p \notin DOMAIN list[h]
  BY <1>1 DEF Heaps, Tiled
<1>3. Len(h, p) = used[p]
  BY <1>2 DEF Len
<1> QED
  BY <1>1, <1>2, <1>3, BlockFacts DEF End

LEMMA DeallocateLemma ==
  ASSUME Heaps, NEW h \in Slots, NEW p \in BlocksOf(h, used), Deallocate(h, p)
  PROVE  \E start \in Nat, stop \in Nat : DeallocatesTo(h, p, start, stop)
<1> DEFINE e == End(used, p)
           M == Neighbours(h, p)
<1>1. /\ p \in Blocks(h) /\ Len(h, p) = used[p] /\ p \notin DOMAIN list[h]
      /\ p \in Nat /\ used[p] \in Nat /\ 0 < used[p] /\ e = p + used[p] /\ e \in Nat /\ p < e
  BY UsedBlockFacts
<1> HIDE DEF e
<1>2. ASSUME NEW q \in DOMAIN list[h]
      PROVE  q \in Nat /\ list[h][q] \in Nat /\ 0 < list[h][q] /\ End(list[h], q) = q + list[h][q]
  BY FreeBlockFacts DEF End
<1>3. M = {q \in DOMAIN list[h] : End(list[h], q) = p} \cup ({e} \cap DOMAIN list[h])
  BY DEF Neighbours, e
<1>4. list' = [list EXCEPT ![h] = ListWith(h, p)]
  BY DEF Deallocate
<1>5. \E start \in Nat :
        /\ \/ start = p /\ \A q \in DOMAIN list[h] : End(list[h], q) # p
           \/ start \in DOMAIN list[h] /\ End(list[h], start) = p
        /\ Lowest(M \cup {p}) = start
        /\ M = {start, e} \cap DOMAIN list[h]
  <2>1. CASE \A q \in DOMAIN list[h] : End(list[h], q) # p
    <3>1. M = {p, e} \cap DOMAIN list[h]
      BY <1>1, <1>3, <2>1
    <3>2. M \cup {p} \in SUBSET Int /\ \A b \in M \cup {p} : p <= b
      BY <1>1, <3>1
    <3> QED
      BY <1>1, <2>1, <3>1, <3>2, LowestLemma
  <2>2. CASE \E q \in DOMAIN list[h] : End(list[h], q) = p
    <3>1. PICK q \in DOMAIN list[h] : End(list[h], q) = p
      BY <2>2
    <3>2. q \in Nat /\ q < p
      BY <1>1, <1>2, <3>1
    <3>3. ASSUME NEW x \in DOMAIN list[h], End(list[h], x) = p PROVE x = q
      <4>1. x + Len(h, x) = p /\ q + Len(h, q) = p /\ x \in Blocks(h) /\ q \in Blocks(h)
        BY <3>1, <3>3, FreeBlockFacts DEF End
      <4>2. x \in Nat /\ Len(h, x) \in Nat /\ Len(h, q) \in Nat /\ 0 < Len(h, x) /\ 0 < Len(h, q)
        BY <4>1, BlockFacts
      <4>3. x < q => x + Len(h, x) <= q
        BY <4>1, BlockFacts
      <4>4. q < x => q + Len(h, q) <= x
        BY <4>1, BlockFacts
      <4> QED
        BY <3>2, <4>1, <4>2, <4>3, <4>4
    <3>4. M = {q, e} \cap DOMAIN list[h]
      BY <1>3, <3>1, <3>3
    <3>5. M \cup {p} \in SUBSET Int /\ q \in M \cup {p} /\ \A b \in M \cup {p} : q <= b
      BY <1>1, <3>1, <3>2, <3>4
    <3>6. Lowest(M \cup {p}) = q
      BY <3>5, LowestLemma
    <3> QED
      BY <3>1, <3>2, <3>4, <3>6
  <2> QED
    BY <2>1, <2>2
<1>6. PICK start \in Nat :
        /\ \/ start = p /\ \A q \in DOMAIN list[h] : End(list[h], q) # p
           \/ start \in DOMAIN list[h] /\ End(list[h], start) = p
        /\ Lowest(M \cup {p}) = start
        /\ M = {start, e} \cap DOMAIN list[h]
  BY <1>5
<1> DEFINE stop == IF e \in M THEN End(list[h], e) ELSE e
<1>7. /\ stop \in Nat
      /\ \/ stop = e /\ e \notin DOMAIN list[h]
         \/ e \in DOMAIN list[h] /\ stop = End(list[h], e)
  BY SMTT(30), <1>1, <1>2, <1>6
<1>8. ListWith(h, p) = With(Without(list[h], M), start, stop - start)
  BY <1>6 DEF ListWith, e
<1>9. Without(list[h], M) = Without(list[h], {start, e})
  BY <1>6 DEF Without
<1>10. list' = [list EXCEPT ![h] = With(Without(list[h], {start, e}), start, stop - start)]
  BY <1>4, <1>8, <1>9
<1> HIDE DEF stop, M
<1>11. DeallocatesTo(h, p, start, stop)
  BY <1>6, <1>7, <1>10 DEF DeallocatesTo, e
<1> QED
  BY <1>7, <1>11

\* What the blocks of the heaps are after a free: the one that ends at e is a
\* part of the free block from start to stop.
Freed(h, p, start, stop, e) ==
  /\ DOMAIN used' = DOMAIN used \ {p} /\ \A x \in DOMAIN used' : used'[x] = used[x]
  /\ \A i : First(i)' = First(i) /\ Limit(i)' = Limit(i) /\ size'[i] = size[i]
  /\ \A i \in Slots \ {h} : list'[i] = list[i] /\ BlocksOf(i, used)' = BlocksOf(i, used)
  /\ BlocksOf(h, used)' = BlocksOf(h, used) \ {p}
  /\ DOMAIN list'[h] = (DOMAIN list[h] \ {e}) \cup {start}
  /\ list'[h][start] = stop - start
  /\ \A x \in DOMAIN list'[h] \ {start} : list'[h][x] = list[h][x]
  /\ start \in Blocks(h) /\ start <= p /\ p < e /\ e <= stop /\ e \in Nat
  /\ start < p => p = start + Len(h, start)

LEMMA BlocksAfterDeallocate ==
  ASSUME Heaps, NEW h \in Slots, NEW p \in BlocksOf(h, used), Deallocate(h, p),
         NEW start \in Nat, NEW stop \in Nat, DeallocatesTo(h, p, start, stop),
         NEW e, e = End(used, p)
  PROVE  Freed(h, p, start, stop, e)
<1>1. /\ p \in Blocks(h) /\ Len(h, p) = used[p] /\ p \notin DOMAIN list[h]
      /\ p \in Nat /\ used[p] \in Nat /\ 0 < used[p] /\ e = p + used[p] /\ e \in Nat /\ p < e
      /\ size[h] > 0 /\ First(h) \in Nat /\ Limit(h) \in Nat
      /\ First(h) <= p /\ p + used[p] <= Limit(h)
  BY UsedBlockFacts
<1>2. ASSUME NEW q \in DOMAIN list[h]
      PROVE  /\ q \in Nat /\ list[h][q] \in Nat /\ 0 < list[h][q]
             /\ End(list[h], q) = q + list[h][q] /\ Len(h, q) = list[h][q] /\ q \in Blocks(h)
  BY FreeBlockFacts DEF End
<1>3. UNCHANGED <<base, size>> /\ used' = Without(used, {p})
  BY DEF Deallocate
<1>4. \A i : First(i)' = First(i) /\ Limit(i)' = Limit(i) /\ size'[i] = size[i]
  BY <1>3, SameAreas
<1>5. DOMAIN used' = DOMAIN used \ {p} /\ \A x \in DOMAIN used' : used'[x] = used[x]
  BY <1>3 DEF Without
<1>6. /\ \/ start = p /\ \A q \in DOMAIN list[h] : End(list[h], q) # p
         \/ start \in DOMAIN list[h] /\ End(list[h], start) = p
      /\ \/ stop = e /\ e \notin DOMAIN list[h]
         \/ e \in DOMAIN list[h] /\ stop = End(list[h], e)
      /\ list' = [list EXCEPT ![h] = With(Without(list[h], {start, e}), start, stop - start)]
  BY DEF DeallocatesTo
<1>b. e <= stop
  <2>1. CASE stop = e
    BY <1>1, <2>1
  <2>2. CASE e \in DOMAIN list[h] /\ stop = End(list[h], e)
    <3>1. stop = e + list[h][e] /\ list[h][e] \in Nat
      BY <1>2, <2>2
    <3> QED
      BY SMTT(30), <1>1, <3>1
  <2> QED
    BY <1>6, <2>1, <2>2
<1>7. /\ start \in Blocks(h) /\ start <= p /\ e <= stop
      /\ start < p => p = start + Len(h, start)
  <2>1. CASE start \in DOMAIN list[h] /\ End(list[h], start) = p
    <3>1. start + Len(h, start) = p /\ start \in Blocks(h) /\ Len(h, start) \in Nat
      BY <1>2, <2>1
    <3> QED
      BY <1>1, <1>b, <3>1
  <2>2. CASE start = p
    BY <1>1, <1>b, <2>2
  <2> QED
    BY <1>6, <2>1, <2>2
<1>8. h \in DOMAIN list /\ DOMAIN list = Slots
  BY DEF Heaps, Shape
<1>9. /\ list'[h] = With(Without(list[h], {start, e}), start, stop - start)
      /\ \A i \in Slots \ {h} : list'[i] = list[i]
  BY <1>6, <1>8
<1>10. /\ DOMAIN list'[h] = (DOMAIN list[h] \ {e}) \cup {start}
       /\ list'[h][start] = stop - start
       /\ \A x \in DOMAIN list'[h] \ {start} : list'[h][x] = list[h][x]
  BY <1>9 DEF With, Without
<1>11. \A i \in Slots \ {h} : BlocksOf(i, used)' = BlocksOf(i, used)
  <2> SUFFICES ASSUME NEW i \in Slots \ {h} PROVE BlocksOf(i, used)' = BlocksOf(i, used)
    OBVIOUS
  <2>1. p \notin BlocksOf(i, used)
    <3>1. ASSUME p \in BlocksOf(i, used) PROVE p \in Blocks(i)
      BY <3>1 DEF Blocks
    <3> QED
      BY <1>1, <3>1, OneHeap
  <2> QED
    BY <1>4, <1>5, <2>1 DEF BlocksOf
<1>12. BlocksOf(h, used)' = BlocksOf(h, used) \ {p}
  BY <1>4, <1>5 DEF BlocksOf
<1> QED
  BY <1>1, <1>4, <1>5, <1>7, <1>9, <1>10, <1>11, <1>12 DEF Freed

LEMMA DeallocateKeepsTiling ==
  ASSUME Heaps, NEW h \in Slots, NEW p \in BlocksOf(h, used), Deallocate(h, p),
         NEW start \in Nat, NEW stop \in Nat, DeallocatesTo(h, p, start, stop),
         NEW e, e = End(used, p)
  PROVE  Tiles(Layout(h)', First(h), Limit(h))
<1>1. /\ p \in Blocks(h) /\ Len(h, p) = used[p] /\ p \notin DOMAIN list[h]
      /\ p \in Nat /\ used[p] \in Nat /\ 0 < used[p] /\ e = p + used[p] /\ e \in Nat
      /\ size[h] > 0 /\ First(h) \in Nat /\ Limit(h) \in Nat
  BY UsedBlockFacts
<1>2. /\ DOMAIN used' = DOMAIN used \ {p} /\ \A x \in DOMAIN used' : used'[x] = used[x]
      /\ BlocksOf(h, used)' = BlocksOf(h, used) \ {p}
      /\ DOMAIN list'[h] = (DOMAIN list[h] \ {e}) \cup {start}
      /\ list'[h][start] = stop - start
      /\ \A x \in DOMAIN list'[h] \ {start} : list'[h][x] = list[h][x]
      /\ start \in Blocks(h) /\ start <= p /\ p < e /\ e <= stop
      /\ start < p => p = start + Len(h, start)
  <2>1. Freed(h, p, start, stop, e)
    BY BlocksAfterDeallocate
  <2> QED
    BY <2>1 DEF Freed
<1>3. ASSUME NEW q \in DOMAIN list[h]
      PROVE  q \in Nat /\ list[h][q] \in Nat /\ Len(h, q) = list[h][q] /\ q \in Blocks(h) /\ q \notin DOMAIN used
  BY FreeBlockFacts
<1>4. \/ stop = e /\ e \notin DOMAIN list[h]
      \/ e \in DOMAIN list[h] /\ stop = e + Len(h, e)
  BY <1>3 DEF DeallocatesTo, End
<1>5. PICK f, lo, hi : f = Layout(h) /\ lo = First(h) /\ hi = Limit(h)
  OBVIOUS
<1>6. Tiles(f, lo, hi) /\ lo \in Int /\ hi \in Int
  BY <1>1, <1>5 DEF Heaps, Tiled
<1>7. DOMAIN f = Blocks(h) /\ \A x \in Blocks(h) : f[x] = Len(h, x)
  BY <1>5 DEF Layout
<1>8. PICK g : g = [x \in Blocks(h) \ ({e} \cap DOMAIN list[h]) |-> IF x = p THEN stop - p ELSE f[x]]
  OBVIOUS
<1>9. Tiles(g, lo, hi)
  <2>1. CASE e \notin DOMAIN list[h]
    <3>1. stop - p = f[p]
      <4>1. f[p] = used[p] /\ stop = p + used[p]
        BY <1>1, <1>4, <1>7, <2>1
      <4> QED
        BY <1>1, <4>1
    <3>2. DOMAIN g = DOMAIN f /\ \A x \in DOMAIN f : g[x] = f[x]
      BY <1>7, <1>8, <2>1, <3>1
    <3> QED
      BY <1>6, <3>2, SameTiles
  <2>2. CASE e \in DOMAIN list[h]
    <3>1. p \in DOMAIN f /\ e = p + f[p] /\ e \in DOMAIN f /\ e # p
      BY <1>1, <1>2, <1>3, <1>7, <2>2
    <3>2. stop - p = f[p] + f[e]
      <4>1. f[p] = used[p] /\ f[e] = list[h][e] /\ list[h][e] \in Nat
        BY <1>1, <1>3, <1>7, <2>2
      <4>2. stop = p + used[p] + list[h][e]
        BY <1>1, <1>3, <1>4, <2>2
      <4> QED
        BY SMTT(30), <1>1, <4>1, <4>2
    <3>3. DOMAIN g = DOMAIN f \ {e} /\ g[p] = f[p] + f[e] /\ \A x \in DOMAIN g : x # p => g[x] = f[x]
      BY <1>7, <1>8, <2>2, <3>1, <3>2
    <3> QED
      BY <1>6, <3>1, <3>3, JoinLemma
  <2> QED
    BY <2>1, <2>2
<1>10. PICK k : k = Layout(h)'
  OBVIOUS
<1>11. DOMAIN k = Blocks(h)' /\ \A x \in Blocks(h)' : k[x] = Len(h, x)'
  BY <1>10 DEF Layout
<1>12. Blocks(h) = DOMAIN list[h] \cup BlocksOf(h, used) /\ Blocks(h)' = DOMAIN list'[h] \cup BlocksOf(h, used)'
  BY DEF Blocks
<1>13. BlocksOf(h, used) \subseteq DOMAIN used
  BY DEF BlocksOf
<1>14. DOMAIN k = (DOMAIN g \ {p}) \cup {start}
  BY <1>2, <1>3, <1>8, <1>11, <1>12, <1>13
<1>15. k[start] = stop - start
  BY <1>2, <1>11, <1>12 DEF Len
<1>16. ASSUME NEW x \in DOMAIN k, x # start PROVE k[x] = g[x]
  <2>1. x \in DOMAIN g /\ x # p /\ g[x] = Len(h, x) /\ x \in Blocks(h)'
    BY <1>7, <1>8, <1>11, <1>14, <1>16
  <2>2. CASE x \in DOMAIN list'[h]
    BY <1>2, <1>11, <1>16, <2>1, <2>2 DEF Len
  <2>3. CASE x \notin DOMAIN list'[h]
    <3>1. x \in DOMAIN used' /\ x \notin DOMAIN list[h]
      BY <1>2, <1>3, <1>12, <1>13, <2>1, <2>3
    <3> QED
      BY <1>2, <1>11, <2>1, <2>3, <3>1 DEF Len
  <2> QED
    BY <2>2, <2>3
<1>17. Tiles(k, lo, hi)
  <2>1. CASE start = p
    <3>1. p \in DOMAIN g /\ g[p] = stop - p
      BY <1>1, <1>2, <1>8
    <3>2. DOMAIN k = DOMAIN g /\ \A x \in DOMAIN g : k[x] = g[x]
      BY <1>14, <1>15, <1>16, <2>1, <3>1
    <3> QED
      BY <1>9, <3>2, SameTiles
  <2>2. CASE start # p
    <3>1. start < p /\ p = start + Len(h, start)
      BY SMTT(30), <1>1, <1>2, <2>2
    <3>2. start \in DOMAIN g /\ g[start] = Len(h, start) /\ p \in DOMAIN g /\ g[p] = stop - p
      BY <1>1, <1>2, <1>7, <1>8, <3>1
    <3>3. Len(h, start) \in Nat
      BY <1>2, BlockFacts
    <3>4. p = start + g[start] /\ k[start] = g[start] + g[p]
      BY <1>1, <1>15, <3>1, <3>2, <3>3
    <3>5. DOMAIN k = DOMAIN g \ {p} /\ \A x \in DOMAIN k : x # start => k[x] = g[x]
      BY <1>14, <1>16, <2>2, <3>2
    <3> QED
      BY ZenonT(30), <1>6, <1>9, <3>2, <3>4, <3>5, JoinLemma
  <2> QED
    BY <2>1, <2>2
<1> QED
  BY <1>5, <1>10, <1>17

LEMMA DeallocateKeepsHeaps ==
  ASSUME Heaps, NEW h \in Slots, NEW p \in BlocksOf(h, used), Deallocate(h, p)
  PROVE  Heaps'
<1>1. PICK start \in Nat, stop \in Nat : DeallocatesTo(h, p, start, stop)
  BY DeallocateLemma
<1>2. PICK e : e = End(used, p)
  OBVIOUS
<1>3. Freed(h, p, start, stop, e)
  BY <1>1, <1>2, BlocksAfterDeallocate
<1>4. UNCHANGED <<base, size>>
  BY DEF Deallocate
<1>5. p \in DOMAIN used /\ p \notin DOMAIN list[h] /\ size[h] > 0
  BY UsedBlockFacts
<1>6. start = p \/ start \in DOMAIN list[h]
  BY <1>1 DEF DeallocatesTo
<1>7. \A i : First(i)' = First(i) /\ Limit(i)' = Limit(i) /\ size'[i] = size[i]
  BY <1>3 DEF Freed
<1>8. /\ DOMAIN used' = DOMAIN used \ {p} /\ \A x \in DOMAIN used' : used'[x] = used[x]
      /\ DOMAIN list'[h] = (DOMAIN list[h] \ {e}) \cup {start}
      /\ \A i \in Slots \ {h} : list'[i] = list[i] /\ BlocksOf(i, used)' = BlocksOf(i, used)
      /\ BlocksOf(h, used)' = BlocksOf(h, used) \ {p}
  BY <1>3 DEF Freed
<1>9. Shape' /\ Geometry' /\ Apart'
  <2>1. Shape'
    BY <1>1, <1>4 DEF DeallocatesTo, Heaps, Shape
  <2> QED
    BY <1>4, <1>7, <2>1 DEF Heaps, Geometry, Apart
<1>10. Lists'
  <2> SUFFICES ASSUME NEW i \in Slots, NEW x \in DOMAIN list'[i]
               PROVE  size'[i] > 0 /\ First(i)' <= x /\ x < Limit(i)'
    BY DEF Lists
  <2>1. CASE i = h /\ x = start
    <3>1. start \in Blocks(h)
      BY <1>3 DEF Freed
    <3>2. start \in Nat /\ Len(h, start) \in Nat /\ 0 < Len(h, start) /\ Limit(h) \in Nat
          /\ First(h) <= start /\ start + Len(h, start) <= Limit(h)
      BY <3>1, BlockFacts
    <3> QED
      BY <1>5, <1>7, <2>1, <3>2
  <2>2. CASE ~(i = h /\ x = start)
    <3>1. x \in DOMAIN list[i]
      BY <1>8, <2>2
    <3> QED
      BY <1>7, <3>1 DEF Heaps, Lists
  <2> QED
    BY <2>1, <2>2
<1>11. InUse'
  <2> SUFFICES ASSUME NEW q \in DOMAIN used'
               PROVE  /\ q \in Nat /\ used'[q] \in Nat /\ HeadSize < used'[q]
                      /\ \E i \in Slots : q \in BlocksOf(i, used)'
    BY DEF InUse
  <2>1. q \in DOMAIN used /\ q # p /\ used'[q] = used[q]
    BY <1>8
  <2>2. PICK i \in Slots : q \in BlocksOf(i, used)
    BY <2>1 DEF Heaps, InUse
  <2>3. q \in BlocksOf(i, used)'
    BY <1>8, <2>1, <2>2
  <2> QED
    BY <2>1, <2>3 DEF Heaps, InUse
<1>12. Tiled'
  <2> SUFFICES ASSUME NEW i \in Slots, size'[i] > 0
               PROVE  /\ Tiles(Layout(i)', First(i)', Limit(i)')
                      /\ DOMAIN list'[i] \cap DOMAIN used' = {}
    BY DEF Tiled
  <2>1. Tiles(Layout(i), First(i), Limit(i)) /\ DOMAIN list[i] \cap DOMAIN used = {}
    BY <1>7 DEF Heaps, Tiled
  <2>2. DOMAIN list'[i] \cap DOMAIN used' = {}
    <3>1. CASE i = h
      BY <1>6, <1>8, <2>1, <3>1
    <3>2. CASE i # h
      BY <1>8, <2>1, <3>2
    <3> QED
      BY <3>1, <3>2
  <2>3. CASE i = h
    <3>1. Tiles(Layout(h)', First(h), Limit(h))
      BY <1>1, <1>2, DeallocateKeepsTiling
    <3> QED
      BY <1>7, <2>2, <2>3, <3>1
  <2>4. CASE i # h
    <3>1. /\ DOMAIN Layout(i) = Blocks(i) /\ \A x \in Blocks(i) : Layout(i)[x] = Len(i, x)
          /\ DOMAIN Layout(i)' = Blocks(i)' /\ \A x \in Blocks(i)' : Layout(i)'[x] = Len(i, x)'
      BY DEF Layout
    <3>2. Blocks(i)' = Blocks(i)
      BY <1>8, <2>4 DEF Blocks
    <3>3. ASSUME NEW x \in Blocks(i) PROVE Len(i, x)' = Len(i, x)
      <4>1. list'[i] = list[i]
        BY <1>8, <2>4
      <4>2. x \in DOMAIN list[i] \/ x \in DOMAIN used'
        BY <1>8, <2>4 DEF Blocks, BlocksOf
      <4> QED
        BY <1>8, <4>1, <4>2 DEF Len
    <3>4. Tiles(Layout(i)', First(i), Limit(i))
      BY <2>1, <3>1, <3>2, <3>3, SameTiles
    <3> QED
      BY <1>7, <2>2, <3>4
  <2> QED
    BY <2>3, <2>4
<1> QED
  BY <1>9, <1>10, <1>11, <1>12 DEF Heaps

LEMMA DeallocateKeepsCoalesced ==
  ASSUME Heaps, FullyCoalesced, NEW h \in Slots, NEW p \in BlocksOf(h, used), Deallocate(h, p)
  PROVE  FullyCoalesced'
<1>1. PICK start \in Nat, stop \in Nat : DeallocatesTo(h, p, start, stop)
  BY DeallocateLemma
<1>2. PICK e : e = End(used, p)
  OBVIOUS
<1>3. Freed(h, p, start, stop, e)
  BY <1>1, <1>2, BlocksAfterDeallocate
<1>4. /\ DOMAIN list'[h] = (DOMAIN list[h] \ {e}) \cup {start}
      /\ list'[h][start] = stop - start
      /\ \A x \in DOMAIN list'[h] \ {start} : list'[h][x] = list[h][x]
      /\ \A i \in Slots \ {h} : list'[i] = list[i]
      /\ start <= p /\ p < e /\ e <= stop /\ e \in Nat
  BY <1>3 DEF Freed
<1>5. \A i \in Slots : \A x, y \in DOMAIN list[i] : End(list[i], x) # y
  BY DEF FullyCoalesced
<1>6. /\ \/ start = p /\ \A q \in DOMAIN list[h] : End(list[h], q) # p
         \/ start \in DOMAIN list[h] /\ End(list[h], start) = p
      /\ \/ stop = e /\ e \notin DOMAIN list[h]
         \/ e \in DOMAIN list[h] /\ stop = End(list[h], e)
  BY <1>1, <1>2 DEF DeallocatesTo
<1> SUFFICES ASSUME NEW i \in Slots, NEW x \in DOMAIN list'[i], NEW y \in DOMAIN list'[i]
             PROVE  End(list'[i], x) # y
  BY DEF FullyCoalesced
<1>7. CASE i # h
  BY <1>4, <1>5, <1>7
<1>8. CASE i = h
  <2>p. p \in Nat /\ e = p + used[p] /\ used[p] \in Nat
    BY <1>2, UsedBlockFacts
  <2>1. CASE x = start
    <3>1. End(list'[h], x) = stop
      BY <1>4, <2>1 DEF End
    <3>2. stop # start
      BY <1>4, <2>p
    <3>3. y # start => stop # y
      BY <1>4, <1>5, <1>6, <1>8
    <3> QED
      BY <1>8, <3>1, <3>2, <3>3
  <2>2. CASE x # start
    <3>1. x \in DOMAIN list[h] /\ End(list'[h], x) = End(list[h], x)
      BY <1>4, <1>8, <2>2 DEF End
    <3>2. CASE y = start
      <4>1. CASE start = p /\ \A q \in DOMAIN list[h] : End(list[h], q) # p
        BY <1>8, <3>1, <3>2, <4>1
      <4>2. CASE start \in DOMAIN list[h]
        BY <1>5, <1>8, <3>1, <3>2, <4>2
      <4> QED
        BY <1>6, <4>1, <4>2
    <3>3. CASE y # start
      BY <1>4, <1>5, <1>8, <3>1, <3>3
    <3> QED
      BY <3>2, <3>3
  <2> QED
    BY <2>1, <2>2
<1> QED
  BY <1>7, <1>8

LEMMA DeallocateKeepsTags ==
  ASSUME Heaps, TagsAgree, NEW h \in Slots, NEW p \in BlocksOf(h, used), Deallocate(h, p)
  PROVE  TagsAgree'
<1>1. PICK start \in Nat, stop \in Nat : DeallocatesTo(h, p, start, stop)
  BY DeallocateLemma
<1>2. PICK e : e = End(used, p)
  OBVIOUS
<1>3. Freed(h, p, start, stop, e)
  BY <1>1, <1>2, BlocksAfterDeallocate
<1>4. /\ DOMAIN used' = DOMAIN used \ {p} /\ \A x \in DOMAIN used' : used'[x] = used[x]
      /\ DOMAIN list'[h] = (DOMAIN list[h] \ {e}) \cup {start}
      /\ list'[h][start] = stop - start
      /\ \A x \in DOMAIN list'[h] \ {start} : list'[h][x] = list[h][x]
      /\ \A i \in Slots \ {h} : list'[i] = list[i]
  BY <1>3 DEF Freed
<1>5. /\ p \in Blocks(h) /\ Len(h, p) = used[p] /\ p \in Nat /\ used[p] \in Nat
      /\ p \notin DOMAIN list[h] /\ e = p + used[p]
  BY <1>2, UsedBlockFacts
<1>6. dog' = Only(With(dog, e - 1, "free"), TagsOf(list', used'))
  BY <1>2 DEF Deallocate
<1>7. ASSUME NEW x, TagIs(x, "free") \/ x = e - 1, x \in TagsOf(list', used')
      PROVE  TagIs(x, "free")'
  BY <1>6, <1>7 DEF TagIs, Only, With
<1>8. ASSUME NEW x, TagIs(x, "use"), x # e - 1, x \in TagsOf(list', used')
      PROVE  TagIs(x, "use")'
  BY <1>6, <1>8 DEF TagIs, Only, With
<1>9. ASSUME NEW i \in Slots, NEW x \in DOMAIN list'[i]
      PROVE  TagIs(End(list[i], x) - 1, "free")'
  <2>1. End(list'[i], x) - 1 \in TagsOf(list', used')
    <3>1. End(list'[i], x) - 1 \in {End(list'[i], a) - 1 : a \in DOMAIN list'[i]}
      OBVIOUS
    <3>2. \E j \in Slots : End(list'[i], x) - 1 \in {End(list'[j], a) - 1 : a \in DOMAIN list'[j]}
      BY <3>1
    <3> QED
      BY <3>2 DEF TagsOf
  <2>2. TagIs(End(list'[i], x) - 1, "free") \/ End(list'[i], x) = e
    <3>1. CASE i = h /\ x = start
      <4>1. End(list'[h], start) = stop
        BY <1>4, <1>5 DEF End
      <4>2. stop = e \/ (e \in DOMAIN list[h] /\ stop = End(list[h], e))
        BY <1>1, <1>2 DEF DeallocatesTo
      <4>3. stop = e \/ TagIs(stop - 1, "free")
        BY <4>2 DEF TagsAgree
      <4> QED
        BY <3>1, <4>1, <4>3
    <3>2. CASE ~(i = h /\ x = start)
      <4>1. x \in DOMAIN list[i] /\ End(list'[i], x) = End(list[i], x)
        BY <1>4, <3>2 DEF End
      <4> QED
        BY <4>1 DEF TagsAgree
    <3> QED
      BY <3>1, <3>2
  <2>3. PICK f : f = End(list'[i], x) - 1
    OBVIOUS
  <2>4. TagIs(f, "free")'
    BY <1>7, <2>1, <2>2, <2>3
  <2> QED
    BY <2>3, <2>4
<1>10. ASSUME NEW q \in DOMAIN used'
       PROVE  TagIs(End(used, q) - 1, "use")'
  <2>1. End(used', q) - 1 \in TagsOf(list', used')
    BY Zenon DEF TagsOf
  <2>2. q \in DOMAIN used /\ q # p /\ End(used', q) = End(used, q)
    BY <1>4 DEF End
  <2>3. PICK i \in Slots : q \in Blocks(i) /\ Len(i, q) = used[q]
    BY <2>2, UsedBlock
  <2>4. PICK f : f = q + Len(i, q)
    OBVIOUS
  <2>5. f \in Nat /\ (f <= p \/ p + Len(h, p) < f)
    BY <1>5, <2>2, <2>3, <2>4, OtherEnds
  <2>6. p < e
    BY <1>3 DEF Freed
  <2>7. f - 1 # e - 1 /\ f = End(used', q) /\ f = End(used, q)
    BY <1>5, <2>2, <2>3, <2>4, <2>5, <2>6 DEF End
  <2>8. TagIs(f - 1, "use")
    BY <2>2, <2>7 DEF TagsAgree
  <2>9. TagIs(f - 1, "use")'
    BY <1>8, <2>1, <2>7, <2>8
  <2> QED
    BY <2>7, <2>9
<1> QED
  BY <1>9, <1>10 DEF TagsAgree

\* A step that only ends the use of blocks takes them back.
LEMMA TakesBack ==
  ASSUME NEW S, used' = Without(used, S)
  PROVE  Abstract!AllocNext
<1>1. DOMAIN used' = DOMAIN used \ S /\ used' = [x \in DOMAIN used' |-> used[x]]
  BY DEF Without
<1>2. DOMAIN used \ (DOMAIN used \ DOMAIN used') = DOMAIN used'
  BY <1>1
<1>3. used' = [x \in DOMAIN used \ (DOMAIN used \ DOMAIN used') |-> used[x]]
  BY <1>1, <1>2
<1>4. Abstract!TakeBack(DOMAIN used \ DOMAIN used')
  BY <1>3 DEF Abstract!TakeBack
<1> QED
  BY <1>4 DEF Abstract!AllocNext

-----------------------------------------------------------------------------
(* Heaps come and go.                                                      *)

\* What Create does: the area from p of n bytes becomes heap h with one free
\* block of room bytes at first, or is refused.
CreatesAt(h, p, n, first, room) ==
  /\ size[h] = 0 /\ Unowned(p, n) /\ p <= first /\ first + room <= p + n
  /\ first = AlignUp(p) /\ room = AlignDown(n - (first - p))
  /\ base' = [base EXCEPT ![h] = p]
  /\ \/ UNCHANGED <<size, list, dog>>
     \/ /\ 0 < room
        /\ size' = [size EXCEPT ![h] = n]
        /\ list' = [list EXCEPT ![h] = With(Empty, first, room)]
        /\ dog' = With(dog, first + room - 1, "free")
  /\ UNCHANGED used

LEMMA CreateLemma ==
  ASSUME Heaps, NEW p \in Nat, NEW n \in Nat, Align <= n, p + n + Align <= WordMod, Create(p, n)
  PROVE  \E h \in Slots, first \in Nat, room \in Nat : CreatesAt(h, p, n, first, room)
<1> DEFINE h == CHOOSE i \in FreeSlots : \A j \in FreeSlots : i <= j
           first == AlignUp(p)
           room == AlignDown((n - (first - p)) % WordMod)
<1>1. h \in Slots /\ size[h] = 0
  <2>1. FreeSlots \in SUBSET Nat /\ FreeSlots # {}
    BY SlotsAreNumbers DEF Create, FreeSlots
  <2>2. \E i \in FreeSlots : \A j \in FreeSlots : i <= j
    BY <2>1, Smallest
  <2>3. h \in FreeSlots
    BY <2>2
  <2> QED
    BY <2>3 DEF FreeSlots
<1>2. first \in Nat /\ p <= first /\ first < p + Align
  <2>1. p + Align <= WordMod
    OBVIOUS
  <2> QED
    BY <2>1, AlignLemma
<1>a. PICK left \in Nat : left = n - (first - p)
  BY <1>2
<1>b. left < WordMod
  BY <1>2, <1>a
<1>3. left % WordMod = left
  BY <1>b, WordLemma
<1>4. room = AlignDown(left) /\ room \in Nat /\ room <= left
  BY <1>3, <1>a, AlignLemma
<1>5. /\ Unowned(p, n) /\ base' = [base EXCEPT ![h] = p] /\ UNCHANGED used
      /\ \/ UNCHANGED <<size, list, dog>>
         \/ /\ room >= HeapMin
            /\ size' = [size EXCEPT ![h] = n]
            /\ list' = [list EXCEPT ![h] = With(Empty, first, room)]
            /\ dog' = With(dog, first + room - 1, "free")
  BY DEF Create
<1>6. first = AlignUp(p) /\ HeapMin \in Nat \ {0}
  BY DEF HeapMin
<1> HIDE DEF h, first, room
<1>7. CreatesAt(h, p, n, first, room)
  <2>1. first + room <= p + n
    BY <1>2, <1>4, <1>a
  <2>2. room >= HeapMin => 0 < room
    BY <1>4, <1>6
  <2> QED
    BY <1>1, <1>2, <1>4, <1>5, <1>6, <1>a, <2>1, <2>2 DEF CreatesAt
<1> QED
  BY <1>1, <1>2, <1>4, <1>7

\* What the blocks of the heaps are after a creation.
Created(h, p, n, first, room) ==
  /\ \A i \in Slots \ {h} : /\ base'[i] = base[i] /\ size'[i] = size[i] /\ list'[i] = list[i]
                            /\ First(i)' = First(i) /\ Limit(i)' = Limit(i)
  /\ \A i \in Slots : BlocksOf(i, used)' = BlocksOf(i, used)
  /\ BlocksOf(h, used) = {} /\ DOMAIN list[h] = {}
  /\ base'[h] = p
  /\ \/ size'[h] = 0 /\ list'[h] = list[h] /\ dog' = dog
     \/ /\ 0 < room /\ size'[h] = n /\ 0 < n /\ First(h)' = first /\ Limit(h)' = first + room
        /\ DOMAIN list'[h] = {first} /\ list'[h][first] = room
        /\ dog' = With(dog, first + room - 1, "free")
  /\ \A i \in Slots : \A q \in BlocksOf(i, used) :
       End(used, q) \in Nat /\ q < End(used, q) /\ (End(used, q) <= p \/ p + n <= q)

LEMMA BlocksAfterCreate ==
  ASSUME Heaps, NEW h \in Slots, NEW p \in Nat, NEW n \in Nat,
         NEW first \in Nat, NEW room \in Nat, CreatesAt(h, p, n, first, room)
  PROVE  Created(h, p, n, first, room)
<1>1. h \in DOMAIN base /\ h \in DOMAIN size /\ h \in DOMAIN list /\ DOMAIN base = Slots /\ DOMAIN size = Slots /\ DOMAIN list = Slots
  BY DEF Heaps, Shape
<1>2. /\ size[h] = 0 /\ Unowned(p, n) /\ p <= first /\ first + room <= p + n
      /\ first = AlignUp(p) /\ room = AlignDown(n - (first - p))
      /\ base' = [base EXCEPT ![h] = p] /\ used' = used
      /\ \/ UNCHANGED <<size, list, dog>>
         \/ /\ 0 < room
            /\ size' = [size EXCEPT ![h] = n]
            /\ list' = [list EXCEPT ![h] = With(Empty, first, room)]
            /\ dog' = With(dog, first + room - 1, "free")
  BY DEF CreatesAt
<1>0. p <= first /\ first + room <= p + n
  BY <1>2
<1>3. base'[h] = p /\ \A i \in Slots \ {h} : base'[i] = base[i] /\ size'[i] = size[i] /\ list'[i] = list[i]
  BY <1>1, <1>2
<1>4. \A i \in Slots \ {h} : First(i)' = First(i) /\ Limit(i)' = Limit(i)
  BY <1>3 DEF First, Limit
<1>5. BlocksOf(h, used) = {} /\ DOMAIN list[h] = {}
  BY <1>2 DEF BlocksOf, Heaps, Lists
<1>6. \/ size'[h] = 0 /\ list'[h] = list[h] /\ dog' = dog
      \/ /\ 0 < room /\ size'[h] = n /\ 0 < n /\ First(h)' = first /\ Limit(h)' = first + room
         /\ DOMAIN list'[h] = {first} /\ list'[h][first] = room
         /\ dog' = With(dog, first + room - 1, "free")
  <2>1. CASE UNCHANGED <<size, list, dog>>
    BY <1>2, <2>1
  <2>2. CASE /\ 0 < room
             /\ size' = [size EXCEPT ![h] = n]
             /\ list' = [list EXCEPT ![h] = With(Empty, first, room)]
             /\ dog' = With(dog, first + room - 1, "free")
    <3>0. 0 < n
      BY <1>0, <2>2
    <3>1. size'[h] = n /\ list'[h] = With(Empty, first, room) /\ 0 < n
      BY <1>1, <2>2, <3>0
    <3>2. First(h)' = first
      BY <1>2, <1>3 DEF First
    <3>3. Limit(h)' = first + room
      BY <1>2, <1>3, <3>1, <3>2 DEF Limit
    <3> QED
      BY <2>2, <3>1, <3>2, <3>3 DEF With, Empty
  <2> QED
    BY <1>2, <2>1, <2>2
<1>7. ASSUME NEW i \in Slots, NEW q \in BlocksOf(i, used)
      PROVE  q \in Nat /\ End(used, q) \in Nat /\ q < End(used, q) /\ (End(used, q) <= p \/ p + n <= q)
  <2>1. /\ size[i] > 0 /\ q \in Nat /\ used[q] \in Nat /\ 0 < used[q] /\ End(used, q) = q + used[q]
        /\ First(i) <= q /\ q + used[q] <= Limit(i) /\ First(i) \in Nat /\ Limit(i) \in Nat
    BY UsedBlockFacts
  <2>2. /\ base[i] \in Nat /\ size[i] \in Nat /\ base[i] <= First(i) /\ Limit(i) <= base[i] + size[i]
    BY <2>1 DEF Heaps, Geometry
  <2>3. size[i] = 0 \/ p + n <= base[i] \/ base[i] + size[i] <= p
    BY <1>2 DEF Unowned
  <2>4. CASE p + n <= base[i]
    BY SMTT(30), <2>1, <2>2, <2>4
  <2>5. CASE base[i] + size[i] <= p
    BY SMTT(30), <2>1, <2>2, <2>5
  <2> QED
    BY <2>1, <2>3, <2>4, <2>5
<1>8. BlocksOf(h, used)' = {}
  <2> SUFFICES ASSUME NEW q \in BlocksOf(h, used)' PROVE FALSE
    OBVIOUS
  <2>1. q \in DOMAIN used /\ First(h)' <= q /\ q < Limit(h)' /\ size'[h] > 0
    BY <1>2 DEF BlocksOf
  <2>2. PICK i \in Slots : q \in BlocksOf(i, used)
    BY <2>1 DEF Heaps, InUse
  <2>3. q \in Nat /\ End(used, q) \in Nat /\ q < End(used, q) /\ (End(used, q) <= p \/ p + n <= q)
    BY <1>7, <2>2
  <2>4. first <= q /\ q < first + room
    BY <1>6, <2>1
  <2> QED
    BY <1>0, <2>3, <2>4
<1>9. \A i \in Slots \ {h} : BlocksOf(i, used)' = BlocksOf(i, used)
  BY <1>2, <1>3, <1>4 DEF BlocksOf
<1> QED
  BY <1>3, <1>4, <1>5, <1>6, <1>7, <1>8, <1>9 DEF Created
LEMMA CreateKeepsHeaps ==
  ASSUME Heaps, NEW h \in Slots, NEW p \in Nat, NEW n \in Nat,
         NEW first \in Nat, NEW room \in Nat, CreatesAt(h, p, n, first, room)
  PROVE  Heaps'
<1>0. Created(h, p, n, first, room)
  BY BlocksAfterCreate
<1>1. /\ \A i \in Slots \ {h} : /\ base'[i] = base[i] /\ size'[i] = size[i] /\ list'[i] = list[i]
                                /\ First(i)' = First(i) /\ Limit(i)' = Limit(i)
      /\ \A i \in Slots : BlocksOf(i, used)' = BlocksOf(i, used)
      /\ BlocksOf(h, used) = {} /\ DOMAIN list[h] = {} /\ base'[h] = p
      /\ \/ size'[h] = 0 /\ list'[h] = list[h]
         \/ /\ 0 < room /\ size'[h] = n /\ 0 < n /\ First(h)' = first /\ Limit(h)' = first + room
            /\ DOMAIN list'[h] = {first} /\ list'[h][first] = room
  BY <1>0 DEF Created
<1>2. /\ p <= first /\ first + room <= p + n /\ UNCHANGED used /\ Unowned(p, n)
  BY DEF CreatesAt
<1>3. Shape'
  BY DEF CreatesAt, Heaps, Shape
<1>4. Geometry'
  <2> SUFFICES ASSUME NEW i \in Slots
               PROVE  /\ base'[i] \in Nat /\ size'[i] \in Nat
                      /\ size'[i] > 0 => /\ First(i)' \in Nat /\ Limit(i)' \in Nat
                                         /\ base'[i] <= First(i)' /\ First(i)' < Limit(i)'
                                         /\ Limit(i)' <= base'[i] + size'[i]
    BY DEF Geometry
  <2>1. CASE i # h
    BY <1>1, <2>1 DEF Heaps, Geometry
  <2>2. CASE i = h
    <3>1. CASE size'[h] = 0
      BY <1>1, <2>2, <3>1
    <3>2. CASE 0 < room /\ size'[h] = n /\ 0 < n /\ First(h)' = first /\ Limit(h)' = first + room
      BY <1>1, <1>2, <2>2, <3>2
    <3> QED
      BY <1>1, <3>1, <3>2
  <2> QED
    BY <2>1, <2>2
<1>5. Apart'
  <2> SUFFICES ASSUME NEW i \in Slots, NEW j \in Slots, i # j, size'[i] > 0, size'[j] > 0
               PROVE  base'[i] + size'[i] <= base'[j] \/ base'[j] + size'[j] <= base'[i]
    BY DEF Apart
  <2>1. CASE i # h /\ j # h
    BY <1>1, <2>1 DEF Heaps, Apart
  <2>2. CASE i = h
    <3>1. size'[h] = n /\ base'[h] = p /\ base'[j] = base[j] /\ size'[j] = size[j] /\ j # h
      BY <1>1, <2>2
    <3> QED
      BY <1>2, <2>2, <3>1 DEF Unowned
  <2>3. CASE j = h
    <3>1. size'[h] = n /\ base'[h] = p /\ base'[i] = base[i] /\ size'[i] = size[i] /\ i # h
      BY <1>1, <2>3
    <3> QED
      BY <1>2, <2>3, <3>1 DEF Unowned
  <2> QED
    BY <2>1, <2>2, <2>3
<1>6. Lists'
  <2> SUFFICES ASSUME NEW i \in Slots, NEW x \in DOMAIN list'[i]
               PROVE  size'[i] > 0 /\ First(i)' <= x /\ x < Limit(i)'
    BY DEF Lists
  <2>1. CASE i # h
    BY SMTT(30), <1>1, <2>1 DEF Heaps, Lists
  <2>2. CASE i = h
    BY <1>1, <2>2
  <2> QED
    BY <2>1, <2>2
<1>7. InUse'
  <2> SUFFICES ASSUME NEW q \in DOMAIN used'
               PROVE  /\ q \in Nat /\ used'[q] \in Nat /\ HeadSize < used'[q]
                      /\ \E i \in Slots : q \in BlocksOf(i, used)'
    BY DEF InUse
  <2>1. q \in DOMAIN used /\ used'[q] = used[q]
    BY <1>2
  <2>2. PICK i \in Slots : q \in BlocksOf(i, used)
    BY <2>1 DEF Heaps, InUse
  <2>3. q \in BlocksOf(i, used)'
    BY <1>1, <2>2
  <2> QED
    BY <2>1, <2>3 DEF Heaps, InUse
<1>8. Tiled'
  <2> SUFFICES ASSUME NEW i \in Slots, size'[i] > 0
               PROVE  /\ Tiles(Layout(i)', First(i)', Limit(i)')
                      /\ DOMAIN list'[i] \cap DOMAIN used' = {}
    BY DEF Tiled
  <2>0. DOMAIN Layout(i)' = Blocks(i)' /\ \A x \in Blocks(i)' : Layout(i)'[x] = Len(i, x)'
    BY DEF Layout
  <2>1. CASE i # h
    <3>1. size[i] > 0
      BY <1>1, <2>1
    <3>2. Tiles(Layout(i), First(i), Limit(i)) /\ DOMAIN list[i] \cap DOMAIN used = {}
      BY <3>1 DEF Heaps, Tiled
    <3>3. DOMAIN Layout(i) = Blocks(i) /\ \A x \in Blocks(i) : Layout(i)[x] = Len(i, x)
      BY DEF Layout
    <3>4. Blocks(i)' = Blocks(i) /\ \A x \in Blocks(i) : Len(i, x)' = Len(i, x)
      BY <1>1, <1>2, <2>1 DEF Blocks, Len
    <3>5. Tiles(Layout(i)', First(i), Limit(i))
      BY <2>0, <3>2, <3>3, <3>4, SameTiles
    <3> QED
      BY <1>1, <1>2, <2>1, <3>2, <3>5
  <2>2. CASE i = h
    <3>1. /\ 0 < room /\ First(h)' = first /\ Limit(h)' = first + room
          /\ DOMAIN list'[h] = {first} /\ list'[h][first] = room
      BY <1>1, <2>2
    <3>2. Blocks(h)' = {first} /\ Len(h, first)' = room
      BY <1>1, <3>1 DEF Blocks, Len
    <3>3. PICK k, hi : k = Layout(h)' /\ hi = first + room
      OBVIOUS
    <3>4. DOMAIN k = {first} /\ k[first] = room
      BY <2>0, <2>2, <3>2, <3>3
    <3>5. Tiles(k, first, hi)
      BY <3>1, <3>3, <3>4 DEF Tiles
    <3>6. first \notin DOMAIN used'
      <4> SUFFICES ASSUME first \in DOMAIN used PROVE FALSE
        BY <1>2
      <4>1. PICK j \in Slots : first \in BlocksOf(j, used)
        BY DEF Heaps, InUse
      <4>2. End(used, first) \in Nat /\ first < End(used, first) /\ (End(used, first) <= p \/ p + n <= first)
        BY <1>0, <4>1 DEF Created
      <4> QED
        BY <1>2, <3>1, <4>2
    <3> QED
      BY <2>2, <3>1, <3>3, <3>5, <3>6
  <2> QED
    BY <2>1, <2>2
<1> QED
  BY <1>3, <1>4, <1>5, <1>6, <1>7, <1>8 DEF Heaps

LEMMA CreateKeepsOthers ==
  ASSUME Heaps, FullyCoalesced, TagsAgree, NEW h \in Slots, NEW p \in Nat, NEW n \in Nat,
         NEW first \in Nat, NEW room \in Nat, CreatesAt(h, p, n, first, room)
  PROVE  FullyCoalesced' /\ TagsAgree'
<1>0. Created(h, p, n, first, room)
  BY BlocksAfterCreate
<1>1. /\ \A i \in Slots \ {h} : list'[i] = list[i]
      /\ DOMAIN list[h] = {}
      /\ \/ list'[h] = list[h] /\ dog' = dog
         \/ /\ 0 < room /\ DOMAIN list'[h] = {first} /\ list'[h][first] = room
            /\ dog' = With(dog, first + room - 1, "free")
  BY <1>0 DEF Created
<1>2. p <= first /\ first + room <= p + n /\ used' = used
  BY DEF CreatesAt
<1>3. FullyCoalesced'
  <2> SUFFICES ASSUME NEW i \in Slots, NEW x \in DOMAIN list'[i], NEW y \in DOMAIN list'[i]
               PROVE  End(list'[i], x) # y
    BY DEF FullyCoalesced
  <2>1. CASE list'[i] = list[i]
    BY <2>1 DEF FullyCoalesced
  <2>2. CASE i = h /\ 0 < room /\ DOMAIN list'[h] = {first} /\ list'[h][first] = room
    <3>1. End(list'[h], first) = first + room
      BY <2>2 DEF End
    <3> QED
      BY <2>2, <3>1
  <2> QED
    BY <1>1, <2>1, <2>2
<1>4. ASSUME NEW x, TagIs(x, "free") PROVE TagIs(x, "free")'
  BY <1>1, <1>4 DEF TagIs, With
<1>5. ASSUME NEW x, TagIs(x, "use"), dog' = dog \/ x # first + room - 1 PROVE TagIs(x, "use")'
  BY <1>1, <1>5 DEF TagIs, With
<1>6. ASSUME NEW i \in Slots, NEW x \in DOMAIN list'[i]
      PROVE  TagIs(End(list[i], x) - 1, "free")'
  <2>1. CASE list'[i] = list[i]
    <3>1. PICK f : f = End(list[i], x) - 1
      OBVIOUS
    <3>2. TagIs(f, "free")
      BY <2>1, <3>1 DEF TagsAgree
    <3>3. TagIs(f, "free")' /\ f = End(list'[i], x) - 1
      BY <1>4, <2>1, <3>1, <3>2
    <3> QED
      BY <3>3
  <2>2. CASE /\ i = h /\ 0 < room /\ DOMAIN list'[h] = {first} /\ list'[h][first] = room
             /\ dog' = With(dog, first + room - 1, "free")
    <3>1. x = first /\ End(list'[i], x) = first + room
      BY <2>2 DEF End
    <3>2. TagIs(first + room - 1, "free")'
      BY <2>2, TagWritten
    <3> QED
      BY <3>1, <3>2
  <2> QED
    BY <1>1, <2>1, <2>2
<1>7. ASSUME NEW q \in DOMAIN used'
      PROVE  TagIs(End(used, q) - 1, "use")'
  <2>1. q \in DOMAIN used /\ End(used', q) = End(used, q)
    BY <1>2
  <2>2. PICK i \in Slots : q \in BlocksOf(i, used)
    BY <2>1 DEF Heaps, InUse
  <2>3. q \in Nat /\ End(used, q) \in Nat /\ q < End(used, q) /\ (End(used, q) <= p \/ p + n <= q)
    BY <1>0, <2>2, UsedBlockFacts DEF Created
  <2>4. PICK f : f = End(used, q) - 1
    OBVIOUS
  <2>5. TagIs(f, "use")
    BY <2>1, <2>4 DEF TagsAgree
  <2>6. dog' = dog \/ (dog' = With(dog, first + room - 1, "free") /\ 0 < room)
    BY <1>1
  <2>7. dog' = dog \/ f # first + room - 1
    BY <1>2, <2>3, <2>4, <2>6
  <2>8. TagIs(f, "use")' /\ f = End(used', q) - 1
    BY <1>5, <2>1, <2>4, <2>5, <2>7
  <2> QED
    BY <2>8
<1> QED
  BY <1>3, <1>6, <1>7 DEF TagsAgree

\* What the blocks of the heaps are after a deletion.
Deleted(h) ==
  /\ base'[h] = 0 /\ size'[h] = 0 /\ DOMAIN list'[h] = {}
  /\ \A i \in Slots \ {h} : /\ base'[i] = base[i] /\ size'[i] = size[i] /\ list'[i] = list[i]
                            /\ First(i)' = First(i) /\ Limit(i)' = Limit(i)
                            /\ BlocksOf(i, used)' = BlocksOf(i, used)
  /\ BlocksOf(h, used)' = {}
  /\ DOMAIN used' = DOMAIN used \ BlocksOf(h, used)
  /\ \A q \in DOMAIN used' : used'[q] = used[q]

LEMMA BlocksAfterDelete ==
  ASSUME Heaps, NEW h \in Slots, Delete(h)
  PROVE  Deleted(h)
<1>1. h \in DOMAIN base /\ h \in DOMAIN size /\ h \in DOMAIN list
  BY DEF Heaps, Shape
<1>2. /\ used' = Without(used, BlocksOf(h, used))
      /\ base' = [base EXCEPT ![h] = 0] /\ size' = [size EXCEPT ![h] = 0]
      /\ list' = [list EXCEPT ![h] = Empty]
  BY DEF Delete
<1>3. base'[h] = 0 /\ size'[h] = 0 /\ list'[h] = Empty
  BY <1>1, <1>2
<1>a. DOMAIN base = Slots /\ DOMAIN size = Slots /\ DOMAIN list = Slots
  BY DEF Heaps, Shape
<1>4. \A i \in Slots \ {h} : base'[i] = base[i] /\ size'[i] = size[i] /\ list'[i] = list[i]
  BY <1>2, <1>a
<1>5. \A i \in Slots \ {h} : First(i)' = First(i) /\ Limit(i)' = Limit(i)
  BY <1>4 DEF First, Limit
<1>6. /\ DOMAIN used' = DOMAIN used \ BlocksOf(h, used)
      /\ \A q \in DOMAIN used' : used'[q] = used[q]
  BY <1>2 DEF Without
<1>7. ASSUME NEW i \in Slots \ {h} PROVE BlocksOf(i, used)' = BlocksOf(i, used)
  <2>1. BlocksOf(i, used) \cap BlocksOf(h, used) = {}
    <3> SUFFICES ASSUME NEW q \in BlocksOf(i, used), q \in BlocksOf(h, used) PROVE FALSE
      OBVIOUS
    <3>1. q \in Blocks(i) /\ q \in Blocks(h)
      BY DEF Blocks
    <3> QED
      BY <3>1, OneHeap
  <2> QED
    BY <1>4, <1>5, <1>6, <2>1 DEF BlocksOf
<1>8. BlocksOf(h, used)' = {}
  BY <1>3 DEF BlocksOf
<1> QED
  BY <1>3, <1>4, <1>5, <1>6, <1>7, <1>8 DEF Deleted, Empty

LEMMA DeleteKeepsHeaps ==
  ASSUME Heaps, NEW h \in Slots, Delete(h)
  PROVE  Heaps'
<1>1. /\ base'[h] = 0 /\ size'[h] = 0 /\ DOMAIN list'[h] = {}
      /\ \A i \in Slots \ {h} : /\ base'[i] = base[i] /\ size'[i] = size[i] /\ list'[i] = list[i]
                                /\ First(i)' = First(i) /\ Limit(i)' = Limit(i)
                                /\ BlocksOf(i, used)' = BlocksOf(i, used)
      /\ DOMAIN used' = DOMAIN used \ BlocksOf(h, used)
      /\ \A q \in DOMAIN used' : used'[q] = used[q]
  BY BlocksAfterDelete DEF Deleted
<1>2. Shape'
  BY DEF Delete, Heaps, Shape
<1>a. Geometry'
  <2> SUFFICES ASSUME NEW i \in Slots
               PROVE  /\ base'[i] \in Nat /\ size'[i] \in Nat
                      /\ size'[i] > 0 => /\ First(i)' \in Nat /\ Limit(i)' \in Nat
                                         /\ base'[i] <= First(i)' /\ First(i)' < Limit(i)'
                                         /\ Limit(i)' <= base'[i] + size'[i]
    BY DEF Geometry
  <2>1. CASE i = h
    BY <1>1, <2>1
  <2>2. CASE i # h
    BY <1>1, <2>2 DEF Heaps, Geometry
  <2> QED
    BY <2>1, <2>2
<1>b. Apart'
  <2> SUFFICES ASSUME NEW i \in Slots, NEW j \in Slots, i # j, size'[i] > 0, size'[j] > 0
               PROVE  base'[i] + size'[i] <= base'[j] \/ base'[j] + size'[j] <= base'[i]
    BY DEF Apart
  <2>1. i # h /\ j # h
    BY <1>1
  <2> QED
    BY <1>1, <2>1 DEF Heaps, Apart
<1>c. Lists'
  <2> SUFFICES ASSUME NEW i \in Slots, NEW x \in DOMAIN list'[i]
               PROVE  size'[i] > 0 /\ First(i)' <= x /\ x < Limit(i)'
    BY DEF Lists
  <2>1. i # h
    BY <1>1
  <2> QED
    BY <1>1, <2>1 DEF Heaps, Lists
<1>3. Geometry' /\ Apart' /\ Lists'
  BY <1>a, <1>b, <1>c
<1>4. InUse'
  <2> SUFFICES ASSUME NEW q \in DOMAIN used'
               PROVE  /\ q \in Nat /\ used'[q] \in Nat /\ HeadSize < used'[q]
                      /\ \E i \in Slots : q \in BlocksOf(i, used)'
    BY DEF InUse
  <2>1. q \in DOMAIN used /\ q \notin BlocksOf(h, used) /\ used'[q] = used[q]
    BY <1>1
  <2>2. PICK i \in Slots : q \in BlocksOf(i, used)
    BY <2>1 DEF Heaps, InUse
  <2>3. q \in BlocksOf(i, used)'
    BY <1>1, <2>1, <2>2
  <2> QED
    BY <2>1, <2>3 DEF Heaps, InUse
<1>5. Tiled'
  <2> SUFFICES ASSUME NEW i \in Slots, size'[i] > 0
               PROVE  /\ Tiles(Layout(i)', First(i)', Limit(i)')
                      /\ DOMAIN list'[i] \cap DOMAIN used' = {}
    BY DEF Tiled
  <2>1. i # h
    BY <1>1
  <2>2. Tiles(Layout(i), First(i), Limit(i)) /\ DOMAIN list[i] \cap DOMAIN used = {}
    BY <1>1, <2>1 DEF Heaps, Tiled
  <2>3. /\ DOMAIN Layout(i) = Blocks(i) /\ \A x \in Blocks(i) : Layout(i)[x] = Len(i, x)
        /\ DOMAIN Layout(i)' = Blocks(i)' /\ \A x \in Blocks(i)' : Layout(i)'[x] = Len(i, x)'
    BY DEF Layout
  <2>4. Blocks(i)' = Blocks(i)
    BY <1>1, <2>1 DEF Blocks
  <2>5. ASSUME NEW x \in Blocks(i) PROVE Len(i, x)' = Len(i, x)
    <3>1. list'[i] = list[i]
      BY <1>1, <2>1
    <3>2. x \in DOMAIN list[i] \/ x \in BlocksOf(i, used)'
      BY <1>1, <2>1 DEF Blocks
    <3>3. x \in DOMAIN list[i] \/ x \in DOMAIN used'
      BY <3>2 DEF BlocksOf
    <3> QED
      BY <1>1, <3>1, <3>3 DEF Len
  <2>6. Tiles(Layout(i)', First(i), Limit(i))
    BY <2>2, <2>3, <2>4, <2>5, SameTiles
  <2> QED
    BY <1>1, <2>1, <2>2, <2>6
<1> QED
  BY <1>2, <1>3, <1>4, <1>5 DEF Heaps

LEMMA DeleteKeepsOthers ==
  ASSUME Heaps, FullyCoalesced, TagsAgree, NEW h \in Slots, Delete(h)
  PROVE  FullyCoalesced' /\ TagsAgree'
<1>1. /\ DOMAIN list'[h] = {} /\ \A i \in Slots \ {h} : list'[i] = list[i]
      /\ DOMAIN used' = DOMAIN used \ BlocksOf(h, used)
      /\ \A q \in DOMAIN used' : used'[q] = used[q]
  BY BlocksAfterDelete DEF Deleted
<1>2. dog' = Only(dog, TagsOf(list', used'))
  BY DEF Delete
<1>3. ASSUME NEW x, NEW v, TagIs(x, v), x \in TagsOf(list', used') PROVE TagIs(x, v)'
  BY <1>2, <1>3 DEF TagIs, Only
<1>4. FullyCoalesced'
  <2> SUFFICES ASSUME NEW i \in Slots, NEW x \in DOMAIN list'[i], NEW y \in DOMAIN list'[i]
               PROVE  End(list'[i], x) # y
    BY DEF FullyCoalesced
  <2> QED
    BY <1>1 DEF FullyCoalesced
<1>5. ASSUME NEW i \in Slots, NEW x \in DOMAIN list'[i]
      PROVE  TagIs(End(list[i], x) - 1, "free")'
  <2>1. End(list'[i], x) - 1 \in TagsOf(list', used')
    <3>1. End(list'[i], x) - 1 \in {End(list'[i], a) - 1 : a \in DOMAIN list'[i]}
      OBVIOUS
    <3>2. \E j \in Slots : End(list'[i], x) - 1 \in {End(list'[j], a) - 1 : a \in DOMAIN list'[j]}
      BY <3>1
    <3> QED
      BY <3>2 DEF TagsOf
  <2>2. PICK f : f = End(list'[i], x) - 1
    OBVIOUS
  <2>3. f = End(list[i], x) - 1 /\ x \in DOMAIN list[i]
    BY <1>1, <2>2
  <2>4. TagIs(f, "free")
    BY <2>3 DEF TagsAgree
  <2>5. TagIs(f, "free")'
    BY <1>3, <2>1, <2>2, <2>4
  <2> QED
    BY <2>2, <2>5
<1>6. ASSUME NEW q \in DOMAIN used'
      PROVE  TagIs(End(used, q) - 1, "use")'
  <2>1. End(used', q) - 1 \in TagsOf(list', used')
    BY Zenon DEF TagsOf
  <2>2. PICK f : f = End(used', q) - 1
    OBVIOUS
  <2>3. f = End(used, q) - 1 /\ q \in DOMAIN used
    BY <1>1, <2>2 DEF End
  <2>4. TagIs(f, "use")
    BY <2>3 DEF TagsAgree
  <2>5. TagIs(f, "use")'
    BY <1>3, <2>1, <2>2, <2>4
  <2> QED
    BY <2>2, <2>5
<1> QED
  BY <1>4, <1>5, <1>6 DEF TagsAgree

-----------------------------------------------------------------------------
(* Every operation keeps the heaps in order.                               *)

\* What a step leaves in order, when only blocks of S may end their use.
Kept(S) ==
  /\ Heaps' /\ FullyCoalesced' /\ TagsAgree'
  /\ DOMAIN used \ S \subseteq DOMAIN used'
  /\ \A i \in Slots : BlocksOf(i, used) \cap DOMAIN used' \subseteq BlocksOf(i, used)'
  /\ [Abstract!AllocNext]_used

LEMMA NothingKept ==
  ASSUME Heaps, FullyCoalesced, TagsAgree, UNCHANGED <<base, size, list, used, dog>>
  PROVE  Kept({})
<1>1. \A i : First(i)' = First(i) /\ Limit(i)' = Limit(i) /\ BlocksOf(i, used)' = BlocksOf(i, used)
  BY DEF First, Limit, BlocksOf
<1>2. \A i : Blocks(i)' = Blocks(i) /\ Layout(i)' = Layout(i)
  BY <1>1 DEF Blocks, Layout, Len
<1>3. Shape' /\ Geometry' /\ Apart' /\ Lists' /\ InUse' /\ Tiled'
  BY <1>1, <1>2 DEF Heaps, Shape, Geometry, Apart, Lists, InUse, Tiled
<1>4. FullyCoalesced'
  BY DEF FullyCoalesced
<1>5. TagsAgree'
  BY DEF TagsAgree, TagIs
<1> QED
  BY <1>1, <1>3, <1>4, <1>5 DEF Kept, Heaps

LEMMA CreateKeeps ==
  ASSUME Heaps, FullyCoalesced, TagsAgree, NEW r \in Areas, Create(r[1], r[2])
  PROVE  Kept({})
<1>1. r[1] \in Nat /\ r[2] \in Nat /\ Align <= r[2] /\ r[1] + r[2] + Align <= WordMod
  OBVIOUS
<1>2. PICK h \in Slots, first \in Nat, room \in Nat : CreatesAt(h, r[1], r[2], first, room)
  BY <1>1, CreateLemma
<1>3. Heaps'
  BY <1>1, <1>2, CreateKeepsHeaps
<1>4. FullyCoalesced' /\ TagsAgree'
  BY <1>1, <1>2, CreateKeepsOthers
<1>5. \A i \in Slots : BlocksOf(i, used)' = BlocksOf(i, used)
  <2>1. Created(h, r[1], r[2], first, room)
    BY <1>1, <1>2, BlocksAfterCreate
  <2> QED
    BY <2>1 DEF Created
<1>6. used' = used
  BY DEF Create
<1> QED
  BY <1>3, <1>4, <1>5, <1>6 DEF Kept

LEMMA DeleteKeeps ==
  ASSUME Heaps, FullyCoalesced, TagsAgree, NEW h \in Slots, Delete(h)
  PROVE  Kept(BlocksOf(h, used))
<1>1. Heaps'
  BY DeleteKeepsHeaps
<1>2. FullyCoalesced' /\ TagsAgree'
  BY DeleteKeepsOthers
<1>3. /\ DOMAIN used' = DOMAIN used \ BlocksOf(h, used)
      /\ \A i \in Slots \ {h} : BlocksOf(i, used)' = BlocksOf(i, used)
  BY BlocksAfterDelete DEF Deleted
<1>4. Abstract!AllocNext
  <2>1. used' = Without(used, BlocksOf(h, used))
    BY DEF Delete
  <2>2. PICK S : S = BlocksOf(h, used)
    OBVIOUS
  <2> QED
    BY <2>1, <2>2, TakesBack
<1> QED
  BY <1>1, <1>2, <1>3, <1>4 DEF Kept

LEMMA AllocateKeeps ==
  ASSUME Heaps, FullyCoalesced, TagsAgree,
         NEW h \in Slots, NEW n \in Requests, NEW rec, Allocate(h, n, rec)
  PROVE  Kept({})
<1>1. PICK a \in DOMAIN list[h], c \in Nat, s \in Nat : AllocatesAt(h, a, c, s)
  BY AllocateLemma
<1>2. Heaps'
  BY <1>1, AllocateKeepsHeaps
<1>3. FullyCoalesced'
  BY <1>1, AllocateKeepsCoalesced
<1>4. TagsAgree'
  BY <1>1, AllocateKeepsTags
<1>5. Abstract!AllocNext
  BY <1>1, AllocateHandsOut
<1>6. /\ \A i \in Slots \ {h} : BlocksOf(i, used)' = BlocksOf(i, used)
      /\ BlocksOf(h, used)' = BlocksOf(h, used) \cup {c}
  BY <1>1, BlocksAfterAllocate
<1>7. DOMAIN used' = DOMAIN used \cup {c}
  BY <1>1 DEF AllocatesAt, With
<1> QED
  BY <1>2, <1>3, <1>4, <1>5, <1>6, <1>7 DEF Kept

LEMMA DeallocateKeeps ==
  ASSUME Heaps, FullyCoalesced, TagsAgree,
         NEW h \in Slots, NEW p \in BlocksOf(h, used), Deallocate(h, p)
  PROVE  Kept({p})
<1>1. PICK start \in Nat, stop \in Nat : DeallocatesTo(h, p, start, stop)
  BY DeallocateLemma
<1>2. PICK e : e = End(used, p)
  OBVIOUS
<1>3. Freed(h, p, start, stop, e)
  BY <1>1, <1>2, BlocksAfterDeallocate
<1>4. Heaps'
  BY DeallocateKeepsHeaps
<1>5. FullyCoalesced'
  BY DeallocateKeepsCoalesced
<1>6. TagsAgree'
  BY DeallocateKeepsTags
<1>7. Abstract!AllocNext
  <2>1. used' = Without(used, {p})
    BY DEF Deallocate
  <2> QED
    BY <2>1, TakesBack
<1> QED
  BY <1>3, <1>4, <1>5, <1>6, <1>7 DEF Kept, Freed

\* The pointer of a block lies in the area of the block's heap, and in that
\* of no other.
LEMMA PointerLemma ==
  ASSUME Heaps, NEW p \in DOMAIN used, NEW h \in Slots
  PROVE  InHeap(h, Pointer(p)) <=> p \in BlocksOf(h, used)
<1>1. PICK i \in Slots : p \in BlocksOf(i, used)
  BY DEF Heaps, InUse
<1>2. /\ size[i] > 0 /\ p \in Nat /\ used[p] \in Nat /\ HeadSize < used[p]
      /\ First(i) <= p /\ p + used[p] <= Limit(i)
      /\ First(i) \in Nat /\ Limit(i) \in Nat
  BY <1>1, UsedBlockFacts DEF Heaps, InUse
<1>3. /\ base[i] \in Nat /\ size[i] \in Nat /\ base[i] <= First(i) /\ Limit(i) <= base[i] + size[i]
  BY <1>2 DEF Heaps, Geometry
<1>4. PICK q : q = Pointer(p)
  OBVIOUS
<1>5. q \in Nat /\ base[i] < q /\ q < base[i] + size[i]
  BY <1>2, <1>3, <1>4 DEF Pointer
<1>6. InHeap(i, q)
  BY <1>2, <1>5 DEF InHeap
<1>7. ASSUME InHeap(h, q) PROVE h = i
  <2> SUFFICES ASSUME h # i PROVE FALSE
    OBVIOUS
  <2>1. size[h] > 0 /\ base[h] < q /\ q < base[h] + size[h] /\ base[h] \in Nat /\ size[h] \in Nat
    BY <1>7 DEF InHeap, Heaps, Geometry
  <2>2. base[h] + size[h] <= base[i] \/ base[i] + size[i] <= base[h]
    BY <1>2, <2>1 DEF Heaps, Apart
  <2> QED
    BY <1>3, <1>5, <2>1, <2>2
<1>8. ASSUME p \in BlocksOf(h, used) PROVE h = i
  BY <1>1, <1>8, OneHeap DEF Blocks
<1> QED
  BY <1>1, <1>4, <1>6, <1>7, <1>8

\* The handles with which p may be freed.
Finds(f, p) == f = 0 \/ (f \in Slots /\ p \in BlocksOf(f, used))

\* A free reaches the heap of its block, or gives up because a slot in front of
\* that heap is empty.
LEMMA ReleaseLemma ==
  ASSUME Heaps, NEW p \in DOMAIN used, NEW f, Finds(f, p), Release(f, p)
  PROVE  \/ /\ lost' = lost \cup {p} /\ UNCHANGED <<base, size, list, used, dog, free, watermark>>
            /\ \E h, i \in Slots : i < h /\ p \in BlocksOf(h, used) /\ size[i] = 0
         \/ lost' = lost /\ \E h \in Slots : p \in BlocksOf(h, used) /\ Deallocate(h, p)
<1>1. PICK h \in Slots : p \in BlocksOf(h, used)
  BY DEF Heaps, InUse
<1>2. \A i \in Slots : InHeap(i, Pointer(p)) <=> i = h
  <2>1. ASSUME NEW i \in Slots, p \in BlocksOf(i, used) PROVE i = h
    BY <1>1, <2>1, OneHeap DEF Blocks
  <2> QED
    BY <1>1, <2>1, PointerLemma
<1>3. f \in Slots => f = h
  <2>1. 0 \notin Slots
    BY SlotsAreNumbers
  <2>2. ASSUME f \in Slots PROVE p \in BlocksOf(f, used)
    BY <2>1, <2>2 DEF Finds
  <2> QED
    BY <1>1, <2>2, OneHeap DEF Blocks
<1>4. Searched(f, p) \subseteq {h}
  BY <1>2, <1>3 DEF Searched
<1>5. CASE Searched(f, p) = {}
  <2>1. lost' = lost \cup {p} /\ UNCHANGED <<base, size, list, used, dog, free, watermark>>
    BY <1>5 DEF Release, heapVars
  <2>2. f \notin Slots
    BY <1>5 DEF Searched
  <2>3. ~(\A i \in 1..(h - 1) : size[i] > 0)
    BY <1>2, <1>5, <2>2 DEF Searched
  <2>4. PICK i \in 1..(h - 1) : ~(size[i] > 0)
    BY <2>3
  <2>5. i \in Slots /\ i < h
    <3>1. h \in Nat \ {0} /\ 1..h \subseteq Slots
      BY SlotsAreNumbers
    <3> QED
      BY <3>1
  <2>6. size[i] = 0
    BY <2>4, <2>5 DEF Heaps, Geometry
  <2> QED
    BY <1>1, <2>1, <2>5, <2>6
<1>6. CASE Searched(f, p) # {}
  <2>1. Searched(f, p) = {h}
    BY <1>4, <1>6
  <2>2. h \in Int
    BY SlotsAreNumbers
  <2>3. Lowest({h}) = h
    <3>1. {h} \in SUBSET Int /\ h \in {h} /\ \A b \in {h} : h <= b
      BY <2>2
    <3> QED
      BY <3>1, LowestLemma
  <2> QED
    BY <1>1, <1>6, <2>1, <2>3 DEF Release
<1> QED
  BY <1>5, <1>6

LEMMA ReleaseKeeps ==
  ASSUME Heaps, FullyCoalesced, TagsAgree, NEW p \in DOMAIN used, NEW f, Finds(f, p), Release(f, p)
  PROVE  Kept({p})
<1>1. CASE UNCHANGED <<base, size, list, used, dog>>
  <2>1. Kept({})
    BY <1>1, NothingKept
  <2> QED
    BY <2>1 DEF Kept
<1>2. CASE \E h \in Slots : p \in BlocksOf(h, used) /\ Deallocate(h, p)
  BY <1>2, DeallocateKeeps
<1> QED
  BY <1>1, <1>2, ReleaseLemma

\* The lengths the debug calls ask for are requests.
LEMMA DebugLenLemma ==
  ASSUME NEW n \in DebugSizes
  PROVE  DebugLen(n) \in Requests
<1>1. n \in Nat /\ WordMod \in Nat \ {0}
  OBVIOUS
<1>2. AlignUp(n) \in Nat
  BY <1>1, AlignLemma
<1>3. AlignUp(n) + LeakSize \in Nat
  BY <1>2
<1> QED
  BY <1>3, WordLemma DEF DebugLen, Requests

LEMMA SizesAreRequests ==
  ASSUME NEW n \in Sizes
  PROVE  n \in Requests
  BY DEF Requests

\* Moves stays true of the reallocations that were under way.
LEMMA MovesStay ==
  ASSUME Moves, NEW S, Kept(S),
         moving' \subseteq moving, \A m \in moving' : m[1] \notin S
  PROVE  Moves'
<1>1. \A m \in moving' : m[1] \in DOMAIN used'
  BY DEF Kept, Moves
<1>2. ASSUME NEW m \in moving', m[2] \in Slots, m[1] \in BlocksOf(m[2], used)
      PROVE  m[1] \in BlocksOf(m[2], used)'
  BY <1>1, <1>2 DEF Kept
<1> QED
  BY <1>1, <1>2 DEF Moves

LEMMA MovesGrow ==
  ASSUME Moves, Kept({}), NEW p \in DOMAIN used, NEW f \in Handles(p),
         \A m \in moving : m[1] # p,
         moving' = moving \cup {<<p, f>>}
  PROVE  Moves'
<1>1. ASSUME NEW m \in moving'
      PROVE  /\ m = <<m[1], m[2]>> /\ m[1] \in DOMAIN used
             /\ m[2] = 0 \/ (m[2] \in Slots /\ m[1] \in BlocksOf(m[2], used))
             /\ \A k \in moving' : k[1] = m[1] => k = m
  <2>1. CASE m = <<p, f>>
    BY <2>1 DEF Handles, Moves
  <2>2. CASE m \in moving
    BY <2>2 DEF Moves
  <2> QED
    BY <2>1, <2>2
<1>2. \A m \in moving' : m[1] \in DOMAIN used'
  BY <1>1 DEF Kept
<1>3. ASSUME NEW m \in moving', m[2] \in Slots, m[1] \in BlocksOf(m[2], used)
      PROVE  m[1] \in BlocksOf(m[2], used)'
  BY <1>2, <1>3 DEF Kept
<1> QED
  BY <1>1, <1>2, <1>3 DEF Moves

\* A handle of an owner finds the block.
LEMMA HandlesFind ==
  ASSUME NEW p \in Owned, NEW f \in Handles(p)
  PROVE  p \in DOMAIN used /\ Finds(f, p) /\ \A m \in moving : m[1] # p
  BY DEF Owned, Handles, Finds

-----------------------------------------------------------------------------
(* The invariant.                                                          *)

LEMMA InitIInv ==
  ASSUME Init
  PROVE  IInv
<1>1. /\ base = [h \in Slots |-> 0] /\ size = [h \in Slots |-> 0]
      /\ list = [h \in Slots |-> Empty] /\ DOMAIN used = {} /\ moving = {}
      /\ \A h \in Slots : DOMAIN list[h] = {} /\ size[h] = 0
  BY DEF Init, Empty
<1>2. Shape /\ Geometry /\ Apart /\ Lists /\ InUse /\ Tiled
  BY <1>1 DEF Shape, Geometry, Apart, Lists, InUse, Tiled
<1>3. FullyCoalesced /\ TagsAgree /\ Moves
  BY <1>1 DEF FullyCoalesced, TagsAgree, Moves
<1> QED
  BY <1>2, <1>3 DEF IInv, Heaps

\* What a step of the allocator does: it keeps all the heaps in order, and a
\* block is lost only behind an empty slot.
Good ==
  /\ \E S : Kept(S)
  /\ Moves'
  /\ \A p \in lost' \ lost : \E h, i \in Slots :
       i < h /\ p \in BlocksOf(h, used) /\ size[i] = 0

LEMMA AllocateIsGood ==
  ASSUME IInv, NEW h \in Slots, NEW n \in Requests, NEW rec, Allocate(h, n, rec), lost' = lost,
         \/ moving' = moving
         \/ \E p \in Owned : \E f \in Handles(p) : moving' = moving \cup {<<p, f>>}
  PROVE  Good
<1>1. Kept({})
  BY AllocateKeeps DEF IInv
<1>2. CASE moving' = moving
  <2>1. Moves'
    BY <1>1, <1>2, MovesStay DEF IInv
  <2> QED
    BY <1>1, <2>1 DEF Good
<1>3. CASE \E p \in Owned : \E f \in Handles(p) : moving' = moving \cup {<<p, f>>}
  <2>p. PICK p \in Owned : \E f \in Handles(p) : moving' = moving \cup {<<p, f>>}
    BY <1>3
  <2>1. PICK f \in Handles(p) : moving' = moving \cup {<<p, f>>}
    BY <2>p
  <2>2. p \in DOMAIN used /\ \A m \in moving : m[1] # p
    BY HandlesFind
  <2>3. Moves'
    BY <1>1, <2>1, <2>2, MovesGrow DEF IInv
  <2> QED
    BY <1>1, <2>3 DEF Good
<1> QED
  BY <1>2, <1>3

LEMMA ReleaseIsGood ==
  ASSUME IInv, NEW p \in DOMAIN used, NEW f, Finds(f, p), Release(f, p),
         moving' \subseteq moving, \A m \in moving' : m[1] # p
  PROVE  Good
<1>1. Kept({p})
  BY ReleaseKeeps DEF IInv
<1>2. Moves'
  BY <1>1, MovesStay DEF IInv
<1>3. \A q \in lost' \ lost : \E h, i \in Slots : i < h /\ q \in BlocksOf(h, used) /\ size[i] = 0
  BY ReleaseLemma DEF IInv
<1> QED
  BY <1>1, <1>2, <1>3 DEF Good

LEMMA StepIsGood ==
  ASSUME IInv, [Next]_vars
  PROVE  Good
<1>1. ASSUME NEW r \in Areas, Create(r[1], r[2]) PROVE Good
  <2>1. Kept({})
    BY <1>1, CreateKeeps DEF IInv
  <2>2. UNCHANGED <<moving, lost>>
    BY <1>1 DEF Create, ownerVars
  <2>3. Moves'
    BY <2>1, <2>2, MovesStay DEF IInv
  <2> QED
    BY <2>1, <2>2, <2>3 DEF Good
<1>2. ASSUME NEW h \in Slots, Delete(h) PROVE Good
  <2>1. PICK S : S = BlocksOf(h, used)
    OBVIOUS
  <2>2. Kept(S)
    BY <1>2, <2>1, DeleteKeeps DEF IInv
  <2>3. moving' = {m \in moving : m[1] \notin S} /\ lost' = lost \ S
    BY <1>2, <2>1 DEF Delete
  <2>4. Moves'
    BY <2>2, <2>3, MovesStay DEF IInv
  <2> QED
    BY <2>2, <2>3, <2>4 DEF Good
<1>3. ASSUME NEW n \in Sizes, NEW h \in Slots, Malloc(h, n) PROVE Good
  BY <1>3, SizesAreRequests, AllocateIsGood DEF Malloc, ownerVars
<1>4. ASSUME NEW n \in Sizes, MallocAny(n) PROVE Good
  BY <1>3, <1>4 DEF MallocAny
<1>5. ASSUME NEW n \in DebugSizes, NEW h \in Slots, DebugMalloc(h, n) PROVE Good
  BY <1>5, DebugLenLemma, AllocateIsGood DEF DebugMalloc, ownerVars
<1>6. ASSUME NEW n \in DebugSizes, DebugMallocAny(n) PROVE Good
  BY <1>5, <1>6 DEF DebugMallocAny
<1>7. ASSUME NEW p \in Owned, NEW f \in Handles(p), Free(f, p) PROVE Good
  <2>1. p \in DOMAIN used /\ Finds(f, p) /\ \A m \in moving : m[1] # p
    BY HandlesFind
  <2>2. Release(f, p) /\ moving' = moving
    BY <1>7 DEF Free
  <2> QED
    BY <2>1, <2>2, ReleaseIsGood
<1>8. ASSUME NEW p \in Owned, NEW f \in Handles(p), NEW n \in Sizes, ReallocMove(f, p, n) PROVE Good
  <2>1. PICK h \in Slots : Allocate(h, n, Request(n))
    BY <1>8 DEF ReallocMove
  <2>2. moving' = moving \cup {<<p, f>>} /\ lost' = lost
    BY <1>8 DEF ReallocMove
  <2> QED
    BY <2>1, <2>2, SizesAreRequests, AllocateIsGood
<1>9. ASSUME NEW p \in Owned, NEW f \in Handles(p), NEW n \in DebugSizes, DebugReallocMove(f, p, n) PROVE Good
  <2>1. PICK h \in Slots : Allocate(h, DebugLen(n), DebugRequest(n))
    BY <1>9 DEF DebugReallocMove
  <2>2. moving' = moving \cup {<<p, f>>} /\ lost' = lost
    BY <1>9 DEF DebugReallocMove
  <2> QED
    BY <2>1, <2>2, DebugLenLemma, AllocateIsGood
<1>10. ASSUME NEW p \in Owned, NEW n \in Sizes, ReallocKeep(p, n) PROVE Good
  <2>1. UNCHANGED <<base, size, list, used, dog, moving, lost>>
    BY <1>10 DEF ReallocKeep, heapVars, ownerVars
  <2>2. Kept({})
    BY <2>1, NothingKept DEF IInv
  <2>3. Moves'
    BY <2>1, <2>2, MovesStay DEF IInv
  <2> QED
    BY <2>1, <2>2, <2>3 DEF Good
<1>11. ASSUME NEW m \in moving, ReallocFree(m) PROVE Good
  <2>1. m[1] \in DOMAIN used /\ Finds(m[2], m[1])
    BY DEF IInv, Moves, Finds
  <2>2. Release(m[2], m[1]) /\ moving' = moving \ {m}
    BY <1>11 DEF ReallocFree
  <2>3. \A k \in moving' : k[1] # m[1]
    BY <2>2 DEF IInv, Moves
  <2>4. moving' \subseteq moving
    BY <2>2
  <2> QED
    BY <2>1, <2>2, <2>3, <2>4, ReleaseIsGood
<1>12. ASSUME UNCHANGED vars PROVE Good
  <2>1. UNCHANGED <<base, size, list, used, dog, moving, lost>>
    BY <1>12 DEF vars, heapVars, ownerVars
  <2>2. Kept({})
    BY <2>1, NothingKept DEF IInv
  <2>3. Moves'
    BY <2>1, <2>2, MovesStay DEF IInv
  <2> QED
    BY <2>1, <2>2, <2>3 DEF Good
<1> QED
  BY <1>1, <1>2, <1>3, <1>4, <1>5, <1>6, <1>7, <1>8, <1>9, <1>10, <1>11, <1>12 DEF Next

\* Whatever is called in whatever order, every heap stays covered by blocks
\* without gap or overlap, free blocks are merged, tags tell the truth and a
\* reallocation under way finds its old block.
THEOREM HeapInvariant == Spec => []IInv
<1>1. Init => IInv
  BY InitIInv
<1>2. IInv /\ [Next]_vars => IInv'
  BY StepIsGood DEF Good, Kept, IInv
<1> QED
  BY <1>1, <1>2, PTL DEF Spec

\* The bytes of a heap are in exactly one block, free or in use (the splitting
\* in MEM_Allocate, the merging in MEM_Deallocate).
THEOREM HeapsAreTiled == Spec => []Tiling
<1>1. IInv => Tiling
  <2> SUFFICES ASSUME IInv, NEW h \in Slots, size[h] > 0
               PROVE  /\ First(h) \in Blocks(h)
                      /\ DOMAIN list[h] \cap DOMAIN used = {}
                      /\ \A a \in Blocks(h) :
                           /\ a + Len(h, a) = Limit(h) \/ a + Len(h, a) \in Blocks(h)
                           /\ \A b \in Blocks(h) : a < b => a + Len(h, a) <= b
    BY DEF Tiling
  <2>1. Tiles(Layout(h), First(h), Limit(h)) /\ DOMAIN list[h] \cap DOMAIN used = {}
    BY DEF IInv, Heaps, Tiled
  <2>2. DOMAIN Layout(h) = Blocks(h) /\ \A x \in Blocks(h) : Layout(h)[x] = Len(h, x)
    BY DEF Layout
  <2> QED
    BY <2>1, <2>2 DEF Tiles
<1> QED
  BY <1>1, HeapInvariant, PTL

\* Two free blocks of a heap never touch (MEM_Deallocate merges in both
\* directions, MEM_Allocate takes a block from the end of a free one).
THEOREM FreeBlocksAreMerged == Spec => []FullyCoalesced
<1>1. IInv => FullyCoalesced
  BY DEF IInv
<1> QED
  BY <1>1, HeapInvariant, PTL

\* The tag in the last byte of a block says whether it is free, which is what
\* MEM_Deallocate and realloc go by.
THEOREM TagsTellTheTruth == Spec => []TagsAgree
<1>1. IInv => TagsAgree
  BY DEF IInv
<1> QED
  BY <1>1, HeapInvariant, PTL

\* A block that its owner frees stays in use only when the search of
\* tuya_mem_heap_free stopped at an empty slot in front of the block's heap.
THEOREM BlocksAreLostBehindGaps == Spec => LostBehindGap
<1>1. IInv /\ [Next]_vars =>
        [\A p \in lost' \ lost : \E h, i \in Slots :
           i < h /\ p \in BlocksOf(h, used) /\ size[i] = 0]_vars
  BY StepIsGood DEF Good
<1> QED
  BY <1>1, HeapInvariant, PTL DEF Spec, LostBehindGap

\* The heaps together are an allocator: no byte is handed out twice.
THEOREM HeapImplementsAllocator == Spec => ImplementsAllocator
<1>1. Init => Abstract!AllocInit
  BY DEF Init, Empty, Abstract!AllocInit
<1>2. IInv /\ [Next]_vars => [Abstract!AllocNext]_used
  BY StepIsGood DEF Good, Kept
<1> QED
  BY <1>1, <1>2, HeapInvariant, PTL DEF Spec, ImplementsAllocator, Abstract!AllocSpec

-----------------------------------------------------------------------------
(* A block is large enough for what its owner was promised.                *)

\* The builds and the requests for which it is: the header is one 32-bit word
\* (of the two words a free block needs, and the tag, MEM_Allocate reserves one
\* and one byte by raising a request to 4 bytes), a leak record keeps the
\* alignment, and no request comes near the end of the address space.
Fit32 ==
  /\ HeadSize <= 4 /\ LeakSize % Align = 0
  /\ \A n \in Sizes : ~Overflows(n)
  /\ \A n \in DebugSizes : n + Align + LeakSize <= WordMod

LEMMA ZeroMultiple ==
  ASSUME NEW m \in Nat \ {0}, NEW z \in Int, 0 <= m * z, m * z < m
  PROVE  z = 0
<1>1. CASE z >= 1
  <2>1. m * z >= m * 1
    BY <1>1
  <2> QED
    BY <2>1
<1>2. CASE z <= -1
  <2>1. m * z <= m * (-1)
    BY <1>2
  <2> QED
    BY <2>1
<1> QED
  BY <1>1, <1>2

LEMMA Division ==
  ASSUME NEW x \in Int, NEW m \in Nat \ {0}
  PROVE  /\ x % m \in 0..(m - 1)
         /\ \E q \in Int : x = m * q + (x % m)
<1>1. x \div m \in Int /\ x = m * (x \div m) + (x % m)
  OBVIOUS
<1>2. \E q \in Int : x = m * q + (x % m)
  BY <1>1
<1>3. x % m \in 0..(m - 1)
  OBVIOUS
<1> QED
  BY <1>2, <1>3

LEMMA Multiples ==
  ASSUME NEW k \in Int, NEW m \in Nat \ {0}
  PROVE  (m * k) % m = 0
<1>0. m * k \in Int
  OBVIOUS
<1>1. PICK q \in Int : m * k = m * q + ((m * k) % m)
  BY <1>0, Division
<1>2. (m * k) % m \in 0..(m - 1)
  BY <1>0
<1>3. m * (k - q) = (m * k) % m
  <2>1. m * (k - q) = m * k - m * q
    OBVIOUS
  <2> QED
    BY <1>1, <1>2, <2>1
<1>4. k - q = 0
  BY <1>2, <1>3, ZeroMultiple
<1> QED
  BY <1>3, <1>4

\* Sums of multiples are multiples, and there is none between two adjacent
\* ones.
LEMMA MultiplesLemma ==
  ASSUME NEW x \in Int, NEW y \in Int, NEW m \in Nat \ {0}, x % m = 0, y % m = 0
  PROVE  (x + y) % m = 0 /\ (x < y => x + m <= y)
<1>1. PICK q \in Int : x = m * q
  <2>1. PICK q \in Int : x = m * q + (x % m)
    BY Division
  <2>2. x = m * q + 0
    BY <2>1
  <2> QED
    BY <2>2
<1>2. PICK p \in Int : y = m * p
  <2>1. PICK p \in Int : y = m * p + (y % m)
    BY Division
  <2>2. y = m * p + 0
    BY <2>1
  <2> QED
    BY <2>2
<1>3. x + y = m * (q + p)
  BY <1>1, <1>2
<1>4. (x + y) % m = 0
  BY <1>3, Multiples
<1>5. ASSUME x < y, ~(x + m <= y) PROVE FALSE
  <2>1. y - x = m * (p - q)
    BY <1>1, <1>2
  <2>2. 0 <= m * (p - q) /\ m * (p - q) < m
    BY <1>5, <2>1
  <2>3. p - q = 0
    BY <2>2, ZeroMultiple
  <2> QED
    BY <1>5, <2>1, <2>3
<1> QED
  BY <1>4, <1>5

LEMMA AlignedLemma ==
  ASSUME NEW x \in Nat
  PROVE  AlignUp(x) % Align = 0
<1> DEFINE z == (x + Align - 1) % WordMod
<1>1. x + Align - 1 \in Nat
  OBVIOUS
<1>2. z \in Nat
  BY <1>1, WordLemma
<1>3. AlignUp(x) = z - (z % Align)
  BY DEF AlignUp, AlignDown
<1> HIDE DEF z
<1>a. Align \in Nat \ {0} /\ z \in Int
  BY <1>2
<1>4. PICK q \in Int : z = Align * q + (z % Align)
  BY <1>a, Division
<1>5. z % Align \in Int
  BY <1>2
<1>6. AlignUp(x) = Align * q
  BY <1>3, <1>4, <1>5
<1> QED
  BY <1>6, Multiples

\* A block that a request of n bytes got, or that already holds as many.
LEMMA RequestFits ==
  ASSUME Fit32, NEW n \in 1..(WordMod - 1), ~Overflows(n), NEW s \in Nat, BlockSize(n) <= s
  PROVE  HeadSize + n <= s - 1 /\ 2 * HeadSize + 1 <= s
<1>1. BlockSize(n) \in Nat /\ AtLeast4(n) + 1 + HeadSize <= BlockSize(n)
  BY BlockSizeLemma
<1>2. AtLeast4(n) \in Nat /\ n <= AtLeast4(n) /\ 4 <= AtLeast4(n)
  BY DEF AtLeast4
<1>3. HeadSize <= 4
  BY DEF Fit32
<1> QED
  BY <1>1, <1>2, <1>3

\* The leak record of a debug allocation lies behind the bytes asked for.
LEMMA DebugRequestFits ==
  ASSUME Fit32, NEW n \in DebugSizes, ~Overflows(DebugLen(n)), DebugLen(n) > 0,
         NEW s \in Nat, BlockSize(DebugLen(n)) <= s
  PROVE  HeadSize + n <= s - (LeakSize + Align) /\ 2 * HeadSize + 1 <= s
<1>1. n \in Nat /\ n + Align + LeakSize <= WordMod /\ LeakSize % Align = 0
  BY DEF Fit32
<1>2. AlignUp(n) \in Nat /\ n <= AlignUp(n) /\ AlignUp(n) < n + Align /\ AlignUp(n) % Align = 0
  <2>1. n + Align <= WordMod
    BY <1>1
  <2> QED
    BY <1>1, <2>1, AlignLemma, AlignedLemma
<1>3. PICK d : d = DebugLen(n)
  OBVIOUS
<1>4. d = AlignUp(n) + LeakSize
  <2>1. AlignUp(n) + LeakSize \in Nat /\ AlignUp(n) + LeakSize < WordMod
    BY <1>1, <1>2
  <2> QED
    BY <1>3, <2>1, WordLemma DEF DebugLen
<1>5. d \in Nat /\ d % Align = 0 /\ d \in 1..(WordMod - 1)
  <2>1. d \in Nat /\ d < WordMod /\ d > 0
    BY <1>1, <1>2, <1>3, <1>4
  <2>2. d % Align = 0
    <3>1. Align \in Nat \ {0} /\ LeakSize \in Int /\ AlignUp(n) \in Int
      BY <1>2
    <3>2. (AlignUp(n) + LeakSize) % Align = 0
      BY <1>1, <1>2, <3>1, MultiplesLemma
    <3> QED
      BY <1>4, <3>2
  <2> QED
    BY <2>1, <2>2
<1>6. PICK u : u = AlignUp(AtLeast4(d) + 1)
  OBVIOUS
<1>7. AtLeast4(d) \in Nat /\ d <= AtLeast4(d) /\ 4 <= AtLeast4(d)
  BY <1>5 DEF AtLeast4
<1>8. /\ BlockSize(d) \in Nat /\ AtLeast4(d) + 1 + HeadSize <= BlockSize(d)
      /\ BlockSize(d) = u + HeadSize
  BY <1>3, <1>5, <1>6, BlockSizeLemma
<1>9. u \in Int /\ u % Align = 0
  <2>1. AtLeast4(d) + 1 \in Nat
    BY <1>7
  <2> QED
    BY SMTT(30), <1>6, <2>1, AlignLemma, AlignedLemma
<1>10. d < u
  BY <1>5, <1>7, <1>8, <1>9
<1>11. d + Align <= u
  <2>1. Align \in Nat \ {0} /\ d \in Int
    BY <1>5
  <2> QED
    BY <1>5, <1>9, <1>10, <2>1, MultiplesLemma
<1>12. HeadSize <= 4
  BY DEF Fit32
<1>13. u + HeadSize <= s
  BY <1>3, <1>8
<1>14. HeadSize + n <= s - (LeakSize + Align)
  BY <1>1, <1>2, <1>4, <1>9, <1>11, <1>13
<1>15. 2 * HeadSize + 1 <= s
  BY <1>3, <1>7, <1>8, <1>12
<1> QED
  BY <1>14, <1>15

\* What its owner expects of a block of s bytes.
Holds(s, w) ==
  /\ HeadSize + w.n <= s - (IF w.leak THEN LeakSize + Align ELSE 1)
  /\ 2 * HeadSize + 1 <= s

Wants == DOMAIN want = DOMAIN used /\ \A p \in DOMAIN used : Holds(used[p], want[p])

LEMMA AllocateKeepsWants ==
  ASSUME IInv, Wants, NEW h \in Slots, NEW n \in Requests, NEW rec, Allocate(h, n, rec),
         \A s \in Nat : n > 0 /\ ~Overflows(n) /\ BlockSize(n) <= s => Holds(s, rec)
  PROVE  Wants'
<1>1. PICK a \in DOMAIN list[h], c \in Nat, s \in Nat :
        /\ AllocatesAt(h, a, c, s)
        /\ BlockSize(n) <= s /\ ~Overflows(n) /\ n > 0
        /\ want' = With(want, c, rec)
  BY AllocateLemma DEF IInv
<1>2. used' = With(used, c, s)
  BY <1>1 DEF AllocatesAt
<1>3. Holds(s, rec)
  BY <1>1
<1> QED
  BY <1>1, <1>2, <1>3 DEF Wants, With

LEMMA WithoutKeepsWants ==
  ASSUME Wants, NEW S, used' = Without(used, S), want' = Without(want, S)
  PROVE  Wants'
  BY DEF Wants, Without

LEMMA ReleaseKeepsWants ==
  ASSUME Wants, NEW f, NEW p, Release(f, p)
  PROVE  Wants'
<1>1. CASE UNCHANGED <<used, want>>
  BY <1>1 DEF Wants
<1>2. CASE used' = Without(used, {p}) /\ want' = Without(want, {p})
  BY <1>2, WithoutKeepsWants
<1> QED
  BY <1>1, <1>2 DEF Release, Deallocate

LEMMA StepKeepsWants ==
  ASSUME Fit32, IInv, Wants, [Next]_vars
  PROVE  Wants'
<1>m. ASSUME NEW n \in Sizes, NEW s \in Nat, ~Overflows(n), BlockSize(n) <= s
      PROVE  Holds(s, Request(n))
  <2>1. HeadSize + n <= s - 1 /\ 2 * HeadSize + 1 <= s
    BY <1>m, RequestFits
  <2> QED
    BY <2>1 DEF Holds, Request
<1>d. ASSUME NEW n \in DebugSizes, NEW s \in Nat, DebugLen(n) > 0, ~Overflows(DebugLen(n)),
             BlockSize(DebugLen(n)) <= s
      PROVE  Holds(s, DebugRequest(n))
  <2>1. HeadSize + n <= s - (LeakSize + Align) /\ 2 * HeadSize + 1 <= s
    BY <1>d, DebugRequestFits
  <2> QED
    BY <2>1 DEF Holds, DebugRequest
<1>1. ASSUME NEW n \in Sizes, NEW h \in Slots, Allocate(h, n, Request(n)) PROVE Wants'
  BY <1>1, <1>m, SizesAreRequests, AllocateKeepsWants
<1>2. ASSUME NEW n \in DebugSizes, NEW h \in Slots, Allocate(h, DebugLen(n), DebugRequest(n)) PROVE Wants'
  BY <1>2, <1>d, DebugLenLemma, AllocateKeepsWants
<1>3. ASSUME NEW n \in Sizes, MallocAny(n) \/ \E h \in Slots : Malloc(h, n) PROVE Wants'
  BY <1>1, <1>3 DEF MallocAny, Malloc
<1>4. ASSUME NEW n \in DebugSizes, DebugMallocAny(n) \/ \E h \in Slots : DebugMalloc(h, n) PROVE Wants'
  BY <1>2, <1>4 DEF DebugMallocAny, DebugMalloc
<1>5. ASSUME NEW f, NEW p, NEW n \in Sizes, ReallocMove(f, p, n) PROVE Wants'
  BY <1>1, <1>5 DEF ReallocMove
<1>6. ASSUME NEW f, NEW p, NEW n \in DebugSizes, DebugReallocMove(f, p, n) PROVE Wants'
  BY <1>2, <1>6 DEF DebugReallocMove
<1>7. ASSUME NEW f, NEW p, Free(f, p) PROVE Wants'
  BY <1>7, ReleaseKeepsWants DEF Free
<1>8. ASSUME NEW m \in moving, ReallocFree(m) PROVE Wants'
  BY <1>8, ReleaseKeepsWants DEF ReallocFree
<1>9. ASSUME NEW r \in Areas, Create(r[1], r[2]) PROVE Wants'
  BY <1>9 DEF Create, Wants
<1>10. ASSUME NEW h \in Slots, Delete(h) PROVE Wants'
  <2>1. used' = Without(used, BlocksOf(h, used)) /\ want' = Without(want, BlocksOf(h, used))
    BY <1>10 DEF Delete
  <2> QED
    BY <2>1 DEF Wants, Without
<1>11. ASSUME NEW p \in Owned, NEW n \in Sizes, ReallocKeep(p, n) PROVE Wants'
  <2>1. used' = used /\ want' = [want EXCEPT ![p] = Request(n)] /\ BlockSize(n) <= used[p]
    BY <1>11 DEF ReallocKeep
  <2>2. p \in DOMAIN used /\ used[p] \in Nat
    BY DEF Owned, IInv, Heaps, InUse
  <2>3. Holds(used[p], Request(n))
    BY <1>m, <2>1, <2>2 DEF Fit32
  <2> QED
    BY <2>1, <2>2, <2>3 DEF Wants
<1>12. ASSUME UNCHANGED vars PROVE Wants'
  BY <1>12 DEF vars, Wants
<1> QED
  BY <1>3, <1>4, <1>5, <1>6, <1>7, <1>8, <1>9, <1>10, <1>11, <1>12 DEF Next

\* A block has room for what was asked for, its header, its tag and the leak
\* record of a debug allocation, and for the two header words and the tag of a
\* free block: MEM_Allocate's sizes, and the block that realloc finds "big
\* enough".
THEOREM GrantsAreLargeEnough ==
  ASSUME Fit32
  PROVE  Spec => []GrantFits
<1>1. Init => Wants
  BY DEF Init, Empty, Wants
<1>2. IInv /\ Wants /\ [Next]_vars => Wants'
  BY StepKeepsWants
<1>3. Wants => GrantFits
  BY DEF Wants, Holds, GrantFits
<1> QED
  BY <1>1, <1>2, <1>3, HeapInvariant, PTL DEF Spec

-----------------------------------------------------------------------------
(* The counters.                                                           *)

\* A free list is finite: its blocks lie in the area of its heap.
LEMMA FreeListFinite ==
  ASSUME Heaps, NEW h \in Slots
  PROVE  IsFiniteSet(DOMAIN list[h]) /\ \A q \in DOMAIN list[h] : q \in Nat /\ list[h][q] \in Nat
<1>1. \A q \in DOMAIN list[h] : q \in Nat /\ list[h][q] \in Nat
  BY FreeBlockFacts
<1>2. CASE DOMAIN list[h] = {}
  BY <1>1, <1>2, FS_EmptySet
<1>3. CASE DOMAIN list[h] # {}
  <2>1. PICK lo \in Int, hi \in Int : lo = First(h) /\ hi = Limit(h)
    BY <1>3 DEF Heaps, Lists, Geometry
  <2>2. DOMAIN list[h] \subseteq lo..hi
    BY <1>1, <2>1 DEF Heaps, Lists
  <2>3. IsFiniteSet(lo..hi)
    BY FS_Interval
  <2> QED
    BY <1>1, <2>2, <2>3, FS_Subset
<1> QED
  BY <1>2, <1>3

\* The total after a block is set, replaced or taken out.
LEMMA TotalWith ==
  ASSUME NEW f, IsFiniteSet(DOMAIN f), \A x \in DOMAIN f : f[x] \in Int, NEW a, NEW n \in Int
  PROVE  LET g == With(f, a, n)
         IN  Total(g, DOMAIN g) = n + Total(f, DOMAIN f \ {a})
<1> DEFINE g == With(f, a, n)
<1>1. /\ DOMAIN g = DOMAIN f \cup {a} /\ g[a] = n
      /\ \A x \in DOMAIN f \ {a} : g[x] = f[x]
  BY DEF With
<1> HIDE DEF g
<1>2. IsFiniteSet(DOMAIN g)
  BY SMTT(30), <1>1, FS_AddElement
<1>3. \A x \in DOMAIN g : g[x] \in Int
  BY <1>1
<1>4. Total(g, DOMAIN g) = n + Total(g, DOMAIN g \ {a})
  BY <1>1, <1>2, <1>3, TotalSplits
<1>5. DOMAIN g \ {a} = DOMAIN f \ {a} /\ IsFiniteSet(DOMAIN f \ {a})
  BY <1>1, FS_Subset
<1>6. Total(g, DOMAIN f \ {a}) = Total(f, DOMAIN f \ {a})
  BY <1>1, <1>5, TotalSame
<1>7. Total(g, DOMAIN g) = n + Total(f, DOMAIN f \ {a})
  BY <1>4, <1>5, <1>6
<1> QED
  BY <1>7 DEF g

LEMMA TotalWithout ==
  ASSUME NEW f, IsFiniteSet(DOMAIN f), NEW S
  PROVE  LET g == Without(f, S)
         IN  DOMAIN g = DOMAIN f \ S /\ Total(g, DOMAIN g) = Total(f, DOMAIN f \ S)
<1> DEFINE g == Without(f, S)
<1>1. DOMAIN g = DOMAIN f \ S /\ \A x \in DOMAIN f \ S : g[x] = f[x]
  BY DEF Without
<1>2. IsFiniteSet(DOMAIN f \ S)
  BY FS_Subset
<1> HIDE DEF g
<1>3. Total(g, DOMAIN f \ S) = Total(f, DOMAIN f \ S)
  BY <1>1, <1>2, TotalSame
<1>4. DOMAIN g = DOMAIN f \ S /\ Total(g, DOMAIN g) = Total(f, DOMAIN f \ S)
  BY <1>1, <1>3
<1> QED
  BY <1>4 DEF g

\* The counters of the heaps: CountsAgree, and that they are numbers.
Counts ==
  /\ DOMAIN free = Slots /\ DOMAIN watermark = Slots
  /\ \A h \in Slots : /\ free[h] = Total(list[h], DOMAIN list[h])
                      /\ free[h] \in Int /\ watermark[h] \in Int /\ watermark[h] <= free[h]

\* What an allocation does to the counters of its heap.
LEMMA AllocateCounts ==
  ASSUME Heaps, NEW h \in Slots, NEW n \in Requests, NEW rec, Allocate(h, n, rec)
  PROVE  \E a \in DOMAIN list[h], s \in Nat :
           /\ \/ list' = [list EXCEPT ![h] = With(list[h], a, list[h][a] - s)]
              \/ s = list[h][a] /\ list' = [list EXCEPT ![h] = Without(list[h], {a})]
           /\ free' = [free EXCEPT ![h] = @ - s]
           /\ watermark' = [watermark EXCEPT ![h] = IF @ > free'[h] THEN free'[h] ELSE @]
<1> DEFINE len == BlockSize(n)
           a == Chosen(h, len)
           b == Carve(h, len, a)
<1>a. n > 0 /\ ~Overflows(n) /\ Fitting(h, len) # {}
  BY DEF Allocate, CanAllocate
<1>b. n \in Nat /\ n < WordMod /\ WordMod \in Nat
  BY DEF Requests
<1>1. n \in 1..(WordMod - 1)
  BY <1>a, <1>b
<1>2. len \in Nat
  BY <1>1, <1>a, BlockSizeLemma DEF AtLeast4
<1>3. a \in DOMAIN list[h] /\ list[h][a] \in Nat
  <2>1. a \in DOMAIN list[h]
    BY <1>1, <1>2, <1>a, ChosenLemma
  <2> QED
    BY <2>1, FreeListFinite
<1>4. /\ list' = [list EXCEPT ![h] = IF Splits(h, a, len)
                                       THEN With(list[h], a, list[h][a] - len)
                                       ELSE Without(list[h], {a})]
      /\ free' = [free EXCEPT ![h] = @ - b.len]
      /\ watermark' = [watermark EXCEPT ![h] = IF @ > free'[h] THEN free'[h] ELSE @]
  BY DEF Allocate
<1>5. b.len = IF Splits(h, a, len) THEN len ELSE list[h][a]
  BY DEF Carve
<1> HIDE DEF len, a, b
<1>6. CASE Splits(h, a, len)
  BY <1>2, <1>3, <1>4, <1>5, <1>6
<1>7. CASE ~Splits(h, a, len)
  BY <1>3, <1>4, <1>5, <1>7
<1> QED
  BY <1>6, <1>7

\* A step that changes the counters of one heap by as much as its free list.
LEMMA OneHeapCounts ==
  ASSUME Heaps, Counts, NEW h \in Slots, NEW f, NEW n \in Int, NEW w \in Int,
         list' = [list EXCEPT ![h] = f], free' = [free EXCEPT ![h] = n],
         watermark' = [watermark EXCEPT ![h] = w] \/ (watermark' = watermark /\ w = watermark[h]),
         n = Total(f, DOMAIN f), w <= n
  PROVE  Counts'
<1>1. DOMAIN free' = Slots /\ DOMAIN watermark' = Slots
  BY DEF Counts
<1>2. list'[h] = f /\ free'[h] = n /\ watermark'[h] = w
  BY DEF Counts, Heaps, Shape
<1>3. \A i \in Slots : i # h => list'[i] = list[i] /\ free'[i] = free[i] /\ watermark'[i] = watermark[i]
  BY DEF Counts, Heaps, Shape
<1>4. ASSUME NEW i \in Slots
      PROVE  /\ free'[i] = Total(list'[i], DOMAIN list'[i])
             /\ free'[i] \in Int /\ watermark'[i] \in Int /\ watermark'[i] <= free'[i]
  <2>1. CASE i = h
    BY <1>2, <2>1
  <2>2. CASE i # h
    BY <1>3, <2>2 DEF Counts
  <2> QED
    BY <2>1, <2>2
<1> QED
  BY <1>1, <1>4 DEF Counts

LEMMA AllocateKeepsCounts ==
  ASSUME Heaps, Counts, NEW h \in Slots, NEW n \in Requests, NEW rec, Allocate(h, n, rec)
  PROVE  Counts'
<1>1. PICK a \in DOMAIN list[h], s \in Nat :
           /\ \/ list' = [list EXCEPT ![h] = With(list[h], a, list[h][a] - s)]
              \/ s = list[h][a] /\ list' = [list EXCEPT ![h] = Without(list[h], {a})]
           /\ free' = [free EXCEPT ![h] = @ - s]
           /\ watermark' = [watermark EXCEPT ![h] = IF @ > free'[h] THEN free'[h] ELSE @]
  BY AllocateCounts
<1>2. IsFiniteSet(DOMAIN list[h]) /\ \A q \in DOMAIN list[h] : list[h][q] \in Int
  BY FreeListFinite
<1>3. PICK t \in Int, v \in Int :
        /\ t = Total(list[h], DOMAIN list[h] \ {a}) /\ v = list[h][a]
        /\ free[h] = v + t
  <2>1. /\ Total(list[h], DOMAIN list[h]) = list[h][a] + Total(list[h], DOMAIN list[h] \ {a})
        /\ Total(list[h], DOMAIN list[h] \ {a}) \in Int
    BY <1>2, TotalSplits
  <2> QED
    BY <1>2, <2>1 DEF Counts
<1>4. free' = [free EXCEPT ![h] = free[h] - s] /\ free[h] \in Int /\ free[h] - s \in Int
      /\ free'[h] = free[h] - s /\ watermark[h] \in Int
  BY <1>1 DEF Counts
<1>5. \E w \in Int : w <= free[h] - s /\ watermark' = [watermark EXCEPT ![h] = w]
  <2>1. PICK w : w = IF watermark[h] > free'[h] THEN free'[h] ELSE watermark[h]
    OBVIOUS
  <2>2. w \in Int /\ w <= free[h] - s
    BY <1>4, <2>1
  <2>3. watermark' = [watermark EXCEPT ![h] = w]
    BY <1>1, <2>1
  <2> QED
    BY <2>2, <2>3
<1>6. PICK w \in Int : w <= free[h] - s /\ watermark' = [watermark EXCEPT ![h] = w]
  BY <1>5
<1>7. \E f : list' = [list EXCEPT ![h] = f] /\ Total(f, DOMAIN f) = free[h] - s
  <2>1. CASE list' = [list EXCEPT ![h] = With(list[h], a, list[h][a] - s)]
    <3>1. PICK f : f = With(list[h], a, v - s)
      OBVIOUS
    <3>2. Total(f, DOMAIN f) = (v - s) + t
      BY SMTT(30), <1>2, <1>3, <3>1, TotalWith
    <3>3. (v - s) + t = free[h] - s
      BY <1>3
    <3> QED
      BY <1>3, <2>1, <3>1, <3>2, <3>3
  <2>2. CASE s = list[h][a] /\ list' = [list EXCEPT ![h] = Without(list[h], {a})]
    <3>1. PICK f : f = Without(list[h], {a})
      OBVIOUS
    <3>2. Total(f, DOMAIN f) = t
      BY <1>2, <1>3, <3>1, TotalWithout
    <3>3. t = free[h] - s
      BY <1>3, <2>2
    <3> QED
      BY <2>2, <3>1, <3>2, <3>3
  <2> QED
    BY <1>1, <2>1, <2>2
<1> QED
  BY <1>4, <1>6, <1>7, OneHeapCounts

\* A free block of length n that touches free blocks: the counter grows by n,
\* and so does the total.
LEMMA DeallocateTotal ==
  ASSUME Heaps, Counts, NEW h \in Slots, NEW p \in BlocksOf(h, used), Deallocate(h, p)
  PROVE  \E f : /\ list' = [list EXCEPT ![h] = f]
                /\ Total(f, DOMAIN f) = Total(list[h], DOMAIN list[h]) + used[p]
<1>1. PICK start \in Nat, stop \in Nat : DeallocatesTo(h, p, start, stop)
  BY DeallocateLemma
<1>2. PICK D, e : D = DOMAIN list[h] /\ e = End(used, p)
  OBVIOUS
<1>3. /\ start = p \/ (start \in D /\ start + list[h][start] = p)
      /\ (stop = e /\ e \notin D) \/ (e \in D /\ stop = e + list[h][e])
      /\ list' = [list EXCEPT ![h] = With(Without(list[h], {start, e}), start, stop - start)]
  BY <1>1, <1>2 DEF DeallocatesTo, End
<1>4. p \in Nat /\ used[p] \in Nat /\ 0 < used[p] /\ e = p + used[p] /\ p \notin D
  BY <1>2, UsedBlockFacts
<1>5. IsFiniteSet(D) /\ \A q \in D : q \in Nat /\ list[h][q] \in Int
  BY <1>2, FreeListFinite
<1>6. \A q \in D : 0 < list[h][q]
  BY <1>2, FreeBlockFacts
<1>7. start # e
  BY <1>3, <1>4, <1>5, <1>6
<1>8. PICK k : k = Without(list[h], {start, e})
  OBVIOUS
<1>9. DOMAIN k = D \ {start, e} /\ \A q \in DOMAIN k : k[q] \in Int
  BY <1>2, <1>5, <1>8 DEF Without
<1>10. IsFiniteSet(DOMAIN k)
  BY <1>5, <1>9, FS_Subset
<1>11. Total(k, DOMAIN k) = Total(list[h], D \ {start, e})
  BY <1>2, <1>5, <1>8, TotalWithout
<1>12. PICK f : f = With(k, start, stop - start)
  OBVIOUS
<1>13. Total(f, DOMAIN f) = (stop - start) + Total(list[h], D \ {start, e})
  <2>1. DOMAIN k \ {start} = DOMAIN k
    BY <1>9
  <2>2. stop - start \in Int
    OBVIOUS
  <2>3. Total(f, DOMAIN f) = (stop - start) + Total(k, DOMAIN k \ {start})
    BY <1>9, <1>10, <1>12, <2>2, TotalWith
  <2> QED
    BY <1>11, <2>1, <2>3
<1>14. \A q \in D : /\ Total(list[h], D) = list[h][q] + Total(list[h], D \ {q})
                    /\ Total(list[h], D) \in Int /\ Total(list[h], D \ {q}) \in Int
  BY <1>5, TotalSplits
<1>15. PICK u \in Nat, all \in Int : u = used[p] /\ all = Total(list[h], D)
  BY <1>2, <1>4 DEF Counts
<1>16. \E rest \in Int : /\ rest = Total(list[h], D \ {start, e})
                         /\ (stop - start) + rest = all + u
  <2>1. CASE start \notin D /\ e \notin D
    <3>1. D \ {start, e} = D
      BY <2>1
    <3>2. start = p /\ stop = p + u
      BY <1>3, <1>4, <1>15, <2>1
    <3>3. (stop - start) + all = all + u
      BY <1>4, <3>2
    <3> QED
      BY <1>15, <3>1, <3>3
  <2>2. CASE start \in D /\ e \notin D
    <3>1. D \ {start, e} = D \ {start}
      BY <2>2
    <3>2. PICK v \in Int, rest \in Int : /\ v = list[h][start] /\ rest = Total(list[h], D \ {start})
                                         /\ all = v + rest
      BY <1>5, <1>14, <1>15, <2>2
    <3>3. start + v = p /\ stop = p + u
      BY <1>3, <1>4, <1>15, <2>2, <3>2
    <3>4. stop - start = u + v
      BY <1>4, <3>3
    <3>5. (stop - start) + rest = all + u
      BY <3>2, <3>4
    <3> QED
      BY <3>1, <3>2, <3>5
  <2>3. CASE start \notin D /\ e \in D
    <3>1. D \ {start, e} = D \ {e}
      BY <2>3
    <3>2. PICK v \in Int, rest \in Int : /\ v = list[h][e] /\ rest = Total(list[h], D \ {e})
                                         /\ all = v + rest
      BY <1>5, <1>14, <1>15, <2>3
    <3>3. start = p /\ stop = p + u + v
      BY <1>3, <1>4, <1>15, <2>3, <3>2
    <3>4. (stop - start) + rest = all + u
      BY SMTT(30), <1>4, <3>2, <3>3
    <3> QED
      BY <3>1, <3>2, <3>4
  <2>4. CASE start \in D /\ e \in D
    <3>1. PICK v \in Int, w \in Int : v = list[h][e] /\ w = list[h][start]
      BY <1>5, <2>4
    <3>2. start + w = p /\ stop = p + u + v
      BY <1>3, <1>4, <1>15, <2>4, <3>1
    <3>3. PICK some \in Int : some = Total(list[h], D \ {e}) /\ all = v + some
      BY <1>14, <1>15, <2>4, <3>1
    <3>4. PICK E : E = D \ {e}
      OBVIOUS
    <3>5. IsFiniteSet(E) /\ start \in E /\ E \ {start} = D \ {start, e}
      BY <1>5, <1>7, <2>4, <3>4, FS_Subset
    <3>6. \A q \in E : list[h][q] \in Int
      BY <1>5, <3>4
    <3>7. /\ Total(list[h], E) = list[h][start] + Total(list[h], E \ {start})
          /\ Total(list[h], E \ {start}) \in Int
      BY <3>5, <3>6, TotalSplits
    <3>8. PICK rest \in Int : rest = Total(list[h], D \ {start, e}) /\ some = w + rest
      BY <3>1, <3>3, <3>4, <3>5, <3>7
    <3>a. stop - start = u + v + w
      BY <1>4, <3>2
    <3>9. (stop - start) + rest = all + u
      BY SMTT(30), <3>3, <3>8, <3>a
    <3> QED
      BY <3>8, <3>9
  <2> QED
    BY <2>1, <2>2, <2>3, <2>4
<1>17. Total(f, DOMAIN f) = all + u
  BY <1>13, <1>16
<1> QED
  BY <1>2, <1>3, <1>8, <1>12, <1>15, <1>17

LEMMA DeallocateKeepsCounts ==
  ASSUME Heaps, Counts, NEW h \in Slots, NEW p \in BlocksOf(h, used), Deallocate(h, p)
  PROVE  Counts'
<1>1. PICK f : /\ list' = [list EXCEPT ![h] = f]
               /\ Total(f, DOMAIN f) = Total(list[h], DOMAIN list[h]) + used[p]
  BY DeallocateTotal
<1>2. used[p] \in Nat
  BY UsedBlockFacts
<1>a. free[h] \in Int /\ watermark[h] \in Int /\ watermark[h] <= free[h]
  BY DEF Counts
<1>b. free[h] = Total(list[h], DOMAIN list[h])
  BY DEF Counts
<1>c. PICK n \in Int : n = free[h] + used[p]
  BY <1>2, <1>a
<1>d. PICK w \in Int : w = watermark[h]
  BY <1>a
<1>3. n = free[h] + used[p] /\ w = watermark[h] /\ w <= n /\ n = Total(f, DOMAIN f)
  BY <1>1, <1>2, <1>a, <1>b, <1>c, <1>d
<1>4. free' = [free EXCEPT ![h] = n]
  BY <1>3 DEF Deallocate
<1>5. watermark' = watermark
  BY DEF Deallocate
<1> QED
  BY <1>1, <1>3, <1>4, <1>5, OneHeapCounts

\* A new heap has one free block, and a deleted one none.
LEMMA CreateKeepsCounts ==
  ASSUME Heaps, Counts, NEW p \in Nat, NEW n \in Nat, Align <= n, p + n + Align <= WordMod, Create(p, n)
  PROVE  Counts'
<1> DEFINE first == AlignUp(p)
           room == AlignDown((n - (first - p)) % WordMod)
<1>r. PICK r : r = room
  OBVIOUS
<1>1. PICK h \in Slots :
           \/ UNCHANGED <<list, free, watermark>>
           \/ /\ list' = [list EXCEPT ![h] = With(Empty, first, r)]
              /\ free' = [free EXCEPT ![h] = r]
              /\ watermark' = [watermark EXCEPT ![h] = r]
  <2>1. FreeSlots \in SUBSET Nat /\ FreeSlots # {}
    BY SlotsAreNumbers DEF Create, FreeSlots
  <2>2. PICK h : h = CHOOSE i \in FreeSlots : \A j \in FreeSlots : i <= j
    OBVIOUS
  <2>3. h \in FreeSlots
    BY <2>1, <2>2, Smallest
  <2>4. h \in Slots
    BY <2>3 DEF FreeSlots
  <2> QED
    BY <1>r, <2>2, <2>4, Zenon DEF Create
<1>2. r \in Int
  <2>1. first \in Nat /\ p <= first
    BY AlignLemma
  <2>2. n - (first - p) \in Int
    BY <2>1
  <2>3. (n - (first - p)) % WordMod \in Nat
    BY <2>2
  <2> QED
    BY <1>r, <2>3, AlignLemma
<1> HIDE DEF first, room
<1>3. CASE UNCHANGED <<list, free, watermark>>
  BY <1>3 DEF Counts
<1>4. CASE /\ list' = [list EXCEPT ![h] = With(Empty, first, r)]
           /\ free' = [free EXCEPT ![h] = r]
           /\ watermark' = [watermark EXCEPT ![h] = r]
  <2>1. PICK f : f = With(Empty, first, r)
    OBVIOUS
  <2>2. Total(f, DOMAIN f) = r + Total(Empty, DOMAIN Empty \ {first})
    <3>1. DOMAIN Empty = {} /\ IsFiniteSet({})
      BY FS_EmptySet DEF Empty
    <3> QED
      BY <1>2, <2>1, <3>1, TotalWith
  <2>3. DOMAIN Empty \ {first} = {}
    BY DEF Empty
  <2>4. Total(Empty, {}) = 0
    BY TotalOfNone
  <2>5. r = Total(f, DOMAIN f) /\ r <= r
    <3>1. Total(f, DOMAIN f) = r + 0
      BY <2>2, <2>3, <2>4
    <3> QED
      BY <1>2, <3>1
  <2> QED
    BY <1>2, <1>4, <2>1, <2>5, OneHeapCounts
<1> QED
  BY <1>1, <1>3, <1>4

LEMMA DeleteKeepsCounts ==
  ASSUME Heaps, Counts, NEW h \in Slots, Delete(h)
  PROVE  Counts'
<1>1. /\ list' = [list EXCEPT ![h] = Empty] /\ free' = [free EXCEPT ![h] = 0]
      /\ watermark' = [watermark EXCEPT ![h] = 0]
  BY DEF Delete
<1>2. DOMAIN Empty = {}
  BY DEF Empty
<1>3. Total(Empty, DOMAIN Empty) = 0
  BY <1>2, TotalOfNone
<1>4. PICK n \in Int : n = 0
  OBVIOUS
<1>e. PICK f : f = Empty
  OBVIOUS
<1>5. /\ list' = [list EXCEPT ![h] = f] /\ free' = [free EXCEPT ![h] = n]
      /\ watermark' = [watermark EXCEPT ![h] = n] /\ n = Total(f, DOMAIN f) /\ n <= n
  BY <1>1, <1>3, <1>4, <1>e
<1> QED
  BY <1>5, OneHeapCounts

LEMMA ReleaseKeepsCounts ==
  ASSUME Heaps, Counts, NEW p \in DOMAIN used, NEW f, Finds(f, p), Release(f, p)
  PROVE  Counts'
<1>1. CASE UNCHANGED <<list, free, watermark>>
  BY <1>1 DEF Counts
<1>2. CASE \E h \in Slots : p \in BlocksOf(h, used) /\ Deallocate(h, p)
  BY <1>2, DeallocateKeepsCounts
<1> QED
  BY <1>1, <1>2, ReleaseLemma

LEMMA StepKeepsCounts ==
  ASSUME IInv, Counts, [Next]_vars
  PROVE  Counts'
<1>0. Heaps
  BY DEF IInv
<1>1. ASSUME NEW n \in Sizes, NEW h \in Slots, NEW rec, Allocate(h, n, rec) PROVE Counts'
  BY <1>0, <1>1, SizesAreRequests, AllocateKeepsCounts
<1>2. ASSUME NEW n \in DebugSizes, NEW h \in Slots, NEW rec, Allocate(h, DebugLen(n), rec) PROVE Counts'
  BY <1>0, <1>2, DebugLenLemma, AllocateKeepsCounts
<1>3. ASSUME NEW n \in Sizes, MallocAny(n) \/ \E h \in Slots : Malloc(h, n) PROVE Counts'
  BY <1>1, <1>3 DEF MallocAny, Malloc
<1>4. ASSUME NEW n \in DebugSizes, DebugMallocAny(n) \/ \E h \in Slots : DebugMalloc(h, n) PROVE Counts'
  BY <1>2, <1>4 DEF DebugMallocAny, DebugMalloc
<1>5. ASSUME NEW f, NEW p, NEW n \in Sizes, ReallocMove(f, p, n) PROVE Counts'
  BY <1>1, <1>5 DEF ReallocMove
<1>6. ASSUME NEW f, NEW p, NEW n \in DebugSizes, DebugReallocMove(f, p, n) PROVE Counts'
  BY <1>2, <1>6 DEF DebugReallocMove
<1>7. ASSUME NEW p \in Owned, NEW f \in Handles(p), Free(f, p) PROVE Counts'
  <2>1. p \in DOMAIN used /\ Finds(f, p) /\ Release(f, p)
    BY <1>7, HandlesFind DEF Free, Owned
  <2> QED
    BY <1>0, <2>1, ReleaseKeepsCounts
<1>8. ASSUME NEW m \in moving, ReallocFree(m) PROVE Counts'
  <2>1. m[1] \in DOMAIN used /\ Finds(m[2], m[1]) /\ Release(m[2], m[1])
    BY <1>8 DEF ReallocFree, IInv, Moves, Finds
  <2> QED
    BY <1>0, <2>1, ReleaseKeepsCounts
<1>9. ASSUME NEW r \in Areas, Create(r[1], r[2]) PROVE Counts'
  <2>1. r[1] \in Nat /\ r[2] \in Nat /\ Align <= r[2] /\ r[1] + r[2] + Align <= WordMod
    OBVIOUS
  <2> QED
    BY <1>0, <1>9, <2>1, CreateKeepsCounts
<1>10. ASSUME NEW h \in Slots, Delete(h) PROVE Counts'
  BY <1>0, <1>10, DeleteKeepsCounts
<1>11. ASSUME NEW p \in Owned, NEW n \in Sizes, ReallocKeep(p, n) PROVE Counts'
  BY <1>11 DEF ReallocKeep, heapVars, Counts
<1>12. ASSUME UNCHANGED vars PROVE Counts'
  BY <1>12 DEF vars, heapVars, Counts
<1> QED
  BY <1>3, <1>4, <1>5, <1>6, <1>7, <1>8, <1>9, <1>10, <1>11, <1>12 DEF Next

\* heap->free is the sum of the sizes in the free list, and its watermark is
\* never above it: the updates of MEM_Allocate and MEM_Deallocate count what the
\* list loses and gains, splits and merges included.
THEOREM CountersAreExact == Spec => []CountsAgree
<1>1. Init => Counts
  <2> SUFFICES ASSUME Init PROVE Counts
    OBVIOUS
  <2>1. /\ free = [h \in Slots |-> 0] /\ watermark = [h \in Slots |-> 0]
        /\ \A h \in Slots : list[h] = Empty
    BY DEF Init
  <2>2. DOMAIN Empty = {} /\ Total(Empty, {}) = 0
    BY TotalOfNone DEF Empty
  <2> QED
    BY <2>1, <2>2 DEF Counts
<1>2. IInv /\ Counts /\ [Next]_vars => Counts'
  BY StepKeepsCounts
<1>3. Counts => CountsAgree
  BY DEF Counts, CountsAgree, Total
<1> QED
  BY <1>1, <1>2, <1>3, HeapInvariant, PTL DEF Spec

-----------------------------------------------------------------------------
(* The walk of tuya_mem_heap_diagnose.                                     *)

\* The area of a heap that stays does not change; that of a new one does not
\* begin at 0.
Grounded == \A h \in Slots : size[h] > 0 => 0 < base[h]

\* Where the walk is: at a block or at the top, and next is the first free
\* block from there on.
Ahead ==
  \/ next = 0 /\ \A b \in DOMAIN list[slot] : b < at
  \/ /\ next \in DOMAIN list[slot] /\ at <= next
     /\ \A b \in DOMAIN list[slot] : b < at \/ next <= b

OnTrack ==
  /\ slot \in Slots /\ size[slot] > 0
  /\ at = Limit(slot) \/ at \in Blocks(slot)
  /\ Ahead
  /\ walk = "logging" => /\ at \in DOMAIN used /\ at \in Blocks(slot)
                         /\ header = Len(slot, at) /\ next # at

Walks ==
  /\ Grounded
  /\ walk \in {"locked", "logging"} => changed \/ OnTrack
  /\ walk = "damaged" => changed

LEMMA AreasStay ==
  ASSUME IInv, [Next]_vars, NEW h \in Slots, size'[h] > 0
  PROVE  IF size[h] > 0 THEN base'[h] = base[h] /\ size'[h] = size[h] ELSE 0 < base'[h]
<1> DEFINE Stays == IF size[h] > 0 THEN base'[h] = base[h] /\ size'[h] = size[h] ELSE 0 < base'[h]
<1>1. ASSUME NEW r \in Areas, Create(r[1], r[2]) PROVE Stays
  <2>1. r[1] \in Nat \ {0} /\ r[2] \in Nat /\ Align <= r[2] /\ r[1] + r[2] + Align <= WordMod
    BY AreasAssumption
  <2>2. PICK i \in Slots, first \in Nat, room \in Nat : CreatesAt(i, r[1], r[2], first, room)
    BY <1>1, <2>1, CreateLemma DEF IInv
  <2> QED
    BY SMTT(30), <2>1, <2>2 DEF CreatesAt, IInv, Heaps, Shape
<1>2. ASSUME NEW i \in Slots, Delete(i) PROVE Stays
  BY <1>2 DEF Delete, IInv, Heaps, Shape, Geometry
<1>3. ASSUME UNCHANGED <<base, size>> PROVE Stays
  BY <1>3
<1>4. ASSUME NEW f, NEW p, Release(f, p) PROVE UNCHANGED <<base, size>>
  BY <1>4 DEF Release, Deallocate, heapVars
<1>5. ASSUME NEW i, NEW n, NEW rec, Allocate(i, n, rec) PROVE UNCHANGED <<base, size>>
  BY <1>5 DEF Allocate
<1>6. ASSUME \/ \E n \in Sizes : MallocAny(n) \/ \E i \in Slots : Malloc(i, n)
             \/ \E n \in DebugSizes : DebugMallocAny(n) \/ \E i \in Slots : DebugMalloc(i, n)
      PROVE  UNCHANGED <<base, size>>
  BY <1>5, <1>6 DEF MallocAny, Malloc, DebugMallocAny, DebugMalloc
<1>7. ASSUME NEW p \in Owned, NEW f \in Handles(p),
             \/ Free(f, p)
             \/ \E n \in Sizes : ReallocMove(f, p, n)
             \/ \E n \in DebugSizes : DebugReallocMove(f, p, n)
      PROVE  UNCHANGED <<base, size>>
  BY <1>4, <1>5, <1>7 DEF Free, ReallocMove, DebugReallocMove
<1>8. ASSUME NEW p \in Owned, NEW n \in Sizes, ReallocKeep(p, n) PROVE UNCHANGED <<base, size>>
  BY <1>8 DEF ReallocKeep, heapVars
<1>9. ASSUME NEW m \in moving, ReallocFree(m) PROVE UNCHANGED <<base, size>>
  BY <1>4, <1>9 DEF ReallocFree
<1>10. ASSUME UNCHANGED vars PROVE UNCHANGED <<base, size>>
  BY <1>10 DEF vars, heapVars
<1> HIDE DEF Stays
<1>11. Stays
  BY <1>1, <1>2, <1>3, <1>6, <1>7, <1>8, <1>9, <1>10 DEF Next
<1> QED
  BY <1>11 DEF Stays

\* The next free block is the lowest one above a.
LEMMA NextFreeLemma ==
  ASSUME Heaps, NEW h \in Slots, NEW a \in Nat
  PROVE  \/ NextFree(h, a) = 0 /\ \A b \in DOMAIN list[h] : b <= a
         \/ /\ NextFree(h, a) \in DOMAIN list[h] /\ a < NextFree(h, a)
            /\ \A b \in DOMAIN list[h] : b <= a \/ NextFree(h, a) <= b
<1>1. \A b \in DOMAIN list[h] : b \in Nat
  BY BlockFacts DEF Blocks
<1>2. PICK later : later = {b \in DOMAIN list[h] : b > a}
  OBVIOUS
<1>3. later \in SUBSET Nat
  BY <1>1, <1>2
<1>4. CASE later = {}
  BY <1>1, <1>2, <1>4 DEF NextFree
<1>5. CASE later # {}
  <2>1. PICK x \in later : \A y \in later : x <= y
    BY <1>3, <1>5, Smallest
  <2>2. later \in SUBSET Int
    BY <1>3
  <2>3. Lowest(later) = x
    BY <2>1, <2>2, LowestLemma
  <2>4. NextFree(h, a) = x
    BY <1>2, <1>5, <2>3 DEF NextFree
  <2>5. \A b \in DOMAIN list[h] : b <= a \/ b \in later
    BY <1>1, <1>2
  <2> QED
    BY <1>2, <2>1, <2>4, <2>5
<1> QED
  BY <1>4, <1>5

\* Past a block, the free blocks ahead are those behind it.
LEMMA StepOver ==
  ASSUME Heaps, slot \in Slots, at \in Blocks(slot)
  PROVE  /\ at \in Nat /\ Len(slot, at) \in Nat /\ 0 < Len(slot, at)
         /\ at + Len(slot, at) = Limit(slot) \/ at + Len(slot, at) \in Blocks(slot)
         /\ \A b \in DOMAIN list[slot] :
              b \in Nat /\ (at < b => at + Len(slot, at) <= b) /\ b < Limit(slot)
<1>1. /\ at \in Nat /\ Len(slot, at) \in Nat /\ 0 < Len(slot, at)
      /\ at + Len(slot, at) = Limit(slot) \/ at + Len(slot, at) \in Blocks(slot)
      /\ \A y \in Blocks(slot) : at < y => at + Len(slot, at) <= y
  BY BlockFacts
<1>2. \A b \in DOMAIN list[slot] : b \in Blocks(slot)
  BY DEF Blocks
<1>3. \A b \in DOMAIN list[slot] : b \in Nat /\ b < Limit(slot)
  BY <1>2, BlockFacts DEF Heaps, Lists
<1> QED
  BY <1>1, <1>2, <1>3

\* A tag tells whether the walk is at a free block.
LEMMA TagTells ==
  ASSUME IInv, slot \in Slots, at \in Blocks(slot)
  PROVE  /\ TagIs(at + Len(slot, at) - 1, "free") => at \in DOMAIN list[slot] /\ at \notin DOMAIN used
         /\ TagIs(at + Len(slot, at) - 1, "use") => at \notin DOMAIN list[slot] /\ at \in DOMAIN used
<1>1. at \in DOMAIN list[slot] \/ (at \notin DOMAIN list[slot] /\ at \in DOMAIN used)
  BY DEF Blocks, BlocksOf
<1>2. CASE at \in DOMAIN list[slot]
  <2>1. TagIs(at + Len(slot, at) - 1, "free")
    <3>e. PICK e : e = End(list[slot], at)
      OBVIOUS
    <3>1. TagIs(e - 1, "free")
      BY <1>2, <3>e DEF IInv, TagsAgree
    <3>2. e = at + Len(slot, at) /\ at \in Nat /\ Len(slot, at) \in Nat
      BY <1>2, <3>e, BlockFacts DEF IInv, End, Len
    <3>3. e - 1 = at + Len(slot, at) - 1
      BY <3>2
    <3> QED
      BY <3>1, <3>3, Zenon
  <2>2. size[slot] > 0
    BY <1>2 DEF IInv, Heaps, Lists
  <2>3. at \notin DOMAIN used
    BY <1>2, <2>2 DEF IInv, Heaps, Tiled
  <2> QED
    BY <1>2, <2>1, <2>3 DEF TagIs
<1>3. CASE at \notin DOMAIN list[slot] /\ at \in DOMAIN used
  <2>1. TagIs(at + Len(slot, at) - 1, "use")
    <3>e. PICK e : e = End(used, at)
      OBVIOUS
    <3>1. TagIs(e - 1, "use")
      BY <1>3, <3>e DEF IInv, TagsAgree
    <3>2. e = at + Len(slot, at) /\ at \in Nat /\ Len(slot, at) \in Nat
      BY <1>3, <3>e, BlockFacts DEF IInv, End, Len
    <3>3. e - 1 = at + Len(slot, at) - 1
      BY <3>2
    <3> QED
      BY <3>1, <3>3, Zenon
  <2> QED
    BY <1>3, <2>1 DEF TagIs
<1> QED
  BY <1>1, <1>2, <1>3

\* The heaps do not change while the walk is in the critical section.
LEMMA SameHeap ==
  ASSUME UNCHANGED vars
  PROVE  /\ UNCHANGED <<base, size, list, used, dog>>
         /\ \A h : Blocks(h)' = Blocks(h) /\ Limit(h)' = Limit(h) /\ First(h)' = First(h)
         /\ Grounded' <=> Grounded
<1>1. UNCHANGED <<base, size, list, used, dog>>
  BY DEF vars, heapVars
<1> QED
  BY <1>1 DEF Blocks, BlocksOf, Limit, First, Grounded

LEMMA StartKeepsWalk ==
  ASSUME IInv, Walks, NEW h \in Slots, DiagStart(h)
  PROVE  Walks'
<1>1. /\ UNCHANGED <<base, size, list, used, dog>> /\ Blocks(h)' = Blocks(h) /\ Limit(h)' = Limit(h)
      /\ Grounded'
  BY SameHeap DEF DiagStart, Walks
<1>2. /\ size[h] > 0 /\ walk' = "locked" /\ slot' = h /\ at' = First(h) /\ next' = NextFree(h, 0)
  BY DEF DiagStart
<1>3. First(h) \in Blocks(h)
  <2>1. Tiles(Layout(h), First(h), Limit(h))
    BY <1>2 DEF IInv, Heaps, Tiled
  <2> QED
    BY <2>1 DEF Tiles, Layout
<1>4. First(h) \in Nat /\ 0 < First(h)
  BY <1>2 DEF IInv, Heaps, Geometry, Walks, Grounded
<1>5. \A b \in DOMAIN list[h] : b \in Nat /\ First(h) <= b
  BY BlockFacts DEF IInv, Heaps, Lists, Blocks
<1>6. \/ NextFree(h, 0) = 0 /\ \A b \in DOMAIN list[h] : b <= 0
      \/ /\ NextFree(h, 0) \in DOMAIN list[h] /\ 0 < NextFree(h, 0)
         /\ \A b \in DOMAIN list[h] : b <= 0 \/ NextFree(h, 0) <= b
  <2>1. Heaps /\ 0 \in Nat
    BY DEF IInv
  <2> QED
    BY <2>1, NextFreeLemma
<1>7. Ahead'
  BY <1>1, <1>2, <1>4, <1>5, <1>6 DEF Ahead
<1>8. OnTrack'
  BY <1>1, <1>2, <1>3, <1>7 DEF OnTrack
<1> QED
  BY <1>1, <1>2, <1>8 DEF Walks

LEMMA VisitFreeKeepsWalk ==
  ASSUME IInv, Walks, VisitFree
  PROVE  Walks'
<1>1. /\ walk = "locked" /\ at < Limit(slot) /\ at \in Blocks(slot)
      /\ TagIs(at + Len(slot, at) - 1, "free") /\ slot' = slot /\ changed' = changed
  BY DEF VisitFree
<1>2. /\ UNCHANGED <<base, size, list, used, dog>> /\ \A h : Blocks(h)' = Blocks(h) /\ Limit(h)' = Limit(h)
      /\ Grounded'
  BY SameHeap DEF VisitFree, Walks
<1>3. CASE changed
  BY <1>1, <1>2, <1>3 DEF Walks
<1>4. CASE OnTrack
  <2>1. slot \in Slots /\ Heaps /\ Ahead
    BY <1>4 DEF OnTrack, IInv
  <2>2. at \in DOMAIN list[slot]
    BY <1>1, <2>1, TagTells
  <2>3. /\ at \in Nat /\ Len(slot, at) \in Nat /\ 0 < Len(slot, at)
        /\ at + Len(slot, at) = Limit(slot) \/ at + Len(slot, at) \in Blocks(slot)
        /\ \A b \in DOMAIN list[slot] :
             b \in Nat /\ (at < b => at + Len(slot, at) <= b) /\ b < Limit(slot)
    BY <1>1, <2>1, StepOver
  <2>4. at = next
    BY <2>1, <2>2, <2>3 DEF Ahead
  <2>5. walk' = "locked" /\ next' = NextFree(slot, at) /\ at' = at + Len(slot, at)
    BY <1>1, <2>4 DEF VisitFree
  <2>6. \/ NextFree(slot, at) = 0 /\ \A b \in DOMAIN list[slot] : b <= at
        \/ /\ NextFree(slot, at) \in DOMAIN list[slot] /\ at < NextFree(slot, at)
           /\ \A b \in DOMAIN list[slot] : b <= at \/ NextFree(slot, at) <= b
    BY <2>1, <2>3, NextFreeLemma
  <2>7. Ahead'
    BY <1>1, <1>2, <2>3, <2>5, <2>6 DEF Ahead
  <2>8. OnTrack'
    BY <1>1, <1>2, <1>4, <2>3, <2>5, <2>7 DEF OnTrack
  <2> QED
    BY <1>2, <2>5, <2>8 DEF Walks
<1> QED
  BY <1>1, <1>3, <1>4 DEF Walks

LEMMA VisitUsedKeepsWalk ==
  ASSUME IInv, Walks, VisitUsed
  PROVE  Walks'
<1>1. /\ walk = "locked" /\ at < Limit(slot) /\ at \in Blocks(slot)
      /\ TagIs(at + Len(slot, at) - 1, "use") /\ slot' = slot /\ next' = next /\ changed' = changed
  BY DEF VisitUsed
<1>2. /\ UNCHANGED <<base, size, list, used, dog>> /\ \A h : Blocks(h)' = Blocks(h) /\ Limit(h)' = Limit(h)
      /\ Grounded'
  BY SameHeap DEF VisitUsed, Walks
<1>3. CASE changed
  BY <1>1, <1>2, <1>3 DEF Walks
<1>4. CASE OnTrack
  <2>1. slot \in Slots /\ Heaps /\ Ahead /\ size[slot] > 0
    BY <1>4 DEF OnTrack, IInv
  <2>2. at \notin DOMAIN list[slot] /\ at \in DOMAIN used
    BY <1>1, <2>1, TagTells
  <2>3. /\ at \in Nat /\ Len(slot, at) \in Nat /\ 0 < Len(slot, at)
        /\ at + Len(slot, at) = Limit(slot) \/ at + Len(slot, at) \in Blocks(slot)
        /\ \A b \in DOMAIN list[slot] :
             b \in Nat /\ (at < b => at + Len(slot, at) <= b) /\ b < Limit(slot)
    BY <1>1, <2>1, StepOver
  <2>4. 0 < at
    <3>1. First(slot) \in Nat /\ base[slot] \in Nat /\ base[slot] <= First(slot) /\ 0 < base[slot]
      BY <2>1 DEF IInv, Heaps, Geometry, Walks, Grounded
    <3>2. First(slot) <= at
      BY <1>1, <2>1, BlockFacts
    <3> QED
      BY <2>3, <3>1, <3>2
  <2>5. at # next
    BY <2>1, <2>2, <2>4 DEF Ahead
  <2>6. CASE at' = at + Len(slot, at) /\ UNCHANGED <<walk, header>>
    <3>1. Ahead'
      BY <1>1, <1>2, <2>1, <2>2, <2>3, <2>5, <2>6 DEF Ahead
    <3>2. OnTrack'
      BY <1>1, <1>2, <2>1, <2>3, <2>6, <3>1 DEF OnTrack
    <3> QED
      BY <1>1, <1>2, <2>6, <3>2 DEF Walks
  <2>7. CASE walk' = "logging" /\ header' = Len(slot, at) /\ UNCHANGED at
    <3>1. Ahead'
      BY <1>1, <1>2, <2>1, <2>7 DEF Ahead
    <3>2. Len(slot, at)' = Len(slot, at)
      BY <1>1, <1>2, <2>7 DEF Len
    <3>3. OnTrack'
      BY <1>1, <1>2, <2>1, <2>2, <2>5, <2>7, <3>1, <3>2 DEF OnTrack
    <3> QED
      BY <1>2, <2>7, <3>3 DEF Walks
  <2> QED
    BY <2>5, <2>6, <2>7 DEF VisitUsed
<1> QED
  BY <1>1, <1>3, <1>4 DEF Walks

\* Other threads change nothing of the heap, or the walk is not quiet.
LEMMA OthersKeepWalk ==
  ASSUME IInv, Walks, Others
  PROVE  Walks'
<1>1. /\ walk \in {"off", "logging"} /\ Next /\ UNCHANGED <<walk, slot, at, next>>
      /\ walk = "logging" => size'[slot] > 0
      /\ changed' = (changed \/ (walk = "logging" /\ <<list, used>>' # <<list, used>>))
      /\ header' = IF walk # "logging" THEN header
                   ELSE IF at \in DOMAIN used' THEN used'[at]
                   ELSE IF at \in DOMAIN list'[slot] THEN list'[slot][at] ELSE header
  BY DEF Others
<1>2. Grounded'
  BY <1>1, AreasStay DEF Grounded, Walks
<1>3. CASE walk = "off"
  BY <1>1, <1>2, <1>3 DEF Walks
<1>4. CASE walk = "logging" /\ ~changed'
  <2>1. OnTrack /\ list' = list /\ used' = used
    BY <1>1, <1>4 DEF Walks
  <2>2. slot \in Slots /\ size[slot] > 0
    BY <2>1 DEF OnTrack
  <2>3. base'[slot] = base[slot] /\ size'[slot] = size[slot]
    BY <1>1, <1>4, <2>2, AreasStay
  <2>4. First(slot)' = First(slot) /\ Limit(slot)' = Limit(slot)
    BY <1>1, <2>3 DEF First, Limit
  <2>5. Blocks(slot)' = Blocks(slot)
    BY <1>1, <2>1, <2>3, <2>4 DEF Blocks, BlocksOf
  <2>6. Ahead'
    BY <1>1, <2>1 DEF Ahead, OnTrack
  <2>7. /\ at \in DOMAIN used /\ at \in Blocks(slot)
        /\ header = Len(slot, at) /\ next # at
    BY <1>4, <2>1 DEF OnTrack
  <2>8. at \notin DOMAIN list[slot]
    BY <2>2, <2>7 DEF IInv, Heaps, Tiled
  <2>9. header' = Len(slot, at)'
    BY <1>1, <1>4, <2>1, <2>7, <2>8 DEF Len
  <2>10. OnTrack'
    BY <1>1, <2>1, <2>2, <2>3, <2>4, <2>5, <2>6, <2>7, <2>9 DEF OnTrack
  <2> QED
    BY <1>1, <1>2, <1>4, <2>10 DEF Walks
<1>5. CASE walk = "logging" /\ changed'
  BY <1>1, <1>2, <1>5 DEF Walks
<1> QED
  BY <1>1, <1>3, <1>4, <1>5

\* Back from the log, the walk steps over the block it logged.
LEMMA ResumeKeepsWalk ==
  ASSUME IInv, Walks, Resume
  PROVE  Walks'
<1>1. /\ walk = "logging" /\ walk' = "locked" /\ at' = at + header
      /\ slot' = slot /\ next' = next /\ changed' = changed
  BY DEF Resume
<1>2. /\ UNCHANGED <<base, size, list, used, dog>> /\ \A h : Blocks(h)' = Blocks(h) /\ Limit(h)' = Limit(h)
      /\ Grounded'
  BY SameHeap DEF Resume, Walks
<1>3. CASE changed
  BY <1>1, <1>2, <1>3 DEF Walks
<1>4. CASE OnTrack
  <2>1. /\ slot \in Slots /\ Heaps /\ Ahead /\ size[slot] > 0
        /\ at \in DOMAIN used /\ at \in Blocks(slot) /\ header = Len(slot, at) /\ next # at
    BY <1>1, <1>4 DEF OnTrack, IInv
  <2>2. at \notin DOMAIN list[slot]
    BY <2>1 DEF Heaps, Tiled
  <2>3. /\ at \in Nat /\ Len(slot, at) \in Nat /\ 0 < Len(slot, at)
        /\ at + Len(slot, at) = Limit(slot) \/ at + Len(slot, at) \in Blocks(slot)
        /\ \A b \in DOMAIN list[slot] :
             b \in Nat /\ (at < b => at + Len(slot, at) <= b) /\ b < Limit(slot)
    BY <2>1, StepOver
  <2>4. Ahead'
    BY <1>1, <1>2, <2>1, <2>2, <2>3 DEF Ahead
  <2>5. OnTrack'
    BY <1>1, <1>2, <2>1, <2>3, <2>4 DEF OnTrack
  <2> QED
    BY <1>1, <1>2, <2>5 DEF Walks
<1> QED
  BY <1>1, <1>3, <1>4 DEF Walks

\* At the top of the heap no free block is left.
LEMMA FinishKeepsWalk ==
  ASSUME IInv, Walks, Finish \/ Stray
  PROVE  Walks'
<1>1. walk = "locked" /\ changed' = changed /\ walk' \in {"valid", "damaged"}
  BY DEF Finish, Stray
<1>2. Grounded'
  BY SameHeap DEF Finish, Stray, Walks
<1>3. CASE changed
  BY <1>1, <1>2, <1>3 DEF Walks
<1>4. CASE OnTrack
  <2>1. slot \in Slots /\ Ahead /\ Heaps /\ size[slot] > 0 /\ (at = Limit(slot) \/ at \in Blocks(slot))
    BY <1>4 DEF OnTrack, IInv
  <2>2. Limit(slot) \in Nat
    BY <2>1 DEF Heaps, Geometry
  <2>3. at \in Blocks(slot) => at \in Nat /\ at < Limit(slot)
    <3> SUFFICES ASSUME at \in Blocks(slot) PROVE at \in Nat /\ at < Limit(slot)
      OBVIOUS
    <3>1. /\ at \in Nat /\ Len(slot, at) \in Nat /\ 0 < Len(slot, at) /\ at + Len(slot, at) <= Limit(slot)
      BY <2>1, BlockFacts
    <3> QED
      BY <2>2, <3>1
  <2>4. ASSUME Stray PROVE FALSE
    <3>1. at < Limit(slot) /\ at \notin Blocks(slot)
      BY <2>4 DEF Stray
    <3> QED
      BY <2>1, <2>2, <3>1
  <2>5. ASSUME Finish PROVE walk' = "valid"
    <3>1. at >= Limit(slot)
      BY <2>5 DEF Finish
    <3>2. at = Limit(slot)
      BY <2>1, <2>2, <2>3, <3>1
    <3>3. \A b \in DOMAIN list[slot] : b \in Nat /\ b < Limit(slot)
      BY <2>1, BlockFacts DEF Heaps, Lists, Blocks
    <3>4. next = 0
      BY <2>1, <2>2, <3>2, <3>3 DEF Ahead
    <3> QED
      BY <2>5, <3>2, <3>4 DEF Finish
  <2> QED
    BY <1>2, <2>4, <2>5 DEF Walks
<1> QED
  BY <1>1, <1>3, <1>4 DEF Walks

\* However the heap is used while the walk logs: a walk of MEM_HeapStatus
\* that finds the heap damaged met a block that changed hands.
THEOREM DamageMeansChange == DiagSpec => []QuietWalkSound
<1>1. DiagInit => IInv /\ Walks
  <2> SUFFICES ASSUME DiagInit PROVE IInv /\ Walks
    OBVIOUS
  <2>1. Init /\ walk = "off"
    BY DEF DiagInit
  <2>2. Grounded
    BY <2>1 DEF Init, Grounded
  <2> QED
    BY <2>1, <2>2, InitIInv DEF Walks
<1>2. IInv /\ Walks /\ [DiagNext]_diagVars => IInv' /\ Walks'
  <2> SUFFICES ASSUME IInv, Walks, [DiagNext]_diagVars PROVE IInv' /\ Walks'
    OBVIOUS
  <2>1. [Next]_vars
    BY DEF DiagNext, diagVars, Others, DiagStart, VisitFree, VisitUsed, Resume, Stray, Finish, DiagReturn
  <2>2. IInv'
    BY <2>1, StepIsGood DEF Good, Kept, IInv
  <2>3. CASE DiagReturn
    <3>1. Grounded'
      BY <2>3, SameHeap DEF DiagReturn, Walks
    <3> QED
      BY <2>2, <2>3, <3>1 DEF DiagReturn, Walks
  <2>4. CASE UNCHANGED diagVars
    <3>1. UNCHANGED vars /\ UNCHANGED <<walk, slot, at, next, header, changed>>
      BY <2>4 DEF diagVars, walkVars
    <3>2. /\ UNCHANGED <<base, size, list, used, dog>> /\ \A h : Blocks(h)' = Blocks(h) /\ Limit(h)' = Limit(h)
          /\ Grounded' <=> Grounded
      BY <3>1, SameHeap
    <3>3. OnTrack => OnTrack'
      BY <3>1, <3>2 DEF OnTrack, Ahead, Len
    <3> QED
      BY <2>2, <3>1, <3>2, <3>3 DEF Walks
  <2> QED
    BY <2>2, <2>3, <2>4, OthersKeepWalk, StartKeepsWalk, VisitFreeKeepsWalk, VisitUsedKeepsWalk,
       ResumeKeepsWalk, FinishKeepsWalk DEF DiagNext
<1>3. Walks => QuietWalkSound
  BY DEF Walks, QuietWalkSound
<1> QED
  BY <1>1, <1>2, <1>3, PTL DEF DiagSpec
=============================================================================
