---------------------------- MODULE HashMapProofs ---------------------------
(***************************************************************************)
(* Proofs about HashMap, for every set of keys, data and elements, every   *)
(* table size and every hash.                                              *)
(***************************************************************************)
EXTENDS HashMap, FiniteSetTheorems, WellFoundedInduction, SequenceTheorems, TLAPS

\* w is the list of n elements that begins at the pointer p.
Walks(p, n, w) ==
  /\ n \in Nat /\ w \in [1..n -> Elements]
  /\ p = IF n = 0 THEN NULL ELSE w[1]
  /\ \A i \in 1..n : next[w[i]] = IF i = n THEN NULL ELSE w[i + 1]
  /\ \A i, j \in 1..n : w[i] = w[j] => i = j

\* w is the list of bucket b: all elements whose key hashes to b, each pointing
\* back to the pointer that points to it.
List(b, n, w) ==
  /\ Walks(first[b], n, w)
  /\ \A i \in 1..n : /\ w[i] \in Live /\ Bucket(elem[w[i]].key) = b
                     /\ pprev[w[i]] = IF i = 1 THEN b ELSE w[i - 1]
  /\ \A e \in Live : Bucket(elem[e].key) = b => \E i \in 1..n : w[i] = e

\* What a traversal that is at w[j] still has to show lies behind it.
Shows(n, w, j) ==
  /\ j \in 1..n /\ w[j] = iter
  /\ \A e : e \in due <=> \E i \in (j + 1)..n : e = w[i] /\ elem[e].key = elem[iter].key

Types ==
  /\ hash \in [Keys -> HashValues]
  /\ elem \in [Elements -> {NULL} \cup [key : Keys, data : Datas]]
  /\ next \in [Elements -> {NULL} \cup Elements]
  /\ pprev \in [Elements -> {NULL} \cup Elements \cup Nat]

NoMap == map = NULL /\ Live = {} /\ iter = NULL /\ due = {}

Counted ==
  /\ map \in [size : Nat, table_size : Nat \ {0}]
  /\ map.size = Cardinality(Live)
  /\ first \in [Buckets -> {NULL} \cup Elements]

Traversed ==
  IF iter = NULL THEN due = {}
  ELSE /\ iter \in Live
       /\ \E b, n, w, j : b = Bucket(elem[iter].key) /\ List(b, n, w) /\ Shows(n, w, j)

IInv ==
  /\ Types
  /\ NoMap \/ (Counted /\ Traversed /\ \A b \in Buckets : \E n, w : List(b, n, w))

-----------------------------------------------------------------------------
(* Walks.                                                                  *)

LEMMA Smallest ==
  ASSUME NEW T \in SUBSET Nat, T # {}
  PROVE  \E x \in T : \A y \in T : x <= y
<1>1. \A x, y : <<y, x>> \in OpToRel(<, Nat) <=> x \in Nat /\ y \in Nat /\ y < x
  BY DEF OpToRel
<1>2. PICK R : /\ IsWellFoundedOn(R, Nat)
               /\ \A x, y : <<y, x>> \in R <=> x \in Nat /\ y \in Nat /\ y < x
  BY <1>1, NatLessThanWellFounded, Zenon
<1>3. PICK x \in T : \A y \in T : ~(<<y, x>> \in R)
  BY <1>2, WFMin
<1>4. \A y \in T : ~(y < x)
  BY <1>2, <1>3
<1> QED
  BY <1>4

\* What nth of From computes.
Reaches(g, p, last) ==
  g = [i \in 0..last |->
         IF i = 0 THEN p ELSE IF g[i - 1] = NULL THEN NULL ELSE next[g[i - 1]]]

Reached(g) == [i \in 1..Cardinality({j \in DOMAIN g : g[j] # NULL}) |-> g[i - 1]]

LEMMA ReachesWalk ==
  ASSUME NEW n, NEW w, NEW p, Walks(p, n, w), NULL \notin Elements,
         NEW last \in Nat, NEW g, Reaches(g, p, last)
  PROVE  \A i \in 0..last : g[i] = IF i < n THEN w[i + 1] ELSE NULL
<1> DEFINE At(i) == IF i < n THEN w[i + 1] ELSE NULL
           Bad == {i \in 0..last : g[i] # At(i)}
<1>0. n \in Nat
  BY DEF Walks
<1>1. Bad = {}
  <2> SUFFICES ASSUME Bad # {} PROVE FALSE
    OBVIOUS
  <2>0. Bad \in SUBSET Nat
    OBVIOUS
  <2>1. PICK i \in Bad : \A j \in Bad : i <= j
    BY <2>0, Smallest
  <2>2. i \in 0..last /\ g[i] # At(i)
    OBVIOUS
  <2>a. g[i] = IF i = 0 THEN p ELSE IF g[i - 1] = NULL THEN NULL ELSE next[g[i - 1]]
    BY <2>2, Zenon DEF Reaches
  <2>3. CASE i = 0
    BY <1>0, <2>2, <2>a, <2>3 DEF Walks
  <2>4. CASE i # 0
    <3>1. i - 1 \in 0..last /\ i - 1 \notin Bad
      BY <2>1, <2>2, <2>4
    <3>2. g[i - 1] = At(i - 1)
      BY <3>1
    <3>3. CASE i - 1 < n
      <4>1. i \in 1..n /\ g[i - 1] = w[i]
        BY <1>0, <2>2, <2>4, <3>2, <3>3
      <4>2. w[i] # NULL /\ next[w[i]] = IF i = n THEN NULL ELSE w[i + 1]
        BY <4>1 DEF Walks
      <4>3. g[i] = IF i = n THEN NULL ELSE w[i + 1]
        BY <2>4, <2>a, <4>1, <4>2
      <4> QED
        BY <1>0, <2>2, <4>1, <4>3
    <3>4. CASE ~(i - 1 < n)
      <4>1. g[i - 1] = NULL /\ ~(i < n)
        BY <1>0, <2>2, <3>2, <3>4
      <4> QED
        BY <2>2, <2>4, <2>a, <4>1
    <3> QED
      BY <3>3, <3>4
  <2> QED
    BY <2>3, <2>4
<1> QED
  BY <1>1

LEMMA WalkReached ==
  ASSUME NEW n, NEW w, NEW p, Walks(p, n, w), NULL \notin Elements, NEW last \in Nat
  PROVE  \E g : Reaches(g, p, last)
<1> DEFINE g == [i \in 0..last |-> IF i < n THEN w[i + 1] ELSE NULL]
<1>0. n \in Nat
  BY DEF Walks
<1>1. ASSUME NEW i \in 0..last
      PROVE  g[i] = IF i = 0 THEN p ELSE IF g[i - 1] = NULL THEN NULL ELSE next[g[i - 1]]
  <2>1. CASE i = 0
    BY <1>0, <2>1 DEF Walks
  <2>2. CASE i # 0 /\ i - 1 < n
    <3>1. i \in 1..n /\ g[i - 1] = w[i]
      BY <1>0, <2>2
    <3>2. w[i] # NULL /\ next[w[i]] = IF i = n THEN NULL ELSE w[i + 1]
      BY <3>1 DEF Walks
    <3>3. g[i] = IF i = n THEN NULL ELSE w[i + 1]
      BY <1>0, <3>1
    <3> QED
      BY <2>2, <3>1, <3>2, <3>3
  <2>3. CASE i # 0 /\ ~(i - 1 < n)
    BY <1>0, <2>3
  <2> QED
    BY <2>1, <2>2, <2>3
<1>2. PICK h : h = g
  OBVIOUS
<1>3. DOMAIN h = 0..last /\ h = [i \in 0..last |-> h[i]]
  BY <1>2
<1>4. \A i \in 0..last :
        h[i] = IF i = 0 THEN p ELSE IF h[i - 1] = NULL THEN NULL ELSE next[h[i - 1]]
  BY <1>1, <1>2, Zenon
<1> HIDE DEF g
<1>5. Reaches(h, p, last)
  BY <1>3, <1>4 DEF Reaches
<1> QED
  BY <1>5

\* A list has no more elements than the heap.
LEMMA WalkFits ==
  ASSUME NEW n, NEW w, NEW p, Walks(p, n, w), IsFiniteSet(Elements)
  PROVE  n <= Cardinality(Elements) /\ Cardinality(Elements) \in Nat
<1>0. n \in Nat
  BY DEF Walks
<1>1. w \in Injection(1..n, Elements)
  BY DEF Walks, Injection, IsInjective
<1>2. Cardinality(1..n) <= Cardinality(Elements)
  BY <1>1, FS_Injection
<1>3. Cardinality(1..n) = n
  BY <1>0, FS_Interval
<1> QED
  BY <1>2, <1>3, FS_CardinalityType

\* From is the list that begins at its pointer.
LEMMA FromWalks ==
  ASSUME NEW n, NEW w, NEW p, Walks(p, n, w), IsFiniteSet(Elements), NULL \notin Elements
  PROVE  From(p) = w
<1> DEFINE last == Cardinality(Elements)
<1>0. n \in Nat /\ last \in Nat /\ n <= last
  BY WalkFits DEF Walks
<1>1. PICK g : g = CHOOSE h : Reaches(h, p, last)
  OBVIOUS
<1>2. Reaches(g, p, last)
  <2>1. \E h : Reaches(h, p, last)
    BY <1>0, WalkReached
  <2> QED
    BY <1>1, <2>1, Zenon
<1>3. From(p) = Reached(g)
  <2>1. From(p) = Reached(CHOOSE h : h = [i \in 0..Cardinality(Elements) |->
                            IF i = 0 THEN p
                            ELSE IF h[i - 1] = NULL THEN NULL ELSE next[h[i - 1]]])
    BY Zenon DEF From, Reached
  <2>2. From(p) = Reached(CHOOSE h : Reaches(h, p, last))
    BY <2>1, Zenon DEF Reaches
  <2> QED
    BY <1>1, <2>2, Zenon
<1>4. DOMAIN g = 0..last /\ \A i \in 0..last : g[i] = IF i < n THEN w[i + 1] ELSE NULL
  <2>1. DOMAIN g = 0..last
    BY <1>2, Zenon DEF Reaches
  <2> QED
    BY <1>0, <1>2, <2>1, ReachesWalk
<1> HIDE DEF last
<1>5. {j \in DOMAIN g : g[j] # NULL} = 0..(n - 1)
  <2>1. \A i \in 1..n : w[i] # NULL
    BY DEF Walks
  <2>2. \A j \in 0..last : g[j] # NULL <=> j < n
    <3> TAKE j \in 0..last
    <3>1. CASE j < n
      BY <1>0, <1>4, <2>1, <3>1
    <3>2. CASE ~(j < n)
      BY <1>4, <3>2
    <3> QED
      BY <3>1, <3>2
  <2> QED
    BY <1>0, <1>4, <2>2
<1>6. Cardinality(0..(n - 1)) = n
  BY <1>0, FS_Interval
<1>7. From(p) = [i \in 1..n |-> g[i - 1]]
  BY <1>3, <1>5, <1>6 DEF Reached
<1>8. \A i \in 1..n : g[i - 1] = w[i]
  BY <1>0, <1>4
<1> QED
  BY <1>7, <1>8 DEF Walks

\* The walk from behind its j-th element.
LEMMA WalksOn ==
  ASSUME NEW n, NEW w, NEW p, Walks(p, n, w), NEW j \in 1..n
  PROVE  Walks(next[w[j]], n - j, [i \in 1..(n - j) |-> w[i + j]])
<1>0. n \in Nat /\ j \in Nat /\ n - j \in Nat
  BY DEF Walks
<1>1. PICK v : v = [i \in 1..(n - j) |-> w[i + j]]
  OBVIOUS
<1>2. \A i \in 1..(n - j) : i + j \in 1..n /\ v[i] = w[i + j] /\ v[i] \in Elements
  BY <1>0, <1>1 DEF Walks
<1>3. v \in [1..(n - j) -> Elements]
  BY <1>1, <1>2
<1>4. \A i \in 1..(n - j) : next[v[i]] = IF i = n - j THEN NULL ELSE v[i + 1]
  <2> TAKE i \in 1..(n - j)
  <2>1. next[w[i + j]] = IF i + j = n THEN NULL ELSE w[(i + j) + 1]
    BY <1>2 DEF Walks
  <2>2. CASE i = n - j
    BY <1>0, <1>2, <2>1, <2>2
  <2>3. CASE i # n - j
    <3>1. i + 1 \in 1..(n - j) /\ (i + 1) + j = (i + j) + 1 /\ i + j # n
      BY <1>0, <2>3
    <3> QED
      BY <1>2, <2>1, <2>3, <3>1
  <2> QED
    BY <2>2, <2>3
<1>5. \A i, k \in 1..(n - j) : v[i] = v[k] => i = k
  <2> SUFFICES ASSUME NEW i \in 1..(n - j), NEW k \in 1..(n - j), v[i] = v[k] PROVE i = k
    OBVIOUS
  <2>1. w[i + j] = w[k + j] /\ i + j \in 1..n /\ k + j \in 1..n
    BY <1>2
  <2>2. i + j = k + j
    BY <2>1 DEF Walks
  <2> QED
    BY <1>0, <2>2
<1>6. next[w[j]] = IF n - j = 0 THEN NULL ELSE v[1]
  <2>1. next[w[j]] = IF j = n THEN NULL ELSE w[j + 1]
    BY DEF Walks
  <2>2. CASE j = n
    BY <1>0, <2>1, <2>2
  <2>3. CASE j # n
    <3>1. 1 \in 1..(n - j) /\ 1 + j = j + 1
      BY <1>0, <2>3
    <3> QED
      BY <1>0, <1>2, <2>1, <2>3, <3>1
  <2> QED
    BY <2>2, <2>3
<1> QED
  BY <1>0, <1>1, <1>3, <1>4, <1>5, <1>6 DEF Walks

\* FirstOf finds the first element that is wanted.
LEMMA FirstIsFirst ==
  ASSUME NEW n \in Nat, NEW w \in [1..n -> Elements], NEW wanted
  PROVE  \/ FirstOf(w, wanted) = NULL /\ \A i \in 1..n : w[i] \notin wanted
         \/ \E i \in 1..n : /\ FirstOf(w, wanted) = w[i] /\ w[i] \in wanted
                            /\ \A j \in 1..n : w[j] \in wanted => i <= j
<1> DEFINE places == {i \in DOMAIN w : w[i] \in wanted}
<1>1. DOMAIN w = 1..n /\ places \in SUBSET Nat
  OBVIOUS
<1>2. CASE places = {}
  BY <1>1, <1>2 DEF FirstOf
<1>3. CASE places # {}
  <2>1. \E i \in places : \A j \in places : i <= j
    BY <1>1, <1>3, Smallest
  <2>2. PICK i : i = CHOOSE x \in places : \A j \in places : x <= j
    OBVIOUS
  <2>3. i \in places /\ \A j \in places : i <= j
    BY <2>1, <2>2, Zenon
  <2>4. FirstOf(w, wanted) = w[i]
    BY <1>3, <2>2, Zenon DEF FirstOf
  <2> QED
    BY <1>1, <2>3, <2>4
<1> QED
  BY <1>2, <1>3

LEMMA Constants ==
  /\ IsFiniteSet(Elements) /\ NULL \notin Elements /\ NULL \notin Datas
  /\ \A e \in Elements : e \notin Nat
  /\ \A k \in Keys, d \in Datas : [key |-> k, data |-> d] # NULL
  BY HashMapAssumption

Puts(e, k, d) == elem' = [elem EXCEPT ![e] = [key |-> k, data |-> d]]

Drops(e) == elem' = [elem EXCEPT ![e] = NULL]

\* What is live after a put and after a removal.
LEMMA LiveAfterPut ==
  ASSUME Types, NEW k \in Keys, NEW d \in Datas, NEW e \in Elements \ Live,
         Puts(e, k, d)
  PROVE  /\ Live' = Live \cup {e} /\ elem'[e].key = k /\ elem'[e].data = d
         /\ \A y \in Live : y # e /\ elem'[y] = elem[y]
<1>1. elem'[e] = [key |-> k, data |-> d] /\ elem'[e] # NULL
  BY Constants DEF Types, Puts
<1>2. \A y \in Elements : y # e => elem'[y] = elem[y]
  BY DEF Types, Puts
<1> QED
  BY <1>1, <1>2 DEF Live

LEMMA LiveAfterRemove ==
  ASSUME Types, NEW e \in Live, Drops(e)
  PROVE  /\ Live' = Live \ {e}
         /\ \A y \in Live : y # e => elem'[y] = elem[y]
  BY DEF Live, Types, Drops

\* A put leaves the lists of the other buckets alone ...
LEMMA PutKeepsLists ==
  ASSUME Types, NEW k \in Keys, NEW d \in Datas, NEW e \in Elements \ Live, NEW b,
         first \in [Buckets -> {NULL} \cup Elements], b \in Buckets, b = Bucket(k),
         first[b] # NULL => first[b] \in Live /\ Bucket(elem[first[b]].key) = b,
         Puts(e, k, d), AddHead(e, b),
         \A y \in Keys : Bucket(y)' = Bucket(y),
         NEW c \in Buckets, NEW n, NEW w, List(c, n, w), c # b
  PROVE  List(c, n, w)'
<1>1. /\ Live' = Live \cup {e} /\ elem'[e].key = k
      /\ \A y \in Live : y # e /\ elem'[y] = elem[y]
  BY LiveAfterPut
<1>2. n \in Nat /\ w \in [1..n -> Elements]
  BY DEF List, Walks
<1>3. \A y \in Live : elem[y].key \in Keys /\ y \in Elements
  BY DEF Live, Types
<1>4. first'[c] = first[c]
  BY DEF AddHead
<1>5. ASSUME NEW i \in 1..n
      PROVE  /\ w[i] \in Live /\ w[i] # e /\ w[i] # first[b] /\ elem'[w[i]] = elem[w[i]]
             /\ next'[w[i]] = next[w[i]] /\ pprev'[w[i]] = pprev[w[i]]
  <2>1. w[i] \in Live /\ Bucket(elem[w[i]].key) = c
    BY DEF List
  <2>2. w[i] # e /\ w[i] # first[b] /\ w[i] \in Elements /\ elem'[w[i]] = elem[w[i]]
    BY <1>1, <1>3, <2>1, Constants
  <2>3. next'[w[i]] = next[w[i]]
    BY <2>2 DEF AddHead, Types
  <2>4. pprev'[w[i]] = pprev[w[i]]
    BY <2>2 DEF AddHead
  <2> QED
    BY <2>1, <2>2, <2>3, <2>4
<1>6. Walks(first[c], n, w)'
  <2>1. first'[c] = IF n = 0 THEN NULL ELSE w[1]
    BY <1>4 DEF List, Walks
  <2>2. \A i \in 1..n : next'[w[i]] = IF i = n THEN NULL ELSE w[i + 1]
    BY <1>5 DEF List, Walks
  <2>3. \A i, j \in 1..n : w[i] = w[j] => i = j
    BY DEF List, Walks
  <2> QED
    BY <1>2, <2>1, <2>2, <2>3 DEF Walks
<1>7. \A i \in 1..n : /\ w[i] \in Live' /\ Bucket(elem[w[i]].key)' = c
                      /\ pprev'[w[i]] = IF i = 1 THEN c ELSE w[i - 1]
  <2> TAKE i \in 1..n
  <2>1. /\ w[i] \in Live /\ Bucket(elem[w[i]].key) = c
        /\ pprev[w[i]] = IF i = 1 THEN c ELSE w[i - 1]
    BY DEF List
  <2>2. elem'[w[i]].key = elem[w[i]].key /\ elem[w[i]].key \in Keys
    BY <1>3, <1>5, <2>1
  <2>3. Bucket(elem[w[i]].key)' = c
    BY <2>1, <2>2 DEF Bucket
  <2> QED
    BY <1>1, <1>5, <2>1, <2>3
<1>8. ASSUME NEW y \in Live', Bucket(elem[y].key)' = c
      PROVE  \E i \in 1..n : w[i] = y
  <2>1. CASE y = e
    BY <1>1, <1>8, <2>1 DEF Bucket
  <2>2. CASE y # e
    <3>1. y \in Live /\ elem'[y].key = elem[y].key /\ elem[y].key \in Keys
      BY <1>1, <1>3, <2>2
    <3>2. Bucket(elem[y].key) = c
      BY <1>8, <3>1 DEF Bucket
    <3> QED
      BY <3>1, <3>2 DEF List
  <2> QED
    BY <2>1, <2>2
<1> QED
  BY <1>6, <1>7, <1>8 DEF List

Prepended(e, n, w) == [i \in 1..(n + 1) |-> IF i = 1 THEN e ELSE w[i - 1]]

\* ... and prepends its element to the list of its bucket.
LEMMA PutLengthens ==
  ASSUME Types, NEW k \in Keys, NEW d \in Datas, NEW e \in Elements \ Live, NEW b,
         first \in [Buckets -> {NULL} \cup Elements], b \in Buckets, b = Bucket(k),
         Puts(e, k, d), AddHead(e, b),
         \A y \in Keys : Bucket(y)' = Bucket(y),
         NEW n, NEW w, List(b, n, w),
         NEW v, v = Prepended(e, n, w)
  PROVE  List(b, n + 1, v)'
<1>1. /\ Live' = Live \cup {e} /\ elem'[e].key = k
      /\ \A y \in Live : y # e /\ elem'[y] = elem[y]
  BY LiveAfterPut
<1>2. n \in Nat /\ w \in [1..n -> Elements] /\ first[b] = IF n = 0 THEN NULL ELSE w[1]
  BY DEF List, Walks
<1>3. \A y \in Live : elem[y].key \in Keys /\ y \in Elements
  BY DEF Live, Types
<1>4. first'[b] = e /\ e \in Elements
  BY DEF AddHead
<1>5. ASSUME NEW i \in 1..n
      PROVE  /\ w[i] \in Live /\ w[i] # e /\ w[i] \in Elements /\ elem'[w[i]] = elem[w[i]]
             /\ next'[w[i]] = IF i = n THEN NULL ELSE w[i + 1]
             /\ pprev'[w[i]] = IF i = 1 THEN e ELSE w[i - 1]
  <2>1. w[i] \in Live /\ pprev[w[i]] = IF i = 1 THEN b ELSE w[i - 1]
    BY DEF List
  <2>2. w[i] # e /\ w[i] \in Elements /\ elem'[w[i]] = elem[w[i]]
    BY <1>1, <1>3, <2>1
  <2>3. next'[w[i]] = next[w[i]]
    BY <2>2 DEF AddHead, Types
  <2>4. next[w[i]] = IF i = n THEN NULL ELSE w[i + 1]
    BY DEF List, Walks
  <2>5. w[i] = first[b] <=> i = 1
    <3>1. 1 \in 1..n /\ n # 0
      BY <1>2
    <3>2. w[i] = w[1] <=> i = 1
      BY <3>1 DEF List, Walks
    <3> QED
      BY <1>2, <3>1, <3>2
  <2>6. pprev'[w[i]] = IF i = 1 THEN e ELSE pprev[w[i]]
    BY <2>2, <2>5 DEF AddHead
  <2> QED
    BY <2>1, <2>2, <2>3, <2>4, <2>6
<1>6. \A i \in 1..(n + 1) : \/ i = 1 /\ v[i] = e
                            \/ i # 1 /\ i - 1 \in 1..n /\ v[i] = w[i - 1]
  BY <1>2 DEF Prepended
<1>7. Walks(first[b], n + 1, v)'
  <2>1. n + 1 \in Nat /\ v \in [1..(n + 1) -> Elements] /\ first'[b] = v[1]
    <3>1. \A i \in 1..(n + 1) : v[i] \in Elements
      BY <1>4, <1>5, <1>6
    <3> QED
      BY <1>2, <1>4, <1>6, <3>1 DEF Prepended
  <2>2. ASSUME NEW i \in 1..(n + 1)
        PROVE  next'[v[i]] = IF i = n + 1 THEN NULL ELSE v[i + 1]
    <3>1. CASE i = 1
      <4>1. next'[v[i]] = first[b]
        BY <1>6, <3>1 DEF AddHead, Types
      <4>2. CASE n = 0
        BY <1>2, <3>1, <4>1, <4>2
      <4>3. CASE n # 0
        <5>1. 2 \in 1..(n + 1) /\ v[2] = w[1]
          BY <1>2, <1>6, <4>3
        <5> QED
          BY <1>2, <3>1, <4>1, <4>3, <5>1
      <4> QED
        BY <4>2, <4>3
    <3>2. CASE i # 1
      <4>1. i - 1 \in 1..n /\ v[i] = w[i - 1]
        BY <1>6, <3>2
      <4>2. next'[w[i - 1]] = IF i - 1 = n THEN NULL ELSE w[(i - 1) + 1]
        BY <1>5, <4>1
      <4>3. CASE i = n + 1
        BY <1>2, <4>1, <4>2, <4>3
      <4>4. CASE i # n + 1
        <5>1. i + 1 \in 1..(n + 1) /\ (i + 1) - 1 = (i - 1) + 1 /\ i + 1 # 1 /\ i - 1 # n
          BY <1>2, <3>2, <4>4
        <5>2. v[i + 1] = w[(i + 1) - 1]
          BY <1>6, <5>1
        <5> QED
          BY <4>1, <4>2, <4>4, <5>1, <5>2
      <4> QED
        BY <4>3, <4>4
    <3> QED
      BY <3>1, <3>2
  <2>3. ASSUME NEW i \in 1..(n + 1), NEW j \in 1..(n + 1), v[i] = v[j] PROVE i = j
    <3>1. \A x, y \in 1..n : w[x] = w[y] => x = y
      BY DEF List, Walks
    <3>2. CASE i = 1 \/ j = 1
      BY <1>5, <1>6, <2>3, <3>2
    <3>3. CASE i # 1 /\ j # 1
      <4>1. i - 1 = j - 1
        BY <1>6, <2>3, <3>1, <3>3
      <4> QED
        BY <1>2, <4>1
    <3> QED
      BY <3>2, <3>3
  <2> QED
    BY <1>2, <2>1, <2>2, <2>3 DEF Walks
<1>8. ASSUME NEW i \in 1..(n + 1)
      PROVE  /\ v[i] \in Live' /\ Bucket(elem[v[i]].key)' = b
             /\ pprev'[v[i]] = IF i = 1 THEN b ELSE v[i - 1]
  <2>1. CASE i = 1
    <3>1. v[i] = e /\ Bucket(elem[v[i]].key)' = b
      BY <1>1, <1>6, <2>1 DEF Bucket
    <3>2. pprev'[e] = b
      BY <1>4 DEF AddHead
    <3> QED
      BY <1>1, <2>1, <3>1, <3>2
  <2>2. CASE i # 1
    <3>1. i - 1 \in 1..n /\ v[i] = w[i - 1]
      BY <1>6, <2>2
    <3>2. /\ w[i - 1] \in Live /\ elem'[w[i - 1]] = elem[w[i - 1]]
          /\ Bucket(elem[w[i - 1]].key) = b /\ elem[w[i - 1]].key \in Keys
      BY <1>3, <1>5, <3>1 DEF List
    <3>3. Bucket(elem[v[i]].key)' = b
      BY <3>1, <3>2 DEF Bucket
    <3>4. pprev'[v[i]] = v[i - 1]
      <4>1. pprev'[w[i - 1]] = IF i - 1 = 1 THEN e ELSE w[(i - 1) - 1]
        BY <1>5, <3>1
      <4>2. i - 1 \in 1..(n + 1) /\ (i - 1 = 1 => v[i - 1] = e) /\ (i - 1 # 1 => v[i - 1] = w[(i - 1) - 1])
        BY <1>2, <1>6, <3>1
      <4> QED
        BY <3>1, <4>1, <4>2
    <3> QED
      BY <1>1, <2>2, <3>1, <3>2, <3>3, <3>4
  <2> QED
    BY <2>1, <2>2
<1>9. ASSUME NEW y \in Live', Bucket(elem[y].key)' = b
      PROVE  \E i \in 1..(n + 1) : v[i] = y
  <2>1. CASE y = e
    BY <1>2, <1>6, <2>1
  <2>2. CASE y # e
    <3>1. y \in Live /\ elem'[y].key = elem[y].key /\ elem[y].key \in Keys
      BY <1>1, <1>3, <2>2
    <3>2. Bucket(elem[y].key) = b
      BY <1>9, <3>1 DEF Bucket
    <3>3. PICK i \in 1..n : w[i] = y
      BY <3>1, <3>2 DEF List
    <3>4. i + 1 \in 1..(n + 1) /\ i + 1 # 1 /\ (i + 1) - 1 = i
      BY <1>2
    <3>5. v[i + 1] = y
      BY <1>6, <3>3, <3>4
    <3> QED
      BY <3>4, <3>5
  <2> QED
    BY <2>1, <2>2
<1> QED
  BY <1>7, <1>8, <1>9 DEF List

\* A removal leaves the lists of the other buckets alone ...
LEMMA RemoveKeepsLists ==
  ASSUME Types, NEW b, first \in [Buckets -> {NULL} \cup Elements], b \in Buckets,
         \A y \in Buckets : y \in Nat,
         NEW m, NEW u, List(b, m, u), NEW x \in 1..m, NEW e \in Live, e = u[x],
         Drops(e), Unlink(e),
         \A y \in Keys : Bucket(y)' = Bucket(y),
         NEW c \in Buckets, NEW n, NEW w, List(c, n, w), c # b
  PROVE  List(c, n, w)'
<1>1. /\ Live' = Live \ {e}
      /\ \A y \in Live : y # e => elem'[y] = elem[y]
  BY LiveAfterRemove
<1>2. n \in Nat /\ w \in [1..n -> Elements]
  BY DEF List, Walks
<1>3. \A y \in Live : elem[y].key \in Keys /\ y \in Elements
  BY DEF Live, Types
<1>4. \A i \in 1..m : u[i] \in Live /\ Bucket(elem[u[i]].key) = b
  BY DEF List
<1>5. next[e] \in {NULL} \cup {u[i] : i \in 1..m}
  <2>1. next[e] = IF x = m THEN NULL ELSE u[x + 1]
    BY DEF List, Walks
  <2>2. m \in Nat /\ (x # m => x + 1 \in 1..m)
    BY DEF List, Walks
  <2> QED
    BY <2>1, <2>2
<1>6. pprev[e] = b \/ pprev[e] \in {u[i] : i \in 1..m}
  <2>1. pprev[e] = IF x = 1 THEN b ELSE u[x - 1]
    BY DEF List
  <2>2. m \in Nat /\ (x # 1 => x - 1 \in 1..m)
    BY DEF List, Walks
  <2> QED
    BY <2>1, <2>2
<1>7. first'[c] = first[c]
  <2>1. b \notin Elements
    BY Constants
  <2>2. CASE pprev[e] \in Elements
    BY <2>2 DEF Unlink
  <2>3. CASE pprev[e] = b
    BY <2>1, <2>3 DEF Unlink
  <2> QED
    BY <1>3, <1>4, <1>6, <2>2, <2>3
<1>8. ASSUME NEW i \in 1..n
      PROVE  /\ w[i] \in Live /\ w[i] # e /\ elem'[w[i]] = elem[w[i]]
             /\ next'[w[i]] = next[w[i]] /\ pprev'[w[i]] = pprev[w[i]]
  <2>1. w[i] \in Live /\ Bucket(elem[w[i]].key) = c /\ w[i] \in Elements
    BY <1>3 DEF List
  <2>2. \A j \in 1..m : w[i] # u[j]
    BY <1>4, <2>1
  <2>3. w[i] # e /\ w[i] # next[e] /\ w[i] # pprev[e]
    BY <1>5, <1>6, <2>1, <2>2, Constants
  <2>4. next'[w[i]] = next[w[i]] /\ pprev'[w[i]] = pprev[w[i]]
    BY <2>1, <2>3 DEF Unlink
  <2> QED
    BY <1>1, <2>1, <2>3, <2>4
<1>9. Walks(first[c], n, w)'
  <2>1. first'[c] = IF n = 0 THEN NULL ELSE w[1]
    BY <1>7 DEF List, Walks
  <2>2. \A i \in 1..n : next'[w[i]] = IF i = n THEN NULL ELSE w[i + 1]
    BY <1>8 DEF List, Walks
  <2>3. \A i, j \in 1..n : w[i] = w[j] => i = j
    BY DEF List, Walks
  <2> QED
    BY <1>2, <2>1, <2>2, <2>3 DEF Walks
<1>10. \A i \in 1..n : /\ w[i] \in Live' /\ Bucket(elem[w[i]].key)' = c
                       /\ pprev'[w[i]] = IF i = 1 THEN c ELSE w[i - 1]
  <2> TAKE i \in 1..n
  <2>1. /\ w[i] \in Live /\ Bucket(elem[w[i]].key) = c
        /\ pprev[w[i]] = IF i = 1 THEN c ELSE w[i - 1]
    BY DEF List
  <2>2. elem'[w[i]].key = elem[w[i]].key /\ elem[w[i]].key \in Keys
    BY <1>3, <1>8, <2>1
  <2>3. Bucket(elem[w[i]].key)' = c
    BY <2>1, <2>2 DEF Bucket
  <2> QED
    BY <1>1, <1>8, <2>1, <2>3
<1>11. ASSUME NEW y \in Live', Bucket(elem[y].key)' = c
       PROVE  \E i \in 1..n : w[i] = y
  <2>1. y \in Live /\ elem'[y].key = elem[y].key /\ elem[y].key \in Keys
    BY <1>1, <1>3
  <2>2. Bucket(elem[y].key) = c
    BY <1>11, <2>1 DEF Bucket
  <2> QED
    BY <2>1, <2>2 DEF List
<1> QED
  BY <1>9, <1>10, <1>11 DEF List

Shortened(x, n, w) == [i \in 1..(n - 1) |-> IF i < x THEN w[i] ELSE w[i + 1]]

\* ... and takes its element out of the list of its bucket.
LEMMA RemoveShortens ==
  ASSUME Types, NEW b, first \in [Buckets -> {NULL} \cup Elements], b \in Buckets,
         \A y \in Buckets : y \in Nat,
         NEW n, NEW w, List(b, n, w), NEW x \in 1..n, NEW e \in Live, e = w[x],
         Drops(e), Unlink(e),
         \A y \in Keys : Bucket(y)' = Bucket(y),
         NEW v, v = Shortened(x, n, w)
  PROVE  List(b, n - 1, v)'
<1>1. /\ Live' = Live \ {e}
      /\ \A y \in Live : y # e => elem'[y] = elem[y]
  BY LiveAfterRemove
<1>2. n \in Nat /\ n - 1 \in Nat /\ x \in Nat /\ w \in [1..n -> Elements]
  BY DEF List, Walks
<1>3. \A y \in Live : elem[y].key \in Keys /\ y \in Elements
  BY DEF Live, Types
<1>4. \A i, j \in 1..n : w[i] = w[j] => i = j
  BY DEF List, Walks
<1>5. \A i \in 1..n : /\ w[i] \in Live /\ w[i] \in Elements /\ w[i] # NULL /\ w[i] # b
                      /\ Bucket(elem[w[i]].key) = b
                      /\ next[w[i]] = IF i = n THEN NULL ELSE w[i + 1]
                      /\ pprev[w[i]] = IF i = 1 THEN b ELSE w[i - 1]
  BY <1>3, Constants DEF List, Walks
<1>6. next[e] = (IF x = n THEN NULL ELSE w[x + 1]) /\ pprev[e] = IF x = 1 THEN b ELSE w[x - 1]
  BY <1>5
<1>7. \A i \in 1..n : /\ w[i] = e <=> i = x
                      /\ w[i] = next[e] <=> i = x + 1
                      /\ w[i] = pprev[e] <=> i = x - 1
  <2> TAKE i \in 1..n
  <2>1. w[i] = e <=> i = x
    BY <1>4
  <2>2. w[i] = next[e] <=> i = x + 1
    <3>1. CASE x = n
      BY <1>2, <1>5, <1>6, <3>1
    <3>2. CASE x # n
      <4>1. x + 1 \in 1..n
        BY <1>2, <3>2
      <4> QED
        BY <1>4, <1>6, <3>2, <4>1
    <3> QED
      BY <3>1, <3>2
  <2>3. w[i] = pprev[e] <=> i = x - 1
    <3>1. CASE x = 1
      BY <1>2, <1>5, <1>6, <3>1
    <3>2. CASE x # 1
      <4>1. x - 1 \in 1..n
        BY <1>2, <3>2
      <4> QED
        BY <1>4, <1>6, <3>2, <4>1
    <3> QED
      BY <3>1, <3>2
  <2> QED
    BY <2>1, <2>2, <2>3
<1>8. \A i \in 1..n : i # x =>
        /\ next'[w[i]] = IF i = x - 1 THEN next[e] ELSE next[w[i]]
        /\ pprev'[w[i]] = IF i = x + 1 THEN pprev[e] ELSE pprev[w[i]]
  <2> SUFFICES ASSUME NEW i \in 1..n, i # x
               PROVE  /\ next'[w[i]] = IF i = x - 1 THEN next[e] ELSE next[w[i]]
                      /\ pprev'[w[i]] = IF i = x + 1 THEN pprev[e] ELSE pprev[w[i]]
    OBVIOUS
  <2>1. /\ w[i] \in Elements /\ w[i] # e
        /\ w[i] = next[e] <=> i = x + 1
        /\ w[i] = pprev[e] <=> i = x - 1
    BY <1>5, <1>7
  <2>2. next'[w[i]] = IF i = x - 1 THEN next[e] ELSE next[w[i]]
    BY <2>1 DEF Unlink
  <2>3. pprev'[w[i]] = IF i = x + 1 THEN pprev[e] ELSE pprev[w[i]]
    BY <2>1 DEF Unlink
  <2> QED
    BY <2>2, <2>3
<1>9. \A i \in 1..(n - 1) :
        \/ i < x /\ i \in 1..n /\ v[i] = w[i]
        \/ ~(i < x) /\ i + 1 \in 1..n /\ v[i] = w[i + 1]
  BY <1>2 DEF Shortened
<1>10. first'[b] = IF x = 1 THEN next[e] ELSE first[b]
  <2>1. b \notin Elements
    BY Constants
  <2>2. CASE x = 1
    BY <1>6, <2>1, <2>2 DEF Unlink
  <2>3. CASE x # 1
    <3>1. x - 1 \in 1..n
      BY <1>2, <2>3
    <3>2. pprev[e] \in Elements
      BY <1>5, <1>6, <2>3, <3>1
    <3> QED
      BY <2>3, <3>2 DEF Unlink
  <2> QED
    BY <2>2, <2>3
<1>11. \A i \in 1..(n - 1) :
         next'[v[i]] = IF i = n - 1 THEN NULL ELSE v[i + 1]
  <2> TAKE i \in 1..(n - 1)
  <2>1. CASE i < x
    <3>1. i \in 1..n /\ v[i] = w[i] /\ i # x
      BY <1>2, <1>9, <2>1
    <3>2. CASE i = x - 1
      <4>1. next'[v[i]] = IF x = n THEN NULL ELSE w[x + 1]
        BY <1>6, <1>8, <3>1, <3>2
      <4>2. CASE x = n
        BY <1>2, <3>2, <4>1, <4>2
      <4>3. CASE x # n
        <5>1. x \in 1..(n - 1) /\ i + 1 = x /\ i # n - 1
          BY <1>2, <3>2, <4>3
        <5>2. v[x] = w[x + 1]
          BY <1>2, <1>9, <5>1
        <5> QED
          BY <4>1, <4>3, <5>1, <5>2
      <4> QED
        BY <4>2, <4>3
    <3>3. CASE i # x - 1
      <4>1. next'[v[i]] = IF i = n THEN NULL ELSE w[i + 1]
        BY <1>5, <1>8, <3>1, <3>3
      <4>2. i # n /\ i # n - 1 /\ i + 1 < x /\ i + 1 \in 1..(n - 1)
        BY <1>2, <2>1, <3>3
      <4>3. v[i + 1] = w[i + 1]
        BY <1>9, <4>2
      <4> QED
        BY <4>1, <4>2, <4>3
    <3> QED
      BY <3>2, <3>3
  <2>2. CASE ~(i < x)
    <3>1. i + 1 \in 1..n /\ v[i] = w[i + 1] /\ i + 1 # x /\ i + 1 # x - 1
      BY <1>2, <1>9, <2>2
    <3>2. next'[v[i]] = IF i + 1 = n THEN NULL ELSE w[(i + 1) + 1]
      BY <1>5, <1>8, <3>1
    <3>3. CASE i = n - 1
      BY <1>2, <3>2, <3>3
    <3>4. CASE i # n - 1
      <4>1. i + 1 \in 1..(n - 1) /\ ~(i + 1 < x) /\ i + 1 # n
        BY <1>2, <2>2, <3>4
      <4>2. v[i + 1] = w[(i + 1) + 1]
        BY <1>9, <4>1
      <4> QED
        BY <3>2, <3>4, <4>1, <4>2
    <3> QED
      BY <3>3, <3>4
  <2> QED
    BY <2>1, <2>2
<1>12. \A i \in 1..(n - 1) :
         pprev'[v[i]] = IF i = 1 THEN b ELSE v[i - 1]
  <2> TAKE i \in 1..(n - 1)
  <2>1. CASE i < x
    <3>1. i \in 1..n /\ v[i] = w[i] /\ i # x /\ i # x + 1
      BY <1>2, <1>9, <2>1
    <3>2. pprev'[v[i]] = IF i = 1 THEN b ELSE w[i - 1]
      BY <1>5, <1>8, <3>1
    <3>3. i # 1 => v[i - 1] = w[i - 1]
      <4>1. i # 1 => i - 1 \in 1..(n - 1) /\ i - 1 < x
        BY <1>2, <2>1
      <4> QED
        BY <1>9, <4>1
    <3> QED
      BY <3>2, <3>3
  <2>2. CASE i = x
    <3>1. i + 1 \in 1..n /\ v[i] = w[i + 1] /\ i + 1 # x /\ i + 1 = x + 1
      BY <1>2, <1>9, <2>2
    <3>2. pprev'[v[i]] = IF x = 1 THEN b ELSE w[x - 1]
      BY <1>6, <1>8, <3>1
    <3>3. x # 1 => v[x - 1] = w[x - 1]
      <4>1. x # 1 => x - 1 \in 1..(n - 1) /\ x - 1 < x
        BY <1>2, <2>2
      <4> QED
        BY <1>9, <4>1
    <3> QED
      BY <2>2, <3>2, <3>3
  <2>3. CASE ~(i < x) /\ i # x
    <3>1. i + 1 \in 1..n /\ v[i] = w[i + 1] /\ i + 1 # x /\ i + 1 # x + 1 /\ i + 1 # 1 /\ i # 1
      BY <1>2, <1>9, <2>3
    <3>2. pprev'[v[i]] = w[(i + 1) - 1]
      BY <1>5, <1>8, <3>1
    <3>3. i - 1 \in 1..(n - 1) /\ ~(i - 1 < x) /\ (i - 1) + 1 = (i + 1) - 1
      BY <1>2, <2>3
    <3>4. v[i - 1] = w[(i - 1) + 1]
      BY <1>9, <3>3
    <3> QED
      BY <3>1, <3>2, <3>3, <3>4
  <2> QED
    BY <2>1, <2>2, <2>3
<1>13. Walks(first[b], n - 1, v)'
  <2>1. v \in [1..(n - 1) -> Elements]
    <3>1. \A i \in 1..(n - 1) : v[i] \in Elements
      BY <1>5, <1>9
    <3> QED
      BY <3>1 DEF Shortened
  <2>2. first'[b] = IF n - 1 = 0 THEN NULL ELSE v[1]
    <3>1. first[b] = w[1] /\ 1 \in 1..n
      BY <1>2 DEF List, Walks
    <3>2. CASE n - 1 = 0
      <4>1. x = 1 /\ x = n
        BY <1>2, <3>2
      <4> QED
        BY <1>6, <1>10, <3>2, <4>1
    <3>3. CASE n - 1 # 0
      <4>1. 1 \in 1..(n - 1)
        BY <1>2, <3>3
      <4>2. CASE x = 1
        <5>1. v[1] = w[1 + 1] /\ x # n
          BY <1>2, <1>9, <3>3, <4>1, <4>2
        <5> QED
          BY <1>6, <1>10, <3>3, <4>2, <5>1
      <4>3. CASE x # 1
        <5>1. v[1] = w[1]
          BY <1>2, <1>9, <4>1, <4>3
        <5> QED
          BY <1>10, <3>1, <3>3, <4>3, <5>1
      <4> QED
        BY <4>2, <4>3
    <3> QED
      BY <3>2, <3>3
  <2>3. ASSUME NEW i \in 1..(n - 1), NEW j \in 1..(n - 1), v[i] = v[j] PROVE i = j
    <3>1. CASE i < x /\ j < x
      BY <1>4, <1>9, <2>3, <3>1
    <3>2. CASE i < x /\ ~(j < x)
      <4>1. i = j + 1
        BY <1>4, <1>9, <2>3, <3>2
      <4> QED
        BY <1>2, <3>2, <4>1
    <3>3. CASE ~(i < x) /\ j < x
      <4>1. j = i + 1
        BY <1>4, <1>9, <2>3, <3>3
      <4> QED
        BY <1>2, <3>3, <4>1
    <3>4. CASE ~(i < x) /\ ~(j < x)
      <4>1. i + 1 = j + 1
        BY <1>4, <1>9, <2>3, <3>4
      <4> QED
        BY <1>2, <4>1
    <3> QED
      BY <3>1, <3>2, <3>3, <3>4
  <2> QED
    BY <1>2, <1>11, <2>1, <2>2, <2>3 DEF Walks
<1>14. \A i \in 1..(n - 1) : v[i] \in Live' /\ Bucket(elem[v[i]].key)' = b
  <2> TAKE i \in 1..(n - 1)
  <2>1. PICK j \in 1..n : j # x /\ v[i] = w[j]
    BY <1>2, <1>9
  <2>2. /\ w[j] \in Live /\ w[j] # e /\ elem'[w[j]] = elem[w[j]] /\ elem[w[j]].key \in Keys
        /\ Bucket(elem[w[j]].key) = b
    BY <1>1, <1>3, <1>5, <1>7, <2>1
  <2>3. Bucket(elem[v[i]].key)' = b
    BY <2>1, <2>2 DEF Bucket
  <2> QED
    BY <1>1, <2>1, <2>2, <2>3
<1>15. ASSUME NEW y \in Live', Bucket(elem[y].key)' = b
       PROVE  \E i \in 1..(n - 1) : v[i] = y
  <2>1. y \in Live /\ y # e /\ elem'[y].key = elem[y].key /\ elem[y].key \in Keys
    BY <1>1, <1>3
  <2>2. Bucket(elem[y].key) = b
    BY <1>15, <2>1 DEF Bucket
  <2>3. PICK j \in 1..n : w[j] = y
    BY <2>1, <2>2 DEF List
  <2>4. j # x
    BY <1>7, <2>1, <2>3
  <2>5. CASE j < x
    <3>1. j \in 1..(n - 1) /\ v[j] = w[j]
      BY <1>2, <1>9, <2>5
    <3> QED
      BY <2>3, <3>1
  <2>6. CASE ~(j < x)
    <3>1. j - 1 \in 1..(n - 1) /\ ~(j - 1 < x) /\ (j - 1) + 1 = j
      BY <1>2, <2>4, <2>6
    <3>2. v[j - 1] = w[j]
      BY <1>9, <3>1
    <3> QED
      BY <2>3, <3>1, <3>2
  <2> QED
    BY <2>5, <2>6
<1> QED
  BY <1>12, <1>13, <1>14, <1>15 DEF List

LEMMA MapFacts ==
  ASSUME Types, Counted
  PROVE  /\ map # NULL /\ map.table_size \in Nat \ {0} /\ map.size \in Nat
         /\ Buckets = 0..(map.table_size - 1) /\ \A b \in Buckets : b \in Nat
         /\ \A k \in Keys : Bucket(k) \in Buckets
<1>1. map # NULL
  BY HashMapAssumption DEF Counted
<1>2. map.table_size \in Nat \ {0} /\ map.size \in Nat
  BY DEF Counted
<1>3. Buckets = 0..(map.table_size - 1)
  BY <1>1 DEF Buckets
<1>4. ASSUME NEW k \in Keys PROVE Bucket(k) \in Buckets
  <2>1. hash[k] \in Nat
    BY HashMapAssumption DEF Types
  <2>2. PICK m \in Nat \ {0} : m = map.table_size
    BY <1>2
  <2>3. hash[k] % m \in 0..(m - 1)
    BY <2>1
  <2> QED
    BY <1>3, <2>2, <2>3 DEF Bucket
<1>5. \A b \in Buckets : b \in Nat
  BY <1>2, <1>3
<1> QED
  BY <1>1, <1>2, <1>3, <1>4, <1>5

LEMMA LiveFacts ==
  ASSUME Types
  PROVE  /\ IsFiniteSet(Live) /\ Live \subseteq Elements
         /\ \A e \in Live : elem[e] # NULL /\ elem[e] \in [key : Keys, data : Datas]
  BY Constants, FS_Subset DEF Types, Live

\* The walk of a bucket is its list, and the first element asked for is found.
LEMMA FirstAsked ==
  ASSUME Types, NEW k \in Keys, NEW d, NEW n, NEW w, List(Bucket(k), n, w)
  PROVE  /\ From(first[Bucket(k)]) = w /\ n \in Nat /\ w \in [1..n -> Elements]
         /\ \/ FirstOf(w, Asked(k, d)) = NULL /\ Asked(k, d) = {}
            \/ \E i \in 1..n : /\ FirstOf(w, Asked(k, d)) = w[i] /\ w[i] \in Asked(k, d)
                               /\ \A j \in 1..n : w[j] \in Asked(k, d) => i <= j
<1>1. From(first[Bucket(k)]) = w
  BY FromWalks, Constants DEF List
<1>2. n \in Nat /\ w \in [1..n -> Elements]
  BY DEF List, Walks
<1>3. \A e \in Asked(k, d) : \E i \in 1..n : w[i] = e
  BY DEF Asked, List
<1>4. CASE FirstOf(w, Asked(k, d)) = NULL /\ \A i \in 1..n : w[i] \notin Asked(k, d)
  BY <1>1, <1>2, <1>3, <1>4
<1>5. CASE \E i \in 1..n : /\ FirstOf(w, Asked(k, d)) = w[i] /\ w[i] \in Asked(k, d)
                           /\ \A j \in 1..n : w[j] \in Asked(k, d) => i <= j
  BY <1>1, <1>2, <1>5
<1> QED
  BY <1>2, <1>4, <1>5, FirstIsFirst

LEMMA AskedOfKey ==
  ASSUME NEW k
  PROVE  Asked(k, NULL) = {e \in Live : elem[e].key = k}
  BY DEF Asked

LEMMA FindIs ==
  ASSUME Types, NEW k \in Keys, NEW n, NEW w, List(Bucket(k), n, w)
  PROVE  \/ Find(k) = NULL /\ \A e \in Live : elem[e].key # k
         \/ \E i \in 1..n : /\ Find(k) = w[i] /\ w[i] \in Live /\ elem[w[i]].key = k
                            /\ \A j \in 1..n : elem[w[j]].key = k => i <= j
<1>1. Find(k) = FirstOf(w, Asked(k, NULL))
  BY FirstAsked DEF Find
<1>2. \A i \in 1..n : w[i] \in Live
  BY DEF List
<1>3. CASE FirstOf(w, Asked(k, NULL)) = NULL /\ Asked(k, NULL) = {}
  BY <1>1, <1>3, AskedOfKey
<1>4. ASSUME NEW i \in 1..n, FirstOf(w, Asked(k, NULL)) = w[i], w[i] \in Asked(k, NULL),
             \A j \in 1..n : w[j] \in Asked(k, NULL) => i <= j
      PROVE  /\ Find(k) = w[i] /\ w[i] \in Live /\ elem[w[i]].key = k
             /\ \A j \in 1..n : elem[w[j]].key = k => i <= j
  BY <1>1, <1>2, <1>4, AskedOfKey
<1> QED
  BY <1>3, <1>4, FirstAsked

LEMMA FindNextIs ==
  ASSUME Types, NEW e \in Live, NEW n, NEW w, List(Bucket(elem[e].key), n, w),
         NEW j \in 1..n, w[j] = e
  PROVE  \/ FindNext(e) = NULL /\ \A i \in (j + 1)..n : elem[w[i]].key # elem[e].key
         \/ \E i \in (j + 1)..n : /\ FindNext(e) = w[i] /\ w[i] \in Live
                                  /\ elem[w[i]].key = elem[e].key
                                  /\ \A x \in (j + 1)..n : elem[w[x]].key = elem[e].key => i <= x
<1> DEFINE k == elem[e].key
<1>0. PICK v : v = [i \in 1..(n - j) |-> w[i + j]]
  OBVIOUS
<1>1. n \in Nat /\ j \in Nat /\ n - j \in Nat
  BY DEF List, Walks
<1>2. Walks(next[w[j]], n - j, v)
  BY <1>0, WalksOn DEF List
<1>3. From(next[e]) = v
  BY <1>2, FromWalks, Constants
<1>4. v \in [1..(n - j) -> Elements]
  BY <1>2 DEF Walks
<1>5. FindNext(e) = FirstOf(v, Asked(k, NULL))
  BY <1>3 DEF FindNext
<1>6. \A i \in (j + 1)..n : i - j \in 1..(n - j) /\ v[i - j] = w[i] /\ w[i] \in Live
  <2> TAKE i \in (j + 1)..n
  <2>1. i - j \in 1..(n - j) /\ (i - j) + j = i /\ i \in 1..n
    BY <1>1
  <2>2. v[i - j] = w[(i - j) + j]
    BY <1>0, <2>1
  <2> QED
    BY <2>1, <2>2 DEF List
<1>7. \A i \in 1..(n - j) : i + j \in (j + 1)..n /\ v[i] = w[i + j]
  BY <1>0, <1>1
<1> HIDE DEF k
<1>8. CASE FirstOf(v, Asked(k, NULL)) = NULL /\ \A i \in 1..(n - j) : v[i] \notin Asked(k, NULL)
  <2>1. ASSUME NEW i \in (j + 1)..n PROVE elem[w[i]].key # k
    <3>1. v[i - j] \notin Asked(k, NULL) /\ v[i - j] = w[i] /\ w[i] \in Live
      BY <1>6, <1>8
    <3> QED
      BY <3>1, AskedOfKey
  <2> QED
    BY <1>5, <1>8, <2>1 DEF k
<1>9. ASSUME NEW i \in 1..(n - j), FirstOf(v, Asked(k, NULL)) = v[i], v[i] \in Asked(k, NULL),
             \A x \in 1..(n - j) : v[x] \in Asked(k, NULL) => i <= x
      PROVE  \E y \in (j + 1)..n : /\ FindNext(e) = w[y] /\ w[y] \in Live
                                   /\ elem[w[y]].key = k
                                   /\ \A x \in (j + 1)..n : elem[w[x]].key = k => y <= x
  <2>1. i + j \in (j + 1)..n /\ v[i] = w[i + j]
    BY <1>7
  <2>2. w[i + j] \in Live /\ elem[w[i + j]].key = k
    BY <1>9, <2>1, AskedOfKey
  <2>3. ASSUME NEW x \in (j + 1)..n, elem[w[x]].key = k PROVE i + j <= x
    <3>1. v[x - j] \in Asked(k, NULL) /\ x - j \in 1..(n - j)
      BY <1>6, <2>3, AskedOfKey
    <3>2. i <= x - j
      BY <1>9, <3>1
    <3> QED
      BY <1>1, <3>2
  <2> QED
    BY <1>5, <1>9, <2>1, <2>2, <2>3
<1> QED
  BY <1>1, <1>4, <1>8, <1>9, FirstIsFirst DEF k

\* What tuya_hashmap_remove takes: the first element asked for or, when none
\* is, the last of the bucket.
LEMMA RemoveStops ==
  ASSUME Types, NEW k \in Keys, NEW d, NEW n, NEW w, List(Bucket(k), n, w),
         first[Bucket(k)] # NULL
  PROVE  \E i \in 1..n :
           /\ RemoveStopsAt(k, d) = w[i]
           /\ IF Asked(k, d) = {} THEN i = n
              ELSE w[i] \in Asked(k, d) /\ \A j \in 1..n : w[j] \in Asked(k, d) => i <= j
<1>1. /\ From(first[Bucket(k)]) = w /\ n \in Nat /\ w \in [1..n -> Elements]
      /\ \A i \in 1..n : w[i] # NULL
  <2>1. From(first[Bucket(k)]) = w /\ n \in Nat /\ w \in [1..n -> Elements]
    BY FirstAsked
  <2>2. \A i \in 1..n : w[i] \in Elements
    BY <2>1
  <2> QED
    BY <2>1, <2>2, Constants
<1>2. n # 0
  BY DEF List, Walks
<1>3. Len(w) = n
  BY <1>1
<1>4. RemoveStopsAt(k, d) = IF FirstOf(w, Asked(k, d)) # NULL THEN FirstOf(w, Asked(k, d)) ELSE w[n]
  BY <1>1, <1>3 DEF RemoveStopsAt
<1>5. CASE FirstOf(w, Asked(k, d)) = NULL /\ Asked(k, d) = {}
  <2>1. n \in 1..n
    BY <1>1, <1>2
  <2> QED
    BY <1>4, <1>5, <2>1
<1>6. ASSUME NEW i \in 1..n, FirstOf(w, Asked(k, d)) = w[i], w[i] \in Asked(k, d),
             \A j \in 1..n : w[j] \in Asked(k, d) => i <= j
      PROVE  /\ RemoveStopsAt(k, d) = w[i] /\ Asked(k, d) # {}
  BY <1>1, <1>4, <1>6
<1> QED
  BY <1>5, <1>6, FirstAsked

\* A call that moves no pointer leaves the lists as they are.
Still == UNCHANGED <<hash, map, first, next, pprev, elem>>

LEMMA StillSame ==
  ASSUME Still
  PROVE  /\ Types => Types'
         /\ Counted => Counted'
         /\ Live' = Live /\ Buckets' = Buckets
         /\ \A k : Bucket(k)' = Bucket(k)
         /\ \A b, n, w : List(b, n, w) => List(b, n, w)'
<1>1. Types => Types'
  BY DEF Still, Types
<1>2. Live' = Live /\ Buckets' = Buckets
  BY DEF Still, Live, Buckets
<1>3. Counted => Counted'
  BY <1>2 DEF Still, Counted
<1>4. \A k : Bucket(k)' = Bucket(k)
  BY DEF Still, Bucket
<1>5. ASSUME NEW b, NEW n, NEW w, List(b, n, w) PROVE List(b, n, w)'
  <2>1. Walks(first[b], n, w)'
    BY <1>5 DEF Still, List, Walks
  <2>2. \A e \in Live : Bucket(elem[e].key)' = Bucket(elem[e].key)
    BY DEF Still, Bucket
  <2>3. \A i \in 1..n : /\ w[i] \in Live' /\ Bucket(elem[w[i]].key)' = b
                        /\ pprev'[w[i]] = IF i = 1 THEN b ELSE w[i - 1]
    BY <1>2, <1>5, <2>2 DEF Still, List
  <2>4. \A e \in Live' : Bucket(elem[e].key)' = b => \E i \in 1..n : w[i] = e
    BY <1>2, <1>5, <2>2 DEF List
  <2> QED
    BY <2>1, <2>3, <2>4 DEF List
<1> QED
  BY <1>1, <1>2, <1>3, <1>4, <1>5

LEMMA StillKeeps ==
  ASSUME IInv, Still, UNCHANGED <<iter, due>>
  PROVE  IInv'
<1>1. Types'
  BY StillSame DEF IInv
<1>2. CASE NoMap
  BY <1>1, <1>2, StillSame DEF IInv, NoMap, Still
<1>3. CASE Counted /\ Traversed /\ \A b \in Buckets : \E n, w : List(b, n, w)
  <2>1. Counted'
    BY <1>3, StillSame
  <2>2. \A b \in Buckets' : \E n, w : List(b, n, w)'
    BY <1>3, StillSame
  <2>3. Traversed'
    <3>1. CASE iter = NULL
      BY <1>3, <3>1 DEF Traversed
    <3>2. CASE iter # NULL
      <4>1. PICK b, n, w, j : b = Bucket(elem[iter].key) /\ List(b, n, w) /\ Shows(n, w, j)
        BY <1>3, <3>2 DEF Traversed
      <4>2. b = Bucket(elem[iter].key)' /\ List(b, n, w)'
        <5>1. Bucket(elem[iter].key)' = Bucket(elem[iter].key)
          BY DEF Still, Bucket
        <5> QED
          BY <4>1, <5>1, StillSame
      <4>3. Shows(n, w, j)'
        BY <4>1 DEF Shows, Still
      <4>4. iter' \in Live'
        BY <1>3, <3>2, StillSame DEF Traversed
      <4> QED
        BY <3>2, <4>2, <4>3, <4>4 DEF Traversed
    <3> QED
      BY <3>1, <3>2
  <2> QED
    BY <1>1, <2>1, <2>2, <2>3 DEF IInv
<1> QED
  BY <1>2, <1>3 DEF IInv

LEMMA HasMap ==
  ASSUME IInv, map # NULL
  PROVE  Types /\ Counted /\ Traversed /\ \A b \in Buckets : \E n, w : List(b, n, w)
  BY DEF IInv, NoMap

LEMMA ListOfKey ==
  ASSUME IInv, map # NULL, NEW k \in Keys
  PROVE  \E n, w : List(Bucket(k), n, w)
  BY HasMap, MapFacts

LEMMA InitHolds == Init => IInv
<1> SUFFICES ASSUME Init PROVE IInv
  OBVIOUS
<1>1. Live = {}
  BY DEF Init, Live
<1>2. Types
  BY DEF Init, Types
<1> QED
  BY <1>1, <1>2 DEF Init, IInv, NoMap

LEMMA NewStep ==
  ASSUME IInv, NEW t \in TableSizes, New(t)
  PROVE  IInv'
<1>1. NoMap /\ Types
  <2>1. map = NULL
    BY DEF New
  <2>2. Counted => map # NULL
    BY HashMapAssumption DEF Counted
  <2> QED
    BY <2>1, <2>2 DEF IInv
<1>2. Types' /\ Live' = Live /\ Live = {}
  BY <1>1 DEF New, Types, Live, NoMap
<1>3. CASE UNCHANGED <<map, first>>
  BY <1>1, <1>2, <1>3 DEF New, IInv, NoMap
<1>4. CASE /\ t > 0 /\ map' = [size |-> 0, table_size |-> t]
           /\ first' = [b \in 0..(t - 1) |-> NULL]
  <2>1. t \in Nat \ {0}
    BY <1>4, HashMapAssumption
  <2>2. map' \in [size : Nat, table_size : Nat \ {0}] /\ map'.size = 0 /\ map'.table_size = t
    BY <1>4, <2>1
  <2>3. map' # NULL /\ Buckets' = 0..(t - 1)
    <3>1. map' # NULL
      BY <2>2, HashMapAssumption
    <3> QED
      BY <2>2, <3>1 DEF Buckets
  <2>4. Cardinality(Live') = 0
    BY <1>2, FS_EmptySet
  <2>5. Counted'
    BY <1>4, <2>2, <2>3, <2>4 DEF Counted
  <2>6. ASSUME NEW b \in Buckets' PROVE List(b, 0, <<>>)'
    <3>1. first'[b] = NULL
      BY <1>4, <2>3
    <3>2. <<>> \in [1..0 -> Elements]
      OBVIOUS
    <3> QED
      BY <1>2, <3>1, <3>2 DEF List, Walks
  <2>7. Traversed'
    BY <1>1 DEF New, Traversed, NoMap
  <2> QED
    BY <1>2, <2>5, <2>6, <2>7 DEF IInv
<1> QED
  BY <1>3, <1>4 DEF New

LEMMA FreeStep ==
  ASSUME IInv, Free
  PROVE  IInv'
<1>1. Types /\ Counted /\ map # NULL /\ map.size = 0
  BY HasMap DEF Free, Length
<1>2. Live = {}
  BY <1>1, LiveFacts, FS_EmptySet DEF Counted
<1>3. Types' /\ Live' = {}
  BY <1>1, <1>2 DEF Free, Types, Live
<1> QED
  BY <1>3 DEF Free, IInv, NoMap

LEMMA TraverseFirstStep ==
  ASSUME IInv, NEW k \in Keys, TraverseFirst(k)
  PROVE  IInv'
<1>0. Still
  BY DEF TraverseFirst, Still
<1>1. map # NULL /\ Types /\ Counted /\ \A b \in Buckets : \E n, w : List(b, n, w)
  BY HasMap DEF TraverseFirst
<1>2. Types' /\ Counted' /\ \A b \in Buckets' : \E n, w : List(b, n, w)'
  BY <1>0, <1>1, StillSame
<1>3. PICK b, n, w : b = Bucket(k) /\ List(b, n, w)
  BY <1>1, ListOfKey
<1>4. iter' = Find(k) /\ due' = {e \in Live : elem[e].key = k} \ {Find(k)} /\ elem' = elem
  BY DEF TraverseFirst
<1>5. CASE Find(k) = NULL /\ \A e \in Live : elem[e].key # k
  <2>1. Traversed'
    BY <1>4, <1>5 DEF Traversed
  <2> QED
    BY <1>2, <2>1 DEF IInv
<1>6. ASSUME NEW i \in 1..n, Find(k) = w[i], w[i] \in Live, elem[w[i]].key = k,
             \A j \in 1..n : elem[w[j]].key = k => i <= j
      PROVE  IInv'
  <2>1. iter' = w[i] /\ iter' \in Live' /\ iter' # NULL /\ elem'[iter'].key = k
    <3>1. iter' = w[i] /\ Live' = Live /\ elem'[iter'].key = k
      BY <1>0, <1>4, <1>6, StillSame
    <3>2. w[i] # NULL
      BY <1>1, <1>6, LiveFacts, Constants
    <3> QED
      BY <1>6, <3>1, <3>2
  <2>2. b = Bucket(elem[iter].key)' /\ List(b, n, w)'
    <3>1. Bucket(elem[iter].key)' = Bucket(k)
      BY <1>0, <2>1 DEF Bucket, Still
    <3> QED
      BY <1>0, <1>3, <3>1, StillSame
  <2>3. Shows(n, w, i)'
    <3>1. ASSUME NEW e PROVE e \in due' <=> \E x \in (i + 1)..n : e = w[x] /\ elem[e].key = k
      <4>0. n \in Nat /\ \A x, y \in 1..n : w[x] = w[y] => x = y
        BY <1>3 DEF List, Walks
      <4>1. ASSUME e \in due' PROVE \E x \in (i + 1)..n : e = w[x] /\ elem[e].key = k
        <5>1. e \in Live /\ elem[e].key = k /\ e # w[i]
          BY <1>4, <1>6, <4>1
        <5>2. PICK x \in 1..n : w[x] = e
          BY <1>3, <5>1 DEF List
        <5>3. i <= x /\ x # i
          BY <1>6, <5>1, <5>2
        <5>4. x \in (i + 1)..n
          BY <4>0, <5>3
        <5> QED
          BY <5>1, <5>2, <5>4
      <4>2. ASSUME NEW x \in (i + 1)..n, e = w[x], elem[e].key = k PROVE e \in due'
        <5>1. x \in 1..n /\ x # i
          BY <4>0
        <5>2. w[x] \in Live /\ w[x] # w[i]
          BY <1>3, <4>0, <5>1 DEF List
        <5> QED
          BY <1>4, <1>6, <4>2, <5>2
      <4> QED
        BY <4>1, <4>2
    <3> QED
      BY <1>4, <2>1, <3>1 DEF Shows
  <2>4. Traversed'
    BY <2>1, <2>2, <2>3 DEF Traversed
  <2> QED
    BY <1>2, <2>4 DEF IInv
<1> QED
  BY <1>1, <1>3, <1>5, <1>6, FindIs

LEMMA TraverseNextStep ==
  ASSUME IInv, TraverseNext
  PROVE  IInv'
<1>0. Still
  BY DEF TraverseNext, Still
<1>1. map # NULL /\ iter # NULL /\ Types /\ Counted /\ Traversed
      /\ \A b \in Buckets : \E n, w : List(b, n, w)
  BY HasMap DEF TraverseNext
<1>2. Types' /\ Counted' /\ \A b \in Buckets' : \E n, w : List(b, n, w)'
  BY <1>0, <1>1, StillSame
<1>3. iter \in Live
  BY <1>1 DEF Traversed
<1>4. PICK b, n, w, j : b = Bucket(elem[iter].key) /\ List(b, n, w) /\ Shows(n, w, j)
  BY <1>1 DEF Traversed
<1>5. iter' = FindNext(iter) /\ due' = due \ {FindNext(iter)} /\ elem' = elem
  BY DEF TraverseNext
<1>a. n \in Nat /\ j \in 1..n /\ w[j] = iter /\ \A x, y \in 1..n : w[x] = w[y] => x = y
  BY <1>4 DEF List, Walks, Shows
<1>b. \A e : e \in due <=> \E i \in (j + 1)..n : e = w[i] /\ elem[e].key = elem[iter].key
  BY <1>4 DEF Shows
<1>6. CASE FindNext(iter) = NULL /\ \A i \in (j + 1)..n : elem[w[i]].key # elem[iter].key
  <2>1. Traversed'
    BY <1>5, <1>6, <1>b DEF Traversed
  <2> QED
    BY <1>2, <2>1 DEF IInv
<1>7. ASSUME NEW i \in (j + 1)..n, FindNext(iter) = w[i], w[i] \in Live,
             elem[w[i]].key = elem[iter].key,
             \A x \in (j + 1)..n : elem[w[x]].key = elem[iter].key => i <= x
      PROVE  IInv'
  <2>1. iter' = w[i] /\ iter' \in Live' /\ iter' # NULL /\ elem'[iter'].key = elem[iter].key
    <3>1. iter' = w[i] /\ Live' = Live /\ elem'[iter'].key = elem[iter].key
      BY <1>0, <1>5, <1>7, StillSame
    <3>2. w[i] # NULL
      BY <1>1, <1>7, LiveFacts, Constants
    <3> QED
      BY <1>7, <3>1, <3>2
  <2>2. b = Bucket(elem[iter].key)' /\ List(b, n, w)'
    <3>1. Bucket(elem[iter].key)' = Bucket(elem[iter].key)
      BY <1>0, <2>1 DEF Bucket, Still
    <3> QED
      BY <1>0, <1>4, <3>1, StillSame
  <2>3. Shows(n, w, i)'
    <3>0. i \in 1..n
      BY <1>a
    <3>1. ASSUME NEW e
          PROVE e \in due' <=> \E x \in (i + 1)..n : e = w[x] /\ elem[e].key = elem[iter].key
      <4>1. ASSUME e \in due'
            PROVE \E x \in (i + 1)..n : e = w[x] /\ elem[e].key = elem[iter].key
        <5>1. e \in due /\ e # w[i]
          BY <1>5, <1>7, <4>1
        <5>2. PICK x \in (j + 1)..n : e = w[x] /\ elem[e].key = elem[iter].key
          BY <1>b, <5>1
        <5>3. i <= x /\ x # i
          BY <1>7, <5>1, <5>2
        <5>4. x \in (i + 1)..n
          BY <1>a, <5>3
        <5> QED
          BY <5>2, <5>4
      <4>2. ASSUME NEW x \in (i + 1)..n, e = w[x], elem[e].key = elem[iter].key PROVE e \in due'
        <5>1. x \in (j + 1)..n /\ x \in 1..n /\ x # i
          BY <1>a
        <5>2. e \in due /\ w[x] # w[i]
          BY <1>a, <1>b, <3>0, <4>2, <5>1
        <5> QED
          BY <1>5, <1>7, <4>2, <5>2
      <4> QED
        BY <4>1, <4>2
    <3> QED
      BY <1>5, <2>1, <3>0, <3>1 DEF Shows
  <2>4. Traversed'
    BY <2>1, <2>2, <2>3 DEF Traversed
  <2> QED
    BY <1>2, <2>4 DEF IInv
<1>8. List(Bucket(elem[iter].key), n, w)
  BY <1>4
<1>9. \/ FindNext(iter) = NULL /\ \A i \in (j + 1)..n : elem[w[i]].key # elem[iter].key
      \/ \E i \in (j + 1)..n : /\ FindNext(iter) = w[i] /\ w[i] \in Live
                               /\ elem[w[i]].key = elem[iter].key
                               /\ \A x \in (j + 1)..n : elem[w[x]].key = elem[iter].key => i <= x
  <2>1. PICK e \in Live : e = iter
    BY <1>3
  <2>2. Types /\ List(Bucket(elem[e].key), n, w) /\ j \in 1..n /\ w[j] = e
    BY <1>1, <1>8, <1>a, <2>1
  <2>3. \/ FindNext(e) = NULL /\ \A i \in (j + 1)..n : elem[w[i]].key # elem[e].key
        \/ \E i \in (j + 1)..n : /\ FindNext(e) = w[i] /\ w[i] \in Live
                                 /\ elem[w[i]].key = elem[e].key
                                 /\ \A x \in (j + 1)..n : elem[w[x]].key = elem[e].key => i <= x
    BY <2>2, FindNextIs
  <2> QED
    BY <2>1, <2>3
<1> QED
  BY <1>6, <1>7, <1>9

\* A put at the head of a bucket, seen as a whole.
PutsAt(e, k, d, b) ==
  /\ Puts(e, k, d) /\ AddHead(e, b) /\ map' = [map EXCEPT !.size = @ + 1]
  /\ UNCHANGED <<hash, iter, due>>

LEMMA PutParts ==
  ASSUME IInv, NEW k \in Keys, NEW d \in Datas, Put(k, d)
  PROVE  /\ map # NULL
         /\ \E e \in Elements \ Live, b \in Buckets : b = Bucket(k) /\ PutsAt(e, k, d, b)
<1>1. map # NULL
  BY DEF Put
<1>2. Bucket(k) \in Buckets
  BY <1>1, HasMap, MapFacts
<1>3. PICK e \in Elements \ Live :
        /\ elem' = [elem EXCEPT ![e] = [key |-> k, data |-> d]] /\ AddHead(e, Bucket(k))
        /\ map' = [map EXCEPT !.size = @ + 1] /\ UNCHANGED <<hash, iter, due>>
  BY DEF Put, CountSize
<1> QED
  BY <1>1, <1>2, <1>3 DEF PutsAt, Puts

\* The buckets and the number of the elements after the size has changed.
LEMMA Resized ==
  ASSUME Types, Counted, NEW i \in Int, map' = [map EXCEPT !.size = @ + i], hash' = hash,
         map.size + i \in Nat
  PROVE  /\ map' \in [size : Nat, table_size : Nat \ {0}] /\ map'.size = map.size + i
         /\ Buckets' = Buckets /\ \A y \in Keys : Bucket(y)' = Bucket(y)
<1>1. PICK s \in Nat, t \in Nat \ {0} : map = [size |-> s, table_size |-> t] /\ s + i \in Nat
  BY DEF Counted
<1>2. map' = [size |-> s + i, table_size |-> t]
  BY <1>1
<1>3. map # NULL /\ map' # NULL
  BY <1>1, <1>2, HashMapAssumption
<1>4. Buckets' = Buckets
  BY <1>1, <1>2, <1>3 DEF Buckets
<1> QED
  BY <1>1, <1>2, <1>4 DEF Bucket

LEMMA PutTypes ==
  ASSUME Types, Counted, NEW k \in Keys, NEW d \in Datas, NEW e \in Elements \ Live,
         NEW b \in Buckets, b = Bucket(k), PutsAt(e, k, d, b)
  PROVE  Types' /\ Counted' /\ Buckets' = Buckets /\ \A y \in Keys : Bucket(y)' = Bucket(y)
<1>0. Puts(e, k, d) /\ AddHead(e, b) /\ map' = [map EXCEPT !.size = @ + 1] /\ hash' = hash
  BY DEF PutsAt
<1>1. Live' = Live \cup {e} /\ IsFiniteSet(Live) /\ e \notin Live
  BY <1>0, LiveAfterPut, LiveFacts
<1>2. Cardinality(Live') = Cardinality(Live) + 1
  BY <1>1, FS_AddElement
<1>3. /\ map' \in [size : Nat, table_size : Nat \ {0}] /\ map'.size = map.size + 1
      /\ Buckets' = Buckets /\ \A y \in Keys : Bucket(y)' = Bucket(y)
  <2>1. map.size + 1 \in Nat
    BY MapFacts
  <2> QED
    BY <1>0, <2>1, Resized
<1>4. first' \in [Buckets -> {NULL} \cup Elements] /\ b \in Nat
  BY <1>0, MapFacts DEF Counted, AddHead
<1>5. Counted'
  BY <1>2, <1>3, <1>4 DEF Counted
<1>6. elem' \in [Elements -> {NULL} \cup [key : Keys, data : Datas]]
  BY <1>0 DEF Puts, Types
<1>7. next' \in [Elements -> {NULL} \cup Elements]
  BY <1>0 DEF AddHead, Types, Counted
<1>8. pprev' \in [Elements -> {NULL} \cup Elements \cup Nat]
  BY <1>0, <1>4 DEF AddHead, Types
<1>9. Types'
  BY <1>0, <1>6, <1>7, <1>8 DEF Types
<1> QED
  BY <1>3, <1>5, <1>9

\* What a put changes: it adds e to the head of its bucket.
PutMoved(e, k, d, b) ==
  /\ Types' /\ Counted' /\ Buckets' = Buckets /\ \A y \in Keys : Bucket(y)' = Bucket(y)
  /\ Live' = Live \cup {e} /\ elem'[e].key = k /\ elem'[e].data = d
  /\ \A y \in Live : y # e /\ elem'[y] = elem[y]
  /\ \A c \in Buckets : \A n, w : c # b /\ List(c, n, w) => List(c, n, w)'
  /\ \A n, w : List(b, n, w) => \E v : v = Prepended(e, n, w) /\ List(b, n + 1, v)'

LEMMA PutMoves ==
  ASSUME IInv, map # NULL, NEW k \in Keys, NEW d \in Datas, NEW e \in Elements \ Live,
         NEW b \in Buckets, b = Bucket(k), PutsAt(e, k, d, b)
  PROVE  PutMoved(e, k, d, b)
<1>1. Types /\ Counted /\ \A c \in Buckets : \E n, w : List(c, n, w)
  BY HasMap
<1>3. Types' /\ Counted' /\ Buckets' = Buckets /\ \A y \in Keys : Bucket(y)' = Bucket(y)
  BY <1>1, PutTypes
<1>4. /\ Puts(e, k, d) /\ AddHead(e, b)
      /\ first \in [Buckets -> {NULL} \cup Elements]
  BY <1>1 DEF PutsAt, Counted
<1>5. first[b] # NULL => first[b] \in Live /\ Bucket(elem[first[b]].key) = b
  <2>1. PICK n, w : List(b, n, w)
    BY <1>1
  <2> QED
    BY <2>1 DEF List, Walks
<1>6. /\ Live' = Live \cup {e} /\ elem'[e].key = k /\ elem'[e].data = d
      /\ \A y \in Live : y # e /\ elem'[y] = elem[y]
  BY <1>1, <1>4, LiveAfterPut
<1>7. ASSUME NEW c \in Buckets, NEW n, NEW w, List(c, n, w), c # b
      PROVE  List(c, n, w)'
  BY <1>1, <1>3, <1>4, <1>5, <1>7, PutKeepsLists
<1>8. ASSUME NEW n, NEW w, List(b, n, w), NEW v, v = Prepended(e, n, w)
      PROVE  List(b, n + 1, v)'
  BY <1>1, <1>3, <1>4, <1>8, PutLengthens
<1> QED
  BY <1>3, <1>6, <1>7, <1>8 DEF PutMoved

LEMMA PutStep ==
  ASSUME IInv, NEW k \in Keys, NEW d \in Datas, Put(k, d)
  PROVE  IInv'
<1>1. Types /\ Counted /\ Traversed /\ \A c \in Buckets : \E n, w : List(c, n, w)
  BY HasMap, PutParts
<1>2. PICK e \in Elements \ Live, b \in Buckets : b = Bucket(k) /\ PutsAt(e, k, d, b)
  BY PutParts
<1>m. map # NULL
  BY PutParts
<1>3. PutMoved(e, k, d, b)
  BY <1>m, <1>2, PutMoves
<1>4. UNCHANGED <<iter, due>>
  BY <1>2 DEF PutsAt
<1>5. Types' /\ Counted' /\ Buckets' = Buckets /\ \A y \in Keys : Bucket(y)' = Bucket(y)
  BY <1>3 DEF PutMoved
<1>6. Live' = Live \cup {e} /\ \A y \in Live : y # e /\ elem'[y] = elem[y]
  BY <1>3 DEF PutMoved
<1>7. ASSUME NEW c \in Buckets, NEW n, NEW w, List(c, n, w), c # b
      PROVE  List(c, n, w)'
  BY <1>3, <1>7 DEF PutMoved
<1>8. ASSUME NEW n, NEW w, List(b, n, w)
      PROVE  \E v : v = Prepended(e, n, w) /\ List(b, n + 1, v)'
  BY <1>3, <1>8 DEF PutMoved
<1>9. ASSUME NEW c \in Buckets' PROVE \E n, w : List(c, n, w)'
  <2>1. PICK n, w : List(c, n, w)
    BY <1>1, <1>5
  <2>2. CASE c = b
    BY <1>8, <2>1, <2>2
  <2>3. CASE c # b
    BY <1>5, <1>7, <2>1, <2>3
  <2> QED
    BY <2>2, <2>3
<1>10. Traversed'
  <2>1. CASE iter = NULL
    BY <1>1, <1>4, <2>1 DEF Traversed
  <2>2. CASE iter # NULL
    <3>1. iter \in Live
      BY <1>1, <2>2 DEF Traversed
    <3>2. PICK c, n, w, j : c = Bucket(elem[iter].key) /\ List(c, n, w) /\ Shows(n, w, j)
      BY <1>1, <2>2 DEF Traversed
    <3>3. iter' = iter /\ iter' \in Live' /\ elem'[iter'].key = elem[iter].key
          /\ elem[iter].key \in Keys
      BY <1>1, <1>4, <1>6, <3>1, LiveFacts
    <3>4. c = Bucket(elem[iter].key)' /\ c \in Buckets
      <4>1. \A y \in Keys : Bucket(y) \in Buckets
        BY <1>1, MapFacts
      <4>2. Bucket(elem[iter].key)' = Bucket(elem[iter].key)
        <5>1. PICK y \in Keys : y = elem[iter].key
          BY <3>3
        <5>2. Bucket(y)' = Bucket(y)
          BY <1>5
        <5> QED
          BY <3>3, <5>1, <5>2 DEF Bucket
      <4> QED
        BY <3>2, <3>3, <4>1, <4>2
    <3>5. /\ n \in Nat /\ j \in 1..n /\ w[j] = iter
          /\ \A i \in 1..n : w[i] \in Live
          /\ \A x : x \in due <=> \E i \in (j + 1)..n : x = w[i] /\ elem[x].key = elem[iter].key
      BY <3>2 DEF List, Walks, Shows
    <3>6. \A i \in (j + 1)..n : i \in 1..n /\ elem'[w[i]] = elem[w[i]]
      BY <1>6, <3>5
    <3>7. CASE c # b
      <4>1. List(c, n, w)'
        BY <1>7, <3>2, <3>4, <3>7
      <4>2. Shows(n, w, j)'
        BY <1>4, <3>3, <3>5, <3>6 DEF Shows
      <4> QED
        BY <2>2, <3>3, <3>4, <4>1, <4>2 DEF Traversed
    <3>8. CASE c = b
      <4>1. PICK v : v = Prepended(e, n, w) /\ List(b, n + 1, v)'
        BY <1>8, <3>2, <3>8
      <4>2. List(c, n + 1, v)'
        BY <3>8, <4>1
      <4>3. \A i \in 1..n : i + 1 \in 1..(n + 1) /\ v[i + 1] = w[i]
        BY <3>5, <4>1 DEF Prepended
      <4>4. ASSUME NEW x
            PROVE x \in due <=> \E i \in ((j + 1) + 1)..(n + 1) : x = v[i] /\ elem'[x].key = elem[iter].key
        <5>1. ASSUME x \in due
              PROVE \E i \in ((j + 1) + 1)..(n + 1) : x = v[i] /\ elem'[x].key = elem[iter].key
          <6>1. PICK i \in (j + 1)..n : x = w[i] /\ elem[x].key = elem[iter].key
            BY <3>5, <5>1
          <6>2. i + 1 \in ((j + 1) + 1)..(n + 1) /\ v[i + 1] = x
            BY <3>5, <3>6, <4>3, <6>1
          <6>3. elem'[x].key = elem[iter].key
            BY <3>6, <6>1
          <6> QED
            BY <6>2, <6>3
        <5>2. ASSUME NEW i \in ((j + 1) + 1)..(n + 1), x = v[i], elem'[x].key = elem[iter].key
              PROVE x \in due
          <6>1. i - 1 \in (j + 1)..n /\ (i - 1) + 1 = i
            BY <3>5
          <6>2. x = w[i - 1]
            BY <3>6, <4>3, <5>2, <6>1
          <6>3. elem[x].key = elem[iter].key
            BY <3>6, <5>2, <6>1, <6>2
          <6> QED
            BY <3>5, <6>1, <6>2, <6>3
        <5> QED
          BY <5>1, <5>2
      <4>5. j + 1 \in 1..(n + 1) /\ v[j + 1] = iter
        BY <3>5, <4>3
      <4>6. Shows(n + 1, v, j + 1)'
        BY <1>4, <3>3, <4>4, <4>5 DEF Shows
      <4> QED
        BY <2>2, <3>3, <3>4, <4>2, <4>6 DEF Traversed
    <3> QED
      BY <3>7, <3>8
  <2> QED
    BY <2>1, <2>2
<1> QED
  BY <1>5, <1>9, <1>10 DEF IInv

\* A removal from a bucket, seen as a whole: its list is w, and e is w[x].
Takes(e, k, d, b, n, w, x) ==
  /\ b = Bucket(k) /\ List(b, n, w) /\ x \in 1..n /\ e = w[x] /\ e # iter
  /\ IF Asked(k, d) = {} THEN x = n
     ELSE e \in Asked(k, d) /\ \A j \in 1..n : w[j] \in Asked(k, d) => x <= j

RemovesAt(e) ==
  /\ Unlink(e) /\ Drops(e) /\ map' = [map EXCEPT !.size = @ + (-1)]
  /\ due' = due \ {e} /\ UNCHANGED <<hash, iter>>

LEMMA RemoveParts ==
  ASSUME IInv, NEW k \in Keys, NEW d, Remove(k, d)
  PROVE  /\ map # NULL
         /\ RemovesAnything \/ Asked(k, d) # {} \/ first[Bucket(k)] = NULL
         /\ \/ /\ Still /\ UNCHANGED <<iter, due>>
               /\ first[Bucket(k)] = NULL /\ answer' = <<"remove", k, d, Missing>>
            \/ \E e \in Live, b \in Buckets : \E n, w, x :
                 Takes(e, k, d, b, n, w, x) /\ RemovesAt(e) /\ answer' = <<"remove", k, d, OK>>
<1>1. map # NULL /\ (RemovesAnything \/ Asked(k, d) # {} \/ first[Bucket(k)] = NULL)
      /\ UNCHANGED <<hash, iter>>
  BY DEF Remove
<1>2. CASE first[Bucket(k)] = NULL
  BY <1>1, <1>2 DEF Remove, Still
<1>3. CASE first[Bucket(k)] # NULL
  <2>1. PICK b, n, w : b = Bucket(k) /\ List(b, n, w)
    BY <1>1, ListOfKey
  <2>2. b \in Buckets /\ Types
    BY <1>1, <2>1, HasMap, MapFacts
  <2>3. PICK x \in 1..n :
          /\ RemoveStopsAt(k, d) = w[x]
          /\ IF Asked(k, d) = {} THEN x = n
             ELSE w[x] \in Asked(k, d) /\ \A j \in 1..n : w[j] \in Asked(k, d) => x <= j
    BY <1>3, <2>1, <2>2, RemoveStops
  <2>4. PICK e : e = RemoveStopsAt(k, d)
    OBVIOUS
  <2>5. /\ e # iter /\ Unlink(e) /\ Drops(e)
        /\ map' = [map EXCEPT !.size = @ + (-1)] /\ due' = due \ {e}
        /\ answer' = <<"remove", k, d, OK>>
    BY <1>3, <2>4 DEF Remove, CountSize, Drops
  <2>6. e = w[x] /\ e \in Live
    BY <2>1, <2>3, <2>4 DEF List
  <2>7. Takes(e, k, d, b, n, w, x)
    BY <2>1, <2>3, <2>5, <2>6 DEF Takes
  <2>8. RemovesAt(e)
    BY <1>1, <2>5 DEF RemovesAt
  <2> QED
    BY <1>1, <2>2, <2>5, <2>6, <2>7, <2>8
<1> QED
  BY <1>2, <1>3

LEMMA RemoveTypes ==
  ASSUME Types, Counted, NEW e \in Live, NEW b \in Buckets, NEW n, NEW w, List(b, n, w),
         NEW x \in 1..n, e = w[x], RemovesAt(e)
  PROVE  Types' /\ Counted' /\ Buckets' = Buckets /\ \A y \in Keys : Bucket(y)' = Bucket(y)
<1>0. /\ Unlink(e) /\ Drops(e) /\ map' = [map EXCEPT !.size = @ + (-1)]
      /\ hash' = hash
  BY DEF RemovesAt
<1>1. Live' = Live \ {e} /\ IsFiniteSet(Live) /\ e \in Elements
  BY <1>0, LiveAfterRemove, LiveFacts
<1>2. Cardinality(Live') = Cardinality(Live) - 1 /\ Cardinality(Live') \in Nat
  <2>1. IsFiniteSet(Live') /\ Cardinality(Live') = Cardinality(Live) - 1
    BY <1>1, FS_RemoveElement
  <2> QED
    BY <2>1, FS_CardinalityType
<1>3. /\ map' \in [size : Nat, table_size : Nat \ {0}] /\ map'.size = map.size + (-1)
      /\ Buckets' = Buckets /\ \A y \in Keys : Bucket(y)' = Bucket(y)
  <2>1. map.size + (-1) \in Nat
    <3>1. PICK s \in Nat : s = map.size
      BY MapFacts
    <3>2. s = Cardinality(Live)
      BY <3>1 DEF Counted
    <3>3. s - 1 \in Nat /\ s - 1 = s + (-1)
      BY <1>2, <3>1, <3>2
    <3> QED
      BY <3>1, <3>3
  <2> QED
    BY <1>0, <2>1, Resized
<1>4. map'.size = Cardinality(Live')
  <2>1. PICK s \in Nat : s = map.size
    BY MapFacts
  <2>2. s = Cardinality(Live)
    BY <2>1 DEF Counted
  <2> QED
    BY <1>2, <1>3, <2>1, <2>2
<1>5. next[e] \in {NULL} \cup Elements /\ pprev[e] \in {NULL} \cup Elements \cup Nat
  BY <1>1 DEF Types
<1>6. first' \in [Buckets -> {NULL} \cup Elements]
  <2>1. first \in [Buckets -> {NULL} \cup Elements]
    BY DEF Counted
  <2>2. first' = first \/ first' = [first EXCEPT ![pprev[e]] = next[e]]
    BY <1>0 DEF Unlink
  <2> QED
    BY <1>5, <2>1, <2>2
<1>7. Counted'
  BY <1>3, <1>4, <1>6 DEF Counted
<1>8. elem' \in [Elements -> {NULL} \cup [key : Keys, data : Datas]]
  BY <1>0 DEF Types, Drops
<1>9. next' \in [Elements -> {NULL} \cup Elements]
  <2>1. \A y \in Elements : next'[y] \in {NULL, next[e], next[y]}
    BY <1>0 DEF Unlink
  <2>2. DOMAIN next' = Elements /\ next' = [y \in Elements |-> next'[y]]
    BY <1>0 DEF Unlink
  <2> QED
    BY <1>5, <2>1, <2>2 DEF Types
<1>10. pprev' \in [Elements -> {NULL} \cup Elements \cup Nat]
  <2>1. \A y \in Elements : pprev'[y] \in {NULL, pprev[e], pprev[y]}
    BY <1>0 DEF Unlink
  <2>2. DOMAIN pprev' = Elements /\ pprev' = [y \in Elements |-> pprev'[y]]
    BY <1>0 DEF Unlink
  <2> QED
    BY <1>5, <2>1, <2>2 DEF Types
<1>11. Types'
  BY <1>0, <1>8, <1>9, <1>10 DEF Types
<1> QED
  BY <1>3, <1>7, <1>11

\* What a removal changes: it takes u[x] out of its bucket.
RemoveMoved(e, b, m, u, x) ==
  /\ Types' /\ Counted' /\ Buckets' = Buckets /\ \A y \in Keys : Bucket(y)' = Bucket(y)
  /\ Live' = Live \ {e} /\ \A y \in Live : y # e => elem'[y] = elem[y]
  /\ \A c \in Buckets : \A n, w : c # b /\ List(c, n, w) => List(c, n, w)'
  /\ \E v : v = Shortened(x, m, u) /\ List(b, m - 1, v)'

LEMMA RemoveMoves ==
  ASSUME IInv, map # NULL, NEW k, NEW d, NEW e \in Live, NEW b \in Buckets,
         NEW m, NEW u, NEW x, Takes(e, k, d, b, m, u, x), RemovesAt(e)
  PROVE  RemoveMoved(e, b, m, u, x)
<1>1. Types /\ Counted
  BY HasMap
<1>2. List(b, m, u) /\ x \in 1..m /\ e = u[x]
  BY DEF Takes
<1>3. Types' /\ Counted' /\ Buckets' = Buckets /\ \A y \in Keys : Bucket(y)' = Bucket(y)
  BY <1>1, <1>2, RemoveTypes
<1>4. /\ Unlink(e) /\ Drops(e)
      /\ first \in [Buckets -> {NULL} \cup Elements]
  BY <1>1 DEF RemovesAt, Counted
<1>5. Live' = Live \ {e} /\ \A y \in Live : y # e => elem'[y] = elem[y]
  BY <1>1, <1>4, LiveAfterRemove
<1>6. \A y \in Buckets : y \in Nat
  BY <1>1, MapFacts
<1>7. ASSUME NEW c \in Buckets, NEW n, NEW w, List(c, n, w), c # b
      PROVE  List(c, n, w)'
  <2>1. Types /\ \A y \in Keys : Bucket(y)' = Bucket(y)
    BY <1>1, <1>3
  <2> QED
    BY <1>2, <1>4, <1>6, <1>7, <2>1, RemoveKeepsLists
<1>8. ASSUME NEW v, v = Shortened(x, m, u)
      PROVE  List(b, m - 1, v)'
  BY <1>1, <1>2, <1>3, <1>4, <1>6, <1>8, RemoveShortens
<1> QED
  BY <1>3, <1>5, <1>7, <1>8 DEF RemoveMoved

LEMMA RemoveStep ==
  ASSUME IInv, NEW k \in Keys, NEW d, Remove(k, d)
  PROVE  IInv'
<1>0. CASE Still /\ UNCHANGED <<iter, due>>
  BY <1>0, StillKeeps
<1>a. ASSUME NEW e \in Live, NEW b \in Buckets, NEW m, NEW u, NEW x,
             Takes(e, k, d, b, m, u, x), RemovesAt(e)
      PROVE  IInv'
  <2>0. map # NULL
    BY RemoveParts
  <2>1. Types /\ Counted /\ Traversed /\ \A c \in Buckets : \E n, w : List(c, n, w)
    BY <2>0, HasMap
  <2>2. List(b, m, u) /\ x \in 1..m /\ e = u[x] /\ e # iter
    BY <1>a DEF Takes
  <2>a. RemoveMoved(e, b, m, u, x)
    BY <1>a, <2>0, RemoveMoves
  <2>3. Types' /\ Counted' /\ Buckets' = Buckets /\ \A y \in Keys : Bucket(y)' = Bucket(y)
    BY <2>a DEF RemoveMoved
  <2>4. iter' = iter /\ due' = due \ {e}
    BY <1>a DEF RemovesAt
  <2>5. Live' = Live \ {e} /\ \A y \in Live : y # e => elem'[y] = elem[y]
    BY <2>a DEF RemoveMoved
  <2>7. ASSUME NEW c \in Buckets, NEW n, NEW w, List(c, n, w), c # b
        PROVE  List(c, n, w)'
    BY <2>a, <2>7 DEF RemoveMoved
  <2>8. \E v : v = Shortened(x, m, u) /\ List(b, m - 1, v)'
    BY <2>a DEF RemoveMoved
  <2>9. ASSUME NEW c \in Buckets' PROVE \E n, w : List(c, n, w)'
    <3>1. PICK n, w : List(c, n, w)
      BY <2>1, <2>3
    <3>2. CASE c = b
      BY <2>8, <3>2
    <3>3. CASE c # b
      BY <2>3, <2>7, <3>1, <3>3
    <3> QED
      BY <3>2, <3>3
  <2>10. Traversed'
    <3>1. CASE iter = NULL
      <4>1. due = {} /\ due' = {} /\ iter' = NULL
        BY <2>1, <2>4, <3>1 DEF Traversed
      <4> QED
        BY <4>1 DEF Traversed
    <3>2. CASE iter # NULL
      <4>1. iter \in Live
        BY <2>1, <3>2 DEF Traversed
      <4>2. PICK c, n, w, j : c = Bucket(elem[iter].key) /\ List(c, n, w) /\ Shows(n, w, j)
        BY <2>1, <3>2 DEF Traversed
      <4>3. iter' = iter /\ iter' \in Live' /\ elem'[iter] = elem[iter] /\ elem[iter].key \in Keys
        BY <2>1, <2>2, <2>4, <2>5, <4>1, LiveFacts
      <4>4. c = Bucket(elem[iter].key)' /\ c \in Buckets
        <5>1. \A y \in Keys : Bucket(y) \in Buckets
          BY <2>1, MapFacts
        <5>2. PICK y \in Keys : y = elem[iter].key
          BY <4>3
        <5>3. Bucket(y)' = Bucket(y)
          BY <2>3
        <5> QED
          BY <4>2, <4>3, <5>1, <5>2, <5>3 DEF Bucket
      <4>5. /\ n \in Nat /\ j \in 1..n /\ w[j] = iter
            /\ \A i \in 1..n : w[i] \in Live
            /\ \A i, h \in 1..n : w[i] = w[h] => i = h
            /\ \A y : y \in due <=> \E i \in (j + 1)..n : y = w[i] /\ elem[y].key = elem[iter].key
        BY <4>2 DEF List, Walks, Shows
      <4>6. \A i \in 1..n : w[i] # e => elem'[w[i]] = elem[w[i]]
        BY <2>5, <4>5
      <4>7. \A i \in (j + 1)..n : i \in 1..n
        BY <4>5
      <4>8. CASE c # b
        <5>1. List(c, n, w)'
          BY <2>7, <4>2, <4>4, <4>8
        <5>2. \A i \in 1..n : w[i] # e
          BY <2>2, <4>2, <4>8 DEF List
        <5>3. e \notin due
          BY <4>5, <4>7, <5>2
        <5>4. ASSUME NEW y
              PROVE y \in due' <=> \E i \in (j + 1)..n : y = w[i] /\ elem'[y].key = elem[iter].key
          <6>1. due' = due
            BY <2>4, <5>3
          <6>2. \A i \in (j + 1)..n : elem'[w[i]] = elem[w[i]]
            BY <4>6, <4>7, <5>2
          <6> QED
            BY <4>5, <6>1, <6>2
        <5>5. Shows(n, w, j)'
          BY <4>3, <4>5, <5>4 DEF Shows
        <5> QED
          BY <3>2, <4>3, <4>4, <5>1, <5>5 DEF Traversed
      <4>9. CASE c = b
        <5>0. u = w /\ m = n
          <6>1. From(first[b]) = u
            BY <2>2, FromWalks, Constants DEF List
          <6>2. From(first[b]) = w
            BY <4>2, <4>9, FromWalks, Constants DEF List
          <6>3. u \in [1..m -> Elements] /\ w \in [1..n -> Elements] /\ m \in Nat /\ n \in Nat
            BY <2>2, <4>2 DEF List, Walks
          <6>4. 1..m = 1..n
            BY <6>1, <6>2, <6>3
          <6>5. Cardinality(1..m) = m /\ Cardinality(1..n) = n
            BY <6>3, FS_Interval
          <6> QED
            BY <6>1, <6>2, <6>4, <6>5
        <5>1. PICK v : v = Shortened(x, n, w) /\ List(c, n - 1, v)'
          BY <2>8, <4>9, <5>0
        <5>2. List(c, n - 1, v)' /\ x \in 1..n /\ w[x] = e /\ x # j
          BY <2>2, <4>5, <5>0, <5>1
        <5>3. \A i \in 1..(n - 1) : \/ i < x /\ i \in 1..n /\ v[i] = w[i]
                                    \/ ~(i < x) /\ i + 1 \in 1..n /\ v[i] = w[i + 1]
          BY <4>5, <5>1 DEF Shortened
        <5>4. \A i \in 1..n : w[i] = e <=> i = x
          BY <4>5, <5>2
        <5>5. PICK p : p = IF j < x THEN j ELSE j - 1
          OBVIOUS
        <5>6. p \in 1..(n - 1) /\ v[p] = iter
          <6>1. CASE j < x
            <7>1. p = j /\ j \in 1..(n - 1)
              BY <4>5, <5>2, <5>5, <6>1
            <7>2. v[j] = w[j]
              BY <5>3, <6>1, <7>1
            <7> QED
              BY <4>5, <7>1, <7>2
          <6>2. CASE ~(j < x)
            <7>1. p = j - 1 /\ j - 1 \in 1..(n - 1) /\ ~(j - 1 < x) /\ (j - 1) + 1 = j
              BY <4>5, <5>2, <5>5, <6>2
            <7>2. v[j - 1] = w[(j - 1) + 1]
              BY <5>3, <7>1
            <7> QED
              BY <4>5, <7>1, <7>2
          <6> QED
            BY <6>1, <6>2
        <5>7. ASSUME NEW y
              PROVE y \in due' <=> \E i \in (p + 1)..(n - 1) : y = v[i] /\ elem'[y].key = elem[iter].key
          <6>1. ASSUME y \in due'
                PROVE \E i \in (p + 1)..(n - 1) : y = v[i] /\ elem'[y].key = elem[iter].key
            <7>1. y \in due /\ y # e
              BY <2>4, <6>1
            <7>2. PICK i \in (j + 1)..n : y = w[i] /\ elem[y].key = elem[iter].key
              BY <4>5, <7>1
            <7>3. i \in 1..n /\ i # x /\ elem'[y].key = elem[iter].key
              BY <4>6, <4>7, <5>4, <7>1, <7>2
            <7>4. CASE i < x
              <8>1. j < x /\ p = j /\ i \in (p + 1)..(n - 1) /\ i \in 1..(n - 1)
                BY <4>5, <5>2, <5>5, <7>3, <7>4
              <8>2. v[i] = w[i]
                BY <5>3, <7>4, <8>1
              <8> QED
                BY <7>2, <7>3, <8>1, <8>2
            <7>5. CASE ~(i < x)
              <8>1. /\ i - 1 \in (p + 1)..(n - 1) /\ i - 1 \in 1..(n - 1)
                    /\ ~(i - 1 < x) /\ (i - 1) + 1 = i
                <9>1. CASE j < x
                  BY <4>5, <5>2, <5>5, <7>3, <7>5, <9>1
                <9>2. CASE ~(j < x)
                  BY <4>5, <5>2, <5>5, <7>3, <7>5, <9>2
                <9> QED
                  BY <9>1, <9>2
              <8>2. v[i - 1] = w[(i - 1) + 1]
                BY <5>3, <8>1
              <8> QED
                BY <7>2, <7>3, <8>1, <8>2
            <7> QED
              BY <7>4, <7>5
          <6>2. ASSUME NEW i \in (p + 1)..(n - 1), y = v[i], elem'[y].key = elem[iter].key
                PROVE y \in due'
            <7>1. i \in 1..(n - 1)
              BY <5>6
            <7>2. PICK h \in (j + 1)..n : y = w[h] /\ h # x
              <8>1. CASE i < x
                <9>1. i \in (j + 1)..n /\ i # x /\ v[i] = w[i]
                  <10>1. v[i] = w[i]
                    BY <5>3, <7>1, <8>1
                  <10>2. j < x
                    BY <4>5, <5>2, <5>5, <7>1, <8>1
                  <10>3. p = j
                    BY <5>5, <10>2
                  <10> QED
                    BY <4>5, <5>2, <8>1, <10>1, <10>3
                <9> QED
                  BY <6>2, <9>1
              <8>2. CASE ~(i < x)
                <9>1. v[i] = w[i + 1]
                  BY <5>3, <7>1, <8>2
                <9>2. i + 1 \in (j + 1)..n /\ i + 1 # x
                  <10>1. CASE j < x
                    BY <4>5, <5>2, <5>5, <7>1, <8>2, <10>1
                  <10>2. CASE ~(j < x)
                    BY <4>5, <5>2, <5>5, <7>1, <8>2, <10>2
                  <10> QED
                    BY <10>1, <10>2
                <9> QED
                  BY <6>2, <9>1, <9>2
              <8> QED
                BY <8>1, <8>2
            <7>3. y # e /\ elem[y].key = elem[iter].key
              BY <4>6, <4>7, <5>4, <6>2, <7>2
            <7> QED
              BY <2>4, <4>5, <7>2, <7>3
          <6> QED
            BY <6>1, <6>2
        <5>8. Shows(n - 1, v, p)'
          BY <4>3, <5>6, <5>7 DEF Shows
        <5> QED
          BY <3>2, <4>3, <4>4, <5>2, <5>8 DEF Traversed
      <4> QED
        BY <4>8, <4>9
    <3> QED
      BY <3>1, <3>2
  <2> QED
    BY <2>3, <2>9, <2>10 DEF IInv
<1> QED
  BY <1>0, <1>a, RemoveParts

LEMMA StepIInv == IInv /\ [Next]_vars => IInv'
<1> SUFFICES ASSUME IInv, [Next]_vars PROVE IInv'
  OBVIOUS
<1>1. ASSUME NEW t \in TableSizes, New(t) PROVE IInv'
  BY <1>1, NewStep
<1>2. ASSUME NEW k \in Keys, Get(k) PROVE IInv'
  BY <1>2, StillKeeps DEF Get, Still
<1>3. ASSUME NEW k \in Keys, TraverseFirst(k) PROVE IInv'
  BY <1>3, TraverseFirstStep
<1>4. ASSUME NEW k \in Keys, NEW d \in Datas, Put(k, d) PROVE IInv'
  BY <1>4, PutStep
<1>5. ASSUME NEW k \in Keys, NEW d \in Datas, PutFails(k, d) PROVE IInv'
  BY <1>5, StillKeeps DEF PutFails, Still
<1>6. ASSUME NEW k \in Keys, NEW d \in Datas \cup {NULL}, Remove(k, d) PROVE IInv'
  BY <1>6, RemoveStep
<1>7. CASE TraverseNext
  BY <1>7, TraverseNextStep
<1>8. CASE Free
  BY <1>8, FreeStep
<1>9. CASE UNCHANGED vars
  BY <1>9, StillKeeps DEF vars, Still
<1> QED
  BY <1>1, <1>2, <1>3, <1>4, <1>5, <1>6, <1>7, <1>8, <1>9 DEF Next

\* The inductive invariant holds throughout.
THEOREM HashMapInvariant == Spec => []IInv
  BY InitHolds, StepIInv, PTL DEF Spec

LEMMA ListsAreWalks ==
  ASSUME IInv, map # NULL, NEW b \in Buckets
  PROVE  \E n, w : List(b, n, w) /\ From(first[b]) = w /\ n \in Nat /\ DOMAIN w = 1..n
<1>1. PICK n, w : List(b, n, w)
  BY HasMap
<1>2. From(first[b]) = w
  BY <1>1, FromWalks, Constants DEF List
<1>3. n \in Nat /\ DOMAIN w = 1..n
  BY <1>1 DEF List, Walks
<1> QED
  BY <1>1, <1>2, <1>3

\* Every element is reached from its bucket, once, and its pprev names the
\* pointer that points to it; m->size counts them (tuya_hlist_add_head,
\* __tuya_hlist_del).
THEOREM ListsAreWellLinked == Spec => []WellLinked
<1>1. ASSUME IInv PROVE WellLinked
  <2>1. CASE map = NULL
    <3>1. NoMap
      BY <1>1, <2>1, HashMapAssumption DEF IInv, Counted
    <3> QED
      BY <2>1, <3>1, FS_EmptySet DEF WellLinked, NoMap, Length, Buckets
  <2>2. CASE map # NULL
    <3>1. Length = Cardinality(Live)
      BY <1>1, <2>2, HasMap DEF Length, Counted
    <3>2. ASSUME NEW b \in Buckets
          PROVE  LET walk == From(first[b])
                 IN /\ {walk[i] : i \in DOMAIN walk} = {e \in Live : Bucket(elem[e].key) = b}
                    /\ \A i \in DOMAIN walk : pprev[walk[i]] = IF i = 1 THEN b ELSE walk[i - 1]
      <4>1. PICK n, w : List(b, n, w) /\ From(first[b]) = w /\ n \in Nat /\ DOMAIN w = 1..n
        BY <1>1, <2>2, ListsAreWalks
      <4>2. {w[i] : i \in 1..n} = {e \in Live : Bucket(elem[e].key) = b}
        BY <4>1 DEF List
      <4>3. \A i \in 1..n : pprev[w[i]] = IF i = 1 THEN b ELSE w[i - 1]
        BY <4>1 DEF List
      <4> QED
        BY <4>1, <4>2, <4>3
    <3> QED
      BY <2>2, <3>1, <3>2 DEF WellLinked
  <2> QED
    BY <2>1, <2>2
<1> QED
  BY <1>1, HashMapInvariant, PTL

\* A traversal shows each element that was under its key when it began and is
\* still there, once, whatever is put and removed meanwhile
\* (tuya_hashmap_data_traversal, __hash_find_next_element).
THEOREM TraversalsAreExact == Spec => []TraversalExact
<1>1. ASSUME IInv PROVE TraversalExact
  <2>1. CASE iter = NULL
    BY <1>1, <2>1 DEF IInv, NoMap, Traversed, TraversalExact
  <2>2. CASE iter # NULL
    <3>1. Types /\ Traversed
      BY <1>1, <2>2 DEF IInv, NoMap
    <3>2. PICK b, n, w, j : b = Bucket(elem[iter].key) /\ List(b, n, w) /\ Shows(n, w, j)
      BY <2>2, <3>1 DEF Traversed
    <3>3. PICK v : v = [i \in 1..(n - j) |-> w[i + j]]
      OBVIOUS
    <3>4. n \in Nat /\ j \in 1..n /\ w[j] = iter /\ \A i \in 1..n : w[i] \in Live
      BY <3>2 DEF List, Walks, Shows
    <3>5. From(next[iter]) = v
      <4>1. Walks(next[w[j]], n - j, v)
        <5>1. Walks(first[b], n, w) /\ j \in 1..n
          BY <3>2, <3>4 DEF List
        <5> QED
          BY <3>3, <5>1, WalksOn
      <4> QED
        BY <3>4, <4>1, FromWalks, Constants
    <3>6. DOMAIN v = 1..(n - j)
      BY <3>3
    <3>7. ASSUME NEW e
          PROVE  e \in due <=> e \in {v[i] : i \in DOMAIN v} /\ e \in Asked(elem[iter].key, NULL)
      <4>0. e \in due <=> \E i \in (j + 1)..n : e = w[i] /\ elem[e].key = elem[iter].key
        BY <3>2 DEF Shows
      <4>1. ASSUME NEW i \in (j + 1)..n, e = w[i], elem[e].key = elem[iter].key
            PROVE  e \in {v[x] : x \in DOMAIN v} /\ e \in Asked(elem[iter].key, NULL)
        <5>1. i - j \in 1..(n - j) /\ (i - j) + j = i /\ i \in 1..n
          BY <3>4
        <5>2. v[i - j] = w[i]
          BY <3>3, <5>1
        <5>3. e \in Live
          BY <3>4, <4>1, <5>1
        <5> QED
          BY <3>6, <4>1, <5>1, <5>2, <5>3 DEF Asked
      <4>2. ASSUME NEW x \in 1..(n - j), e = v[x], e \in Asked(elem[iter].key, NULL)
            PROVE  \E i \in (j + 1)..n : e = w[i] /\ elem[e].key = elem[iter].key
        <5>1. x + j \in (j + 1)..n /\ v[x] = w[x + j]
          BY <3>3, <3>4
        <5> QED
          BY <4>2, <5>1 DEF Asked
      <4> QED
        BY <3>6, <4>0, <4>1, <4>2
    <3>8. due = {v[i] : i \in DOMAIN v} \cap Asked(elem[iter].key, NULL)
      BY <3>7
    <3> QED
      BY <2>2, <3>5, <3>8 DEF TraversalExact
  <2> QED
    BY <2>1, <2>2
<1> QED
  BY <1>1, HashMapInvariant, PTL

-----------------------------------------------------------------------------
(* The values of a key: those kept of the elements of a bucket, in order.  *)

Cut(s, y) == SubSeq(s, 1, y - 1) \o SubSeq(s, y + 1, Len(s))

LEMMA PrependAppend ==
  ASSUME NEW S, NEW s \in Seq(S), NEW d \in S, NEW x \in S
  PROVE  Append(<<d>> \o s, x) = <<d>> \o Append(s, x)
<1>1. <<d>> \in Seq(S) /\ <<x>> \in Seq(S) /\ <<d>> \o s \in Seq(S)
  BY ConcatProperties
<1>2. Append(<<d>> \o s, x) = (<<d>> \o s) \o <<x>>
  BY <1>1, AppendIsConcat
<1>3. Append(s, x) = s \o <<x>>
  BY AppendIsConcat
<1> QED
  BY <1>1, <1>2, <1>3, ConcatAssociative

LEMMA PrependFirst ==
  ASSUME NEW S, NEW d \in S
  PROVE  Append(<<>>, d) = <<d>> \o <<>>
<1>1. <<d>> \in Seq(S) /\ <<>> \in Seq(S)
  OBVIOUS
<1>2. Append(<<>>, d) = <<>> \o <<d>>
  BY <1>1, AppendIsConcat
<1> QED
  BY <1>1, <1>2, ConcatEmptySeq

LEMMA CutLast ==
  ASSUME NEW S, NEW s \in Seq(S), NEW x \in S
  PROVE  Cut(Append(s, x), Len(s) + 1) = s
<1> DEFINE t == Append(s, x)
           m == Len(s)
<1>1. m \in Nat /\ t \in Seq(S) /\ Len(t) = m + 1 /\ \A i \in 1..m : t[i] = s[i]
  BY AppendProperties, LenProperties
<1>2. SubSeq(t, (m + 1) + 1, Len(t)) = <<>>
  BY <1>1, SubSeqEmpty
<1>3. /\ SubSeq(t, 1, m) \in Seq(S) /\ Len(SubSeq(t, 1, m)) = m
      /\ \A i \in 1..m : SubSeq(t, 1, m)[i] = t[i]
  <2>1. \A i \in 1..m : t[i] \in S
    BY <1>1, ElementOfSeq
  <2> QED
    BY <1>1, <2>1, SubSeqProperties
<1> HIDE DEF t
<1>4. SubSeq(t, 1, m) = s
  BY <1>1, <1>3, SeqEqual
<1>5. (m + 1) - 1 = m
  BY <1>1
<1>6. Cut(t, m + 1) = SubSeq(t, 1, m) \o <<>>
  BY <1>2, <1>5 DEF Cut
<1> QED
  BY <1>4, <1>6, ConcatEmptySeq DEF t

LEMMA CutAppend ==
  ASSUME NEW S, NEW s \in Seq(S), NEW x \in S, NEW y \in 1..Len(s)
  PROVE  Cut(Append(s, x), y) = Append(Cut(s, y), x)
<1> DEFINE t == Append(s, x)
           m == Len(s)
<1>1. /\ m \in Nat /\ t \in Seq(S) /\ Len(t) = m + 1 /\ t[m + 1] = x
      /\ \A i \in 1..m : t[i] = s[i] /\ s[i] \in S
  BY AppendProperties, LenProperties, ElementOfSeq
<1>2. \A i \in 1..(m + 1) : t[i] \in S
  BY <1>1, ElementOfSeq
<1> HIDE DEF t, m
<1>3. y \in Nat /\ 1 <= y /\ y <= m /\ y - 1 \in 0..m
  BY <1>1 DEF m
<1>4. SubSeq(t, 1, y - 1) = SubSeq(s, 1, y - 1)
  <2>1. /\ SubSeq(t, 1, y - 1) \in Seq(S) /\ Len(SubSeq(t, 1, y - 1)) = y - 1
        /\ \A i \in 1..(y - 1) : SubSeq(t, 1, y - 1)[i] = t[i]
    BY <1>1, <1>2, <1>3, SubSeqProperties
  <2>2. /\ SubSeq(s, 1, y - 1) \in Seq(S) /\ Len(SubSeq(s, 1, y - 1)) = y - 1
        /\ \A i \in 1..(y - 1) : SubSeq(s, 1, y - 1)[i] = s[i]
    BY <1>1, <1>3, SubSeqProperties
  <2>3. \A i \in 1..(y - 1) : t[i] = s[i]
    BY <1>1, <1>3
  <2> QED
    BY <2>1, <2>2, <2>3, SeqEqual
<1>5. PICK r : r = SubSeq(s, y + 1, m)
  OBVIOUS
<1>6. /\ r \in Seq(S) /\ Len(r) = m - y
      /\ \A i \in 1..(m - y) : r[i] = s[y + i]
  BY <1>1, <1>3, <1>5, SubSeqProperties
<1>7. SubSeq(t, y + 1, m + 1) = Append(r, x)
  <2>a. m \in Nat /\ y \in Nat /\ y <= m
    BY <1>1, <1>3
  <2>1. PICK q : q = SubSeq(t, y + 1, m + 1)
    OBVIOUS
  <2>2. /\ q \in Seq(S) /\ Len(q) = m + 1 - y
        /\ \A i \in 1..(m + 1 - y) : q[i] = t[y + i]
    BY <1>1, <1>2, <1>3, <2>1, SubSeqProperties
  <2>3. /\ Append(r, x) \in Seq(S) /\ Len(Append(r, x)) = m - y + 1
        /\ \A i \in 1..(m - y) : Append(r, x)[i] = r[i]
        /\ Append(r, x)[m - y + 1] = x
    BY <1>6, AppendProperties
  <2>4. \A i \in 1..(m + 1 - y) : q[i] = Append(r, x)[i]
    <3> TAKE i \in 1..(m + 1 - y)
    <3>0. i \in 1..(m - y) \/ i = (m - y) + 1
      BY <2>a
    <3>1. CASE i \in 1..(m - y)
      BY <1>1, <1>3, <1>6, <2>2, <2>3, <3>1
    <3>2. CASE i = m - y + 1
      BY <1>1, <1>3, <2>2, <2>3, <3>2
    <3> QED
      BY <3>0, <3>1, <3>2
  <2>5. q = Append(r, x)
    <3>1. Len(q) = Len(Append(r, x)) /\ \A i \in 1..Len(q) : q[i] = Append(r, x)[i]
      BY <2>a, <2>2, <2>3, <2>4
    <3> QED
      BY <2>2, <2>3, <3>1, SeqEqual
  <2> QED
    BY <2>1, <2>5
<1>8. PICK p : p = SubSeq(s, 1, y - 1)
  OBVIOUS
<1>9. p \in Seq(S)
  BY <1>1, <1>3, <1>8, SubSeqProperties
<1>10. Cut(t, y) = p \o Append(r, x)
  BY <1>1, <1>4, <1>7, <1>8 DEF Cut
<1>11. Cut(s, y) = p \o r
  BY <1>5, <1>8 DEF Cut, m
<1>12. p \o Append(r, x) = Append(p \o r, x)
  <2>1. Append(r, x) = r \o <<x>> /\ <<x>> \in Seq(S)
    BY <1>6, AppendIsConcat
  <2>2. p \o r \in Seq(S)
    BY <1>6, <1>9, ConcatProperties
  <2>3. Append(p \o r, x) = (p \o r) \o <<x>>
    BY <2>2, AppendIsConcat
  <2> QED
    BY <1>6, <1>9, <2>1, <2>3, ConcatAssociative
<1> QED
  BY <1>10, <1>11, <1>12 DEF t

\* g[i] is what is kept of the first i of n values u: those at the places P.
Keeps(g, n, P, u) ==
  \A i \in 0..n : g[i] = IF i = 0 THEN <<>> ELSE IF i \in P THEN Append(g[i - 1], u[i]) ELSE g[i - 1]

\* The n values u are in S.
Values(n, u, S) == \A i \in 1..n : u[i] \in S

LEMMA KeepsAt ==
  ASSUME NEW g, NEW n \in Nat, NEW P, NEW u, Keeps(g, n, P, u)
  PROVE  /\ g[0] = <<>>
         /\ \A i \in 1..n : /\ i \in P => g[i] = Append(g[i - 1], u[i])
                            /\ i \notin P => g[i] = g[i - 1]
<1>1. 0 \in 0..n
  OBVIOUS
<1>2. \A i \in 1..n : i \in 0..n /\ i # 0
  OBVIOUS
<1> QED
  BY <1>1, <1>2, Zenon DEF Keeps

LEMMA KeepsSeq ==
  ASSUME NEW g, NEW n \in Nat, NEW P, NEW S, NEW u, Values(n, u, S),
         Keeps(g, n, P, u)
  PROVE  \A i \in 0..n : g[i] \in Seq(S)
<1> DEFINE Bad == {i \in 0..n : g[i] \notin Seq(S)}
<1>1. Bad = {}
  <2> SUFFICES ASSUME Bad # {} PROVE FALSE
    OBVIOUS
  <2>0. Bad \in SUBSET Nat
    OBVIOUS
  <2>1. PICK i \in Bad : \A j \in Bad : i <= j
    BY <2>0, Smallest
  <2>2. i \in 0..n /\ g[i] \notin Seq(S)
    OBVIOUS
  <2>a. g[0] = <<>>
    BY KeepsAt
  <2>3. i # 0
    BY <2>2, <2>a, EmptySeq
  <2>4. i \in 1..n /\ i - 1 \in 0..n /\ i - 1 \notin Bad
    BY <2>1, <2>2, <2>3
  <2>5. g[i - 1] \in Seq(S)
    BY <2>4
  <2>6. CASE i \in P
    <3>1. g[i] = Append(g[i - 1], u[i]) /\ u[i] \in S
      BY <2>4, <2>6, KeepsAt DEF Values
    <3> QED
      BY <2>2, <2>5, <3>1, AppendProperties
  <2>7. CASE i \notin P
    BY <2>2, <2>4, <2>5, <2>7, KeepsAt
  <2> QED
    BY <2>6, <2>7
<1> QED
  BY <1>1

LEMMA KeepsExists ==
  ASSUME NEW n \in Nat, NEW P, NEW u
  PROVE  \E g : DOMAIN g = 0..n /\ Keeps(g, n, P, u)
<1> DEFINE Bad == {i \in Nat : ~\E g : DOMAIN g = 0..i /\ Keeps(g, i, P, u)}
<1>1. Bad = {}
  <2> SUFFICES ASSUME Bad # {} PROVE FALSE
    OBVIOUS
  <2>1. PICK m \in Bad : \A j \in Bad : m <= j
    BY Smallest
  <2>2. CASE m = 0
    <3>1. PICK g : g = [j \in 0..0 |-> <<>>]
      OBVIOUS
    <3>2. DOMAIN g = 0..0 /\ g[0] = <<>> /\ \A i \in 0..0 : i = 0
      BY <3>1
    <3>3. Keeps(g, 0, P, u)
      BY <3>2, Zenon DEF Keeps
    <3> QED
      BY <2>2, <3>2, <3>3
  <2>3. CASE m # 0
    <3>1. m \in Nat /\ m - 1 \in Nat /\ m - 1 \notin Bad
      BY <2>1, <2>3
    <3>2. PICK g : DOMAIN g = 0..(m - 1) /\ Keeps(g, m - 1, P, u)
      BY <3>1
    <3>3. PICK last : last = IF m \in P THEN Append(g[m - 1], u[m]) ELSE g[m - 1]
      OBVIOUS
    <3>4. PICK h : h = [i \in 0..m |-> IF i = m THEN last ELSE g[i]]
      OBVIOUS
    <3>5. DOMAIN h = 0..m /\ h[m] = last /\ \A i \in 0..(m - 1) : h[i] = g[i]
      BY <3>1, <3>4
    <3>6. ASSUME NEW i \in 0..m
          PROVE  h[i] = IF i = 0 THEN <<>> ELSE IF i \in P THEN Append(h[i - 1], u[i]) ELSE h[i - 1]
      <4>1. CASE i = m
        <5>1. h[m - 1] = g[m - 1]
          BY <3>1, <3>5
        <5> QED
          BY <2>3, <3>3, <3>5, <4>1, <5>1, Zenon
      <4>2. CASE i # m
        <5>1. i \in 0..(m - 1) /\ (i # 0 => i - 1 \in 0..(m - 1))
          BY <3>1, <4>2
        <5>2. h[i] = g[i] /\ (i # 0 => h[i - 1] = g[i - 1])
          BY <3>5, <5>1
        <5>3. g[i] = IF i = 0 THEN <<>> ELSE IF i \in P THEN Append(g[i - 1], u[i]) ELSE g[i - 1]
          BY <3>2, <5>1, Zenon DEF Keeps
        <5> QED
          BY <5>2, <5>3, Zenon
      <4> QED
        BY <4>1, <4>2
    <3>7. Keeps(h, m, P, u)
      BY <3>6, Zenon DEF Keeps
    <3> QED
      BY <3>1, <3>5, <3>7
  <2> QED
    BY <2>2, <2>3
<1> QED
  BY <1>1

\* What is kept of the first i values is the beginning of what is kept of more.
LEMMA KeepsPrefix ==
  ASSUME NEW g, NEW n \in Nat, NEW P, NEW S, NEW u, Values(n, u, S),
         Keeps(g, n, P, u), NEW i \in 0..n, NEW j \in i..n
  PROVE  Len(g[i]) <= Len(g[j]) /\ \A c \in 1..Len(g[i]) : g[j][c] = g[i][c]
<1> DEFINE Good(m) == Len(g[i]) <= Len(g[m]) /\ \A c \in 1..Len(g[i]) : g[m][c] = g[i][c]
           Bad == {m \in i..n : ~Good(m)}
<1>0. \A m \in 0..n : g[m] \in Seq(S) /\ Len(g[m]) \in Nat
  BY KeepsSeq, LenProperties
<1>1. Bad = {}
  <2> SUFFICES ASSUME Bad # {} PROVE FALSE
    OBVIOUS
  <2>0. Bad \in SUBSET Nat
    OBVIOUS
  <2>1. PICK m \in Bad : \A y \in Bad : m <= y
    BY <2>0, Smallest
  <2>2. m \in i..n /\ ~Good(m)
    OBVIOUS
  <2>3. m # i
    BY <1>0, <2>2
  <2>4. m \in 1..n /\ m - 1 \in i..n /\ m - 1 \in 0..n /\ m - 1 \notin Bad
    BY <2>1, <2>2, <2>3
  <2>5. Good(m - 1)
    BY <2>4
  <2>6. CASE m \in P
    <3>1. g[m] = Append(g[m - 1], u[m]) /\ u[m] \in S /\ g[m - 1] \in Seq(S)
      BY <1>0, <2>4, <2>6, KeepsAt DEF Values
    <3>2. /\ Len(g[m]) = Len(g[m - 1]) + 1
          /\ \A c \in 1..Len(g[m - 1]) : g[m][c] = g[m - 1][c]
      BY <3>1, AppendProperties
    <3> QED
      BY <1>0, <2>2, <2>4, <2>5, <3>2
  <2>7. CASE m \notin P
    <3>1. g[m] = g[m - 1]
      BY <2>4, <2>7, KeepsAt
    <3> QED
      BY <2>2, <2>5, <3>1
  <2> QED
    BY <2>6, <2>7
<1> QED
  BY <1>1

\* A kept value is found where it was appended.
LEMMA KeepsFinds ==
  ASSUME NEW g, NEW n \in Nat, NEW P, NEW S, NEW u, Values(n, u, S),
         Keeps(g, n, P, u), NEW i \in 1..n, i \in P
  PROVE  /\ Len(g[i]) \in 1..Len(g[n]) /\ g[n][Len(g[i])] = u[i]
         /\ \A j \in 0..(i - 1) : Len(g[j]) < Len(g[i])
<1>1. /\ i - 1 \in 0..n /\ i \in 0..n /\ n \in i..n
      /\ \A j \in 0..(i - 1) : j \in 0..n /\ i - 1 \in j..n
  OBVIOUS
<1>2. \A m \in 0..n : g[m] \in Seq(S) /\ Len(g[m]) \in Nat
  BY KeepsSeq, LenProperties
<1>3. g[i] = Append(g[i - 1], u[i]) /\ u[i] \in S
  BY KeepsAt DEF Values
<1>4. Len(g[i]) = Len(g[i - 1]) + 1 /\ g[i][Len(g[i - 1]) + 1] = u[i]
  BY <1>1, <1>2, <1>3, AppendProperties
<1>5. Len(g[i]) <= Len(g[n]) /\ \A c \in 1..Len(g[i]) : g[n][c] = g[i][c]
  BY <1>1, KeepsPrefix
<1>6. \A j \in 0..(i - 1) : Len(g[j]) <= Len(g[i - 1])
  BY <1>1, KeepsPrefix
<1>7. Len(g[i - 1]) \in Nat /\ Len(g[n]) \in Nat /\ Len(g[i]) \in 1..Len(g[i])
  BY <1>1, <1>2, <1>4
<1>8. \A j \in 0..(i - 1) : Len(g[j]) < Len(g[i])
  BY <1>1, <1>2, <1>4, <1>6, <1>7
<1>9. Len(g[i]) \in 1..Len(g[n])
  BY <1>5, <1>7
<1>10. g[n][Len(g[i])] = u[i]
  BY <1>4, <1>5, <1>7
<1> QED
  BY <1>8, <1>9, <1>10

\* Whatever is kept was appended somewhere.
LEMMA KeepsOnly ==
  ASSUME NEW g, NEW n \in Nat, NEW P, NEW S, NEW u, Values(n, u, S),
         Keeps(g, n, P, u), NEW c \in 1..Len(g[n])
  PROVE  \E i \in 1..n : i \in P /\ c = Len(g[i])
<1> DEFINE T == {m \in 0..n : c <= Len(g[m])}
<1>0. \A m \in 0..n : g[m] \in Seq(S) /\ Len(g[m]) \in Nat
  BY KeepsSeq, LenProperties
<1>1. n \in T /\ T \in SUBSET Nat
  BY <1>0
<1>2. PICK i \in T : \A m \in T : i <= m
  BY <1>1, Smallest
<1>3. i \in 0..n /\ c <= Len(g[i]) /\ c \in Nat /\ 1 <= c
  BY <1>0, <1>1
<1>4. i # 0
  <2>1. g[0] = <<>> /\ Len(<<>>) = 0
    BY KeepsAt, EmptySeq
  <2> QED
    BY <1>3, <2>1
<1>5. i \in 1..n /\ i - 1 \in 0..n /\ i - 1 \notin T
  BY <1>2, <1>3, <1>4
<1>6. Len(g[i - 1]) < c
  BY <1>0, <1>3, <1>5
<1>7. i \in P
  <2>1. g[i] # g[i - 1]
    BY <1>0, <1>3, <1>5, <1>6
  <2> QED
    BY <1>5, <2>1, KeepsAt
<1>8. Len(g[i]) = Len(g[i - 1]) + 1
  <2>1. g[i] = Append(g[i - 1], u[i]) /\ u[i] \in S /\ g[i - 1] \in Seq(S)
    BY <1>0, <1>5, <1>7, KeepsAt DEF Values
  <2> QED
    BY <2>1, AppendProperties
<1>9. c = Len(g[i])
  BY <1>0, <1>3, <1>5, <1>6, <1>8
<1> QED
  BY <1>5, <1>7, <1>9

\* A value put in front is kept in front.
LEMMA KeepsPrepended ==
  ASSUME NEW g, NEW n \in Nat, NEW P, NEW S, NEW u, Values(n, u, S),
         Keeps(g, n, P, u),
         NEW h, NEW Q, NEW z, Keeps(h, n + 1, Q, z), z[1] \in S,
         \A i \in 1..n : (i + 1 \in Q <=> i \in P) /\ z[i + 1] = u[i]
  PROVE  h[n + 1] = IF 1 \in Q THEN <<z[1]>> \o g[n] ELSE g[n]
<1> DEFINE Is(m) == h[m + 1] = IF 1 \in Q THEN <<z[1]>> \o g[m] ELSE g[m]
           Bad == {m \in 0..n : ~Is(m)}
<1>0. /\ \A m \in 0..n : g[m] \in Seq(S)
      /\ n + 1 \in Nat
  BY KeepsSeq
<1>1. /\ h[0] = <<>> /\ g[0] = <<>>
      /\ \A i \in 1..(n + 1) : /\ i \in Q => h[i] = Append(h[i - 1], z[i])
                               /\ i \notin Q => h[i] = h[i - 1]
      /\ \A i \in 1..n : /\ i \in P => g[i] = Append(g[i - 1], u[i])
                         /\ i \notin P => g[i] = g[i - 1]
  BY <1>0, KeepsAt
<1>2. Is(0)
  <2>1. 1 \in 1..(n + 1) /\ 1 - 1 = 0 /\ 0 + 1 = 1
    OBVIOUS
  <2>2. h[1] = IF 1 \in Q THEN Append(<<>>, z[1]) ELSE <<>>
    BY <1>1, <2>1
  <2>3. Append(<<>>, z[1]) = <<z[1]>> \o <<>>
    BY PrependFirst
  <2> QED
    BY <1>1, <2>1, <2>2, <2>3
<1>3. Bad = {}
  <2> SUFFICES ASSUME Bad # {} PROVE FALSE
    OBVIOUS
  <2>0. Bad \in SUBSET Nat
    OBVIOUS
  <2>1. PICK m \in Bad : \A y \in Bad : m <= y
    BY <2>0, Smallest
  <2>2. m \in 0..n /\ ~Is(m)
    OBVIOUS
  <2>3. m # 0
    BY <1>2, <2>2
  <2>4. /\ m \in 1..n /\ m - 1 \in 0..n /\ m - 1 \notin Bad
        /\ m + 1 \in 1..(n + 1) /\ (m + 1) - 1 = m /\ (m - 1) + 1 = m
    BY <2>1, <2>2, <2>3
  <2>5. h[m] = IF 1 \in Q THEN <<z[1]>> \o g[m - 1] ELSE g[m - 1]
    BY <2>4
  <2>6. g[m - 1] \in Seq(S) /\ u[m] \in S
    BY <1>0, <2>4 DEF Values
  <2>7. CASE m \in P
    <3>1. h[m + 1] = Append(h[m], u[m])
      BY <1>1, <2>4, <2>7
    <3>2. g[m] = Append(g[m - 1], u[m])
      BY <1>1, <2>4, <2>7
    <3>3. Append(<<z[1]>> \o g[m - 1], u[m]) = <<z[1]>> \o Append(g[m - 1], u[m])
      <4>1. \A s \in Seq(S), d \in S, x \in S : Append(<<d>> \o s, x) = <<d>> \o Append(s, x)
        BY PrependAppend
      <4> QED
        BY <2>6, <4>1, Zenon
    <3> QED
      BY <2>2, <2>5, <3>1, <3>2, <3>3, Zenon
  <2>8. CASE m \notin P
    <3>1. h[m + 1] = h[m]
      BY <1>1, <2>4, <2>8
    <3>2. g[m] = g[m - 1]
      BY <1>1, <2>4, <2>8
    <3> QED
      BY <2>2, <2>5, <3>1, <3>2, Zenon
  <2> QED
    BY <2>7, <2>8
<1> QED
  BY <1>3

\* The same values are kept in the same way.
LEMMA KeepsSame ==
  ASSUME NEW n \in Nat, NEW g, NEW P, NEW u, Keeps(g, n, P, u),
         NEW h, NEW Q, NEW z, Keeps(h, n, Q, z),
         \A i \in 1..n : (i \in Q <=> i \in P) /\ z[i] = u[i]
  PROVE  h[n] = g[n]
<1> DEFINE Bad == {m \in 0..n : h[m] # g[m]}
<1>1. /\ h[0] = <<>> /\ g[0] = <<>>
      /\ \A i \in 1..n : /\ i \in Q => h[i] = Append(h[i - 1], z[i])
                         /\ i \notin Q => h[i] = h[i - 1]
      /\ \A i \in 1..n : /\ i \in P => g[i] = Append(g[i - 1], u[i])
                         /\ i \notin P => g[i] = g[i - 1]
  BY KeepsAt
<1>2. Bad = {}
  <2> SUFFICES ASSUME Bad # {} PROVE FALSE
    OBVIOUS
  <2>0. Bad \in SUBSET Nat
    OBVIOUS
  <2>1. PICK m \in Bad : \A y \in Bad : m <= y
    BY <2>0, Smallest
  <2>2. m \in 0..n /\ h[m] # g[m]
    OBVIOUS
  <2>3. m # 0
    BY <1>1, <2>2
  <2>4. m \in 1..n /\ m - 1 \in 0..n /\ m - 1 \notin Bad
    BY <2>1, <2>2, <2>3
  <2>5. h[m - 1] = g[m - 1]
    BY <2>4
  <2>6. (m \in Q <=> m \in P) /\ z[m] = u[m]
    BY <2>4
  <2>7. CASE m \in P
    <3>1. h[m] = Append(h[m - 1], z[m])
      BY <1>1, <2>4, <2>6, <2>7
    <3>2. g[m] = Append(g[m - 1], u[m])
      BY <1>1, <2>4, <2>7
    <3> QED
      BY <2>2, <2>5, <2>6, <3>1, <3>2
  <2>8. CASE m \notin P
    <3>1. h[m] = h[m - 1]
      BY <1>1, <2>4, <2>6, <2>8
    <3>2. g[m] = g[m - 1]
      BY <1>1, <2>4, <2>8
    <3> QED
      BY <2>2, <2>5, <3>1, <3>2
  <2> QED
    BY <2>7, <2>8
<1>3. n \in 0..n
  OBVIOUS
<1> QED
  BY <1>2, <1>3

\* The values z are the values u without the one at x.
Skips(n, P, u, x, Q, z) ==
  /\ \A i \in 1..(x - 1) : (i \in Q <=> i \in P) /\ z[i] = u[i]
  /\ \A i \in (x + 1)..n : (i - 1 \in Q <=> i \in P) /\ z[i - 1] = u[i]

\* What is kept before a value that is taken out stays as it is.
LEMMA KeepsBefore ==
  ASSUME NEW g, NEW n \in Nat, NEW P, NEW u, Keeps(g, n, P, u),
         NEW x \in 1..n, NEW h, NEW Q, NEW z, Keeps(h, n - 1, Q, z), Skips(n, P, u, x, Q, z)
  PROVE  h[x - 1] = g[x - 1]
<1>1. PICK m \in Nat : m = x - 1
  OBVIOUS
<1>2. \A i \in 0..m : i \in 0..n /\ i \in 0..(n - 1)
  BY <1>1
<1>3. Keeps(g, m, P, u) /\ Keeps(h, m, Q, z)
  BY <1>2, Zenon DEF Keeps
<1>4. \A i \in 1..m : (i \in Q <=> i \in P) /\ z[i] = u[i]
  BY <1>1 DEF Skips
<1>5. h[m] = g[m]
  BY <1>3, <1>4, KeepsSame
<1> QED
  BY <1>1, <1>5

\* A value that is taken out is cut out of what is kept.
LEMMA KeepsCut ==
  ASSUME NEW g, NEW n \in Nat, NEW P, NEW S, NEW u, Values(n, u, S),
         Keeps(g, n, P, u),
         NEW x \in 1..n, NEW h, NEW Q, NEW z, Keeps(h, n - 1, Q, z), Skips(n, P, u, x, Q, z)
  PROVE  h[n - 1] = IF x \in P THEN Cut(g[n], Len(g[x])) ELSE g[n]
<1> DEFINE y == Len(g[x])
           Is(m) == h[m - 1] = IF x \in P THEN Cut(g[m], y) ELSE g[m]
           Bad == {m \in x..n : ~Is(m)}
<1>0. /\ n - 1 \in Nat /\ x \in 0..n /\ x - 1 \in 0..n
      /\ \A m \in 0..n : g[m] \in Seq(S) /\ Len(g[m]) \in Nat
  <2>1. \A m \in 0..n : g[m] \in Seq(S)
    BY KeepsSeq
  <2> QED
    BY <2>1, LenProperties
<1>1. /\ \A i \in 1..(n - 1) : /\ i \in Q => h[i] = Append(h[i - 1], z[i])
                               /\ i \notin Q => h[i] = h[i - 1]
      /\ \A i \in 1..n : /\ i \in P => g[i] = Append(g[i - 1], u[i])
                         /\ i \notin P => g[i] = g[i - 1]
  BY <1>0, KeepsAt
<1>2. Is(x)
  <2>1. h[x - 1] = g[x - 1]
    BY KeepsBefore
  <2>2. CASE x \in P
    <3>1. g[x] = Append(g[x - 1], u[x]) /\ u[x] \in S /\ g[x - 1] \in Seq(S)
      BY <1>0, <1>1, <2>2 DEF Values
    <3>2. Len(g[x]) = Len(g[x - 1]) + 1
      BY <3>1, AppendProperties
    <3>3. Cut(Append(g[x - 1], u[x]), Len(g[x - 1]) + 1) = g[x - 1]
      BY <3>1, CutLast
    <3>4. Cut(g[x], y) = g[x - 1]
      BY <3>1, <3>2, <3>3
    <3> QED
      BY <2>1, <2>2, <3>4
  <2>3. CASE x \notin P
    BY <1>1, <2>1, <2>3
  <2> QED
    BY <2>2, <2>3
<1>3. x \in P => \A m \in x..n : y \in 1..Len(g[m])
  <2> SUFFICES ASSUME x \in P, NEW m \in x..n PROVE y \in 1..Len(g[m])
    OBVIOUS
  <2>1. y >= 1 /\ y \in Nat
    <3>0. \A j \in 0..(x - 1) : Len(g[j]) < Len(g[x])
      BY KeepsFinds
    <3>2. 0 \in 0..n /\ 0 \in 0..(x - 1)
      OBVIOUS
    <3>1. Len(g[0]) < Len(g[x])
      BY <3>0, <3>2
    <3> QED
      BY <1>0, <3>1, <3>2
  <2>2. y <= Len(g[m])
    BY <1>0, KeepsPrefix
  <2>3. Len(g[m]) \in Nat
    BY <1>0
  <2> QED
    BY <2>1, <2>2, <2>3
<1>4. Bad = {}
  <2> SUFFICES ASSUME Bad # {} PROVE FALSE
    OBVIOUS
  <2>0. Bad \in SUBSET Nat
    OBVIOUS
  <2>1. PICK m \in Bad : \A i \in Bad : m <= i
    BY <2>0, Smallest
  <2>2. m \in x..n /\ ~Is(m)
    OBVIOUS
  <2>3. m # x
    BY <1>2, <2>2
  <2>4. /\ m \in 1..n /\ m - 1 \in x..n /\ m - 1 \in 0..n /\ m - 1 \notin Bad
        /\ m \in (x + 1)..n /\ m - 1 \in 1..(n - 1)
    BY <2>1, <2>2, <2>3
  <2>5. h[(m - 1) - 1] = IF x \in P THEN Cut(g[m - 1], y) ELSE g[m - 1]
    BY <2>4
  <2>6. g[m - 1] \in Seq(S) /\ u[m] \in S
    BY <1>0, <2>4 DEF Values
  <2>7. (m - 1 \in Q <=> m \in P) /\ z[m - 1] = u[m]
    BY <2>4 DEF Skips
  <2>8. CASE m \in P
    <3>1. h[m - 1] = Append(h[(m - 1) - 1], u[m])
      BY <1>1, <2>4, <2>7, <2>8
    <3>2. g[m] = Append(g[m - 1], u[m])
      BY <1>1, <2>4, <2>8
    <3>3. CASE x \in P
      <4>1. y \in 1..Len(g[m - 1])
        BY <1>3, <2>4, <3>3
      <4>2. PICK s, d, c : s = g[m - 1] /\ d = u[m] /\ c = y
        OBVIOUS
      <4>a. s \in Seq(S) /\ d \in S /\ c \in 1..Len(s)
        BY <2>6, <4>1, <4>2
      <4>b. Cut(Append(s, d), c) = Append(Cut(s, c), d)
        BY <4>a, CutAppend
      <4>3. Cut(Append(g[m - 1], u[m]), y) = Append(Cut(g[m - 1], y), u[m])
        BY <4>2, <4>b
      <4> QED
        BY <2>2, <2>5, <3>1, <3>2, <3>3, <4>3, Zenon
    <3>4. CASE x \notin P
      BY <2>2, <2>5, <3>1, <3>2, <3>4, Zenon
    <3> QED
      BY <3>3, <3>4
  <2>9. CASE m \notin P
    <3>1. h[m - 1] = h[(m - 1) - 1]
      BY <1>1, <2>4, <2>7, <2>9
    <3>2. g[m] = g[m - 1]
      BY <1>1, <2>4, <2>9
    <3> QED
      BY <2>2, <2>5, <3>1, <3>2, Zenon
  <2> QED
    BY <2>8, <2>9
<1>5. n \in x..n
  OBVIOUS
<1> QED
  BY <1>4, <1>5

-----------------------------------------------------------------------------
(* ContentOf keeps the data of the elements of its key.                    *)

Data(n, w) == [i \in 1..n |-> elem[w[i]].data]
KeyPlaces(k, n, w) == {i \in 1..n : elem[w[i]].key = k}

LEMMA ContentOfList ==
  ASSUME NEW k, NEW b, NEW n, NEW w, map # NULL, b = Bucket(k),
         From(first[b]) = w, n \in Nat, DOMAIN w = 1..n, Len(w) = n
  PROVE  \E g : Keeps(g, n, KeyPlaces(k, n, w), Data(n, w)) /\ ContentOf(k) = g[n]
<1> DEFINE Kept(g) ==
             g = [i \in 0 .. n |->
                    IF i = 0 THEN <<>>
                    ELSE IF elem[w[i]].key = k THEN Append(g[i - 1], elem[w[i]].data)
                    ELSE g[i - 1]]
           P == KeyPlaces(k, n, w)
           u == Data(n, w)
<1>1. \A i \in 1..n : u[i] = elem[w[i]].data /\ (i \in P <=> elem[w[i]].key = k)
  BY DEF Data, KeyPlaces
<1>2. \A i \in 0..n : i # 0 => i \in 1..n
  OBVIOUS
<1>3. \E g : Kept(g)
  <2>1. PICK g : DOMAIN g = 0..n /\ Keeps(g, n, P, u)
    BY KeepsExists
  <2>2. PICK h : h = [i \in 0..n |-> g[i]]
    OBVIOUS
  <2>3. Keeps(h, n, P, u)
    <3>1. \A i \in 0..n : h[i] = g[i] /\ (i # 0 => h[i - 1] = g[i - 1])
      BY <2>2
    <3> QED
      BY <2>1, <3>1, Zenon DEF Keeps
  <2>4. \A i \in 0..n : h[i] = IF i = 0 THEN <<>>
                    ELSE IF elem[w[i]].key = k THEN Append(h[i - 1], elem[w[i]].data)
                    ELSE h[i - 1]
    <3> TAKE i \in 0..n
    <3>1. h[i] = IF i = 0 THEN <<>> ELSE IF i \in P THEN Append(h[i - 1], u[i]) ELSE h[i - 1]
      BY <2>3, Zenon DEF Keeps
    <3>2. CASE i = 0
      BY <3>1, <3>2, Zenon
    <3>3. CASE i # 0
      <4>1. u[i] = elem[w[i]].data /\ (i \in P <=> elem[w[i]].key = k)
        BY <1>1, <1>2, <3>3
      <4> QED
        BY <3>1, <3>3, <4>1, Zenon
    <3> QED
      BY <3>2, <3>3
  <2>5. h = [i \in 0..n |-> h[i]]
    BY <2>2
  <2>6. Kept(h)
    BY <2>4, <2>5
  <2> QED
    BY <2>6
<1>4. PICK g : g = CHOOSE x : Kept(x)
  OBVIOUS
<1>5. Kept(g)
  BY <1>3, <1>4, Zenon
<1>6. ContentOf(k) = g[n]
  <2>1. ContentOf(k) = (CHOOSE x : Kept(x))[n]
    BY Zenon DEF ContentOf
  <2> QED
    BY <1>4, <2>1
<1>7. Keeps(g, n, P, u)
  <2>1. \A i \in 0..n : g[i] = IF i = 0 THEN <<>>
                    ELSE IF elem[w[i]].key = k THEN Append(g[i - 1], elem[w[i]].data)
                    ELSE g[i - 1]
    BY <1>5, Zenon
  <2> QED
    <3> SUFFICES ASSUME NEW i \in 0..n
                 PROVE  g[i] = IF i = 0 THEN <<>> ELSE IF i \in P THEN Append(g[i - 1], u[i]) ELSE g[i - 1]
      BY Zenon DEF Keeps
    <3>2. CASE i = 0
      BY <2>1, <3>2, Zenon
    <3>3. CASE i # 0
      <4>1. u[i] = elem[w[i]].data /\ (i \in P <=> elem[w[i]].key = k)
        BY <1>1, <1>2, <3>3
      <4> QED
        BY <2>1, <3>3, <4>1, Zenon
    <3> QED
      BY <3>2, <3>3
<1> QED
  BY <1>6, <1>7

\* The list of key k, and the values that are kept of it.
HasList(k, b, n, w) == Types /\ map # NULL /\ b = Bucket(k) /\ List(b, n, w)
KeepsContent(k, n, w, g) ==
  /\ Keeps(g, n, KeyPlaces(k, n, w), Data(n, w))
  /\ ContentOf(k) = g[n]
  /\ \A i \in 1..n : Data(n, w)[i] \in Datas
ContentRule ==
  \A k \in Keys : \A b, n, w : HasList(k, b, n, w) => \E g : KeepsContent(k, n, w, g)

LEMMA ContentIsKept == ContentRule
<1> SUFFICES ASSUME NEW k \in Keys, NEW b, NEW n, NEW w, HasList(k, b, n, w)
             PROVE  \E g : KeepsContent(k, n, w, g)
  BY DEF ContentRule
<1>1. Types /\ map # NULL /\ b = Bucket(k) /\ List(b, n, w)
  BY DEF HasList
<1>2. n \in Nat /\ w \in [1..n -> Elements] /\ Walks(first[b], n, w) /\ \A i \in 1..n : w[i] \in Live
  BY <1>1 DEF List, Walks
<1>3. From(first[b]) = w
  BY <1>2, FromWalks, Constants
<1>4. DOMAIN w = 1..n /\ Len(w) = n
  BY <1>2
<1>5. \E g : Keeps(g, n, KeyPlaces(k, n, w), Data(n, w)) /\ ContentOf(k) = g[n]
  BY <1>1, <1>2, <1>3, <1>4, ContentOfList
<1>6. \A i \in 1..n : Data(n, w)[i] \in Datas
  <2> SUFFICES ASSUME NEW i \in 1..n PROVE elem[w[i]].data \in Datas
    BY DEF Data
  <2>1. elem[w[i]] \in [key : Keys, data : Datas]
    BY <1>1, <1>2, LiveFacts
  <2> QED
    BY <2>1
<1> QED
  BY <1>5, <1>6 DEF KeepsContent

LEMMA ContentIsKeptNext == ContentRule'
  BY ContentIsKept, PTL

LEMMA ContentNow ==
  ASSUME NEW k \in Keys, NEW b, NEW n, NEW w, HasList(k, b, n, w)
  PROVE  \E g : KeepsContent(k, n, w, g)
  BY ContentIsKept DEF ContentRule

LEMMA ContentNext ==
  ASSUME NEW k \in Keys, NEW b, NEW n, NEW w, HasList(k, b, n, w)'
  PROVE  \E g : KeepsContent(k, n, w, g)'
  BY ContentIsKeptNext DEF ContentRule

LEMMA KeptNow ==
  ASSUME NEW k, NEW n, NEW w, NEW g, KeepsContent(k, n, w, g)
  PROVE  \E P, u : /\ Keeps(g, n, P, u) /\ ContentOf(k) = g[n]
                   /\ \A i \in 1..n : /\ i \in P <=> elem[w[i]].key = k
                                      /\ u[i] = elem[w[i]].data /\ u[i] \in Datas
<1>1. \A i \in 1..n : /\ i \in KeyPlaces(k, n, w) <=> elem[w[i]].key = k
                      /\ Data(n, w)[i] = elem[w[i]].data
  BY DEF KeyPlaces, Data
<1> QED
  BY <1>1 DEF KeepsContent

LEMMA KeptNext ==
  ASSUME NEW k, NEW n, NEW w, NEW g, KeepsContent(k, n, w, g)'
  PROVE  \E P, u : /\ Keeps(g, n, P, u) /\ ContentOf(k)' = g[n]
                   /\ \A i \in 1..n : /\ i \in P <=> elem'[w[i]].key = k
                                      /\ u[i] = elem'[w[i]].data /\ u[i] \in Datas
<1>1. \A i \in 1..n : /\ i \in KeyPlaces(k, n, w)' <=> elem'[w[i]].key = k
                      /\ Data(n, w)'[i] = elem'[w[i]].data
  BY DEF KeyPlaces, Data
<1>2. /\ Keeps(g, n, KeyPlaces(k, n, w)', Data(n, w)') /\ ContentOf(k)' = g[n]
      /\ \A i \in 1..n : Data(n, w)'[i] \in Datas
  BY DEF KeepsContent, Keeps
<1> QED
  BY <1>1, <1>2

\* The content of a key, now and after a step: g lists the data u at the places
\* P of the elements of the key.
KeptOf(k, n, w, g, P, u) ==
  /\ n \in Nat /\ Keeps(g, n, P, u) /\ ContentOf(k) = g[n]
  /\ \A i \in 1..n : /\ i \in P <=> elem[w[i]].key = k
                     /\ u[i] = elem[w[i]].data /\ u[i] \in Datas

LEMMA ContentListed ==
  ASSUME NEW k \in Keys, NEW b, NEW n, NEW w, HasList(k, b, n, w)
  PROVE  \E g, P, u : KeptOf(k, n, w, g, P, u)
<1>1. n \in Nat
  BY DEF HasList, List, Walks
<1>2. PICK g : KeepsContent(k, n, w, g)
  BY ContentNow
<1>3. PICK P, u : /\ Keeps(g, n, P, u) /\ ContentOf(k) = g[n]
                  /\ \A i \in 1..n : /\ i \in P <=> elem[w[i]].key = k
                                     /\ u[i] = elem[w[i]].data /\ u[i] \in Datas
  BY <1>2, KeptNow
<1>4. KeptOf(k, n, w, g, P, u)
  BY <1>1, <1>3 DEF KeptOf
<1> QED
  BY <1>4

LEMMA ContentListedNext ==
  ASSUME NEW k \in Keys, NEW b, NEW n, NEW w, HasList(k, b, n, w)'
  PROVE  \E g, P, u : KeptOf(k, n, w, g, P, u)'
<1>1. n \in Nat
  BY DEF HasList, List, Walks
<1>2. PICK g : KeepsContent(k, n, w, g)'
  BY ContentNext
<1>3. PICK P, u : /\ Keeps(g, n, P, u) /\ ContentOf(k)' = g[n]
                  /\ \A i \in 1..n : /\ i \in P <=> elem'[w[i]].key = k
                                     /\ u[i] = elem'[w[i]].data /\ u[i] \in Datas
  BY <1>2, KeptNext
<1>4. KeptOf(k, n, w, g, P, u)'
  BY <1>1, <1>3 DEF KeptOf
<1> QED
  BY <1>4

LEMMA KeysListed ==
  ASSUME IInv, map # NULL, NEW k \in Keys
  PROVE  \E b, n, w : HasList(k, b, n, w) /\ b \in Buckets
<1>1. Types /\ Counted
  BY HasMap
<1>2. PICK b \in Buckets : b = Bucket(k)
  BY <1>1, MapFacts
<1>3. PICK n, w : List(b, n, w)
  BY HasMap
<1> QED
  BY <1>1, <1>2, <1>3 DEF HasList

LEMMA EmptyContent ==
  ASSUME NEW k, map = NULL
  PROVE  ContentOf(k) = <<>>
  BY DEF ContentOf

LEMMA EmptyContentNext ==
  ASSUME NEW k, map' = NULL
  PROVE  ContentOf(k)' = <<>>
  BY DEF ContentOf

\* A map without elements keeps nothing.
LEMMA NothingLive ==
  ASSUME IInv, NEW k \in Keys, Live = {}
  PROVE  ContentOf(k) = <<>>
<1>1. CASE map = NULL
  BY <1>1, EmptyContent
<1>2. CASE map # NULL
  <2>1. PICK b, n, w : HasList(k, b, n, w)
    BY <1>2, KeysListed
  <2>2. PICK g, P, u : n \in Nat /\ Keeps(g, n, P, u) /\ ContentOf(k) = g[n]
    BY <2>1, ContentListed DEF KeptOf
  <2>3. \A i \in 1..n : w[i] \in Live
    BY <2>1 DEF HasList, List
  <2>4. n = 0
    BY <2>2, <2>3
  <2> QED
    BY <2>2, <2>4, KeepsAt
<1> QED
  BY <1>1, <1>2

NothingRule == IInv /\ Live = {} => \A k \in Keys : ContentOf(k) = <<>>

LEMMA NothingHolds == NothingRule
  BY NothingLive DEF NothingRule

LEMMA NothingLiveNext ==
  ASSUME IInv', Live' = {}, NEW k \in Keys
  PROVE  ContentOf(k)' = <<>>
<1>1. NothingRule'
  BY NothingHolds, PTL
<1> QED
  BY <1>1 DEF NothingRule

\* The content of a key whose list stays as it is.
LEMMA ContentStays ==
  ASSUME NEW k \in Keys, NEW b, NEW n, NEW w,
         HasList(k, b, n, w), HasList(k, b, n, w)',
         \A i \in 1..n : elem'[w[i]] = elem[w[i]]
  PROVE  ContentOf(k)' = ContentOf(k)
<1>1. PICK g, P, u : /\ n \in Nat /\ Keeps(g, n, P, u) /\ ContentOf(k) = g[n]
                     /\ \A i \in 1..n : /\ i \in P <=> elem[w[i]].key = k
                                        /\ u[i] = elem[w[i]].data /\ u[i] \in Datas
  BY ContentListed DEF KeptOf
<1>2. PICK h, Q, z : /\ Keeps(h, n, Q, z) /\ ContentOf(k)' = h[n]
                     /\ \A i \in 1..n : /\ i \in Q <=> elem'[w[i]].key = k
                                        /\ z[i] = elem'[w[i]].data /\ z[i] \in Datas
  BY ContentListedNext DEF KeptOf
<1>3. \A i \in 1..n : (i \in Q <=> i \in P) /\ z[i] = u[i]
  BY <1>1, <1>2
<1>4. h[n] = g[n]
  BY <1>1, <1>2, <1>3, KeepsSame
<1> QED
  BY <1>1, <1>2, <1>4

ContentsSame == \A y \in Keys : ContentOf(y)' = ContentOf(y)

LEMMA StillContent ==
  ASSUME IInv, Still
  PROVE  ContentsSame
<1> SUFFICES ASSUME NEW y \in Keys PROVE ContentOf(y)' = ContentOf(y)
  BY DEF ContentsSame
<1>1. CASE map = NULL
  <2>1. map' = NULL
    BY <1>1 DEF Still
  <2> QED
    BY <1>1, <2>1, EmptyContent, EmptyContentNext
<1>2. CASE map # NULL
  <2>1. PICK b, n, w : HasList(y, b, n, w)
    BY <1>2, KeysListed
  <2>2. HasList(y, b, n, w)'
    <3>1. Types /\ map # NULL /\ b = Bucket(y) /\ List(b, n, w)
      BY <2>1 DEF HasList
    <3>2. Types' /\ map' # NULL
      BY <3>1, StillSame DEF Still
    <3>3. b = Bucket(y)'
      BY <3>1, StillSame
    <3>4. List(b, n, w)'
      BY <3>1, StillSame
    <3> QED
      BY <3>2, <3>3, <3>4 DEF HasList
  <2>3. \A i \in 1..n : elem'[w[i]] = elem[w[i]]
    BY DEF Still
  <2> QED
    BY <2>1, <2>2, <2>3, ContentStays
<1> QED
  BY <1>1, <1>2

LEMMA EmptyStays ==
  ASSUME IInv, IInv', Live = {}, Live' = {}
  PROVE  ContentsSame
  BY NothingLive, NothingLiveNext DEF ContentsSame

LEMMA NewContent ==
  ASSUME IInv, NEW t \in TableSizes, New(t)
  PROVE  ContentsSame
<1>1. Live = {} /\ Live' = Live
  <2>1. map = NULL /\ elem' = elem
    BY DEF New
  <2>2. Counted => map # NULL
    BY HashMapAssumption DEF Counted
  <2> QED
    BY <2>1, <2>2 DEF IInv, NoMap, Live
<1> QED
  BY <1>1, NewStep, EmptyStays

LEMMA FreeContent ==
  ASSUME IInv, Free
  PROVE  ContentsSame
<1>1. Live = {} /\ Live' = Live
  <2>1. map # NULL /\ map.size = 0 /\ elem' = elem
    BY DEF Free, Length
  <2>2. Cardinality(Live) = 0 /\ IsFiniteSet(Live)
    BY <2>1, HasMap, LiveFacts DEF Counted
  <2> QED
    BY <2>1, <2>2, FS_EmptySet DEF Live
<1> QED
  BY <1>1, FreeStep, EmptyStays

\* A put keeps its value in front of those of its key.
LEMMA PutContent ==
  ASSUME IInv, map # NULL, NEW k \in Keys, NEW d \in Datas, NEW e \in Elements \ Live,
         NEW b \in Buckets, b = Bucket(k), PutsAt(e, k, d, b), NEW y \in Keys
  PROVE  ContentOf(y)' = IF y = k THEN <<d>> \o ContentOf(y) ELSE ContentOf(y)
<1>1. PutMoved(e, k, d, b)
  BY PutMoves
<1>2. PICK c, n, w : HasList(y, c, n, w) /\ c \in Buckets
  BY KeysListed
<1>3. Types /\ c = Bucket(y) /\ List(c, n, w) /\ \A i \in 1..n : w[i] \in Live
  BY <1>2 DEF HasList, List
<1>4. Types' /\ map' # NULL /\ c = Bucket(y)'
  <2>1. Types' /\ Counted' /\ Bucket(y)' = Bucket(y)
    BY <1>1 DEF PutMoved
  <2>2. map' # NULL
    BY <2>1, HashMapAssumption DEF Counted
  <2> QED
    BY <1>3, <2>1, <2>2
<1>5. elem'[e].key = k /\ elem'[e].data = d /\ \A i \in 1..n : elem'[w[i]] = elem[w[i]]
  BY <1>1, <1>3 DEF PutMoved
<1>6. CASE c # b
  <2>1. List(c, n, w)'
    BY <1>1, <1>2, <1>3, <1>6 DEF PutMoved
  <2>2. HasList(y, c, n, w)'
    BY <1>4, <2>1 DEF HasList
  <2>3. ContentOf(y)' = ContentOf(y)
    BY <1>2, <1>5, <2>2, ContentStays
  <2>4. y # k
    BY <1>3, <1>6
  <2> QED
    BY <2>3, <2>4
<1>7. CASE c = b
  <2>1. PICK v : v = Prepended(e, n, w) /\ List(b, n + 1, v)'
    BY <1>1, <1>3, <1>7 DEF PutMoved
  <2>2. HasList(y, c, n + 1, v)'
    BY <1>4, <1>7, <2>1 DEF HasList
  <2>3. PICK g, P, u : /\ n \in Nat /\ Keeps(g, n, P, u) /\ ContentOf(y) = g[n]
                       /\ \A i \in 1..n : /\ i \in P <=> elem[w[i]].key = y
                                          /\ u[i] = elem[w[i]].data /\ u[i] \in Datas
    BY <1>2, ContentListed DEF KeptOf
  <2>4. PICK h, Q, z : /\ Keeps(h, n + 1, Q, z) /\ ContentOf(y)' = h[n + 1]
                       /\ \A i \in 1..(n + 1) : /\ i \in Q <=> elem'[v[i]].key = y
                                                /\ z[i] = elem'[v[i]].data /\ z[i] \in Datas
    BY <2>2, ContentListedNext DEF KeptOf
  <2>5. /\ 1 \in 1..(n + 1) /\ v[1] = e
        /\ \A i \in 1..n : i + 1 \in 1..(n + 1) /\ v[i + 1] = w[i]
    <3>1. n \in Nat /\ v = [i \in 1..(n + 1) |-> IF i = 1 THEN e ELSE w[i - 1]]
      BY <2>1, <2>3 DEF Prepended
    <3> QED
      BY <3>1
  <2>6. \A i \in 1..n : (i + 1 \in Q <=> i \in P) /\ z[i + 1] = u[i]
    BY <1>5, <2>3, <2>4, <2>5
  <2>7. z[1] = d /\ (1 \in Q <=> y = k)
    BY <1>5, <2>4, <2>5
  <2>8. Values(n, u, Datas)
    BY <2>3 DEF Values
  <2>9. h[n + 1] = IF 1 \in Q THEN <<z[1]>> \o g[n] ELSE g[n]
    <3>1. n \in Nat /\ Keeps(g, n, P, u) /\ Keeps(h, n + 1, Q, z) /\ z[1] \in Datas
      BY <2>3, <2>4, <2>7
    <3> QED
      BY <2>6, <2>8, <3>1, KeepsPrepended
  <2> QED
    BY <2>3, <2>4, <2>7, <2>9
<1> QED
  BY <1>6, <1>7

\* A removal cuts the value of u[x] out of those of its key.
LEMMA RemoveContent ==
  ASSUME IInv, map # NULL, NEW k, NEW d, NEW e \in Live, NEW b \in Buckets,
         NEW m, NEW u, NEW x, Takes(e, k, d, b, m, u, x), RemovesAt(e),
         NEW y \in Keys, b = Bucket(y),
         NEW g, NEW P, NEW r, KeptOf(y, m, u, g, P, r)
  PROVE  ContentOf(y)' = IF elem[e].key = y THEN Cut(ContentOf(y), Len(g[x])) ELSE ContentOf(y)
<1>1. RemoveMoved(e, b, m, u, x)
  BY RemoveMoves
<1>a. m \in Nat /\ Keeps(g, m, P, r) /\ ContentOf(y) = g[m] /\ \A i \in 1..m : r[i] \in Datas
  BY DEF KeptOf
<1>b. \A i \in 1..m : (i \in P <=> elem[u[i]].key = y) /\ r[i] = elem[u[i]].data
  BY DEF KeptOf
<1>2. List(b, m, u) /\ x \in 1..m /\ e = u[x]
  BY DEF Takes
<1>3. Types' /\ map' # NULL /\ b = Bucket(y)'
  <2>1. Types' /\ Counted' /\ Bucket(y)' = Bucket(y)
    BY <1>1 DEF RemoveMoved
  <2>2. map' # NULL
    BY <2>1, HashMapAssumption DEF Counted
  <2> QED
    BY <2>1, <2>2
<1>4. PICK v : v = Shortened(x, m, u) /\ List(b, m - 1, v)'
  BY <1>1 DEF RemoveMoved
<1>5. HasList(y, b, m - 1, v)'
  BY <1>3, <1>4 DEF HasList
<1>6. PICK h, Q, z : /\ Keeps(h, m - 1, Q, z) /\ ContentOf(y)' = h[m - 1]
                     /\ \A i \in 1..(m - 1) : /\ i \in Q <=> elem'[v[i]].key = y
                                              /\ z[i] = elem'[v[i]].data /\ z[i] \in Datas
  BY <1>5, ContentListedNext DEF KeptOf
<1>7. \A i \in 1..m : i # x => elem'[u[i]] = elem[u[i]]
  <2>1. \A i \in 1..m : u[i] \in Live /\ (u[i] = e => i = x)
    BY <1>2 DEF List, Walks
  <2> QED
    BY <1>1, <2>1 DEF RemoveMoved
<1>8. Skips(m, P, r, x, Q, z)
  <2>1. v = [i \in 1..(m - 1) |-> IF i < x THEN u[i] ELSE u[i + 1]]
    BY <1>4 DEF Shortened
  <2>2. ASSUME NEW i \in 1..(x - 1) PROVE (i \in Q <=> i \in P) /\ z[i] = r[i]
    <3>1. i \in 1..(m - 1) /\ i \in 1..m /\ i < x /\ i # x
      BY <1>a, <1>2
    <3>2. v[i] = u[i]
      BY <2>1, <3>1
    <3> QED
      BY <1>b, <1>6, <1>7, <3>1, <3>2
  <2>3. ASSUME NEW i \in (x + 1)..m PROVE (i - 1 \in Q <=> i \in P) /\ z[i - 1] = r[i]
    <3>1. i - 1 \in 1..(m - 1) /\ i \in 1..m /\ ~(i - 1 < x) /\ i # x /\ (i - 1) + 1 = i
      BY <1>a, <1>2
    <3>2. v[i - 1] = u[i]
      BY <2>1, <3>1
    <3> QED
      BY <1>b, <1>6, <1>7, <3>1, <3>2
  <2> QED
    BY <2>2, <2>3 DEF Skips
<1>9. h[m - 1] = IF x \in P THEN Cut(g[m], Len(g[x])) ELSE g[m]
  <2>1. Keeps(h, m - 1, Q, z) /\ x \in 1..m
    BY <1>2, <1>6
  <2>2. m \in Nat /\ Values(m, r, Datas) /\ Keeps(g, m, P, r)
    BY <1>a DEF Values
  <2> QED
    BY <1>8, <2>1, <2>2, KeepsCut
<1>10. x \in P <=> elem[e].key = y
  BY <1>b, <1>2
<1> QED
  BY <1>a, <1>6, <1>9, <1>10

\* ... and leaves those of the other buckets as they are.
LEMMA RemoveContentElsewhere ==
  ASSUME IInv, map # NULL, NEW k, NEW d, NEW e \in Live, NEW b \in Buckets,
         NEW m, NEW u, NEW x, Takes(e, k, d, b, m, u, x), RemovesAt(e),
         NEW y \in Keys, b # Bucket(y)
  PROVE  ContentOf(y)' = ContentOf(y)
<1>1. RemoveMoved(e, b, m, u, x)
  BY RemoveMoves
<1>2. PICK c, n, w : HasList(y, c, n, w) /\ c \in Buckets
  BY KeysListed
<1>3. c = Bucket(y) /\ List(c, n, w) /\ c # b
  BY <1>2 DEF HasList
<1>4. \A i \in 1..n : elem'[w[i]] = elem[w[i]]
  <2>1. List(b, m, u) /\ x \in 1..m /\ e = u[x]
    BY DEF Takes
  <2>2. Bucket(elem[e].key) = b
    BY <2>1 DEF List
  <2>3. \A i \in 1..n : w[i] \in Live /\ w[i] # e
    BY <1>3, <2>2 DEF List
  <2> QED
    BY <1>1, <2>3 DEF RemoveMoved
<1>5. HasList(y, c, n, w)'
  <2>1. Types' /\ Counted' /\ Bucket(y)' = Bucket(y)
    BY <1>1 DEF RemoveMoved
  <2>2. map' # NULL
    BY <2>1, HashMapAssumption DEF Counted
  <2>3. List(c, n, w)'
    BY <1>1, <1>2, <1>3 DEF RemoveMoved
  <2> QED
    BY <1>3, <2>1, <2>2, <2>3 DEF HasList
<1> QED
  BY <1>2, <1>4, <1>5, ContentStays

Content == [y \in Keys |-> ContentOf(y)]

LEMMA ContentAt ==
  /\ \A k \in Keys : Content[k] = ContentOf(k) /\ Content'[k] = ContentOf(k)'
  /\ ContentsSame => Content' = Content
<1>1. ASSUME ContentsSame PROVE Content' = Content
  BY <1>1 DEF Content, ContentsSame
<1> QED
  BY <1>1 DEF Content

\* The calls of the multimap, over the contents of the keys.
LEMMA PutMaps ==
  ASSUME NEW k \in Keys, NEW d \in Datas, answer' = <<"put", k, d, OK>>,
         \A y \in Keys : ContentOf(y)' = IF y = k THEN <<d>> \o ContentOf(y) ELSE ContentOf(y)
  PROVE  Abstract!Put(k, d)
<1>1. Content' = [Content EXCEPT ![k] = <<d>> \o Content[k]]
  BY DEF Content
<1> QED
  BY <1>1 DEF Abstract!Put, Content

LEMMA PutFailsMaps ==
  ASSUME IInv, NEW k \in Keys, NEW d \in Datas, PutFails(k, d)
  PROVE  Abstract!Put(k, d)
<1>1. ContentsSame
  BY StillContent DEF PutFails, Still
<1>2. Content' = Content /\ answer' = <<"put", k, d, NoMemory>>
  BY <1>1, ContentAt DEF PutFails
<1> QED
  BY <1>2 DEF Abstract!Put, Content

\* A key without elements has no values.
LEMMA NoneKept ==
  ASSUME NEW k, NEW n, NEW w, NEW g, NEW P, NEW u, KeptOf(k, n, w, g, P, u),
         \A i \in 1..n : elem[w[i]].key # k
  PROVE  ContentOf(k) = <<>>
<1>1. /\ n \in Nat /\ Keeps(g, n, P, u) /\ ContentOf(k) = g[n] /\ Values(n, u, Datas)
      /\ \A i \in 1..n : i \notin P
  BY DEF KeptOf, Values
<1>2. g[n] \in Seq(Datas)
  <2>1. n \in 0..n
    BY <1>1
  <2> QED
    BY <1>1, <2>1, KeepsSeq
<1>3. ~\E c \in 1..Len(g[n]) : TRUE
  <2> SUFFICES ASSUME NEW c \in 1..Len(g[n]) PROVE FALSE
    OBVIOUS
  <2>1. \E i \in 1..n : i \in P /\ c = Len(g[i])
    BY <1>1, KeepsOnly
  <2> QED
    BY <1>1, <2>1
<1>4. Len(g[n]) = 0
  BY <1>2, <1>3, LenProperties
<1> QED
  BY <1>1, <1>2, <1>4, EmptySeq

\* An element of the key has a value, which is the first when it is the first.
LEMMA OneKept ==
  ASSUME NEW k, NEW n, NEW w, NEW g, NEW P, NEW u, KeptOf(k, n, w, g, P, u),
         NEW i \in 1..n, elem[w[i]].key = k
  PROVE  /\ ContentOf(k) \in Seq(Datas)
         /\ Len(g[i]) \in 1..Len(ContentOf(k)) /\ ContentOf(k)[Len(g[i])] = elem[w[i]].data
         /\ \A c \in 1..Len(ContentOf(k)) : \E j \in 1..n :
              /\ elem[w[j]].key = k /\ c = Len(g[j]) /\ ContentOf(k)[c] = elem[w[j]].data
              /\ i <= j => Len(g[i]) <= c
<1>1. /\ n \in Nat /\ Keeps(g, n, P, u) /\ ContentOf(k) = g[n] /\ Values(n, u, Datas)
  BY DEF KeptOf, Values
<1>2. \A j \in 1..n : (j \in P <=> elem[w[j]].key = k) /\ u[j] = elem[w[j]].data
  BY DEF KeptOf
<1>3. g[n] \in Seq(Datas)
  <2>1. n \in 0..n
    BY <1>1
  <2> QED
    BY <1>1, <2>1, KeepsSeq
<1>4. ASSUME NEW j \in 1..n, elem[w[j]].key = k
      PROVE  Len(g[j]) \in 1..Len(g[n]) /\ g[n][Len(g[j])] = elem[w[j]].data
  <2>1. j \in P /\ u[j] = elem[w[j]].data
    BY <1>2, <1>4
  <2>3. Len(g[j]) \in 1..Len(g[n]) /\ g[n][Len(g[j])] = u[j]
    BY <1>1, <2>1, KeepsFinds
  <2> QED
    BY <2>1, <2>3
<1>5. ASSUME NEW c \in 1..Len(g[n])
      PROVE  \E j \in 1..n : /\ elem[w[j]].key = k /\ c = Len(g[j]) /\ g[n][c] = elem[w[j]].data
                             /\ i <= j => Len(g[i]) <= c
  <2>1. PICK j \in 1..n : j \in P /\ c = Len(g[j])
    BY <1>1, KeepsOnly
  <2>2. elem[w[j]].key = k /\ g[n][c] = elem[w[j]].data
    BY <1>2, <1>4, <2>1
  <2>3. i <= j => Len(g[i]) <= Len(g[j])
    <3> SUFFICES ASSUME i <= j PROVE Len(g[i]) <= Len(g[j])
      OBVIOUS
    <3>1. i \in 0..n /\ j \in i..n
      BY <1>1
    <3> QED
      BY <1>1, <3>1, KeepsPrefix
  <2> QED
    BY <2>1, <2>2, <2>3
<1> QED
  BY <1>1, <1>3, <1>4, <1>5

LEMMA AnswerPair ==
  ASSUME NEW a, NEW b, NEW c, NEW d
  PROVE  <<a, b>> \o <<c, d>> = <<a, b, c, d>>
<1> DEFINE s == <<a, b>> \o <<c, d>>
           t == <<a, b, c, d>>
<1>1. s \in Seq({a, b, c, d}) /\ t \in Seq({a, b, c, d})
  BY SMT
<1>2. Len(s) = 4 /\ Len(t) = 4
  BY SMT
<1>3. s[1] = a /\ s[2] = b /\ s[3] = c /\ s[4] = d
  BY SMT
<1>4. s = [i \in 1..Len(s) |-> s[i]] /\ t = [i \in 1..Len(t) |-> t[i]]
  BY <1>1
<1>5. \A i \in 1..4 : s[i] = t[i]
  BY <1>3, SMT
<1> QED
  BY <1>2, <1>4, <1>5

LEMMA AnswerOne ==
  ASSUME NEW a, NEW b, NEW c
  PROVE  <<a, b>> \o <<c>> = <<a, b, c>>
<1> DEFINE s == <<a, b>> \o <<c>>
           t == <<a, b, c>>
<1>1. s \in Seq({a, b, c}) /\ t \in Seq({a, b, c})
  BY SMT
<1>2. Len(s) = 3 /\ Len(t) = 3
  BY SMT
<1>3. s[1] = a /\ s[2] = b /\ s[3] = c
  BY SMT
<1>4. s = [i \in 1..Len(s) |-> s[i]] /\ t = [i \in 1..Len(t) |-> t[i]]
  BY <1>1
<1>5. \A i \in 1..3 : s[i] = t[i]
  BY <1>3, SMT
<1> QED
  BY <1>2, <1>4, <1>5

\* A live element has a value among those of its key.
LEMMA ValueKept ==
  ASSUME IInv, map # NULL, NEW e \in Live, NEW k \in Keys, elem[e].key = k
  PROVE  \E c \in DOMAIN ContentOf(k) : ContentOf(k)[c] = elem[e].data
<1>1. PICK b, n, w : HasList(k, b, n, w)
  BY KeysListed
<1>2. PICK g, P, u : KeptOf(k, n, w, g, P, u)
  BY <1>1, ContentListed
<1>3. PICK i \in 1..n : w[i] = e
  BY <1>1 DEF HasList, List
<1>4. /\ ContentOf(k) \in Seq(Datas)
      /\ Len(g[i]) \in 1..Len(ContentOf(k)) /\ ContentOf(k)[Len(g[i])] = elem[w[i]].data
  BY <1>2, <1>3, OneKept
<1>5. Len(g[i]) \in DOMAIN ContentOf(k)
  BY <1>4, LenProperties
<1> QED
  BY <1>3, <1>4, <1>5

\* The first element of a key has its first value.
LEMMA FirstKept ==
  ASSUME IInv, map # NULL, NEW k \in Keys
  PROVE  IF Find(k) = NULL THEN ContentOf(k) = <<>>
         ELSE ContentOf(k) # <<>> /\ Head(ContentOf(k)) = elem[Find(k)].data
<1>1. PICK b, n, w : HasList(k, b, n, w)
  BY KeysListed
<1>2. Types /\ List(Bucket(k), n, w)
  BY <1>1 DEF HasList
<1>3. PICK g, P, u : KeptOf(k, n, w, g, P, u)
  BY <1>1, ContentListed
<1>4. \A i \in 1..n : w[i] \in Live
  BY <1>2 DEF List
<1>5. CASE Find(k) = NULL /\ \A e \in Live : elem[e].key # k
  <2>1. \A i \in 1..n : elem[w[i]].key # k
    BY <1>4, <1>5
  <2> QED
    BY <1>3, <1>5, <2>1, NoneKept
<1>6. ASSUME NEW i \in 1..n, Find(k) = w[i], w[i] \in Live, elem[w[i]].key = k,
             \A j \in 1..n : elem[w[j]].key = k => i <= j
      PROVE  /\ Find(k) # NULL
             /\ ContentOf(k) # <<>> /\ Head(ContentOf(k)) = elem[Find(k)].data
  <2>1. /\ ContentOf(k) \in Seq(Datas)
        /\ Len(g[i]) \in 1..Len(ContentOf(k)) /\ ContentOf(k)[Len(g[i])] = elem[w[i]].data
        /\ \A c \in 1..Len(ContentOf(k)) : \E j \in 1..n :
             /\ elem[w[j]].key = k /\ c = Len(g[j]) /\ ContentOf(k)[c] = elem[w[j]].data
             /\ i <= j => Len(g[i]) <= c
    <3>1. elem[w[i]].key = k
      BY <1>6
    <3> QED
      BY <1>3, <3>1, OneKept
  <2>2. 1 \in 1..Len(ContentOf(k))
    BY <2>1, LenProperties
  <2>3. Len(g[i]) <= 1
    BY <1>6, <2>1, <2>2
  <2>4. Len(g[i]) = 1
    <3>1. Len(ContentOf(k)) \in Nat
      BY <2>1, LenProperties
    <3>2. PICK a, z : a = Len(g[i]) /\ z = Len(ContentOf(k))
      OBVIOUS
    <3>3. z \in Nat /\ a \in 1..z /\ a <= 1
      BY <2>1, <2>3, <3>1, <3>2
    <3>4. a = 1
      BY <3>3
    <3> QED
      BY <3>2, <3>4
  <2>5. ContentOf(k)[1] = elem[w[i]].data
    BY <2>1, <2>4
  <2>6. ContentOf(k) # <<>>
    BY <2>2, EmptySeq
  <2>7. Head(ContentOf(k)) = ContentOf(k)[1]
    BY <2>1, <2>6
  <2>8. w[i] # NULL
    BY <1>6, Constants DEF Live
  <2> QED
    BY <1>6, <2>5, <2>6, <2>7, <2>8
<1> QED
  BY <1>2, <1>5, <1>6, FindIs

LEMMA GetMaps ==
  ASSUME IInv, NEW k \in Keys, Get(k)
  PROVE  Abstract!Get(k)
<1>1. map # NULL /\ answer' = <<"get", k>> \o Found(Find(k)) /\ Still
  BY DEF Get, Still
<1>2. Content' = Content
  BY <1>1, StillContent, ContentAt
<1>3. Found(Find(k)) = IF Content[k] = <<>> THEN <<Missing>> ELSE <<OK, Head(Content[k])>>
  <2>1. CASE Find(k) = NULL
    BY <1>1, <2>1, FirstKept, ContentAt DEF Found
  <2>2. CASE Find(k) # NULL
    BY <1>1, <2>2, FirstKept, ContentAt DEF Found
  <2> QED
    BY <2>1, <2>2
<1> QED
  BY <1>1, <1>2, <1>3 DEF Abstract!Get, Content

LEMMA TraverseMaps ==
  ASSUME IInv, map # NULL, Still, NEW k \in Keys, NEW e,
         answer' = <<"traverse", k>> \o Found(e),
         e # NULL => e \in Live /\ elem[e].key = k
  PROVE  Abstract!Traverse(k)
<1>1. Content' = Content
  BY StillContent, ContentAt
<1>2. CASE e = NULL
  <2>1. answer' = <<"traverse", k, Missing>>
    BY <1>2, AnswerOne DEF Found
  <2> QED
    BY <1>1, <2>1 DEF Abstract!Traverse, Content
<1>3. CASE e # NULL
  <2>1. answer' = <<"traverse", k, OK, elem[e].data>>
    BY <1>3, AnswerPair DEF Found
  <2>2. PICK c \in DOMAIN ContentOf(k) : ContentOf(k)[c] = elem[e].data
    BY <1>3, ValueKept
  <2>3. Content[k] = ContentOf(k)
    BY ContentAt
  <2>4. c \in DOMAIN Content[k] /\ answer' = <<"traverse", k, OK, Content[k][c]>>
    BY <2>1, <2>2, <2>3
  <2> QED
    BY <1>1, <2>4 DEF Abstract!Traverse, Content
<1> QED
  BY <1>2, <1>3

LEMMA TraverseFirstMaps ==
  ASSUME IInv, NEW k \in Keys, TraverseFirst(k)
  PROVE  Abstract!Traverse(k)
<1>1. map # NULL /\ Still /\ answer' = <<"traverse", k>> \o Found(Find(k))
  BY DEF TraverseFirst, Still
<1>2. Find(k) # NULL => Find(k) \in Live /\ elem[Find(k)].key = k
  <2>1. PICK b, n, w : HasList(k, b, n, w)
    BY <1>1, KeysListed
  <2>2. Types /\ List(Bucket(k), n, w)
    BY <2>1 DEF HasList
  <2> QED
    BY <2>2, FindIs
<1> QED
  BY <1>1, <1>2, TraverseMaps

LEMMA TraverseNextMaps ==
  ASSUME IInv, TraverseNext
  PROVE  \E k \in Keys : Abstract!Traverse(k)
<1>1. /\ map # NULL /\ iter # NULL /\ Still
      /\ answer' = <<"traverse", elem[iter].key>> \o Found(FindNext(iter))
  BY DEF TraverseNext, Still
<1>2. Types /\ Traversed
  BY <1>1, HasMap
<1>3. iter \in Live
  BY <1>1, <1>2 DEF Traversed
<1>4. PICK b, n, w, j : b = Bucket(elem[iter].key) /\ List(b, n, w) /\ Shows(n, w, j)
  BY <1>1, <1>2 DEF Traversed
<1>5. j \in 1..n /\ w[j] = iter /\ List(Bucket(elem[iter].key), n, w)
  BY <1>4 DEF Shows
<1>6. FindNext(iter) # NULL => FindNext(iter) \in Live /\ elem[FindNext(iter)].key = elem[iter].key
  BY <1>2, <1>3, <1>5, FindNextIs
<1>7. PICK k \in Keys : k = elem[iter].key
  BY <1>2, <1>3, LiveFacts
<1>8. Abstract!Traverse(k)
  BY <1>1, <1>6, <1>7, TraverseMaps
<1> QED
  BY <1>8

\* A removal of what is asked for takes the first such value of its key.
LEMMA CutMaps ==
  ASSUME NEW k \in Keys, NEW d, answer' = <<"remove", k, d, OK>>,
         NEW c, c \in Abstract!Wanted(k, d), \A j \in Abstract!Wanted(k, d) : c <= j,
         \A y \in Keys : ContentOf(y)' = IF y = k THEN Cut(ContentOf(y), c) ELSE ContentOf(y)
  PROVE  Abstract!Remove(k, d)
<1>1. Content' = [Content EXCEPT ![k] = Cut(Content[k], c)]
  BY DEF Content
<1>2. Content' = [Content EXCEPT ![k] = SubSeq(Content[k], 1, c - 1)
                                         \o SubSeq(Content[k], c + 1, Len(Content[k]))]
  BY <1>1 DEF Cut
<1> QED
  BY <1>2 DEF Abstract!Remove, Content

LEMMA MissingMaps ==
  ASSUME IInv, NEW k \in Keys, NEW d, map # NULL, Still, first[Bucket(k)] = NULL,
         answer' = <<"remove", k, d, Missing>>
  PROVE  Abstract!Remove(k, d)
<1>1. Content' = Content
  BY StillContent, ContentAt
<1>2. PICK b, n, w : HasList(k, b, n, w)
  BY KeysListed
<1>3. Walks(first[b], n, w) /\ b = Bucket(k)
  BY <1>2 DEF HasList, List
<1>4. n = 0
  <2>1. \A i \in 1..n : w[i] # NULL
    BY <1>3, Constants DEF Walks
  <2> QED
    BY <1>3, <2>1 DEF Walks
<1>5. PICK g, P, u : KeptOf(k, n, w, g, P, u)
  BY <1>2, ContentListed
<1>6. ContentOf(k) = <<>>
  <2>1. \A i \in 1..n : elem[w[i]].key # k
    BY <1>4
  <2> QED
    BY <1>5, <2>1, NoneKept
<1>7. Abstract!Wanted(k, d) = {}
  <2>1. Content[k] = <<>>
    BY <1>6, ContentAt
  <2>2. DOMAIN Content[k] = {}
    BY <2>1
  <2> QED
    BY <2>2 DEF Abstract!Wanted, Content
<1> QED
  BY <1>1, <1>7 DEF Abstract!Remove, Content

LEMMA TakesAsked ==
  ASSUME ~RemovesAnything, IInv, map # NULL, NEW k \in Keys, NEW d, NEW e \in Live,
         NEW b \in Buckets, NEW m, NEW u, NEW x, Takes(e, k, d, b, m, u, x),
         RemovesAnything \/ Asked(k, d) # {} \/ first[Bucket(k)] = NULL
  PROVE  /\ b = Bucket(k) /\ List(b, m, u) /\ x \in 1..m /\ e = u[x] /\ e \in Asked(k, d)
         /\ \A j \in 1..m : u[j] \in Asked(k, d) => x <= j
<1>1. /\ b = Bucket(k) /\ List(b, m, u) /\ x \in 1..m /\ e = u[x]
      /\ IF Asked(k, d) = {} THEN x = m
         ELSE e \in Asked(k, d) /\ \A j \in 1..m : u[j] \in Asked(k, d) => x <= j
  BY DEF Takes
<1>2. first[b] # NULL
  <2>1. first[b] = IF m = 0 THEN NULL ELSE u[1]
    BY <1>1 DEF List, Walks
  <2>2. m # 0 /\ 1 \in 1..m
    BY <1>1 DEF List, Walks
  <2>3. u[1] \in Elements
    BY <1>1, <2>2 DEF List, Walks
  <2> QED
    BY <2>1, <2>2, <2>3, Constants
<1> QED
  BY <1>1, <1>2

LEMMA RemoveMaps ==
  ASSUME ~RemovesAnything, IInv, NEW k \in Keys, NEW d, Remove(k, d)
  PROVE  Abstract!Remove(k, d)
<1>1. map # NULL /\ (RemovesAnything \/ Asked(k, d) # {} \/ first[Bucket(k)] = NULL)
  BY RemoveParts
<1>2. CASE Still /\ first[Bucket(k)] = NULL /\ answer' = <<"remove", k, d, Missing>>
  BY <1>1, <1>2, MissingMaps
<1>3. ASSUME NEW e \in Live, NEW b \in Buckets, NEW m, NEW u, NEW x,
             Takes(e, k, d, b, m, u, x), RemovesAt(e), answer' = <<"remove", k, d, OK>>
      PROVE  Abstract!Remove(k, d)
  <2>1. /\ b = Bucket(k) /\ List(b, m, u) /\ x \in 1..m /\ e = u[x] /\ e \in Asked(k, d)
        /\ \A j \in 1..m : u[j] \in Asked(k, d) => x <= j
    BY <1>1, <1>3, TakesAsked
  <2>2. Types
    BY <1>1, HasMap
  <2>3. HasList(k, b, m, u)
    BY <1>1, <2>1, <2>2 DEF HasList
  <2>4. PICK g, P, r : KeptOf(k, m, u, g, P, r)
    BY <2>3, ContentListed
  <2>5. elem[e].key = k /\ (d = NULL \/ elem[e].data = d)
    BY <2>1 DEF Asked
  <2>6. /\ ContentOf(k) \in Seq(Datas)
        /\ Len(g[x]) \in 1..Len(ContentOf(k)) /\ ContentOf(k)[Len(g[x])] = elem[u[x]].data
        /\ \A c \in 1..Len(ContentOf(k)) : \E j \in 1..m :
             /\ elem[u[j]].key = k /\ c = Len(g[j]) /\ ContentOf(k)[c] = elem[u[j]].data
             /\ x <= j => Len(g[x]) <= c
    <3>1. x \in 1..m /\ elem[u[x]].key = k
      BY <2>1, <2>5
    <3> QED
      BY <2>4, <3>1, OneKept
  <2>7. \A c : c \in Abstract!Wanted(k, d) <=>
                 c \in 1..Len(ContentOf(k)) /\ (d = NULL \/ ContentOf(k)[c] = d)
    <3>1. Abstract!Wanted(k, d) = {c \in DOMAIN Content[k] : d = NULL \/ Content[k][c] = d}
      BY DEF Abstract!Wanted, Content
    <3>2. Content[k] = ContentOf(k) /\ DOMAIN ContentOf(k) = 1..Len(ContentOf(k))
      BY <2>6, ContentAt, LenProperties
    <3> QED
      BY <3>1, <3>2
  <2>8. Len(g[x]) \in Abstract!Wanted(k, d)
    BY <2>1, <2>5, <2>6, <2>7
  <2>9. ASSUME NEW c \in Abstract!Wanted(k, d) PROVE Len(g[x]) <= c
    <3>1. c \in 1..Len(ContentOf(k)) /\ (d = NULL \/ ContentOf(k)[c] = d)
      BY <2>7
    <3>2. PICK j \in 1..m : /\ elem[u[j]].key = k /\ ContentOf(k)[c] = elem[u[j]].data
                            /\ x <= j => Len(g[x]) <= c
      BY <2>6, <3>1
    <3>3. u[j] \in Asked(k, d)
      <4>1. u[j] \in Live
        BY <2>1 DEF List
      <4> QED
        BY <3>1, <3>2, <4>1 DEF Asked
    <3> QED
      BY <2>1, <3>2, <3>3
  <2>10. ASSUME NEW y \in Keys
         PROVE  ContentOf(y)' = IF y = k THEN Cut(ContentOf(y), Len(g[x])) ELSE ContentOf(y)
    <3>1. CASE y = k
      <4>1. ContentOf(k)' = IF elem[e].key = k THEN Cut(ContentOf(k), Len(g[x])) ELSE ContentOf(k)
        BY <1>1, <1>3, <2>1, <2>4, RemoveContent
      <4> QED
        BY <2>5, <3>1, <4>1
    <3>2. CASE y # k /\ Bucket(y) = b
      <4>1. HasList(y, b, m, u)
        BY <1>1, <2>1, <2>2, <3>2 DEF HasList
      <4>2. PICK h, Q, z : KeptOf(y, m, u, h, Q, z)
        BY <4>1, ContentListed
      <4>3. ContentOf(y)' = IF elem[e].key = y THEN Cut(ContentOf(y), Len(h[x])) ELSE ContentOf(y)
        BY <1>1, <1>3, <3>2, <4>2, RemoveContent
      <4> QED
        BY <2>5, <3>2, <4>3
    <3>3. CASE y # k /\ Bucket(y) # b
      <4>1. ContentOf(y)' = ContentOf(y)
        BY <1>1, <1>3, <3>3, RemoveContentElsewhere
      <4> QED
        BY <3>3, <4>1
    <3> QED
      BY <3>1, <3>2, <3>3
  <2> QED
    BY <1>3, <2>8, <2>9, <2>10, CutMaps
<1> QED
  BY <1>2, <1>3, RemoveParts

LEMMA MapsInit == Init => Abstract!MultiMapInit
<1> SUFFICES ASSUME Init PROVE Abstract!MultiMapInit
  OBVIOUS
<1>1. map = NULL /\ answer = <<>>
  BY DEF Init
<1>2. \A y \in Keys : ContentOf(y) = <<>>
  BY <1>1, EmptyContent
<1>3. Content = [y \in Keys |-> <<>>]
  BY <1>2 DEF Content
<1> QED
  BY <1>1, <1>3 DEF Abstract!MultiMapInit, Content

LEMMA PutIsAPut ==
  ASSUME IInv, NEW k \in Keys, NEW d \in Datas, Put(k, d)
  PROVE  Abstract!Put(k, d)
<1>1. PICK e \in Elements \ Live, b \in Buckets : b = Bucket(k) /\ PutsAt(e, k, d, b)
  BY PutParts
<1>2. map # NULL /\ answer' = <<"put", k, d, OK>>
  BY DEF Put
<1>3. \A y \in Keys : ContentOf(y)' = IF y = k THEN <<d>> \o ContentOf(y) ELSE ContentOf(y)
  BY <1>1, <1>2, PutContent
<1> QED
  BY <1>2, <1>3, PutMaps

LEMMA SameMaps ==
  ASSUME ContentsSame, answer' = answer
  PROVE  UNCHANGED <<[k \in Keys |-> ContentOf(k)], answer>>
<1>1. Content' = Content
  BY ContentAt
<1> QED
  BY <1>1 DEF Content

LEMMA StepMaps ==
  ASSUME ~RemovesAnything, IInv, [Next]_vars
  PROVE  Abstract!MultiMapNext \/ UNCHANGED <<[k \in Keys |-> ContentOf(k)], answer>>
<1>1. ASSUME NEW t \in TableSizes, New(t)
      PROVE  UNCHANGED <<[k \in Keys |-> ContentOf(k)], answer>>
  <2>1. ContentsSame
    BY <1>1, NewContent
  <2>2. answer' = answer
    BY <1>1 DEF New
  <2> QED
    BY <2>1, <2>2, SameMaps
<1>2. ASSUME NEW k \in Keys, Get(k) PROVE Abstract!MultiMapNext
  BY <1>2, GetMaps DEF Abstract!MultiMapNext
<1>3. ASSUME NEW k \in Keys, TraverseFirst(k) PROVE Abstract!MultiMapNext
  BY <1>3, TraverseFirstMaps DEF Abstract!MultiMapNext
<1>4. ASSUME NEW k \in Keys, NEW d \in Datas, Put(k, d) PROVE Abstract!MultiMapNext
  BY <1>4, PutIsAPut DEF Abstract!MultiMapNext
<1>5. ASSUME NEW k \in Keys, NEW d \in Datas, PutFails(k, d) PROVE Abstract!MultiMapNext
  BY <1>5, PutFailsMaps DEF Abstract!MultiMapNext
<1>6. ASSUME NEW k \in Keys, NEW d \in Datas \cup {NULL}, Remove(k, d)
      PROVE  Abstract!MultiMapNext
  BY <1>6, RemoveMaps DEF Abstract!MultiMapNext
<1>7. ASSUME TraverseNext PROVE Abstract!MultiMapNext
  BY <1>7, TraverseNextMaps DEF Abstract!MultiMapNext
<1>8. ASSUME Free PROVE UNCHANGED <<[k \in Keys |-> ContentOf(k)], answer>>
  <2>1. ContentsSame
    BY <1>8, FreeContent
  <2>2. answer' = answer
    BY <1>8 DEF Free
  <2> QED
    BY <2>1, <2>2, SameMaps
<1>9. ASSUME UNCHANGED vars PROVE UNCHANGED <<[k \in Keys |-> ContentOf(k)], answer>>
  <2>1. Still /\ answer' = answer
    BY <1>9 DEF vars, Still
  <2>2. ContentsSame
    BY <2>1, StillContent
  <2> QED
    BY <2>1, <2>2, SameMaps
<1> QED
  BY <1>1, <1>2, <1>3, <1>4, <1>5, <1>6, <1>7, <1>8, <1>9 DEF Next

\* While callers remove only what is in the map, its calls answer and do what
\* those of a multimap would, for any number of keys, buckets and elements:
\* each key has its own values, the newest first, a get gives the newest, a
\* traversal values of its key, and a remove takes the newest that is asked for.
THEOREM MapIsAMultiMap == ASSUME ~RemovesAnything PROVE Spec => ImplementsMultiMap
<1>1. IInv /\ [Next]_vars
        => [Abstract!MultiMapNext]_<<[k \in Keys |-> ContentOf(k)], answer>>
  BY StepMaps
<1> QED
  BY <1>1, MapsInit, HashMapInvariant, PTL
  DEF Spec, ImplementsMultiMap, Abstract!MultiMapSpec

\* What a step frees was asked for by the remove that it is.
LEMMA StepAsked ==
  ASSUME ~RemovesAnything, IInv, [Next]_vars, NEW e \in Live, elem'[e] = NULL
  PROVE  elem[e].key = answer'[2] /\ answer'[3] \in {NULL, elem[e].data}
<1>1. e \in Elements /\ elem[e] # NULL
  BY DEF Live
<1>2. ASSUME elem' = elem PROVE FALSE
  BY <1>1, <1>2
<1>3. ASSUME NEW k \in Keys, NEW d \in Datas, Put(k, d) PROVE FALSE
  <2>1. PICK x \in Elements \ Live, b \in Buckets : PutsAt(x, k, d, b)
    BY <1>3, PutParts
  <2>2. elem'[e] = elem[e]
    <3>1. e # x
      BY <2>1
    <3>2. Types
      BY PutParts, HasMap, <1>3
    <3> QED
      BY <1>1, <2>1, <3>1, <3>2 DEF PutsAt, Puts, Types
  <2> QED
    BY <1>1, <2>2
<1>4. ASSUME NEW k \in Keys, NEW d \in Datas \cup {NULL}, Remove(k, d)
      PROVE  elem[e].key = answer'[2] /\ answer'[3] \in {NULL, elem[e].data}
  <2>1. /\ map # NULL
        /\ RemovesAnything \/ Asked(k, d) # {} \/ first[Bucket(k)] = NULL
    BY <1>4, RemoveParts
  <2>2. CASE Still
    BY <1>2, <2>2 DEF Still
  <2>3. ASSUME NEW x \in Live, NEW b \in Buckets, NEW m, NEW u, NEW i,
               Takes(x, k, d, b, m, u, i), RemovesAt(x), answer' = <<"remove", k, d, OK>>
        PROVE  elem[e].key = answer'[2] /\ answer'[3] \in {NULL, elem[e].data}
    <3>1. x \in Asked(k, d)
      BY <2>1, <2>3, TakesAsked
    <3>2. e = x
      <4>1. Types /\ Drops(x)
        BY <2>1, <2>3, HasMap DEF RemovesAt
      <4> QED
        BY <1>1, <4>1, LiveAfterRemove
    <3>3. answer'[2] = k /\ answer'[3] = d
      BY <2>3
    <3> QED
      BY <3>1, <3>2, <3>3 DEF Asked
  <2> QED
    BY <1>4, <2>2, <2>3, RemoveParts
<1>5. (\E k \in Keys, d \in Datas : Put(k, d))
      \/ (\E k \in Keys, d \in Datas \cup {NULL} : Remove(k, d)) \/ elem' = elem
  BY DEF Next, vars, New, Get, TraverseFirst, TraverseNext, PutFails, Free
<1> QED
  BY <1>2, <1>3, <1>4, <1>5

\* A remove frees an element of the key, and of the data if some was given,
\* that was asked for (tuya_hashmap_remove): under the same condition.
THEOREM RemovesAreAsked == ASSUME ~RemovesAnything PROVE Spec => RemovesWhatIsAsked
<1>1. IInv /\ [Next]_vars
        => [\A e \in Live : elem'[e] = NULL =>
              elem[e].key = answer'[2] /\ answer'[3] \in {NULL, elem[e].data}]_vars
  BY StepAsked
<1> QED
  BY <1>1, HashMapInvariant, PTL DEF Spec, RemovesWhatIsAsked
=============================================================================
