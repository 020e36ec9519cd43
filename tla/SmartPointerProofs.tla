------------------------- MODULE SmartPointerProofs -------------------------
(***************************************************************************)
(* Proofs about SmartPointer, for every finite set of references that the  *)
(* count can count.                                                        *)
(***************************************************************************)
EXTENDS SmartPointer, FiniteSetTheorems, TLAPS

Getting == {"getLock", "getLoad", "getStore", "getUnlock"}
Putting == {"putLock", "putLoad", "putStore", "putUnlock"}
Releasing == {"release", "freeData", "freeBlock"}

\* Where a call has the mutex, when there is one.
Critical == {"getLoad", "getStore", "getUnlock", "putLoad", "putStore", "putUnlock"}

TypeOK ==
  /\ block \in {"none", "live", "freed"}
  /\ mutex \in {"NULL", "free", "released"} \cup Refs
  /\ rfc \in Nat /\ malk = FALSE /\ inside \in BOOLEAN
  /\ pc \in [Refs -> Idle \cup Getting \cup Putting \cup Releasing]
  /\ reg \in [Refs -> Nat] /\ for \in [Refs -> Refs]
  /\ stray \in BOOLEAN /\ badFree \in BOOLEAN

\* A get, and nothing else, makes a reference, one that nobody has and that no
\* other get makes.
GetsMake ==
  \A r \in Refs :
    /\ for[r] # r <=> pc[r] \in Getting
    /\ for[r] # r => /\ pc[for[r]] = "out"
                     /\ \A p \in Refs : for[p] = for[r] => p \in {r, for[r]}

\* The references that the count counts: one that is put until its call has
\* stored the count, one that is made as soon as its call has.
Counted ==
  {r \in Refs : pc[r] \in ({"has"} \cup Getting \cup Putting) \ {"putUnlock"}}
    \cup {for[r] : r \in {p \in Refs : pc[p] = "getUnlock"}}

\* The pointer is shared.
Sharing ==
  /\ block = "live" /\ ~stray
  /\ ~badFree /\ (~inside => data = "live")
  /\ mutex \in {"free"} \cup Refs
  /\ rfc = Cardinality(Counted)
  /\ rfc = 0 => \E r \in Refs : pc[r] = "putUnlock"
  /\ \A r \in Refs :
       /\ pc[r] \notin Releasing
       /\ mutex = r <=> pc[r] \in Critical
       /\ pc[r] \in {"getStore", "putStore", "putUnlock"} => reg[r] = rfc

\* The last holder releases the pointer.
ReleasedBy(r) ==
  /\ block = "live" /\ ~stray
  /\ (~inside => ~badFree) /\ pc[r] \in Releasing
  /\ \A p \in Refs : p # r => pc[p] = "out"
  /\ mutex = IF pc[r] = "release" THEN "free" ELSE "released"
  /\ ~inside /\ pc[r] # "freeBlock" => data = "live"

\* The pointer is gone.
Gone ==
  /\ block = "freed" /\ ~stray /\ mutex = "released"
  /\ ~inside => ~badFree
  /\ \A r \in Refs : pc[r] = "out"

Shared == Sharing \/ Gone \/ \E r \in Refs : ReleasedBy(r)

IInv == TypeOK /\ GetsMake /\ (mutex # "NULL" => Shared)

USE SmartPointerAssumption

LEMMA CountLemmas ==
  ASSUME NEW S \in SUBSET Refs
  PROVE  /\ Cardinality(S) \in Nat /\ Cardinality(S) <= MaxUint
         /\ Cardinality(S) = 0 <=> S = {}
         /\ \A x \in Refs \ S : Cardinality(S \cup {x}) = Cardinality(S) + 1
         /\ \A x \in S : Cardinality(S \ {x}) = Cardinality(S) - 1
<1>1. IsFiniteSet(S) /\ Cardinality(S) <= Cardinality(Refs)
  BY FS_Subset
<1>2. Cardinality(S) \in Nat /\ Cardinality(Refs) \in Nat
  BY <1>1, FS_CardinalityType
<1>3. Cardinality(S) = 0 <=> S = {}
  BY <1>1, FS_EmptySet
<1>4. ASSUME NEW x \in Refs \ S PROVE Cardinality(S \cup {x}) = Cardinality(S) + 1
  BY <1>1, FS_AddElement
<1>5. ASSUME NEW x \in S PROVE Cardinality(S \ {x}) = Cardinality(S) - 1
  BY <1>1, FS_RemoveElement
<1> QED
  BY <1>1, <1>2, <1>3, <1>4, <1>5

LEMMA CountedLemma == TypeOK => Counted \in SUBSET Refs
  BY DEF TypeOK, Counted

\* Who has a reference, or is in a get or a put, shares the pointer.
LEMMA ActiveShares ==
  ASSUME TypeOK, Shared, NEW r \in Refs, pc[r] \in {"has"} \cup Getting \cup Putting
  PROVE  Sharing
  BY DEF Shared, Gone, ReleasedBy, Getting, Putting, Releasing, TypeOK

\* Who releases it is the one who does.
LEMMA ReleaserReleases ==
  ASSUME TypeOK, Shared, NEW r \in Refs, pc[r] \in Releasing
  PROVE  ReleasedBy(r)
  BY DEF Shared, Sharing, Gone, ReleasedBy, Releasing, TypeOK

\* A step that moves one call on, and neither begins nor ends it.
LEMMA MoveLemma ==
  ASSUME TypeOK, GetsMake, NEW r \in Refs, for' = for,
         \A p \in Refs : p # r => pc'[p] = pc[p]
  PROVE  /\ (pc[r] \in Getting <=> pc'[r] \in Getting) /\ (pc[r] = "out" <=> pc'[r] = "out")
              => GetsMake'
         /\ (pc[r] = "getUnlock" <=> pc'[r] = "getUnlock")
             /\ (pc[r] \in ({"has"} \cup Getting \cup Putting) \ {"putUnlock"}
                   <=> pc'[r] \in ({"has"} \cup Getting \cup Putting) \ {"putUnlock"})
              => Counted' = Counted
<1>1. ASSUME pc[r] \in Getting <=> pc'[r] \in Getting, pc[r] = "out" <=> pc'[r] = "out"
      PROVE  GetsMake'
  <2>1. \A p \in Refs : (pc[p] \in Getting <=> pc'[p] \in Getting) /\ (pc[p] = "out" <=> pc'[p] = "out")
    BY <1>1
  <2>2. \A p \in Refs : for[p] \in Refs
    BY DEF TypeOK
  <2> QED
    BY <2>1, <2>2 DEF GetsMake
<1>2. ASSUME pc[r] = "getUnlock" <=> pc'[r] = "getUnlock",
             pc[r] \in ({"has"} \cup Getting \cup Putting) \ {"putUnlock"}
               <=> pc'[r] \in ({"has"} \cup Getting \cup Putting) \ {"putUnlock"}
      PROVE  Counted' = Counted
  <2>1. \A p \in Refs :
          /\ pc[p] = "getUnlock" <=> pc'[p] = "getUnlock"
          /\ pc[p] \in ({"has"} \cup Getting \cup Putting) \ {"putUnlock"}
               <=> pc'[p] \in ({"has"} \cup Getting \cup Putting) \ {"putUnlock"}
    BY <1>2
  <2> QED
    BY <2>1 DEF Counted
<1> QED
  BY <1>1, <1>2

LEMMA InitIInv == Init => IInv
<1> SUFFICES ASSUME Init PROVE IInv
  OBVIOUS
<1>1. TypeOK
  BY DEF Init, TypeOK, Idle
<1>2. GetsMake
  BY DEF Init, GetsMake, Getting
<1> QED
  BY <1>1, <1>2 DEF Init, IInv

LEMMA CreateStep ==
  ASSUME IInv, NEW copy \in BOOLEAN, NEW given \in SUBSET Refs, given # {}, Create(copy, given)
  PROVE  IInv'
<1>1. TypeOK'
  BY CountLemmas DEF IInv, TypeOK, Create, Idle
<1>2. for' = for /\ \A r \in Refs : for[r] = r
  BY DEF Create, IInv, TypeOK, GetsMake, Getting
<1>3. pc' = [r \in Refs |-> IF r \in given THEN "has" ELSE "out"]
  BY DEF Create
<1>4. GetsMake'
  BY <1>2, <1>3 DEF GetsMake, Getting
<1>5. Counted' = given
  BY <1>3 DEF Counted, Getting, Putting
<1>6. ASSUME mutex' # "NULL" PROVE Sharing'
  <2>1. mutex' = "free" /\ block' = "live" /\ ~stray' /\ ~badFree' /\ (~inside' => data' = "live")
    BY <1>6 DEF Create
  <2>2. rfc' = Cardinality(Counted') /\ rfc' # 0
    BY <1>5, CountLemmas DEF Create
  <2>3. \A r \in Refs : pc'[r] \notin Releasing \cup Critical \cup {"getStore", "putStore", "putUnlock"}
    BY <1>3 DEF Releasing, Critical
  <2> QED
    BY <2>1, <2>2, <2>3 DEF Sharing, Critical
<1> QED
  BY <1>1, <1>4, <1>6 DEF IInv, Shared

LEMMA GetBeginStep ==
  ASSUME IInv, NEW r \in Refs, NEW q \in Refs, GetBegin(r, q)
  PROVE  IInv'
<1>1. /\ pc[r] = "has" /\ pc[q] = "out" /\ pc' = [pc EXCEPT ![r] = "getLock"]
      /\ for' = [for EXCEPT ![r] = q] /\ \A p \in Refs : for[p] = q => p = q
      /\ UNCHANGED <<block, mutex, rfc, malk, inside, data, reg, stray, badFree>>
  BY DEF GetBegin, Goto
<1>2. TypeOK /\ TypeOK'
  BY <1>1 DEF IInv, TypeOK, Getting
<1>3. GetsMake'
  BY <1>1, <1>2 DEF IInv, TypeOK, GetsMake, Getting
<1>4. ASSUME mutex' # "NULL" PROVE Sharing'
  <2>1. Sharing
    BY <1>1, <1>2, <1>4, ActiveShares DEF IInv
  <2>2. Counted' = Counted
    BY <1>1, <1>2 DEF Counted, TypeOK, Getting, Putting
  <2>3. \A p \in Refs : pc'[p] \in Critical \cup Releasing \cup {"getStore", "putStore", "putUnlock"}
                          \/ pc[p] \in Critical \cup Releasing \cup {"getStore", "putStore", "putUnlock"}
                          => pc'[p] = pc[p]
    BY <1>1, <1>2 DEF TypeOK, Critical, Releasing
  <2> QED
    BY <1>1, <1>2, <2>1, <2>2, <2>3 DEF Sharing, TypeOK
<1> QED
  BY <1>2, <1>3, <1>4 DEF IInv, Shared

LEMMA PutBeginStep ==
  ASSUME IInv, NEW r \in Refs, PutBegin(r)
  PROVE  IInv'
<1>1. /\ pc[r] = "has" /\ pc' = [pc EXCEPT ![r] = "putLock"]
      /\ UNCHANGED <<block, mutex, rfc, malk, inside, data, reg, for, stray, badFree>>
  BY DEF PutBegin, Goto
<1>2. TypeOK /\ TypeOK'
  BY <1>1 DEF IInv, TypeOK, Putting
<1>3. GetsMake'
  BY <1>1, <1>2 DEF IInv, TypeOK, GetsMake, Getting
<1>4. ASSUME mutex' # "NULL" PROVE Sharing'
  <2>1. Sharing
    BY <1>1, <1>2, <1>4, ActiveShares DEF IInv
  <2>2. Counted' = Counted
    BY <1>1, <1>2 DEF Counted, TypeOK, Getting, Putting
  <2>3. \A p \in Refs : pc'[p] \in Critical \cup Releasing \cup {"getStore", "putStore", "putUnlock"}
                          \/ pc[p] \in Critical \cup Releasing \cup {"getStore", "putStore", "putUnlock"}
                          => pc'[p] = pc[p]
    BY <1>1, <1>2 DEF TypeOK, Critical, Releasing
  <2> QED
    BY <1>1, <1>2, <2>1, <2>2, <2>3 DEF Sharing, TypeOK
<1> QED
  BY <1>2, <1>3, <1>4 DEF IInv, Shared

\* tkl_mutex_lock in a get or a put.
LEMMA LockStep ==
  ASSUME IInv, NEW r \in Refs, GetLock(r) \/ PutLock(r)
  PROVE  IInv'
<1>1. /\ \/ pc[r] = "getLock" /\ pc' = [pc EXCEPT ![r] = "getLoad"]
         \/ pc[r] = "putLock" /\ pc' = [pc EXCEPT ![r] = "putLoad"]
      /\ mutex \in {"free", "NULL"} /\ mutex' = IF mutex = "free" THEN r ELSE mutex
      /\ UNCHANGED <<block, rfc, malk, inside, data, reg, for, stray, badFree>>
  BY DEF GetLock, PutLock, Lock, Goto
<1>2. TypeOK /\ TypeOK'
  BY <1>1 DEF IInv, TypeOK, Getting, Putting
<1>a. /\ for' = for /\ TypeOK /\ GetsMake /\ \A p \in Refs : p # r => pc'[p] = pc[p]
      /\ \/ pc[r] = "getLock" /\ pc'[r] = "getLoad"
         \/ pc[r] = "putLock" /\ pc'[r] = "putLoad"
  BY <1>1, <1>2 DEF IInv, TypeOK
<1>3. GetsMake'
  BY <1>a, MoveLemma DEF Getting, Putting
<1>4. ASSUME mutex' # "NULL" PROVE Sharing'
  <2>1. Sharing /\ mutex = "free" /\ mutex' = r
    BY <1>1, <1>2, <1>4, ActiveShares DEF IInv, Getting, Putting
  <2>2. Counted' = Counted
    BY <1>a, MoveLemma DEF Getting, Putting
  <2>3. \A p \in Refs : pc[p] \notin Critical
    BY <2>1 DEF Sharing
  <2>4. pc'[r] \in {"getLoad", "putLoad"} /\ \A p \in Refs : p # r => pc'[p] = pc[p]
    BY <1>1, <1>2 DEF TypeOK
  <2>5. rfc # 0
    BY <2>1, <2>3 DEF Sharing, Critical
  <2> QED
    BY <1>1, <1>2, <2>1, <2>2, <2>3, <2>4, <2>5 DEF Sharing, TypeOK, Critical, Releasing
<1> QED
  BY <1>2, <1>3, <1>4 DEF IInv, Shared

\* The load of the count.
LEMMA LoadStep ==
  ASSUME IInv, NEW r \in Refs, GetLoad(r) \/ PutLoad(r)
  PROVE  IInv'
<1>1. /\ \/ pc[r] = "getLoad" /\ pc' = [pc EXCEPT ![r] = "getStore"]
         \/ pc[r] = "putLoad" /\ pc' = [pc EXCEPT ![r] = "putStore"]
      /\ reg' = [reg EXCEPT ![r] = rfc]
      /\ UNCHANGED <<block, mutex, rfc, malk, inside, data, for, stray, badFree>>
  BY DEF GetLoad, PutLoad, Load, Goto
<1>2. TypeOK /\ TypeOK'
  BY <1>1 DEF IInv, TypeOK, Getting, Putting
<1>a. /\ for' = for /\ TypeOK /\ GetsMake /\ \A p \in Refs : p # r => pc'[p] = pc[p]
      /\ \/ pc[r] = "getLoad" /\ pc'[r] = "getStore"
         \/ pc[r] = "putLoad" /\ pc'[r] = "putStore"
  BY <1>1, <1>2 DEF IInv, TypeOK
<1>3. GetsMake'
  BY <1>a, MoveLemma DEF Getting, Putting
<1>4. ASSUME mutex' # "NULL" PROVE Sharing'
  <2>1. Sharing /\ mutex = r
    BY <1>1, <1>2, <1>4, ActiveShares DEF IInv, Sharing, Critical, Getting, Putting
  <2>2. Counted' = Counted
    BY <1>a, MoveLemma DEF Getting, Putting
  <2>3. \A p \in Refs : p # r => pc[p] \notin Critical
    BY <2>1 DEF Sharing
  <2>4. /\ pc'[r] \in {"getStore", "putStore"} /\ reg'[r] = rfc
        /\ \A p \in Refs : p # r => pc'[p] = pc[p] /\ reg'[p] = reg[p]
    BY <1>1, <1>2 DEF TypeOK
  <2>5. rfc # 0
    BY <1>1, <2>1, <2>3 DEF Sharing, Critical
  <2> QED
    BY <1>1, <1>2, <2>1, <2>2, <2>3, <2>4, <2>5 DEF Sharing, TypeOK, Critical, Releasing
<1> QED
  BY <1>2, <1>3, <1>4 DEF IInv, Shared

LEMMA GetStoreStep ==
  ASSUME IInv, NEW r \in Refs, GetStore(r)
  PROVE  IInv'
<1>1. /\ pc[r] = "getStore" /\ pc' = [pc EXCEPT ![r] = "getUnlock"]
      /\ rfc' = Increment(reg[r])
      /\ UNCHANGED <<block, mutex, malk, inside, data, reg, for, stray, badFree>>
  BY DEF GetStore, Goto
<1>2. TypeOK /\ TypeOK'
  BY <1>1 DEF IInv, TypeOK, Getting, Increment
<1>3. GetsMake'
  <2>1. /\ pc[r] = "getStore" /\ pc'[r] = "getUnlock" /\ for' = for
        /\ TypeOK /\ GetsMake /\ \A x \in Refs : x # r => pc'[x] = pc[x]
    BY <1>1, <1>2 DEF IInv, TypeOK
  <2> QED
    BY <2>1, MoveLemma DEF Getting
<1>4. ASSUME mutex' # "NULL" PROVE Sharing'
  <2>1. Sharing /\ mutex = r /\ reg[r] = rfc
    BY <1>1, <1>2, <1>4, ActiveShares DEF IInv, Sharing, Critical, Getting
  <2>2. \A p \in Refs : p # r => pc[p] \notin Critical /\ pc'[p] = pc[p]
    BY <1>1, <1>2, <2>1 DEF Sharing, TypeOK
  <2>3. pc'[r] = "getUnlock"
    BY <1>1, <1>2 DEF TypeOK
  <2>4. for[r] \in Refs /\ for[r] # r /\ pc[for[r]] = "out"
    BY <1>1, <1>2 DEF IInv, TypeOK, GetsMake, Getting
  <2>5. for[r] \notin Counted
    BY <1>1, <2>2, <2>4 DEF Counted, Critical, Getting, Putting
  <2>6. Counted' = Counted \cup {for[r]}
    BY <1>1, <2>2, <2>3 DEF Counted, Critical, Getting, Putting
  <2>7. rfc' = Cardinality(Counted') /\ rfc' # 0
    <3>1. Counted \in SUBSET Refs /\ Counted' \in SUBSET Refs
      BY <1>2, <2>4, <2>6, CountedLemma
    <3>2. rfc = Cardinality(Counted) /\ Cardinality(Counted') = rfc + 1
      <4>1. Cardinality(Counted \cup {for[r]}) = Cardinality(Counted) + 1
        BY <2>4, <2>5, <3>1, CountLemmas
      <4> QED
        BY <2>1, <2>6, <4>1 DEF Sharing
    <3>3. rfc # MaxUint
      BY <1>2, <3>1, <3>2, CountLemmas DEF TypeOK
    <3> QED
      BY <1>1, <1>2, <2>1, <3>2, <3>3 DEF Increment, TypeOK
  <2> QED
    BY <1>1, <2>1, <2>2, <2>3, <2>7 DEF Sharing, Critical, Releasing
<1> QED
  BY <1>2, <1>3, <1>4 DEF IInv, Shared

LEMMA GetUnlockStep ==
  ASSUME IInv, NEW r \in Refs, GetUnlock(r)
  PROVE  IInv'
<1>1. /\ pc[r] = "getUnlock" /\ pc' = [pc EXCEPT ![r] = "has", ![for[r]] = "has"]
      /\ for' = [for EXCEPT ![r] = r] /\ mutex' = Unlocked(r)
      /\ UNCHANGED <<block, rfc, malk, inside, data, reg, stray, badFree>>
  BY DEF GetUnlock
<1>2. TypeOK /\ TypeOK'
  BY <1>1 DEF IInv, TypeOK, Idle, Unlocked
<1>a. /\ for[r] \in Refs /\ for[r] # r /\ pc[for[r]] = "out" /\ for[for[r]] = for[r]
      /\ \A p \in Refs : for[p] = for[r] => p \in {r, for[r]}
  BY <1>1, <1>2 DEF IInv, TypeOK, GetsMake, Getting
<1>b. /\ pc'[r] = "has" /\ pc'[for[r]] = "has" /\ for'[r] = r
      /\ \A p \in Refs \ {r, for[r]} : pc'[p] = pc[p]
      /\ \A p \in Refs \ {r} : for'[p] = for[p]
  BY <1>1, <1>2, <1>a DEF TypeOK
<1>3. GetsMake'
  <2> SUFFICES ASSUME NEW p \in Refs
               PROVE  /\ for'[p] # p <=> pc'[p] \in Getting
                      /\ for'[p] # p => /\ pc'[for'[p]] = "out"
                                        /\ \A x \in Refs : for'[x] = for'[p] => x \in {p, for'[p]}
    BY DEF GetsMake
  <2>1. CASE p \in {r, for[r]}
    BY <1>a, <1>b, <2>1 DEF Getting
  <2>2. CASE p \notin {r, for[r]}
    <3>1. for'[p] = for[p] /\ pc'[p] = pc[p] /\ for[p] \in Refs /\ for[p] # for[r]
      BY <1>2, <1>a, <1>b, <2>2 DEF TypeOK
    <3>2. for[p] # p => /\ pc[for[p]] = "out" /\ for[p] # r
                        /\ \A x \in Refs : for[x] = for[p] => x \in {p, for[p]}
      BY <1>1 DEF IInv, GetsMake
    <3>3. for[p] # p <=> pc[p] \in Getting
      BY DEF IInv, GetsMake
    <3> QED
      BY <1>b, <3>1, <3>2, <3>3
  <2> QED
    BY <2>1, <2>2
<1>4. ASSUME mutex' # "NULL" PROVE Sharing'
  <2>1. Sharing /\ mutex = r /\ mutex' = "free"
    BY <1>1, <1>2, <1>4, ActiveShares DEF IInv, Sharing, Critical, Getting, Unlocked
  <2>2. \A p \in Refs : p # r => pc[p] \notin Critical
    BY <2>1 DEF Sharing
  <2>3. Counted' = Counted
    <3>1. \A p \in Refs : pc[p] = "getUnlock" <=> p = r
      BY <1>1, <2>2 DEF Critical
    <3>2. \A p \in Refs : pc'[p] # "getUnlock"
      BY <1>b, <3>1
    <3>3. Counted = {p \in Refs : pc[p] \in ({"has"} \cup Getting \cup Putting) \ {"putUnlock"}}
                      \cup {for[r]}
      BY <3>1 DEF Counted
    <3>4. Counted' = {p \in Refs : pc'[p] \in ({"has"} \cup Getting \cup Putting) \ {"putUnlock"}}
      BY <3>2 DEF Counted
    <3> QED
      BY <1>1, <1>a, <1>b, <3>3, <3>4 DEF Getting
  <2>4. \A p \in Refs : pc'[p] \notin Critical \cup Releasing
    BY <1>b, <2>1, <2>2 DEF Sharing, Critical, Releasing
  <2>5. rfc # 0
    BY <1>1, <2>1, <2>2 DEF Sharing, Critical
  <2> QED
    BY <1>1, <2>1, <2>3, <2>4, <2>5 DEF Sharing, Critical
<1> QED
  BY <1>2, <1>3, <1>4 DEF IInv, Shared

LEMMA PutStoreStep ==
  ASSUME IInv, NEW r \in Refs, PutStore(r)
  PROVE  IInv'
<1>1. /\ pc[r] = "putStore" /\ pc' = [pc EXCEPT ![r] = "putUnlock"]
      /\ rfc' = Decrement(reg[r]) /\ reg' = [reg EXCEPT ![r] = Decrement(reg[r])]
      /\ UNCHANGED <<block, mutex, malk, inside, data, for, stray, badFree>>
  BY DEF PutStore, Goto
<1>2. TypeOK /\ TypeOK'
  <2>1. TypeOK /\ reg[r] \in Nat
    BY DEF IInv, TypeOK
  <2>2. Decrement(reg[r]) \in Nat
    BY <2>1 DEF Decrement
  <2> QED
    BY <1>1, <2>1, <2>2 DEF TypeOK, Putting
<1>3. GetsMake'
  <2>1. /\ pc[r] = "putStore" /\ pc'[r] = "putUnlock" /\ for' = for
        /\ TypeOK /\ GetsMake /\ \A x \in Refs : x # r => pc'[x] = pc[x]
    BY <1>1, <1>2 DEF IInv, TypeOK
  <2> QED
    BY <2>1, MoveLemma DEF Getting
<1>4. ASSUME mutex' # "NULL" PROVE Sharing'
  <2>1. Sharing /\ mutex = r /\ reg[r] = rfc
    BY <1>1, <1>2, <1>4, ActiveShares DEF IInv, Sharing, Critical, Putting
  <2>2. \A p \in Refs : p # r => pc[p] \notin Critical /\ pc'[p] = pc[p] /\ reg'[p] = reg[p]
    BY <1>1, <1>2, <2>1 DEF Sharing, TypeOK
  <2>3. pc'[r] = "putUnlock" /\ reg'[r] = rfc'
    BY <1>1, <1>2 DEF TypeOK
  <2>4. r \in Counted
    BY <1>1 DEF Counted, Putting
  <2>5. Counted' = Counted \ {r}
    BY <1>1, <2>2, <2>3 DEF Counted, Critical, Getting, Putting
  <2>6. rfc' = Cardinality(Counted')
    <3>1. Counted \in SUBSET Refs
      BY <1>2, CountedLemma
    <3>2. rfc = Cardinality(Counted) /\ Cardinality(Counted') = rfc - 1 /\ rfc # 0
      BY <2>1, <2>4, <2>5, <3>1, CountLemmas DEF Sharing
    <3> QED
      BY <1>1, <1>2, <2>1, <3>2 DEF Decrement, TypeOK
  <2> QED
    BY <1>1, <2>1, <2>2, <2>3, <2>6 DEF Sharing, Critical, Releasing
<1> QED
  BY <1>2, <1>3, <1>4 DEF IInv, Shared

\* The put that finds the count at 0 goes on to release the pointer: nobody
\* else has a reference or a call under way.
LEMMA PutUnlockStep ==
  ASSUME IInv, NEW r \in Refs, PutUnlock(r)
  PROVE  IInv'
<1>1. /\ pc[r] = "putUnlock" /\ pc' = [pc EXCEPT ![r] = IF reg[r] = 0 THEN "release" ELSE "out"]
      /\ mutex' = Unlocked(r)
      /\ UNCHANGED <<block, rfc, malk, inside, data, reg, for, stray, badFree>>
  BY DEF PutUnlock, Goto, LastPut
<1>2. TypeOK /\ TypeOK'
  BY <1>1 DEF IInv, TypeOK, Idle, Releasing, Unlocked
<1>a. /\ pc'[r] = IF reg[r] = 0 THEN "release" ELSE "out"
      /\ \A p \in Refs : p # r => pc'[p] = pc[p]
  BY <1>1, <1>2 DEF TypeOK
<1>3. GetsMake'
  <2>1. \A p \in Refs : pc'[p] \in Getting <=> pc[p] \in Getting
    BY <1>1, <1>a DEF Getting
  <2>2. \A p \in Refs : pc[p] = "out" => pc'[p] = "out"
    BY <1>1, <1>a
  <2> QED
    BY <1>1, <1>2, <2>1, <2>2 DEF IInv, GetsMake, TypeOK
<1>4. ASSUME mutex' # "NULL" PROVE Shared'
  <2>1. Sharing /\ mutex = r /\ reg[r] = rfc /\ mutex' = "free"
    BY <1>1, <1>2, <1>4, ActiveShares DEF IInv, Sharing, Critical, Putting, Unlocked
  <2>2. \A p \in Refs : p # r => pc[p] \notin Critical
    BY <2>1 DEF Sharing
  <2>3. CASE reg[r] = 0
    <3>1. Counted = {}
      BY <1>2, <2>1, <2>3, CountedLemma, CountLemmas DEF Sharing
    <3>2. \A p \in Refs : p # r => pc[p] = "out"
      <4> SUFFICES ASSUME NEW p \in Refs, p # r PROVE pc[p] = "out"
        OBVIOUS
      <4>1. pc[p] \notin Critical \cup Releasing
        BY <2>1, <2>2 DEF Sharing
      <4>2. pc[p] \notin ({"has"} \cup Getting \cup Putting) \ {"putUnlock"}
        BY <3>1 DEF Counted
      <4> QED
        BY <1>2, <4>1, <4>2 DEF TypeOK, Idle, Getting, Putting, Critical
    <3>3. ReleasedBy(r)'
      BY <1>1, <1>a, <2>1, <2>3, <3>2 DEF ReleasedBy, Sharing, Releasing
    <3> QED
      BY <3>3 DEF Shared
  <2>4. CASE reg[r] # 0
    <3>1. Counted' = Counted
      <4>1. pc[r] = "putUnlock" /\ pc'[r] = "out" /\ for' = for /\ TypeOK /\ GetsMake
        BY <1>1, <1>2, <1>a, <2>4 DEF IInv
      <4> QED
        BY <4>1, <1>a, MoveLemma DEF Getting, Putting
    <3>2. \A p \in Refs : pc'[p] \notin Critical \cup Releasing
      BY <1>a, <2>1, <2>2, <2>4 DEF Sharing, Critical, Releasing
    <3>3. Sharing'
      BY <1>1, <2>1, <2>4, <3>1, <3>2 DEF Sharing, Critical
    <3> QED
      BY <3>3 DEF Shared
  <2> QED
    BY <2>3, <2>4
<1> QED
  BY <1>2, <1>3, <1>4 DEF IInv

LEMMA DelStep ==
  ASSUME IInv, NEW r \in Refs, Del(r)
  PROVE  IInv'
<1>1. /\ pc[r] = "has" /\ \A p \in Refs : pc[p] \in Idle
      /\ pc' = [p \in Refs |-> IF p = r THEN "release" ELSE "out"]
      /\ UNCHANGED <<block, mutex, rfc, malk, inside, data, reg, for, stray, badFree>>
  BY DEF Del, Quiet
<1>2. TypeOK /\ TypeOK'
  BY <1>1 DEF IInv, TypeOK, Idle, Releasing
<1>3. GetsMake'
  <2>1. \A p \in Refs : for[p] = p
    BY <1>1 DEF IInv, GetsMake, Idle, Getting
  <2> QED
    BY <1>1, <2>1 DEF GetsMake, Getting
<1>4. ASSUME mutex' # "NULL" PROVE ReleasedBy(r)'
  <2>1. Sharing
    BY <1>1, <1>2, <1>4, ActiveShares DEF IInv
  <2>2. mutex = "free"
    BY <1>1, <2>1 DEF Sharing, Idle, Critical
  <2> QED
    BY <1>1, <2>1, <2>2 DEF ReleasedBy, Sharing, Releasing
<1> QED
  BY <1>2, <1>3, <1>4 DEF IInv, Shared

\* The end that put and del share.
LEMMA ReleaseStep ==
  ASSUME IInv, NEW r \in Refs, ReleaseLock(r) \/ FreeData(r) \/ FreeBlock(r)
  PROVE  IInv'
<1>1. /\ pc[r] \in Releasing /\ UNCHANGED <<rfc, malk, inside, reg, for>>
      /\ \E to \in {"freeData", "freeBlock", "out"} : pc' = [pc EXCEPT ![r] = to]
  BY DEF ReleaseLock, FreeData, FreeBlock, Goto, Releasing
<1>2. TypeOK /\ TypeOK'
  BY <1>1 DEF IInv, TypeOK, Idle, Releasing, ReleaseLock, FreeData, FreeBlock
<1>3. GetsMake'
  <2>1. \A p \in Refs : pc'[p] \in Getting <=> pc[p] \in Getting
    BY <1>1, <1>2 DEF TypeOK, Getting, Releasing
  <2>2. \A p \in Refs : pc[p] = "out" => pc'[p] = "out"
    BY <1>1, <1>2 DEF TypeOK, Releasing
  <2> QED
    BY <1>1, <1>2, <2>1, <2>2 DEF IInv, GetsMake, TypeOK
<1>4. ASSUME mutex' # "NULL" PROVE Shared'
  <2>1. ReleasedBy(r)
    BY <1>1, <1>2, <1>4, ReleaserReleases
    DEF IInv, ReleaseLock, FreeData, FreeBlock
  <2>2. CASE ReleaseLock(r)
    <3>1. ReleasedBy(r)'
      BY <1>2, <2>1, <2>2 DEF ReleaseLock, Goto, ReleasedBy, Releasing, TypeOK
    <3> QED
      BY <3>1 DEF Shared
  <2>3. CASE FreeData(r)
    <3>1. ReleasedBy(r)'
      BY <1>2, <2>1, <2>3 DEF FreeData, Goto, ReleasedBy, Releasing, TypeOK
    <3> QED
      BY <3>1 DEF Shared
  <2>4. CASE FreeBlock(r)
    <3>1. Gone'
      BY <1>2, <2>1, <2>4 DEF FreeBlock, Goto, ReleasedBy, Releasing, TypeOK, Gone
    <3> QED
      BY <3>1 DEF Shared
  <2> QED
    BY <2>2, <2>3, <2>4
<1> QED
  BY <1>2, <1>3, <1>4 DEF IInv

\* No call strays while the pointer has its mutex.
LEMMA StrayStep ==
  ASSUME IInv, NEW r \in Refs, Stray(r)
  PROVE  IInv'
<1>1. /\ pc[r] \notin Idle \cup {"freeBlock"}
      /\ block = "freed" \/ (mutex = "released" /\ pc[r] \in Getting \cup Putting)
      /\ pc' = [pc EXCEPT ![r] = "out"] /\ for' = [for EXCEPT ![r] = r]
      /\ stray' = TRUE /\ UNCHANGED <<block, mutex, rfc, malk, inside, data, reg, badFree>>
  BY DEF Stray, Getting, Putting
<1>2. TypeOK /\ TypeOK'
  BY <1>1 DEF IInv, TypeOK, Idle
<1>3. GetsMake'
  <2>1. /\ pc'[r] = "out" /\ for'[r] = r
        /\ \A p \in Refs : p # r => pc'[p] = pc[p] /\ for'[p] = for[p]
    BY <1>1, <1>2 DEF TypeOK
  <2>2. \A p \in Refs : for[p] \in Refs /\ (pc[p] = "out" => pc'[p] = "out")
    BY <1>1, <1>2, <2>1 DEF TypeOK
  <2>3. ASSUME NEW p \in Refs, for'[p] # p
        PROVE  /\ pc'[for'[p]] = "out"
               /\ \A x \in Refs : for'[x] = for'[p] => x \in {p, for'[p]}
    <3>1. p # r /\ for'[p] = for[p] /\ for[p] # p
      BY <2>1, <2>3
    <3>2. pc[for[p]] = "out" /\ \A x \in Refs : for[x] = for[p] => x \in {p, for[p]}
      BY <3>1 DEF IInv, GetsMake
    <3> QED
      BY <2>1, <2>2, <3>1, <3>2
  <2>4. \A p \in Refs : for'[p] # p <=> pc'[p] \in Getting
    BY <2>1 DEF IInv, GetsMake, Getting
  <2> QED
    BY <2>3, <2>4 DEF GetsMake
<1>4. mutex = "NULL"
  <2> SUFFICES ASSUME Shared PROVE FALSE
    BY DEF IInv
  <2>1. ~Gone
    BY <1>1 DEF Gone, Idle
  <2>2. ~Sharing
    BY <1>1 DEF Sharing
  <2>3. \A p \in Refs : ~ReleasedBy(p)
    BY <1>1 DEF ReleasedBy, Idle, Releasing, Getting, Putting
  <2> QED
    BY <2>1, <2>2, <2>3 DEF Shared
<1> QED
  BY <1>1, <1>2, <1>3, <1>4 DEF IInv

LEMMA StepIInv == IInv /\ [Next]_vars => IInv'
<1> SUFFICES ASSUME IInv, [Next]_vars PROVE IInv'
  OBVIOUS
<1>1. CASE UNCHANGED vars
  BY <1>1 DEF vars, IInv, TypeOK, GetsMake, Shared, Sharing, Gone, ReleasedBy, Counted
<1>2. ASSUME NEW copy \in BOOLEAN, NEW given \in (SUBSET Refs) \ {{}}, Create(copy, given)
      PROVE  IInv'
  BY <1>2, CreateStep
<1>3. ASSUME NEW r \in Refs, NEW q \in Refs, GetBegin(r, q) PROVE IInv'
  BY <1>3, GetBeginStep
<1>4. ASSUME NEW r \in Refs, PutBegin(r) \/ Del(r) PROVE IInv'
  BY <1>4, PutBeginStep, DelStep
<1>5. ASSUME NEW r \in Refs, Step(r) PROVE IInv'
  BY <1>5, LockStep, LoadStep, GetStoreStep, GetUnlockStep, PutStoreStep, PutUnlockStep,
     ReleaseStep, StrayStep DEF Step
<1> QED
  BY <1>1, <1>2, <1>3, <1>4, <1>5 DEF Next

\* As long as the pointer has its mutex, rfc counts the references there are,
\* calls exclude each other, and the one that releases is alone.
THEOREM SmartPointerInvariant == Spec => []IInv
  BY InitIInv, StepIInv, PTL DEF Spec

\* With a mutex, no call of tuya_smartpointer.c meets a pointer or a mutex
\* that the last put, or a del, has released.
THEOREM NobodyUsesReleased == Spec => []NoUseAfterRelease
<1>1. IInv => NoUseAfterRelease
  BY DEF IInv, Shared, Sharing, Gone, ReleasedBy, NoUseAfterRelease
<1> QED
  BY <1>1, SmartPointerInvariant, PTL

LEMMA NoLeakLemma == IInv => NoLeak
<1> SUFFICES ASSUME IInv, mutex # "NULL", \A r \in Refs : pc[r] = "out" PROVE block = "freed"
  BY DEF NoLeak
<1>1. ~Sharing
  <2>1. Counted = {} /\ \A r \in Refs : pc[r] # "putUnlock"
    BY DEF Counted, Getting, Putting
  <2> QED
    BY <2>1, CountLemmas DEF Sharing
<1>2. \A r \in Refs : ~ReleasedBy(r)
  BY DEF ReleasedBy, Releasing
<1> QED
  BY <1>1, <1>2 DEF IInv, Shared, Gone

\* With a mutex, a pointer to which all references were put has been
\* released: however gets and puts interleave, rfc comes back to 0.
THEOREM PointersAreReleased == Spec => []NoLeak
  BY NoLeakLemma, SmartPointerInvariant, PTL

\* With a mutex, pointer and data are freed once, unless the data is a copy.
THEOREM PointersAreFreedOnce == Spec => []FreesOnce
<1>1. IInv => FreesOnce
  BY DEF IInv, Shared, Sharing, Gone, ReleasedBy, FreesOnce
<1> QED
  BY <1>1, SmartPointerInvariant, PTL
=============================================================================
