--------------------------- MODULE TuyaQueueProofs --------------------------
(***************************************************************************)
(* Proofs about TuyaQueue, for every set of threads and items, every       *)
(* length and whatever operations each thread calls.                       *)
(***************************************************************************)
EXTENDS TuyaQueue, SequenceTheorems, TLAPS

Inputs == {"input", "instant"}
Outputs == {"output", "delete_batch"}

\* Places and items add up, or differ by what the holder of the mutex has yet
\* to count.
Settled == free + Len(items) = len
Balance ==
  /\ lock = Free => Settled
  /\ \A t \in Threads :
       /\ pc[t] = "unlock" => Settled
       /\ pc[t] = "list" /\ op[t] # "clear" => Settled
       /\ pc[t] = "list" /\ op[t] = "clear" => free + Len(items) <= len
       /\ pc[t] = "count" /\ op[t] \in Inputs => free > 0 /\ free + Len(items) = len + 1
       /\ pc[t] = "count" /\ op[t] \in Outputs => free + Len(items) + 1 = len

\* What the calls rely on: an item to link, and a queue to work on.
Calls ==
  /\ \A t \in Threads :
       /\ pc[t] = "count" => op[t] \in Inputs \cup Outputs
       /\ op[t] \in Inputs /\ pc[t] \in {"lock", "list"} => arg[t] \in Values
       /\ pc[t] # "idle" => len # 0
  /\ lock \in Threads \cup {Free}
  /\ arg \in [Threads -> Values \cup {NoItem}]

IInv == TypeOK /\ Calls /\ Balance

LEMMA ListLemmas ==
  ASSUME NEW s \in Seq(Values), NEW v \in Values
  PROVE  /\ Len(s) \in Nat
         /\ Append(s, v) \in Seq(Values) /\ Len(Append(s, v)) = Len(s) + 1
         /\ <<v>> \o s \in Seq(Values) /\ Len(<<v>> \o s) = Len(s) + 1
  OBVIOUS

LEMMA TailLemma ==
  ASSUME NEW s \in Seq(Values), s # <<>>
  PROVE  Tail(s) \in Seq(Values) /\ Len(s) > 0 /\ Len(Tail(s)) = Len(s) - 1
  BY HeadTailProperties, EmptySeq

LEMMA LenLemma ==
  ASSUME NEW s \in Seq(Values)
  PROVE  Len(s) \in Nat /\ (Len(s) = 0 <=> s = <<>>)
  BY EmptySeq

LEMMA InitIInv == Init => IInv
<1> SUFFICES ASSUME Init PROVE IInv
  OBVIOUS
<1>1. items = <<>> /\ Len(items) = 0 /\ items \in Seq(Values) /\ len = 0 /\ free = 0 /\ lock = Free
  BY DEF Init
<1>2. \A t \in Threads : pc[t] = "idle" /\ lock # t
  BY ThreadsAssumption DEF Init
<1>3. TypeOK
  <2>1. pc \in [Threads -> {"idle", "lock", "list", "count", "unlock"}]
    BY DEF Init
  <2>2. op \in [Threads -> Ops]
    BY DEF Init, Ops
  <2>3. num \in [Threads -> 0..MaxBatch]
    BY LengthsAssumption DEF Init
  <2> QED
    BY <1>1, <1>2, <2>1, <2>2, <2>3 DEF TypeOK
<1>4. Calls
  BY <1>1, <1>2 DEF Init, Calls
<1>5. Balance
  BY <1>1, <1>2 DEF Balance, Settled
<1> QED
  BY <1>3, <1>4, <1>5 DEF IInv

\* Facts about the numbers, kept apart from the functions.
LEMMA Counts ==
  /\ 1..MaxBatch \subseteq 0..MaxBatch /\ 0 \in 0..MaxBatch
  /\ \A n \in 0..MaxBatch : n > 1 => n - 1 \in 0..MaxBatch
  /\ \A n \in Lengths : n # 0 /\ n \in 0..n /\ 0 \in 0..n
  BY LengthsAssumption

LEMMA AddItem ==
  \A f, i, n \in Int : f + i = n => f + (i + 1) = n + 1
  OBVIOUS

LEMMA DropItem ==
  \A f, i, n, j \in Int : f + i = n /\ j + 1 = i => f + j + 1 = n
  OBVIOUS

LEMMA CreateStep ==
  ASSUME IInv, NEW t \in Threads, NEW n \in Lengths, Create(t, n)
  PROVE  IInv'
<1> USE ThreadsAssumption, ValuesAssumption, LengthsAssumption, Counts, LenLemma, ListLemmas, TailLemma
    DEF IInv, TypeOK, Calls, Balance, Settled, Inputs, Outputs, queueVars, callVars, Goto,
        Create
<1>1. TypeOK'
  OBVIOUS
<1>2. Calls'
  OBVIOUS
<1>3. Balance'
  <2>1. \A u \in Threads : pc[u] = "idle"
    OBVIOUS
  <2>2. lock = Free
    BY <2>1
  <2>3. items = <<>> /\ Len(items) = 0
    BY <2>2
  <2>4. Settled'
    BY <2>3
  <2> QED
    BY <2>1, <2>4
<1> QED
  BY <1>1, <1>2, <1>3

LEMMA ReleaseStep ==
  ASSUME IInv, NEW t \in Threads, Release(t)
  PROVE  IInv'
<1> USE ThreadsAssumption, ValuesAssumption, LengthsAssumption, Counts, LenLemma, ListLemmas, TailLemma
    DEF IInv, TypeOK, Calls, Balance, Settled, Inputs, Outputs, queueVars, callVars, Goto,
        Release
<1>1. TypeOK'
  OBVIOUS
<1>2. Calls'
  OBVIOUS
<1>3. Balance'
  OBVIOUS
<1> QED
  BY <1>1, <1>2, <1>3

LEMMA CallPlainStep ==
  ASSUME IInv, NEW t \in Threads, NEW o \in Ops, CallPlain(t, o)
  PROVE  IInv'
<1> USE ThreadsAssumption, ValuesAssumption, LengthsAssumption, Counts, LenLemma, ListLemmas, TailLemma
    DEF IInv, TypeOK, Calls, Balance, Settled, Inputs, Outputs, queueVars, callVars, Goto,
        CallPlain, Called
<1>1. TypeOK'
  OBVIOUS
<1>2. Calls'
  OBVIOUS
<1>3. Balance'
  OBVIOUS
<1> QED
  BY <1>1, <1>2, <1>3

LEMMA CallInputStep ==
  ASSUME IInv, NEW t \in Threads, NEW o \in Ops, NEW v \in Values, CallInput(t, o, v)
  PROVE  IInv'
<1> USE ThreadsAssumption, ValuesAssumption, LengthsAssumption, Counts, LenLemma, ListLemmas, TailLemma
    DEF IInv, TypeOK, Calls, Balance, Settled, Inputs, Outputs, queueVars, callVars, Goto,
        CallInput, Called, InUse
<1>1. TypeOK'
  OBVIOUS
<1>2. Calls'
  OBVIOUS
<1>3. Balance'
  OBVIOUS
<1> QED
  BY <1>1, <1>2, <1>3

LEMMA CallGetBatchStep ==
  ASSUME IInv, NEW t \in Threads, NEW k \in 0..MaxBatch, NEW n \in 1..MaxBatch, CallGetBatch(t, k, n)
  PROVE  IInv'
<1> USE ThreadsAssumption, ValuesAssumption, LengthsAssumption, Counts, LenLemma, ListLemmas, TailLemma
    DEF IInv, TypeOK, Calls, Balance, Settled, Inputs, Outputs, queueVars, callVars, Goto,
        CallGetBatch, Called
<1>1. TypeOK'
  OBVIOUS
<1>2. Calls'
  OBVIOUS
<1>3. Balance'
  OBVIOUS
<1> QED
  BY <1>1, <1>2, <1>3

LEMMA CallDeleteBatchStep ==
  ASSUME IInv, NEW t \in Threads, NEW n \in 1..MaxBatch, CallDeleteBatch(t, n)
  PROVE  IInv'
<1> USE ThreadsAssumption, ValuesAssumption, LengthsAssumption, Counts, LenLemma, ListLemmas, TailLemma
    DEF IInv, TypeOK, Calls, Balance, Settled, Inputs, Outputs, queueVars, callVars, Goto,
        CallDeleteBatch, Called
<1>1. TypeOK'
  OBVIOUS
<1>2. Calls'
  OBVIOUS
<1>3. Balance'
  OBVIOUS
<1> QED
  BY <1>1, <1>2, <1>3

LEMMA FreeNumStep ==
  ASSUME IInv, NEW t \in Threads, FreeNum(t)
  PROVE  IInv'
<1> USE ThreadsAssumption, ValuesAssumption, LengthsAssumption, Counts, LenLemma, ListLemmas, TailLemma
    DEF IInv, TypeOK, Calls, Balance, Settled, Inputs, Outputs, queueVars, callVars, Goto,
        FreeNum
<1>1. TypeOK'
  OBVIOUS
<1>2. Calls'
  OBVIOUS
<1>3. Balance'
  OBVIOUS
<1> QED
  BY <1>1, <1>2, <1>3

LEMMA LockStep ==
  ASSUME IInv, NEW t \in Threads, Lock(t)
  PROVE  IInv'
<1> USE ThreadsAssumption, ValuesAssumption, LengthsAssumption, Counts, LenLemma, ListLemmas, TailLemma
    DEF IInv, TypeOK, Calls, Balance, Settled, Inputs, Outputs, queueVars, callVars, Goto,
        Lock
<1>1. TypeOK'
  OBVIOUS
<1>2. Calls'
  OBVIOUS
<1>3. Balance'
  OBVIOUS
<1> QED
  BY <1>1, <1>2, <1>3

LEMMA LinkStep ==
  ASSUME IInv, NEW t \in Threads, Link(t)
  PROVE  IInv'
<1> USE ThreadsAssumption, ValuesAssumption, LengthsAssumption, Counts, LenLemma, ListLemmas, TailLemma
    DEF IInv, TypeOK, Calls, Balance, Settled, Inputs, Outputs, queueVars, callVars, Goto,
        Link, HasRoom, Linked, FrontChanged
<1>0. /\ lock = t /\ pc[t] = "list" /\ arg[t] \in Values /\ Settled
      /\ \A u \in Threads \ {t} : pc[u] \in {"idle", "lock"}
  OBVIOUS
<1>a. CASE HasRoom
  <2>1. /\ pc' = [pc EXCEPT ![t] = "count"] /\ items' = Linked(op[t], arg[t])
        /\ UNCHANGED <<len, free, lock, op, arg, num>> /\ op[t] \in Inputs
    BY <1>a
  <2>2. items' \in Seq(Values) /\ Len(items') = Len(items) + 1
    BY <1>0, <2>1
  <2>3. TypeOK'
    BY <1>0, <2>1, <2>2
  <2>4. free' > 0 /\ free' + Len(items') = len' + 1
    <3>1. free + Len(items) = len
      BY <1>0
    <3>2. free' = free /\ len' = len /\ Len(items') = Len(items) + 1
      BY <2>1, <2>2
    <3>3. free > 0
      BY <1>a
    <3>4. free \in Int /\ len \in Int /\ Len(items) \in Int
      <4>1. items \in Seq(Values) /\ len \in Nat /\ free \in 0..len
        OBVIOUS
      <4> QED
        BY <4>1, LenLemma
    <3> HIDE ThreadsAssumption, ValuesAssumption, LengthsAssumption, Counts, LenLemma, ListLemmas,
             TailLemma DEF IInv, TypeOK, Calls, Balance, Settled, Inputs, Outputs, queueVars,
             callVars, Goto, Link, HasRoom, Linked
    <3> QED
      BY <3>1, <3>2, <3>3, <3>4, AddItem
  <2>5. Balance'
    BY <1>0, <2>1, <2>4
  <2> QED
    BY <2>3, <2>5
<1>b. CASE ~HasRoom
  <2>1. /\ pc' = [pc EXCEPT ![t] = "unlock"]
        /\ UNCHANGED <<len, free, items, lock, op, arg, num>>
    BY <1>b
  <2>2. TypeOK'
    BY <1>0, <2>1
  <2>3. Balance'
    BY <1>0, <2>1
  <2> QED
    BY <2>2, <2>3
<1>1. TypeOK'
  BY <1>a, <1>b
<1>2. Calls'
  OBVIOUS
<1>3. Balance'
  BY <1>a, <1>b
<1> QED
  BY <1>1, <1>2, <1>3

LEMMA CountLinkStep ==
  ASSUME IInv, NEW t \in Threads, CountLink(t)
  PROVE  IInv'
<1> USE ThreadsAssumption, ValuesAssumption, LengthsAssumption, Counts, LenLemma, ListLemmas, TailLemma
    DEF IInv, TypeOK, Calls, Balance, Settled, Inputs, Outputs, queueVars, callVars, Goto,
        CountLink
<1>1. TypeOK'
  OBVIOUS
<1>2. Calls'
  OBVIOUS
<1>3. Balance'
  OBVIOUS
<1> QED
  BY <1>1, <1>2, <1>3

LEMMA UnlinkStep ==
  ASSUME IInv, NEW t \in Threads, Unlink(t)
  PROVE  IInv'
<1> USE ThreadsAssumption, ValuesAssumption, LengthsAssumption, Counts, LenLemma, ListLemmas, TailLemma
    DEF IInv, TypeOK, Calls, Balance, Settled, Inputs, Outputs, queueVars, callVars, Goto,
        Unlink, HasItem, WithoutFirst, FrontChanged
<1>0. /\ lock = t /\ pc[t] = "list" /\ op[t] \in Outputs /\ Settled
      /\ \A u \in Threads \ {t} : pc[u] \in {"idle", "lock"}
  OBVIOUS
<1>a. CASE HasItem
  <2>1. /\ pc' = [pc EXCEPT ![t] = "count"] /\ items' = Tail(items)
        /\ UNCHANGED <<len, free, lock, op, arg, num>>
    BY <1>a
  <2>2. items # <<>>
    BY <1>a, <1>0
  <2>3. items' \in Seq(Values) /\ Len(items') + 1 = Len(items)
    BY <2>1, <2>2
  <2>4. TypeOK'
    BY <1>0, <2>1, <2>3
  <2>5. free' + Len(items') + 1 = len'
    <3>1. free + Len(items) = len
      BY <1>0
    <3>2. free' = free /\ len' = len /\ Len(items') + 1 = Len(items)
      BY <2>1, <2>3
    <3>3. free \in Int /\ len \in Int /\ Len(items) \in Int /\ Len(items') \in Int
      <4>1. items \in Seq(Values) /\ items' \in Seq(Values) /\ len \in Nat /\ free \in 0..len
        BY <2>3
      <4> QED
        BY <4>1, LenLemma
    <3> HIDE ThreadsAssumption, ValuesAssumption, LengthsAssumption, Counts, LenLemma, ListLemmas,
             TailLemma DEF IInv, TypeOK, Calls, Balance, Settled, Inputs, Outputs, queueVars,
             callVars, Goto, Unlink, HasItem, WithoutFirst
    <3> QED
      BY <3>1, <3>2, <3>3, DropItem
  <2>6. Balance'
    BY <1>0, <2>1, <2>5
  <2> QED
    BY <2>4, <2>6
<1>b. CASE ~HasItem
  <2>1. /\ pc' = [pc EXCEPT ![t] = "unlock"]
        /\ UNCHANGED <<len, free, items, lock, op, arg, num>>
    BY <1>b
  <2>2. TypeOK'
    BY <1>0, <2>1
  <2>3. Balance'
    BY <1>0, <2>1
  <2> QED
    BY <2>2, <2>3
<1>1. TypeOK'
  BY <1>a, <1>b
<1>2. Calls'
  OBVIOUS
<1>3. Balance'
  BY <1>a, <1>b
<1> QED
  BY <1>1, <1>2, <1>3

LEMMA CountUnlinkStep ==
  ASSUME IInv, NEW t \in Threads, CountUnlink(t)
  PROVE  IInv'
<1> USE ThreadsAssumption, ValuesAssumption, LengthsAssumption, Counts, LenLemma, ListLemmas, TailLemma
    DEF IInv, TypeOK, Calls, Balance, Settled, Inputs, Outputs, queueVars, callVars, Goto,
        CountUnlink
<1>1. TypeOK'
  OBVIOUS
<1>2. Calls'
  OBVIOUS
<1>3. Balance'
  OBVIOUS
<1> QED
  BY <1>1, <1>2, <1>3

LEMMA ClearOneStep ==
  ASSUME IInv, NEW t \in Threads, ClearOne(t)
  PROVE  IInv'
<1> USE ThreadsAssumption, ValuesAssumption, LengthsAssumption, Counts, LenLemma, ListLemmas, TailLemma
    DEF IInv, TypeOK, Calls, Balance, Settled, Inputs, Outputs, queueVars, callVars, Goto,
        ClearOne
<1>1. TypeOK'
  OBVIOUS
<1>2. Calls'
  OBVIOUS
<1>3. Balance'
  OBVIOUS
<1> QED
  BY <1>1, <1>2, <1>3

LEMMA ClearCountStep ==
  ASSUME IInv, NEW t \in Threads, ClearCount(t)
  PROVE  IInv'
<1> USE ThreadsAssumption, ValuesAssumption, LengthsAssumption, Counts, LenLemma, ListLemmas, TailLemma
    DEF IInv, TypeOK, Calls, Balance, Settled, Inputs, Outputs, queueVars, callVars, Goto,
        ClearCount
<1>1. TypeOK'
  OBVIOUS
<1>2. Calls'
  OBVIOUS
<1>3. Balance'
  OBVIOUS
<1> QED
  BY <1>1, <1>2, <1>3

LEMMA ReadStep ==
  ASSUME IInv, NEW t \in Threads, Read(t)
  PROVE  IInv'
<1> USE ThreadsAssumption, ValuesAssumption, LengthsAssumption, Counts, LenLemma, ListLemmas, TailLemma
    DEF IInv, TypeOK, Calls, Balance, Settled, Inputs, Outputs, queueVars, callVars, Goto,
        Read
<1>1. TypeOK'
  OBVIOUS
<1>2. Calls'
  OBVIOUS
<1>3. Balance'
  OBVIOUS
<1> QED
  BY <1>1, <1>2, <1>3

LEMMA UsedNumStep ==
  ASSUME IInv, NEW t \in Threads, UsedNum(t)
  PROVE  IInv'
<1> USE ThreadsAssumption, ValuesAssumption, LengthsAssumption, Counts, LenLemma, ListLemmas, TailLemma
    DEF IInv, TypeOK, Calls, Balance, Settled, Inputs, Outputs, queueVars, callVars, Goto,
        UsedNum
<1>1. TypeOK'
  OBVIOUS
<1>2. Calls'
  OBVIOUS
<1>3. Balance'
  OBVIOUS
<1> QED
  BY <1>1, <1>2, <1>3

LEMMA UnlockStep ==
  ASSUME IInv, NEW t \in Threads, Unlock(t)
  PROVE  IInv'
<1> USE ThreadsAssumption, ValuesAssumption, LengthsAssumption, Counts, LenLemma, ListLemmas, TailLemma
    DEF IInv, TypeOK, Calls, Balance, Settled, Inputs, Outputs, queueVars, callVars, Goto,
        Unlock
<1>0. num' \in [Threads -> 0..MaxBatch]
  BY SMTT(30)
<1>1. TypeOK'
  BY <1>0
<1>2. Calls'
  BY ZenonT(30)
<1>3. Balance'
  OBVIOUS
<1> QED
  BY <1>1, <1>2, <1>3

LEMMA StepIInv == IInv /\ [Next]_vars => IInv'
<1> SUFFICES ASSUME IInv, [Next]_vars PROVE IInv'
  OBVIOUS
<1>1. CASE UNCHANGED vars
  BY <1>1 DEF vars, queueVars, callVars, IInv, TypeOK, Calls, Balance, Settled
<1>2. CASE Next
  BY <1>2, CreateStep, ReleaseStep, CallPlainStep, CallInputStep, CallGetBatchStep,
     CallDeleteBatchStep, FreeNumStep, LockStep, LinkStep, CountLinkStep, UnlinkStep,
     CountUnlinkStep, ClearOneStep, ClearCountStep, ReadStep, UsedNumStep, UnlockStep
     DEF Next, Step
<1> QED
  BY <1>1, <1>2

\* The inductive invariant holds throughout.
THEOREM QueueInvariant == Spec => []IInv
  BY InitIInv, StepIInv, PTL DEF Spec

\* Types, and a thread has the mutex exactly between its lock and unlock
\* (QUEUE_LOCK, QUEUE_UNLOCK).
THEOREM QueueTypes == Spec => []TypeOK
<1>1. IInv => TypeOK
  BY DEF IInv
<1> QED
  BY <1>1, QueueInvariant, PTL

\* Whatever the threads call, whenever the mutex is free queue_free and the
\* list add up to queue_len.
THEOREM PlacesAlwaysAddUp == Spec => []PlacesAddUp
<1>1. IInv => PlacesAddUp
  BY DEF IInv, Balance, Settled, PlacesAddUp
<1> QED
  BY <1>1, QueueInvariant, PTL

LEMMA NeverOverfullLemma == IInv => NeverOverfull
<1> SUFFICES ASSUME IInv PROVE Len(items) <= len
  BY DEF NeverOverfull
<1>1. Len(items) \in Nat /\ free \in Nat /\ len \in Nat
  BY LenLemma, LengthsAssumption DEF IInv, TypeOK
<1>2. CASE lock = Free
  BY <1>1, <1>2 DEF IInv, Balance, Settled
<1>3. CASE lock \in Threads
  <2>1. pc[lock] \in {"list", "count", "unlock"}
    BY <1>3 DEF IInv, TypeOK
  <2>2. CASE pc[lock] = "unlock"
    BY <1>1, <1>3, <2>2 DEF IInv, Balance, Settled
  <2>3. CASE pc[lock] = "list"
    BY <1>1, <1>3, <2>3 DEF IInv, Balance, Settled
  <2>4. CASE pc[lock] = "count"
    <3>1. op[lock] \in Inputs \/ op[lock] \in Outputs
      BY <1>3, <2>4 DEF IInv, Calls
    <3>2. CASE op[lock] \in Inputs
      BY <1>1, <1>3, <2>4, <3>2 DEF IInv, Balance
    <3>3. CASE op[lock] \in Outputs
      BY <1>1, <1>3, <2>4, <3>3 DEF IInv, Balance
    <3> QED
      BY <3>1, <3>2, <3>3
  <2> QED
    BY <2>1, <2>2, <2>3, <2>4
<1> QED
  BY <1>2, <1>3 DEF IInv, Calls

\* The queue never holds more items than it was created for, not even in the
\* middle of __enqueue.
THEOREM QueueNeverOverfull == Spec => []NeverOverfull
  BY NeverOverfullLemma, QueueInvariant, PTL

-----------------------------------------------------------------------------
(* The number of free places, read without the mutex.                      *)

\* While the holder of the mutex does not clear, places and items are at most
\* one off the length.
LEMMA NearlyRightLemma == IInv => FreeNumNearlyRight
<1> SUFFICES ASSUME IInv, \A t \in Threads : op[t] = "clear" => pc[t] # "list"
             PROVE  free + Len(items) \in (len - 1)..(len + 1)
  BY DEF FreeNumNearlyRight
<1>1. Len(items) \in Nat /\ free \in Nat /\ len \in Nat
  BY LenLemma, LengthsAssumption DEF IInv, TypeOK
<1>2. \/ free + Len(items) = len
      \/ free + Len(items) = len + 1
      \/ free + Len(items) + 1 = len
  <2>1. CASE lock = Free
    BY <2>1 DEF IInv, Balance, Settled
  <2>2. CASE lock \in Threads
    <3>1. pc[lock] \in {"list", "count", "unlock"}
      BY <2>2 DEF IInv, TypeOK
    <3>2. CASE pc[lock] \in {"unlock", "list"}
      BY <2>2, <3>2 DEF IInv, Balance, Settled
    <3>3. CASE pc[lock] = "count"
      BY <2>2, <3>3 DEF IInv, Calls, Balance
    <3> QED
      BY <3>1, <3>2, <3>3
  <2> QED
    BY <2>1, <2>2 DEF IInv, Calls
<1> QED
  BY <1>1, <1>2

\* tuya_queue_get_free_num, which takes no mutex, is at most one item wrong
\* unless a clear is under way.
THEOREM FreeNumIsNearlyRight == Spec => []FreeNumNearlyRight
  BY NearlyRightLemma, QueueInvariant, PTL

-----------------------------------------------------------------------------
(* The refinement: the queue is a bounded deque.                           *)

LEMMA DequeInitial == Init => Abstract!DequeInit
  BY DEF Init, Abstract!DequeInit, Clearing

\* Whoever is at the list has the mutex, so that no other thread clears.
LEMMA OneAtTheList ==
  ASSUME IInv, NEW t \in Threads, pc[t] = "list", NEW u \in Threads, pc[u] = "list"
  PROVE  t = u
  BY DEF IInv, TypeOK

\* The abstract operations of each step of the code.
LEMMA DequeStep ==
  ASSUME IInv, IInv', [Next]_vars
  PROVE  [Abstract!DequeNext]_<<IF Clearing THEN <<>> ELSE items, len>>
<1> DEFINE deque == IF Clearing THEN <<>> ELSE items
<1> SUFFICES [Abstract!DequeNext]_<<deque, len>>
  OBVIOUS
<1>0. len \in Nat /\ items \in Seq(Values) /\ free \in Nat
  BY LengthsAssumption DEF IInv, TypeOK
<1>1. ASSUME NEW t \in Threads, NEW n \in Lengths, Create(t, n)
      PROVE  Abstract!DequeNext
  <2>1. len = 0 /\ len' \in Nat \ {0} /\ items' = items /\ pc' = pc /\ op' = op
    BY <1>1, LengthsAssumption DEF Create, callVars
  <2>2. \A u \in Threads : pc[u] = "idle"
    BY <2>1 DEF IInv, Calls
  <2>3. ~Clearing /\ ~Clearing'
    BY <2>1, <2>2 DEF Clearing
  <2>4. lock = Free
    BY <2>2, ThreadsAssumption DEF IInv, TypeOK, Calls
  <2>5. Len(items) = 0
    BY <1>0, <2>1, <2>4, LenLemma DEF IInv, Balance, Settled
  <2>6. items = <<>>
    BY <1>0, <2>5, LenLemma
  <2> QED
    BY <2>1, <2>3, <2>6 DEF Abstract!DequeNext, Abstract!Create
<1>2. ASSUME NEW t \in Threads, Release(t)
      PROVE  Abstract!DequeNext
  <2>1. len > 0 /\ len' = 0 /\ items' = <<>>
    BY <1>2 DEF Release
  <2> QED
    BY <2>1 DEF Abstract!DequeNext, Abstract!Destroy
<1>3. ASSUME NEW t \in Threads, NEW o \in Ops, Called(t, o), UNCHANGED queueVars
      PROVE  UNCHANGED <<deque, len>>
  <2>1. Clearing' = Clearing
    BY <1>3 DEF Called, Goto, Clearing, IInv, TypeOK
  <2> QED
    BY <1>3, <2>1 DEF queueVars
<1>4. ASSUME NEW t \in Threads, FreeNum(t)
      PROVE  UNCHANGED <<deque, len>>
  BY <1>4 DEF FreeNum, queueVars, Clearing
<1>5. ASSUME NEW t \in Threads, Lock(t)
      PROVE  [Abstract!DequeNext]_<<deque, len>>
  <2>1. pc[t] = "lock" /\ lock = Free /\ pc' = [pc EXCEPT ![t] = "list"]
        /\ UNCHANGED <<len, items, op>>
    BY <1>5 DEF Lock, Goto, callVars
  <2>2. len > 0
    BY <1>0, <2>1 DEF IInv, Calls
  <2>3. ~Clearing
    BY <2>1, ThreadsAssumption DEF Clearing, IInv, TypeOK
  <2>4. CASE op[t] = "clear"
    <3>1. Clearing'
      BY <2>1, <2>4 DEF Clearing, IInv, TypeOK
    <3> QED
      BY <2>1, <2>2, <3>1 DEF Abstract!DequeNext, Abstract!Clear
  <2>5. CASE op[t] # "clear"
    <3>1. ~Clearing'
      BY <2>1, <2>3, <2>5 DEF Clearing, IInv, TypeOK
    <3> QED
      BY <2>1, <2>3, <3>1
  <2> QED
    BY <2>4, <2>5
<1>6. ASSUME NEW t \in Threads, Link(t)
      PROVE  [Abstract!DequeNext]_<<deque, len>>
  <2>1. pc[t] = "list" /\ op[t] \in Inputs /\ op' = op /\ len' = len
    BY <1>6 DEF Link, Goto, Inputs
  <2>2. ~Clearing
    BY <2>1, OneAtTheList DEF Clearing, Inputs
  <2>3. ~Clearing'
    BY <1>6, <2>1, <2>2 DEF Link, Goto, Clearing, IInv, TypeOK
  <2>4. len > 0 /\ arg[t] \in Values /\ free + Len(items) = len
    BY <1>0, <2>1 DEF IInv, Calls, Balance, Settled, Inputs
  <2>5. CASE HasRoom
    <3>1. items' = Linked(op[t], arg[t])
      BY <1>6, <2>5 DEF Link
    <3>2. Len(items) < len
      BY <1>0, <2>4, <2>5, LenLemma DEF HasRoom
    <3> QED
      BY <2>1, <2>2, <2>3, <2>4, <3>1, <3>2
      DEF Linked, Inputs, Abstract!DequeNext, Abstract!PushBack, Abstract!PushFront
  <2>6. CASE ~HasRoom
    <3>1. items' = items
      BY <1>6, <2>6 DEF Link
    <3> QED
      BY <2>1, <2>2, <2>3, <3>1
  <2> QED
    BY <2>5, <2>6
<1>7. ASSUME NEW t \in Threads, Unlink(t)
      PROVE  [Abstract!DequeNext]_<<deque, len>>
  <2>1. pc[t] = "list" /\ op[t] \in Outputs /\ op' = op /\ len' = len
    BY <1>7 DEF Unlink, Goto, Outputs
  <2>2. ~Clearing
    BY <2>1, OneAtTheList DEF Clearing, Outputs
  <2>3. ~Clearing'
    BY <1>7, <2>1, <2>2 DEF Unlink, Goto, Clearing, IInv, TypeOK
  <2>4. len > 0 /\ free + Len(items) = len
    BY <1>0, <2>1 DEF IInv, Calls, Balance, Settled, Outputs
  <2>5. CASE HasItem
    <3>1. items' = Tail(items)
      BY <1>7, <2>5 DEF Unlink, WithoutFirst
    <3>2. items # <<>>
      BY <1>0, <2>4, <2>5, LenLemma DEF HasItem
    <3> QED
      BY <2>1, <2>2, <2>3, <2>4, <3>1, <3>2 DEF Abstract!DequeNext, Abstract!PopFront
  <2>6. CASE ~HasItem
    <3>1. items' = items
      BY <1>7, <2>6 DEF Unlink
    <3> QED
      BY <2>1, <2>2, <2>3, <3>1
  <2> QED
    BY <2>5, <2>6
<1>8. ASSUME NEW t \in Threads, CountLink(t) \/ CountUnlink(t)
      PROVE  UNCHANGED <<deque, len>>
  <2>1. Clearing' = Clearing
    BY <1>8 DEF CountLink, CountUnlink, Goto, Clearing, IInv, TypeOK
  <2> QED
    BY <1>8, <2>1 DEF CountLink, CountUnlink
<1>9. ASSUME NEW t \in Threads, ClearOne(t)
      PROVE  UNCHANGED <<deque, len>>
  <2>1. Clearing /\ Clearing'
    BY <1>9 DEF ClearOne, Clearing
  <2> QED
    BY <1>9, <2>1 DEF ClearOne
<1>10. ASSUME NEW t \in Threads, ClearCount(t)
       PROVE  UNCHANGED <<deque, len>>
  BY <1>10 DEF ClearCount
<1>11. ASSUME NEW t \in Threads, Read(t) \/ UsedNum(t)
       PROVE  UNCHANGED <<deque, len>>
  <2>1. pc[t] = "list" /\ op[t] # "clear" /\ op' = op /\ pc' = [pc EXCEPT ![t] = "unlock"]
        /\ UNCHANGED <<items, len>>
    BY <1>11 DEF Read, UsedNum, Goto, queueVars
  <2>2. Clearing' = Clearing
    BY <2>1 DEF Clearing, IInv, TypeOK
  <2> QED
    BY <2>1, <2>2
<1>12. ASSUME NEW t \in Threads, Unlock(t)
       PROVE  UNCHANGED <<deque, len>>
  <2>1. Clearing' = Clearing
    BY <1>12 DEF Unlock, Goto, Clearing, IInv, TypeOK
  <2> QED
    BY <1>12, <2>1 DEF Unlock
<1>13. CASE UNCHANGED vars
  BY <1>13 DEF vars, queueVars, callVars, Clearing
<1>14. CASE Next
  <2>1. PICK t \in Threads :
          \/ \E n \in Lengths : Create(t, n)
          \/ Release(t)
          \/ \E o \in Ops : Called(t, o) /\ UNCHANGED queueVars
          \/ FreeNum(t)
          \/ Step(t)
    BY <1>14 DEF Next, CallPlain, CallInput, CallGetBatch, CallDeleteBatch, Ops
  <2> QED
    BY <2>1, <1>1, <1>2, <1>3, <1>4, <1>5, <1>6, <1>7, <1>8, <1>9, <1>10, <1>11, <1>12 DEF Step
<1> QED
  BY <1>13, <1>14

\* Whatever threads call, each operation of tuya_queue.c takes effect at
\* once, in one step between its lock and its unlock, as one operation of a
\* bounded deque; a clear does when it takes the mutex.
THEOREM QueueImplementsDeque == Spec => ImplementsDeque
  BY QueueInvariant, DequeInitial, DequeStep, PTL
  DEF Spec, ImplementsDeque, Abstract!DequeSpec
-----------------------------------------------------------------------------
(* A batch read from the front stays in front until it is deleted.         *)

\* s is at the front of q.
AtFront(s, q) == Len(s) <= Len(q) /\ \A i \in 1..Len(s) : s[i] = q[i]

\* What a thread has read from the front is there: until its next call takes
\* the mutex, in that call unless it clears, up to the count of an item that
\* it deletes, and then still if the call is one that keeps the batch.
Batches ==
  /\ got \in [Threads -> Seq(Values)] /\ start \in [Threads -> Nat]
  /\ \A t \in Threads :
       /\ pc[t] \in {"idle", "lock"} => AtFront(got[t], items)
       /\ pc[t] = "list" /\ op[t] # "clear" => AtFront(got[t], items)
       /\ pc[t] = "count" /\ op[t] = "delete_batch" /\ got[t] # <<>> => AtFront(Tail(got[t]), items)
       /\ pc[t] = "unlock" /\ KeepsBatch(t) => AtFront(got[t], items)

LEMMA FrontLemmas ==
  ASSUME NEW s \in Seq(Values), NEW q \in Seq(Values)
  PROVE  /\ AtFront(<<>>, q)
         /\ \A v \in Values : AtFront(s, q) => AtFront(s, Append(q, v))
         /\ AtFront(s, q) /\ s # <<>> =>
              /\ q # <<>> /\ Head(q) = Head(s)
              /\ AtFront(Tail(s), Tail(q))
<1>1. AtFront(<<>>, q)
  BY LenLemma DEF AtFront
<1>2. ASSUME NEW v \in Values, AtFront(s, q) PROVE AtFront(s, Append(q, v))
  BY <1>2 DEF AtFront
<1>3. ASSUME AtFront(s, q), s # <<>>
      PROVE  q # <<>> /\ Head(q) = Head(s) /\ AtFront(Tail(s), Tail(q))
  <2>1. Len(s) \in Nat /\ Len(q) \in Nat /\ Len(s) > 0 /\ Len(q) > 0
    BY <1>3, LenLemma DEF AtFront
  <2>2. q # <<>>
    BY <2>1, LenLemma
  <2>3. s[1] = q[1]
    BY <1>3, <2>1 DEF AtFront
  <2>4. Head(s) = s[1] /\ Head(q) = q[1]
    OBVIOUS
  <2>5. /\ Len(Tail(s)) = Len(s) - 1 /\ Len(Tail(q)) = Len(q) - 1
        /\ \A i \in 1..Len(s) - 1 : Tail(s)[i] = s[i + 1]
        /\ \A i \in 1..Len(q) - 1 : Tail(q)[i] = q[i + 1]
    BY <1>3, <2>2, HeadTailProperties
  <2>6. AtFront(Tail(s), Tail(q))
    BY <1>3, <2>1, <2>5 DEF AtFront
  <2> QED
    BY <2>2, <2>3, <2>4, <2>6
<1> QED
  BY <1>1, <1>2, <1>3

\* What get_batch copies.
LEMMA BatchLemma ==
  ASSUME NEW q \in Seq(Values), NEW k \in Nat, NEW n \in Nat
  PROVE  /\ SubSeq(q, k + 1, Least(k + n, Len(q))) \in Seq(Values)
         /\ k = 0 => AtFront(SubSeq(q, k + 1, Least(k + n, Len(q))), q)
<1> DEFINE m == Least(k + n, Len(q))
<1>1. Len(q) \in Nat /\ m \in Nat /\ m <= Len(q)
  BY LenLemma DEF Least
<1>2. SubSeq(q, k + 1, m) \in Seq(Values)
  BY <1>1, SubSeqProperties
<1>3. ASSUME k = 0 PROVE AtFront(SubSeq(q, k + 1, m), q)
  BY <1>1, <1>3, SubSeqProperties DEF AtFront
<1> QED
  BY <1>2, <1>3

LEMMA InitBatches == Init => Batches
<1> SUFFICES ASSUME Init PROVE Batches
  OBVIOUS
<1>1. items = <<>> /\ items \in Seq(Values) /\ got = [t \in Threads |-> <<>>]
      /\ start = [t \in Threads |-> 0] /\ pc = [t \in Threads |-> "idle"]
  BY DEF Init
<1>2. <<>> \in Seq(Values) /\ AtFront(<<>>, <<>>)
  BY <1>1, FrontLemmas
<1> QED
  BY <1>1, <1>2 DEF Batches

LEMMA StepBatches ==
  ASSUME IInv, IInv', Batches, [Next]_vars
  PROVE  Batches'
<1>0. /\ items \in Seq(Values) /\ items' \in Seq(Values) /\ <<>> \in Seq(Values)
      /\ pc \in [Threads -> {"idle", "lock", "list", "count", "unlock"}]
      /\ op \in [Threads -> Ops] /\ num \in [Threads -> 0..MaxBatch]
      /\ \A t \in Threads : num[t] \in Nat
  BY LengthsAssumption DEF IInv, TypeOK
<1>a. got \in [Threads -> Seq(Values)] /\ start \in [Threads -> Nat]
  BY DEF Batches
\* Who is at the list or the count is alone there.
<1>b. \A t, u \in Threads : pc[t] \in {"list", "count", "unlock"} /\ u # t => pc[u] \in {"idle", "lock"}
  BY <1>0 DEF IInv, TypeOK
<1>c. AtFront(<<>>, items')
  BY <1>0, FrontLemmas
<1>1. ASSUME NEW t \in Threads, NEW n \in Lengths, Create(t, n)
      PROVE  Batches'
  BY <1>1 DEF Create, callVars, Batches, KeepsBatch
<1>2. ASSUME NEW t \in Threads, Release(t)
      PROVE  Batches'
  BY <1>0, <1>a, <1>c, <1>2 DEF Release, Batches, KeepsBatch
<1>3. ASSUME NEW t \in Threads, NEW o \in Ops, Called(t, o), UNCHANGED <<items, got>>,
             start' \in [Threads -> Nat],
             \A u \in Threads \ {t} : start'[u] = start[u]
      PROVE  Batches'
  BY <1>0, <1>a, <1>3 DEF Called, Goto, Batches, KeepsBatch
<1>4. ASSUME NEW t \in Threads, FreeNum(t)
      PROVE  Batches'
  BY <1>4 DEF FreeNum, queueVars, Batches, KeepsBatch
<1>5. ASSUME NEW t \in Threads, Lock(t)
      PROVE  Batches'
  BY <1>0, <1>a, <1>5 DEF Lock, Goto, callVars, Batches, KeepsBatch
<1>6. ASSUME NEW t \in Threads, Link(t)
      PROVE  Batches'
  <2>1. /\ pc[t] = "list" /\ op[t] \in Inputs /\ arg[t] \in Values
        /\ UNCHANGED <<op, start>> /\ ~KeepsBatch(t)
    BY <1>6 DEF Link, Goto, IInv, Calls, Inputs, KeepsBatch
  <2>2. CASE ~HasRoom
    BY <1>0, <1>a, <1>6, <2>1, <2>2 DEF Link, Goto, Batches, KeepsBatch
  <2>3. CASE HasRoom
    <3>1. /\ pc' = [pc EXCEPT ![t] = "count"] /\ items' = Linked(op[t], arg[t])
          /\ got' = IF op[t] = "input" THEN got ELSE FrontChanged(t)
      BY <1>6, <2>3 DEF Link, Goto
    <3>2. got' \in [Threads -> Seq(Values)]
      BY <1>0, <1>a, <3>1 DEF FrontChanged
    <3>3. ASSUME NEW u \in Threads, u # t
          PROVE  pc'[u] \in {"idle", "lock"} /\ AtFront(got'[u], items')
      <4>1. pc'[u] = pc[u] /\ pc[u] \in {"idle", "lock"}
        BY <1>0, <1>b, <2>1, <3>1, <3>3
      <4>2. AtFront(got[u], items) /\ got[u] \in Seq(Values)
        BY <1>a, <4>1 DEF Batches
      <4>3. CASE op[t] = "input"
        BY <1>0, <2>1, <3>1, <4>1, <4>2, <4>3, FrontLemmas DEF Linked
      <4>4. CASE op[t] # "input"
        BY <1>c, <3>1, <3>3, <4>1, <4>4 DEF FrontChanged
      <4> QED
        BY <4>3, <4>4
    <3>4. pc'[t] = "count" /\ op[t] # "delete_batch"
      BY <1>0, <2>1, <3>1 DEF Inputs
    <3> QED
      BY <1>a, <2>1, <3>2, <3>3, <3>4 DEF Batches, KeepsBatch
  <2> QED
    BY <2>2, <2>3
<1>7. ASSUME NEW t \in Threads, Unlink(t)
      PROVE  Batches'
  <2>1. /\ pc[t] = "list" /\ op[t] \in Outputs /\ UNCHANGED <<op, start>>
        /\ AtFront(got[t], items) /\ got[t] \in Seq(Values)
    BY <1>a, <1>7 DEF Unlink, Goto, Outputs, Batches
  <2>2. CASE ~HasItem
    BY <1>0, <1>a, <1>7, <2>1, <2>2 DEF Unlink, Goto, Batches, KeepsBatch
  <2>3. CASE HasItem
    <3>1. /\ pc' = [pc EXCEPT ![t] = "count"] /\ items' = Tail(items) /\ got' = FrontChanged(t)
      BY <1>7, <2>3 DEF Unlink, Goto, WithoutFirst
    <3>2. got' \in [Threads -> Seq(Values)] /\ got'[t] = got[t] /\ pc'[t] = "count"
      BY <1>0, <1>a, <3>1 DEF FrontChanged
    <3>3. ASSUME NEW u \in Threads, u # t
          PROVE  pc'[u] \in {"idle", "lock"} /\ AtFront(got'[u], items')
      BY <1>0, <1>b, <1>c, <2>1, <3>1, <3>3 DEF FrontChanged
    <3>4. got[t] # <<>> => AtFront(Tail(got'[t]), items')
      BY <1>0, <2>1, <3>1, <3>2, FrontLemmas
    <3> QED
      BY <1>a, <2>1, <3>2, <3>3, <3>4 DEF Batches, KeepsBatch
  <2> QED
    BY <2>2, <2>3
<1>8. ASSUME NEW t \in Threads, CountLink(t)
      PROVE  Batches'
  BY <1>0, <1>a, <1>8 DEF CountLink, Goto, Batches, KeepsBatch
<1>9. ASSUME NEW t \in Threads, CountUnlink(t)
      PROVE  Batches'
  <2>1. /\ pc[t] = "count" /\ op[t] \in Outputs /\ pc' = [pc EXCEPT ![t] = "unlock"]
        /\ UNCHANGED <<items, op, start>>
        /\ got' = [got EXCEPT ![t] = IF op[t] = "delete_batch" /\ @ # <<>> THEN Tail(@) ELSE @]
    BY <1>9 DEF CountUnlink, Goto, Outputs
  <2>2. got' \in [Threads -> Seq(Values)]
    BY <1>a, <2>1, TailLemma
  <2>3. op[t] = "delete_batch" => AtFront(got'[t], items')
    BY <1>a, <1>c, <2>1 DEF Batches
  <2>4. \A u \in Threads : u # t => pc'[u] = pc[u] /\ pc[u] \in {"idle", "lock"} /\ got'[u] = got[u]
    BY <1>0, <1>a, <1>b, <2>1
  <2>5. pc'[t] = "unlock" /\ (KeepsBatch(t)' => op[t] = "delete_batch")
    BY <1>0, <2>1 DEF KeepsBatch, Outputs
  <2> QED
    BY <1>a, <2>1, <2>2, <2>3, <2>4, <2>5 DEF Batches
<1>10. ASSUME NEW t \in Threads, ClearOne(t)
       PROVE  Batches'
  <2>1. /\ pc[t] = "list" /\ op[t] = "clear" /\ got' = FrontChanged(t)
        /\ UNCHANGED <<pc, op, start>>
    BY <1>10 DEF ClearOne
  <2>2. got' \in [Threads -> Seq(Values)]
    BY <1>0, <1>a, <2>1 DEF FrontChanged
  <2>3. \A u \in Threads : u # t => pc[u] \in {"idle", "lock"} /\ AtFront(got'[u], items')
    BY <1>b, <1>c, <2>1 DEF FrontChanged
  <2> QED
    BY <1>a, <2>1, <2>2, <2>3 DEF Batches
<1>11. ASSUME NEW t \in Threads, ClearCount(t)
       PROVE  Batches'
  BY <1>0, <1>a, <1>11 DEF ClearCount, Goto, Batches, KeepsBatch
<1>12. ASSUME NEW t \in Threads, Read(t)
       PROVE  Batches'
  <2>1. /\ pc[t] = "list" /\ op[t] \in {"peek", "get_batch", "traverse"}
        /\ pc' = [pc EXCEPT ![t] = "unlock"] /\ got' = [got EXCEPT ![t] = Copied(t)]
        /\ UNCHANGED <<items, op, start>>
    BY <1>12 DEF Read, Goto, queueVars
  <2>2. Copied(t) \in Seq(Values) /\ (KeepsBatch(t) => AtFront(Copied(t), items))
    <3>1. CASE op[t] = "peek"
      BY <1>0, <3>1, BatchLemma DEF Copied, Batch, KeepsBatch
    <3>2. CASE op[t] = "get_batch"
      BY <1>0, <1>a, <3>2, BatchLemma DEF Copied, Batch, KeepsBatch
    <3>3. CASE op[t] = "traverse"
      BY <1>0, <3>3 DEF Copied, KeepsBatch
    <3> QED
      BY <2>1, <3>1, <3>2, <3>3
  <2>3. got' \in [Threads -> Seq(Values)] /\ got'[t] = Copied(t) /\ pc'[t] = "unlock"
    BY <1>0, <1>a, <2>1, <2>2
  <2>4. \A u \in Threads : u # t => pc'[u] = pc[u] /\ pc[u] \in {"idle", "lock"} /\ got'[u] = got[u]
    BY <1>0, <1>a, <1>b, <2>1
  <2> QED
    BY <1>a, <2>1, <2>2, <2>3, <2>4 DEF Batches, KeepsBatch
<1>13. ASSUME NEW t \in Threads, UsedNum(t)
       PROVE  Batches'
  BY <1>0, <1>a, <1>13 DEF UsedNum, Goto, queueVars, Batches, KeepsBatch
<1>14. ASSUME NEW t \in Threads, Unlock(t)
       PROVE  Batches'
  <2>1. /\ pc[t] = "unlock" /\ UNCHANGED <<items, op>>
        /\ \A u \in Threads : u # t => /\ pc'[u] = pc[u] /\ pc[u] \in {"idle", "lock"}
                                       /\ got'[u] = got[u]
    BY <1>0, <1>a, <1>b, <1>14 DEF Unlock, Goto
  <2>2. got' \in [Threads -> Seq(Values)] /\ start' \in [Threads -> Nat]
    <3>1. \/ UNCHANGED <<got, start>>
          \/ /\ got' = [got EXCEPT ![t] = IF KeepsBatch(t) THEN @ ELSE <<>>]
             /\ start' = [start EXCEPT ![t] = 0]
      BY <1>14 DEF Unlock
    <3>2. (IF KeepsBatch(t) THEN got[t] ELSE <<>>) \in Seq(Values)
      BY <1>0, <1>a
    <3>3. got' \in [Threads -> Seq(Values)]
      BY <1>a, <3>1, <3>2
    <3>4. start' \in [Threads -> Nat]
      BY <1>a, <3>1
    <3> QED
      BY <3>3, <3>4
  <2>3. pc'[t] \in {"idle", "lock"}
    BY <1>0, <1>14 DEF Unlock, Goto
  <2>4. got'[t] = IF KeepsBatch(t) THEN got[t] ELSE <<>>
    BY <1>a, <1>14 DEF Unlock, KeepsBatch
  <2>5. AtFront(got'[t], items')
    BY <1>c, <2>1, <2>4 DEF Batches
  <2> QED
    BY <2>1, <2>2, <2>3, <2>5 DEF Batches
<1>15. CASE UNCHANGED vars
  BY <1>15 DEF vars, queueVars, callVars, Batches, KeepsBatch
<1>16. CASE Next
  <2>1. PICK t \in Threads :
          \/ \E n \in Lengths : Create(t, n)
          \/ Release(t)
          \/ \E o \in Ops : CallPlain(t, o) \/ \E v \in Values : CallInput(t, o, v)
          \/ \E k \in 0..MaxBatch, n \in 1..MaxBatch : CallGetBatch(t, k, n)
          \/ \E n \in 1..MaxBatch : CallDeleteBatch(t, n)
          \/ FreeNum(t)
          \/ Step(t)
    BY <1>16 DEF Next
  <2>2. ASSUME NEW o \in Ops, CallPlain(t, o) \/ \E v \in Values : CallInput(t, o, v)
        PROVE  Batches'
    BY <1>3, <1>a, <2>2 DEF CallPlain, CallInput, queueVars
  <2>3. ASSUME NEW k \in 0..MaxBatch, NEW n \in 1..MaxBatch, CallGetBatch(t, k, n)
        PROVE  Batches'
    <3>1. Called(t, "get_batch") /\ UNCHANGED <<items, got>> /\ start' = [start EXCEPT ![t] = k]
      BY <2>3 DEF CallGetBatch, queueVars
    <3>2. k \in Nat /\ "get_batch" \in Ops
      BY LengthsAssumption DEF Ops
    <3> QED
      BY <1>3, <1>a, <3>1, <3>2
  <2>4. ASSUME NEW n \in 1..MaxBatch, CallDeleteBatch(t, n)
        PROVE  Batches'
    BY <1>3, <1>a, <2>4 DEF CallDeleteBatch, queueVars, Ops
  <2> QED
    BY <2>1, <2>2, <2>3, <2>4, <1>1, <1>2, <1>4, <1>5, <1>6, <1>7, <1>8, <1>9, <1>10, <1>11,
       <1>12, <1>13, <1>14 DEF Step
<1> QED
  BY <1>15, <1>16

\* What tuya_queue_get_batch has read from the front stays there, whatever the
\* other threads append or look at, up to the call of tuya_queue_delete_batch
\* that takes it away item by item.
THEOREM BatchInvariant == Spec => []Batches
  BY InitBatches, StepBatches, QueueInvariant, PTL DEF Spec

\* A thread that has read a batch from the front with tuya_queue_get_batch and
\* deletes it with tuya_queue_delete_batch deletes the items it has read,
\* although the mutex is free between them, unless others take items away or
\* put them in front.
THEOREM DeletedItemsWereRead == Spec => []DeletedWereRead
<1>1. IInv /\ Batches => DeletedWereRead
  <2> SUFFICES ASSUME IInv, Batches, NEW t \in Threads, op[t] = "delete_batch", pc[t] = "list",
                      got[t] # <<>>
               PROVE  items # <<>> /\ Head(items) = Head(got[t])
    BY DEF DeletedWereRead
  <2>1. AtFront(got[t], items) /\ got[t] \in Seq(Values) /\ items \in Seq(Values)
    BY DEF Batches, IInv, TypeOK
  <2> QED
    BY <2>1, FrontLemmas
<1> QED
  BY <1>1, BatchInvariant, QueueInvariant, PTL
=============================================================================
