---------------------------- MODULE SmartPointer ----------------------------
(***************************************************************************)
(* tuya_smartpointer.c: data shared by counted references.  A process is   *)
(* one reference, whichever thread has it; what a thread calls with a      *)
(* reference in hand is a step of that reference.  The count is changed    *)
(* under the mutex of the pointer, and the last put releases mutex, data   *)
(* and pointer outside it.  Creation does not ask whether there is a       *)
(* mutex; without one every lock of tkl_mutex.c fails and nobody notices,  *)
(* so a load and a store of the count are steps of their own.              *)
(*                                                                         *)
(* The callers keep to the interface: a call is made with a reference that *)
(* has not been put, and del when no other call is under way.  A caller    *)
(* that starts from a count of 0 gets its first reference before it shares *)
(* the pointer, which is a creation with one.  A creation that is refused  *)
(* (no data, no memory) leaves a NULL, which get and put ignore and which  *)
(* no caller hands to del: del does not look.                              *)
(***************************************************************************)
EXTENDS Naturals, FiniteSets

CONSTANTS
  Refs,     \* the references there can be at once
  MaxUint   \* the largest UINT_T

ASSUME SmartPointerAssumption ==
  /\ IsFiniteSet(Refs) /\ Refs # {} /\ Cardinality(Refs) <= MaxUint
  /\ MaxUint \in Nat
  /\ Refs \cap {"NULL", "free", "released"} = {}

VARIABLES
  block,    \* the memory of the SMARTPOINTER_T: "none", "live", "freed"
  mutex,    \* "NULL", "free", the reference whose call has it, "released"
  rfc,
  malk,     \* the field
  inside,   \* data points into the block of the pointer itself
  data,     \* the memory of data where it is a block of its own
  pc,       \* where the call made with each reference is
  reg,      \* the count as the call has it
  for,      \* the reference a get makes
  stray,    \* (history) a call met a pointer or mutex that was released
  badFree   \* (history) a free of what is no live block

vars == <<block, mutex, rfc, malk, inside, data, pc, reg, for, stray, badFree>>

Idle == {"out", "has"}
Quiet == \A r \in Refs : pc[r] \in Idle
Increment(n) == IF n = MaxUint THEN 0 ELSE n + 1
Decrement(n) == IF n = 0 THEN MaxUint ELSE n - 1

Init ==
  /\ block = "none" /\ mutex = "NULL" /\ rfc = 0 /\ malk = FALSE
  /\ inside = FALSE /\ data = "none"
  /\ pc = [r \in Refs |-> "out"]
  /\ reg = [r \in Refs |-> 0]
  /\ for = [r \in Refs |-> r]
  /\ stray = FALSE /\ badFree = FALSE

\* tuya_smartpointer_create(data, len, copy, Cardinality(given)).  The memset
\* clears malk, and nothing sets it.
Create(copy, given) ==
  /\ \A r \in Refs : pc[r] = "out"
  /\ block' = "live"
  /\ mutex' \in {"free", "NULL"}
  /\ rfc' = Cardinality(given)
  /\ malk' = FALSE
  /\ inside' = copy /\ data' = IF copy THEN "none" ELSE "live"
  /\ pc' = [r \in Refs |-> IF r \in given THEN "has" ELSE "out"]
  /\ stray' = FALSE /\ badFree' = FALSE
  /\ UNCHANGED <<reg, for>>

Goto(r, from, to) == pc[r] = from /\ pc' = [pc EXCEPT ![r] = to]

\* A slip: no lock around the count.
LockNever(r, from, to) ==
  /\ block = "live" /\ mutex # "released"
  /\ Goto(r, from, to)
  /\ UNCHANGED <<block, mutex, rfc, malk, inside, data, reg, for, stray, badFree>>

\* tkl_mutex_lock: waits for a mutex in use; fails at once if there is none.
Lock(r, from, to) ==
  /\ block = "live" /\ mutex \in {"free", "NULL"}
  /\ Goto(r, from, to)
  /\ mutex' = IF mutex = "free" THEN r ELSE mutex
  /\ UNCHANGED <<block, rfc, malk, inside, data, reg, for, stray, badFree>>

Load(r, from, to) ==
  /\ block = "live"
  /\ Goto(r, from, to)
  /\ reg' = [reg EXCEPT ![r] = rfc]
  /\ UNCHANGED <<block, mutex, rfc, malk, inside, data, for, stray, badFree>>

\* tkl_mutex_unlock.
Unlocked(r) == IF mutex = r THEN "free" ELSE mutex

\* tuya_smartpointer_get with reference r, to give away a further one, q.
GetBegin(r, q) ==
  /\ pc[q] = "out" /\ \A p \in Refs : for[p] = q => p = q
  /\ Goto(r, "has", "getLock")
  /\ for' = [for EXCEPT ![r] = q]
  /\ UNCHANGED <<block, mutex, rfc, malk, inside, data, reg, stray, badFree>>

GetLock(r) == Lock(r, "getLock", "getLoad")
GetLoad(r) == Load(r, "getLoad", "getStore")

GetStore(r) ==
  /\ block = "live"
  /\ Goto(r, "getStore", "getUnlock")
  /\ rfc' = Increment(reg[r])
  /\ UNCHANGED <<block, mutex, malk, inside, data, reg, for, stray, badFree>>

GetUnlock(r) ==
  /\ block = "live" /\ pc[r] = "getUnlock"
  /\ mutex' = Unlocked(r)
  /\ pc' = [pc EXCEPT ![r] = "has", ![for[r]] = "has"]
  /\ for' = [for EXCEPT ![r] = r]
  /\ UNCHANGED <<block, rfc, malk, inside, data, reg, stray, badFree>>

\* tuya_smartpointer_put, which ends the reference.
PutBegin(r) ==
  /\ Goto(r, "has", "putLock")
  /\ UNCHANGED <<block, mutex, rfc, malk, inside, data, reg, for, stray, badFree>>

PutLock(r) == Lock(r, "putLock", "putLoad")
PutLoad(r) == Load(r, "putLoad", "putStore")

PutStore(r) ==
  /\ block = "live"
  /\ Goto(r, "putStore", "putUnlock")
  /\ rfc' = Decrement(reg[r])
  /\ reg' = [reg EXCEPT ![r] = Decrement(reg[r])]
  /\ UNCHANGED <<block, mutex, malk, inside, data, for, stray, badFree>>

\* Slips: a count of one left is taken for the last; rfc-- for --rfc.
LastPutEarly(r) == reg[r] <= 1
LastPutPostfix(r) == Increment(reg[r]) = 0
LastPut(r) == reg[r] = 0

PutUnlock(r) ==
  /\ block = "live"
  /\ Goto(r, "putUnlock", IF LastPut(r) THEN "release" ELSE "out")
  /\ mutex' = Unlocked(r)
  /\ UNCHANGED <<block, rfc, malk, inside, data, reg, for, stray, badFree>>

\* tuya_smartpointer_del with reference r: all other references are void.
Del(r) ==
  /\ Quiet /\ pc[r] = "has"
  /\ pc' = [p \in Refs |-> IF p = r THEN "release" ELSE "out"]
  /\ UNCHANGED <<block, mutex, rfc, malk, inside, data, reg, for, stray, badFree>>

(***************************************************************************)
(* The end that put and del share: the mutex, the data, the pointer.       *)
(***************************************************************************)
ReleaseLock(r) ==
  /\ block = "live"
  /\ Goto(r, "release", "freeData")
  /\ mutex' = IF mutex = "NULL" THEN "NULL" ELSE "released"
  /\ stray' = (stray \/ mutex \notin {"NULL", "free"})
  /\ UNCHANGED <<block, rfc, malk, inside, data, reg, for, badFree>>

\* tkl_system_free(sp_data->data): an address inside the block of the pointer
\* is not one the heap gave out.
FreeData(r) ==
  /\ block = "live"
  /\ Goto(r, "freeData", "freeBlock")
  /\ data' = IF ~malk /\ ~inside THEN "freed" ELSE data
  /\ badFree' = (badFree \/ (~malk /\ (inside \/ data # "live")))
  /\ UNCHANGED <<block, mutex, rfc, malk, inside, reg, for, stray>>

FreeBlock(r) ==
  /\ Goto(r, "freeBlock", "out")
  /\ block' = "freed"
  /\ badFree' = (badFree \/ block # "live")
  /\ UNCHANGED <<mutex, rfc, malk, inside, data, reg, for, stray>>

\* The call meets what is released: what follows is undefined, and the model
\* ends the call there.
Stray(r) ==
  /\ pc[r] \notin Idle \cup {"freeBlock"}
  /\ \/ block = "freed"
     \/ mutex = "released" /\ pc[r] \in {"getLock", "getUnlock", "putLock", "putUnlock"}
  /\ pc' = [pc EXCEPT ![r] = "out"]
  /\ for' = [for EXCEPT ![r] = r]
  /\ stray' = TRUE
  /\ UNCHANGED <<block, mutex, rfc, malk, inside, data, reg, badFree>>

Step(r) ==
  \/ GetLock(r) \/ GetLoad(r) \/ GetStore(r) \/ GetUnlock(r)
  \/ PutLock(r) \/ PutLoad(r) \/ PutStore(r) \/ PutUnlock(r)
  \/ ReleaseLock(r) \/ FreeData(r) \/ FreeBlock(r) \/ Stray(r)

Next ==
  \/ \E copy \in BOOLEAN, given \in (SUBSET Refs) \ {{}} : Create(copy, given)
  \/ \E r \in Refs, q \in Refs : GetBegin(r, q)
  \/ \E r \in Refs : PutBegin(r) \/ Del(r) \/ Step(r)

Spec == Init /\ [][Next]_vars

(***************************************************************************)
(* Properties.                                                             *)
(***************************************************************************)

\* The pointer is released by its last holder and not before: while it has
\* its mutex, no call made with a reference meets a released pointer, a
\* released mutex, or a mutex that is released while another call has it.
NoUseAfterRelease == mutex # "NULL" => ~stray

\* "the reference data will be released when reference is 0": with a mutex, a
\* pointer to which all references were put is released.
NoLeak ==
  mutex # "NULL" /\ (\A r \in Refs : pc[r] = "out") => block = "freed"

\* Pointer and data are freed once, and as the heap gave them out, for a
\* pointer with a mutex whose data is not a copy.  (The data of a copy lies
\* inside the block of the pointer and is freed by that address, since malk is
\* never set.)
FreesOnce == mutex # "NULL" /\ ~inside => ~badFree
=============================================================================
