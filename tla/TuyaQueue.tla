------------------------------ MODULE TuyaQueue -----------------------------
(***************************************************************************)
(* tuya_queue.c: a queue of at most queue_len items shared by threads.     *)
(* Items are linked in a list; queue_free counts the places left.  A mutex *)
(* guards both, so that they change together, but tuya_queue_get_free_num  *)
(* reads without it, and tuya_queue_delete_batch takes it once per item.   *)
(***************************************************************************)
EXTENDS Integers, Sequences, FiniteSets

CONSTANTS Threads,
          Free,      \* nobody: no holder of the mutex
          May,       \* the operations each thread calls
          Values,    \* the items
          NoItem,    \* none of them
          Lengths,   \* queue_len at creation
          MaxBatch   \* bound: the largest start and num of the batch calls

Ops == {"input", "instant", "output", "peek", "traverse", "clear", "get_batch",
        "delete_batch", "free_num", "used_num", "create_release"}

ASSUME ThreadsAssumption == Free \notin Threads /\ May \in [Threads -> SUBSET Ops]
ASSUME ValuesAssumption == NoItem \notin Values
ASSUME LengthsAssumption == Lengths \subseteq Nat \ {0} /\ MaxBatch \in Nat

VARIABLES len,     \* queue_len; 0 while there is no queue
          free,    \* queue_free
          items,   \* the list, from head.next on
          lock,    \* holder of the queue's mutex
          pc,      \* where each thread is
          op, arg, \* its operation and item
          start, num,  \* its start, and count
          got,     \* what the call copied; of a get_batch at the front, the
                   \* items of it that the thread has not deleted since,
                   \* until someone else changes the front
          count,   \* the number that a free_num or used_num returns
          ret      \* "ok", "full" or "none" (OPRT_NOT_FOUND)

queueVars == <<len, free, items, lock>>
callVars == <<op, arg, start, num, got, count, ret>>
vars == <<queueVars, pc, callVars>>

Init ==
  /\ len = 0 /\ free = 0 /\ items = <<>> /\ lock = Free
  /\ pc = [t \in Threads |-> "idle"]
  /\ op = [t \in Threads |-> "output"] /\ arg = [t \in Threads |-> NoItem]
  /\ start = [t \in Threads |-> 0] /\ num = [t \in Threads |-> 0]
  /\ got = [t \in Threads |-> <<>>] /\ ret = [t \in Threads |-> "ok"]
  /\ count = [t \in Threads |-> 0]

Goto(t, from, to) == pc[t] = from /\ pc' = [pc EXCEPT ![t] = to]
Elems(s) == {s[i] : i \in DOMAIN s}

\* The items that are in the queue, or that a thread is about to put there
\* or has just read; an item that is none of these may be sent again.
InUse == Elems(items) \cup Elems([t \in Threads |-> arg[t]])
         \cup UNION {Elems(got[t]) : t \in Threads}

-----------------------------------------------------------------------------
(* tuya_queue_create and tuya_queue_release.  Whoever releases the queue   *)
(* sees to it that no one uses it any more.                                *)

Create(t, n) ==
  /\ len = 0 /\ "create_release" \in May[t]
  /\ len' = n /\ free' = n
  /\ UNCHANGED <<items, lock, pc, callVars>>

\* Clear, release the mutex and free the queue.
Release(t) ==
  /\ len > 0 /\ "create_release" \in May[t]
  /\ \A u \in Threads : pc[u] = "idle"
  /\ len' = 0 /\ free' = 0 /\ items' = <<>>
  /\ got' = [u \in Threads |-> <<>>] /\ ret' = [u \in Threads |-> "ok"]
  /\ count' = [u \in Threads |-> 0]
  /\ UNCHANGED <<lock, pc, op, arg, start, num>>

-----------------------------------------------------------------------------
(* A call: what it does before it takes the mutex.  An item that finds no  *)
(* memory (OPRT_MALLOC_FAILED) leaves no trace.                            *)

Called(t, o) ==
  /\ len > 0 /\ o \in May[t] /\ Goto(t, "idle", "lock")
  /\ op' = [op EXCEPT ![t] = o] /\ count' = [count EXCEPT ![t] = 0]

CallInput(t, o, v) ==
  /\ o \in {"input", "instant"} /\ v \notin InUse
  /\ Called(t, o) /\ arg' = [arg EXCEPT ![t] = v]
  /\ UNCHANGED <<queueVars, start, num, got, ret>>

CallPlain(t, o) ==
  /\ o \in {"output", "peek", "traverse", "clear", "used_num"}
  /\ Called(t, o)
  /\ UNCHANGED <<queueVars, arg, start, num, got, ret>>

CallGetBatch(t, s, n) ==
  /\ n > 0 /\ Called(t, "get_batch")
  /\ start' = [start EXCEPT ![t] = s] /\ num' = [num EXCEPT ![t] = n]
  /\ UNCHANGED <<queueVars, arg, got, ret>>

CallDeleteBatch(t, n) ==
  /\ n > 0 /\ Called(t, "delete_batch") /\ num' = [num EXCEPT ![t] = n]
  /\ UNCHANGED <<queueVars, arg, start, got, ret>>

\* tuya_queue_get_free_num takes no mutex.
FreeNum(t) ==
  /\ len > 0 /\ "free_num" \in May[t] /\ pc[t] = "idle"
  /\ count' = [count EXCEPT ![t] = free]
  /\ UNCHANGED <<queueVars, pc, op, arg, start, num, got, ret>>

Lock(t) ==
  /\ lock = Free /\ Goto(t, "lock", "list") /\ lock' = t
  /\ UNCHANGED <<len, free, items, callVars>>

-----------------------------------------------------------------------------
(* Under the mutex: first the list, then the count.                        *)

Linked(o, v) == IF o = "input" THEN Append(items, v) ELSE <<v>> \o items

\* A batch that a thread has read is not at the front any more, of any thread
\* but t.
FrontChanged(t) == [u \in Threads |-> IF u = t THEN got[u] ELSE <<>>]

\* Slip: one place more than there is.
HasRoomForOneMore == free >= 0

HasRoom == free > 0

Link(t) ==
  /\ op[t] \in {"input", "instant"}
  /\ \/ /\ HasRoom /\ Goto(t, "list", "count")
        /\ items' = Linked(op[t], arg[t])
        /\ got' = IF op[t] = "input" THEN got ELSE FrontChanged(t)
        /\ UNCHANGED ret
     \/ /\ ~HasRoom /\ Goto(t, "list", "unlock")
        /\ ret' = [ret EXCEPT ![t] = "full"]
        /\ UNCHANGED <<items, got>>
  /\ UNCHANGED <<len, free, lock, op, arg, start, num, count>>

\* Slip: the count goes down for an item that came in front.
CountLinkTwice(t) ==
  /\ op[t] \in {"input", "instant"} /\ Goto(t, "count", "unlock")
  /\ free' = IF op[t] = "instant" THEN free - 2 ELSE free - 1
  /\ ret' = [ret EXCEPT ![t] = "ok"]
  /\ UNCHANGED <<len, items, lock, op, arg, start, num, got, count>>

CountLink(t) ==
  /\ op[t] \in {"input", "instant"} /\ Goto(t, "count", "unlock")
  /\ free' = free - 1 /\ ret' = [ret EXCEPT ![t] = "ok"]
  /\ UNCHANGED <<len, items, lock, op, arg, start, num, got, count>>

HasItem == free < len

\* Slip: the item at head.prev leaves, the one that came last.
WithoutLast == SubSeq(items, 1, Len(items) - 1)

WithoutFirst == Tail(items)

\* tuya_queue_output, called once or by tuya_queue_delete_batch.
Unlink(t) ==
  /\ op[t] \in {"output", "delete_batch"}
  /\ \/ /\ HasItem /\ Goto(t, "list", "count")
        /\ items' = WithoutFirst /\ got' = FrontChanged(t)
        /\ UNCHANGED ret
     \/ /\ ~HasItem /\ Goto(t, "list", "unlock")
        /\ ret' = [ret EXCEPT ![t] = "none"] /\ UNCHANGED <<items, got>>
  /\ UNCHANGED <<len, free, lock, op, arg, start, num, count>>

CountUnlink(t) ==
  /\ op[t] \in {"output", "delete_batch"} /\ Goto(t, "count", "unlock")
  /\ free' = free + 1 /\ ret' = [ret EXCEPT ![t] = "ok"]
  /\ got' = [got EXCEPT ![t] = IF op[t] = "delete_batch" /\ @ # <<>> THEN Tail(@) ELSE @]
  /\ UNCHANGED <<len, items, lock, op, arg, start, num, count>>

\* tuya_queue_clear unlinks one item after the other and then resets the
\* count.
ClearOne(t) ==
  /\ op[t] = "clear" /\ pc[t] = "list" /\ items # <<>>
  /\ items' = Tail(items) /\ got' = FrontChanged(t)
  /\ UNCHANGED <<len, free, lock, pc, op, arg, start, num, count, ret>>

ClearCount(t) ==
  /\ op[t] = "clear" /\ items = <<>> /\ Goto(t, "list", "unlock")
  /\ free' = len
  /\ ret' = [ret EXCEPT ![t] = "ok"]
  /\ UNCHANGED <<len, items, lock, op, arg, start, num, got, count>>

Least(m, n) == IF m < n THEN m ELSE n

\* Slip: the walk starts one item too late.
BatchAfterStart(s, n) == SubSeq(items, s + 2, Least(s + n + 1, Len(items)))

Batch(s, n) == SubSeq(items, s + 1, Least(s + n, Len(items)))

\* What a reader copies: tuya_queue_peek the first item, if there is one;
\* tuya_queue_get_batch num items from start on; tuya_queue_traverse shows
\* its callback all of them.
Copied(t) ==
  CASE op[t] = "peek" -> Batch(0, 1)
    [] op[t] = "get_batch" -> Batch(start[t], num[t])
    [] op[t] = "traverse" -> items

Wanted(t) ==
  CASE op[t] = "peek" -> 1 [] op[t] = "get_batch" -> num[t] [] op[t] = "traverse" -> Len(items)

Read(t) ==
  /\ op[t] \in {"peek", "get_batch", "traverse"} /\ Goto(t, "list", "unlock")
  /\ got' = [got EXCEPT ![t] = Copied(t)]
  /\ ret' = [ret EXCEPT ![t] = IF Len(Copied(t)) = Wanted(t) THEN "ok" ELSE "none"]
  /\ UNCHANGED <<queueVars, op, arg, start, num, count>>

UsedNum(t) ==
  /\ op[t] = "used_num" /\ Goto(t, "list", "unlock")
  /\ count' = [count EXCEPT ![t] = len - free]
  /\ UNCHANGED <<queueVars, op, arg, start, num, got, ret>>

-----------------------------------------------------------------------------
KeepsBatch(t) == op[t] = "delete_batch" \/ (op[t] = "get_batch" /\ start[t] = 0)

\* The call returns (its result is forgotten once the caller has it, but
\* for a batch it has yet to delete), or tuya_queue_delete_batch goes on to the next item.
Unlock(t) ==
  /\ lock' = Free
  /\ \/ /\ op[t] = "delete_batch" /\ num[t] > 1 /\ ret[t] = "ok"
        /\ Goto(t, "unlock", "lock") /\ num' = [num EXCEPT ![t] = @ - 1]
        /\ UNCHANGED <<arg, start, got, count, ret>>
     \/ /\ op[t] # "delete_batch" \/ num[t] = 1 \/ ret[t] # "ok"
        /\ Goto(t, "unlock", "idle") /\ num' = [num EXCEPT ![t] = 0]
        /\ arg' = [arg EXCEPT ![t] = NoItem] /\ start' = [start EXCEPT ![t] = 0]
        /\ got' = [got EXCEPT ![t] = IF KeepsBatch(t) THEN @ ELSE <<>>]
        /\ ret' = [ret EXCEPT ![t] = "ok"] /\ count' = [count EXCEPT ![t] = 0]
  /\ UNCHANGED <<len, free, items, op>>

Step(t) ==
  \/ Lock(t) \/ Link(t) \/ CountLink(t) \/ Unlink(t) \/ CountUnlink(t)
  \/ ClearOne(t) \/ ClearCount(t) \/ Read(t) \/ UsedNum(t) \/ Unlock(t)

Next ==
  \E t \in Threads :
    \/ \E n \in Lengths : Create(t, n)
    \/ Release(t)
    \/ \E o \in Ops : CallPlain(t, o) \/ \E v \in Values : CallInput(t, o, v)
    \/ \E s \in 0..MaxBatch, n \in 1..MaxBatch : CallGetBatch(t, s, n)
    \/ \E n \in 1..MaxBatch : CallDeleteBatch(t, n)
    \/ FreeNum(t)
    \/ Step(t)

Spec == Init /\ [][Next]_vars

-----------------------------------------------------------------------------
\* Type invariant; a thread has the mutex while it is between lock and
\* unlock.
TypeOK ==
  /\ len \in Lengths \cup {0} /\ free \in 0..len
  /\ items \in Seq(Values)
  /\ pc \in [Threads -> {"idle", "lock", "list", "count", "unlock"}]
  /\ op \in [Threads -> Ops] /\ num \in [Threads -> 0..MaxBatch]
  /\ \A t \in Threads : (lock = t) <=> (pc[t] \in {"list", "count", "unlock"})

\* Whenever the mutex is free, places and items add up to the length: no
\* sequence of operations of any threads loses or invents a place.
PlacesAddUp == lock = Free => free + Len(items) = len

\* The queue never holds more items than it was created for, not even while
\* an operation is between the list and the count.
NeverOverfull == Len(items) <= len

\* tuya_queue_get_free_num, which reads without the mutex, is at most one
\* item wrong unless a clear is under way.
FreeNumNearlyRight ==
  (\A t \in Threads : op[t] = "clear" => pc[t] # "list")
     => free + Len(items) \in (len - 1)..(len + 1)

\* A consumer that reads a batch from the front and deletes as many items
\* deletes those it has read, though delete_batch leaves the mutex between
\* the items, whatever others put at the back: it goes wrong only when
\* someone else takes items away or puts them in front.
DeletedWereRead ==
  \A t \in Threads :
    op[t] = "delete_batch" /\ pc[t] = "list" /\ got[t] # <<>>
      => items # <<>> /\ Head(items) = Head(got[t])

\* To its users the queue is a bounded deque: every operation takes effect
\* at once, a clear included, whatever runs beside it.
Clearing == \E t \in Threads : op[t] = "clear" /\ pc[t] = "list"
Abstract == INSTANCE BoundedDeque WITH deque <- IF Clearing THEN <<>> ELSE items, max <- len
ImplementsDeque == Abstract!DequeSpec
=============================================================================
