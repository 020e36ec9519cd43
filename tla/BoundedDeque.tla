----------------------------- MODULE BoundedDeque ---------------------------
(***************************************************************************)
(* What a queue of at most max items promises to all its users together:   *)
(* each operation happens at once, items leave from the front in the order *)
(* they are in, and no operation does more than one of these things.       *)
(***************************************************************************)
EXTENDS Naturals, Sequences

CONSTANT Values

VARIABLES deque, max

DequeInit == deque = <<>> /\ max = 0

Create == deque = <<>> /\ deque' = <<>> /\ max' \in Nat \ {0}
Destroy == deque' = <<>> /\ max' = 0
PushBack(v) == Len(deque) < max /\ deque' = Append(deque, v) /\ UNCHANGED max
PushFront(v) == Len(deque) < max /\ deque' = <<v>> \o deque /\ UNCHANGED max
PopFront == deque # <<>> /\ deque' = Tail(deque) /\ UNCHANGED max
Clear == deque' = <<>> /\ UNCHANGED max

DequeNext ==
  \/ max = 0 /\ Create
  \/ max > 0 /\ (Destroy \/ (\E v \in Values : PushBack(v) \/ PushFront(v)) \/ PopFront \/ Clear)

DequeSpec == DequeInit /\ [][DequeNext]_<<deque, max>>
=============================================================================
