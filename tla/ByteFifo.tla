------------------------------ MODULE ByteFifo ------------------------------
(***************************************************************************)
(* What a byte ring buffer promises: a channel of at most Capacity unread  *)
(* bytes.  The k-th byte ever accepted is the number k, so two counters    *)
(* say everything: the bytes read, in order, are 0 .. read-1 and the bytes *)
(* held are read .. written-1.                                             *)
(***************************************************************************)
EXTENDS Naturals

CONSTANT Capacity

VARIABLES written,  \* how many bytes have been accepted
          read      \* how many of them have been delivered or dropped

fifoVars == <<written, read>>

FifoInit == written = 0 /\ read = 0

\* Accept n bytes: never more than fit beside the unread ones.
Accept(n) ==
  /\ written + n - read <= Capacity
  /\ written' = written + n
  /\ read' = read

\* Deliver the n oldest bytes: never more than are held.
Deliver(n) ==
  /\ read + n <= written
  /\ read' = read + n
  /\ written' = written

\* Drop everything that is held.
Drop ==
  /\ read' = written
  /\ written' = written

FifoNext == (\E n \in 1..Capacity : Accept(n) \/ Deliver(n)) \/ Drop

FifoSpec == FifoInit /\ [][FifoNext]_fifoVars
=============================================================================
