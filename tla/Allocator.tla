------------------------------ MODULE Allocator -----------------------------
(***************************************************************************)
(* What a memory allocator promises: the blocks it has handed out and not  *)
(* taken back never share a byte.  Which blocks it picks is its own        *)
(* business.                                                               *)
(***************************************************************************)
EXTENDS Integers

VARIABLE live    \* block address -> block size, for the blocks handed out

\* The bytes of a block of s bytes at address a.
Extent(a, s) == a..(a + s - 1)

Disjoint(a, s, b, t) == a + s <= b \/ b + t <= a

AllocInit == live = [a \in {} |-> 0]

\* Hand out a block that overlaps none of those in use.
HandOut(a, s) ==
  /\ a \notin DOMAIN live
  /\ \A b \in DOMAIN live : Disjoint(a, s, b, live[b])
  /\ live' = [b \in DOMAIN live \cup {a} |-> IF b = a THEN s ELSE live[b]]

\* Take back some of the blocks.
TakeBack(gone) ==
  /\ gone \subseteq DOMAIN live
  /\ live' = [b \in DOMAIN live \ gone |-> live[b]]

\* The new blocks of a step are handed out one at a time; a deletion of a
\* whole heap takes back many at once.
AllocNext ==
  \/ \E a \in DOMAIN live' : HandOut(a, live'[a])
  \/ TakeBack(DOMAIN live \ DOMAIN live')

AllocSpec == AllocInit /\ [][AllocNext]_live
=============================================================================
