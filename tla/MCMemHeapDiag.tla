--------------------------- MODULE MCMemHeapDiag ----------------------------
(* An instance of MemHeap and MemHeapDiag for TLC.                          *)
EXTENDS MemHeapDiag

\* One area of up to four blocks, or in its place two that touch and hold one
\* block each, the second one misaligned by three bytes; and an area too
\* small to hold a block.
OverlappingAreas == {<<8, 68>>, <<8, 28>>, <<37, 31>>, <<96, 20>>}
=============================================================================
