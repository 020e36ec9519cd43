------------------------------ MODULE MCTklOta ------------------------------
(* Instances of TklOta for TLC.                                            *)
EXTENDS TklOta

\* An image of two sectors and a tail shorter than a block, one that ends at
\* a block boundary inside its second sector, one of a single block, one that
\* is shorter than a block, and one that is too large.
Lens == [i \in Images |-> CASE i = "long" -> 9 [] i = "even" -> 6
                            [] i = "block" -> 2
                            [] i = "short" -> 1 [] i = "huge" -> 13]
=============================================================================
