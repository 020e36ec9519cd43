----------------------------- MODULE MCHashMap ------------------------------
(* Instances of HashMap for TLC.                                           *)
EXTENDS HashMap, TLC

Symmetric == Permutations(Elements)
=============================================================================
