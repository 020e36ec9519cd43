----------------------------- MODULE MCTklFlash -----------------------------
(* Instances of TklFlash for TLC.                                          *)
EXTENDS TklFlash, TLC

AppSymmetry == Permutations(Apps)
=============================================================================
