----------------------------- MODULE MCStation -----------------------------
(* The instance of Station for TLC.                                        *)
EXTENDS Station
=============================================================================
