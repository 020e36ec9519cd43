--------------------------- MODULE MCSmartPointer ---------------------------
(* The instance of SmartPointer for TLC.                                    *)
EXTENDS SmartPointer
=============================================================================
