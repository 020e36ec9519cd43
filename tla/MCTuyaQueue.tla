---------------------------- MODULE MCTuyaQueue -----------------------------
(* Instances of TuyaQueue for TLC.                                         *)
EXTENDS TuyaQueue

\* Anyone calls anything.
MayAll == [t \in Threads |-> Ops]

=============================================================================
