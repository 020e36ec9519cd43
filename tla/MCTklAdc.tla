------------------------------ MODULE MCTklAdc ------------------------------
(* The instance of TklAdc for TLC.                                          *)
EXTENDS TklAdc

\* One sample, also as a count beyond a byte, several, none, and more than a
\* signed char counts.
SomeConfigs ==
  {[list |-> {0}, conv_cnt |-> n] : n \in {0, 2, 6}} \cup {[list |-> {0, 1}, conv_cnt |-> 17]}
=============================================================================
