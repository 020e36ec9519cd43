----------------------------- MODULE MCRingBuf ------------------------------
(* Instances of RingBuf for TLC: who may interrupt whom.                    *)
EXTENDS RingBuf

Locked == {}
WriterInterrupts == {"writer"}
=============================================================================
