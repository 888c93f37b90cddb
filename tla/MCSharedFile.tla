---------------------------- MODULE MCSharedFile ----------------------------
(* Constant values for the model-checking run of SharedFile. *)
EXTENDS SharedFile

CONSTANT k1

OneRequest == {[key |-> k1, scheduleAt |-> 0, expiresAt |-> MaxClock]}
=============================================================================
