------------------------------ MODULE MCRouter ------------------------------
(* Constant values for the model-checking runs of Router. *)
EXTENDS Router, TLC

CONSTANTS email, sms, a, b, c

(* Two adapters for email, a second channel with one of its own. *)
TwoChannels == (email :> <<a, b>>) @@ (sms :> <<c>>)
=============================================================================
