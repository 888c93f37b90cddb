----------------------------- MODULE MCDelivery -----------------------------
(* Constant values for the model-checking runs of Delivery. *)
EXTENDS Delivery, TLC

CONSTANTS k1, k2

Symmetry == Permutations(Ids) \cup Permutations(Ptrs)

Never == MaxClock

(* One immediate request. *)
OneRequest == {[key |-> k1, scheduleAt |-> 0, expiresAt |-> Never]}

(* One immediate request that may or may not expire. *)
EitherRequest == OneRequest \cup {[key |-> k1, scheduleAt |-> 0, expiresAt |-> 0]}

(* One request for a later time. *)
ScheduledRequest == {[key |-> k1, scheduleAt |-> 1, expiresAt |-> Never]}

(* Reports of a hand-over and of the delivery, which may come at any time. *)
TwoReceipts ==
  {[key |-> 1, status |-> "sent"], [key |-> 2, status |-> "delivered"]}
OneReceipt == {[key |-> 1, status |-> "delivered"]}
NoReceipts == {}
=============================================================================
