---------------------------- MODULE Notification ----------------------------
(***************************************************************************)
(* The notification entity of internal/notification/domain: its statuses,  *)
(* the transitions Notification.Transition allows and what one transition  *)
(* does to a copy of the record.  Addresses, bodies, channels, errors and  *)
(* wall-clock stamps are abstracted away: no state change depends on them. *)
(***************************************************************************)
EXTENDS Naturals

Status == {"queued", "processing", "accepted", "sent", "delivered", "bounced",
           "complained", "failed", "expired", "canceled", "paused"}

(* The map "allowed" of Transition, as a set of <<from, to>> pairs.        *)
allowed ==
  ({"queued"}     \X {"processing", "canceled", "paused", "expired"}) \cup
  ({"processing"} \X {"accepted", "sent", "failed", "queued", "paused"}) \cup
  ({"accepted"}   \X {"sent", "delivered", "bounced", "failed"}) \cup
  ({"sent"}       \X {"delivered", "bounced", "complained", "failed"}) \cup
  ({"paused"}     \X {"queued", "canceled"})

(* Transition(next) returns no error.                                      *)
CanTransition(n, next) == n.status = next \/ <<n.status, next>> \in allowed

(* The record after a Transition(next) that returned no error: moving to   *)
(* the status it already has is a no-op that leaves the version alone.     *)
Transition(n, next) ==
  IF n.status = next
    THEN n
    ELSE [n EXCEPT !.status = next, !.version = @ + 1]

(* The statuses receipt.Service.Ingest accepts.                            *)
ReceiptStatus ==
  {"accepted", "sent", "delivered", "bounced", "complained", "failed"}
=============================================================================
