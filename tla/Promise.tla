------------------------------ MODULE Promise -------------------------------
(***************************************************************************)
(* What the platform promises the owner of an idempotency key, without     *)
(* queue, workers, versions, timers or file: one notification per key, at  *)
(* most MaxAttempts calls of a provider for it, each preceded by a claim,  *)
(* and no claim after an acknowledged cancellation.  Delivery implements   *)
(* this, with crashes and failing writes.                                  *)
(***************************************************************************)
EXTENDS Naturals

CONSTANTS Ids, Keys, Nil, MaxAttempts

VARIABLES
  owner,     \* the notification each key names
  claimed,   \* notifications a worker is about to send
  sent,      \* calls of Provider.Send per notification
  canceled   \* notifications whose cancellation was acknowledged

vars == <<owner, claimed, sent, canceled>>

Init ==
  /\ owner = [k \in Keys |-> Nil]
  /\ claimed = {}
  /\ sent = [id \in Ids |-> 0]
  /\ canceled = {}

Known == {id \in Ids : \E k \in Keys : owner[k] = id}

Accept(k, id) ==
  /\ owner[k] = Nil
  /\ id \notin Known
  /\ sent[id] = 0
  /\ id \notin canceled
  /\ owner' = [owner EXCEPT ![k] = id]
  /\ UNCHANGED <<claimed, sent, canceled>>

Claim(id) ==
  /\ id \in Known \ (claimed \cup canceled)
  /\ sent[id] < MaxAttempts
  /\ claimed' = claimed \cup {id}
  /\ UNCHANGED <<owner, sent, canceled>>

Send(id) ==
  /\ id \in claimed
  /\ claimed' = claimed \ {id}
  /\ sent' = [sent EXCEPT ![id] = @ + 1]
  /\ UNCHANGED <<owner, canceled>>

(* No provider can be chosen. *)
Release(id) ==
  /\ id \in claimed
  /\ claimed' = claimed \ {id}
  /\ UNCHANGED <<owner, sent, canceled>>

Cancel(id) ==
  /\ id \in Known
  /\ canceled' = canceled \cup {id}
  /\ UNCHANGED <<owner, claimed, sent>>

(* The process restarts: claims are gone, and a key may be free again only *)
(* if nothing was sent or acknowledged as canceled under it.               *)
Restart ==
  /\ claimed' = {}
  /\ owner' \in [Keys -> Ids \cup {Nil}]
  /\ \A k \in Keys :
       \/ owner'[k] = owner[k]
       \/ owner'[k] = Nil /\ sent[owner[k]] = 0 /\ owner[k] \notin canceled
  /\ UNCHANGED <<sent, canceled>>

Next ==
  \/ \E k \in Keys, id \in Ids : Accept(k, id)
  \/ \E id \in Ids : Claim(id) \/ Send(id) \/ Release(id) \/ Cancel(id)
  \/ Restart

Spec == Init /\ [][Next]_vars
=============================================================================
