------------------------------ MODULE Delivery ------------------------------
(***************************************************************************)
(* The delivery path of one notification-api process: application.Service  *)
(* (Submit, Replay, Cancel, Pause, Recover), repository.Store (memory and  *)
(* its file), queue.Queue, worker.Dispatcher and receipt.Service, together *)
(* with the providers, the network to them, time and crashes.              *)
(*                                                                         *)
(* The store holds notifications by value and hands out copies.  The queue,*)
(* the retry timers and the workers pass a POINTER to a private copy from  *)
(* hand to hand; "ptr" is the heap of those copies and where each one is.  *)
(* A step is one critical section of Store.mu or Queue.mu together with    *)
(* the goroutine-local code around it.  Workers have no identity: nothing  *)
(* in loop or deliver depends on which worker runs it.                     *)
(***************************************************************************)
EXTENDS Notification, FiniteSets

CONSTANTS
  Ids,            \* notification ids, newID never returns one twice
  Keys,           \* tenant and idempotency key, joined by a colon as in
                  \* Create: two pairs may join to one (store.go:74)
  Ptrs,           \* addresses of the dispatcher's copies
  Nil,            \* no such entry
  Requests,       \* what clients submit: key, schedule_at, expires_at
  ReceiptEvents,  \* receipts that come in: key, status; the key is provider,
                  \* external id and sequence, joined
  QueueCapacity,  \* Config.QueueCapacity
  Concurrency,    \* Config.WorkerConcurrency
  MaxAttempts,    \* Config.MaxAttempts
  BucketCapacity, \* capacity of the dispatch token bucket
  Faults,         \* which of the faults below the environment may inject
  MaxClock,       \* bound: the last instant
  MaxVersion,     \* bound: outages are reported up to this record version
  MaxCalls        \* bound: cancel/pause requests in progress at a time

Notifications ==
  [id : Ids, key : Keys, scheduleAt : Nat, expiresAt : Nat,
   status : Status, version : Nat, attempts : Nat]

(* Where a private copy is: with Submit between Create and Enqueue, in the *)
(* queue, in a time.AfterFunc, or with a worker that has dequeued it, has  *)
(* marked it processing, or waits for Provider.Send.                       *)
Place == {"submit", "queue", "timer", "deliver", "choose", "sending"}

ASSUME ConfigAssumption ==
  /\ QueueCapacity \in Nat \ {0}
  /\ Concurrency \in Nat \ {0}
  /\ MaxAttempts \in Nat \ {0}
  /\ BucketCapacity \in Nat \ {0}
  /\ MaxClock \in Nat
  /\ MaxVersion \in Nat
  /\ MaxCalls \in Nat

ASSUME EnvironmentAssumption ==
  /\ Faults \subseteq {"crash", "disk", "outage"}
  /\ Requests \subseteq [key : Keys, scheduleAt : Nat, expiresAt : Nat]
  /\ ReceiptEvents \subseteq [key : Nat, status : ReceiptStatus]

ASSUME NilAssumption ==
  /\ Nil \notin Ids
  /\ Nil \notin Notifications
  /\ Nil \notin [at : Place, n : Notifications]

VARIABLES
  notifications,  \* Store.data.Notifications
  idempotency,    \* Store.data.Idempotency
  receipts,       \* Store.data.Receipts
  disk,           \* the snapshot in the file
  ptr,            \* [Ptrs -> [at, n] or Nil], the dispatcher's copies
  calls,          \* cancel/pause requests between their Get and their Update
  boot,           \* ids Recover has still to enqueue; the process serves when {}
  tokens,         \* Bucket.tokens
  clock,          \* time, as seen by schedule_at and expires_at
  issued,         \* history: Provider.Send calls per notification
  canceled        \* history: ids whose Cancel was answered with success

storeVars    == <<notifications, idempotency, receipts, disk>>
vars == <<notifications, idempotency, receipts, disk, ptr, calls, boot, tokens,
          clock, issued, canceled>>

(* What Submit makes of a request that leaves id and attempts empty. *)
Requested(id, r) ==
  [id |-> id, key |-> r.key, scheduleAt |-> r.scheduleAt,
   expiresAt |-> r.expiresAt, status |-> "queued", version |-> 1, attempts |-> 0]

Init ==
  /\ notifications = [id \in Ids |-> Nil]
  /\ idempotency = [k \in Keys |-> Nil]
  /\ receipts = {}
  /\ disk = [notifications |-> notifications, idempotency |-> idempotency,
             receipts |-> receipts]
  /\ ptr = [p \in Ptrs |-> Nil]
  /\ calls = {}
  /\ boot = {}
  /\ tokens = BucketCapacity
  /\ clock = 0
  /\ issued = [id \in Ids |-> 0]
  /\ canceled = {}

Up == boot = {}

-----------------------------------------------------------------------------
(* repository.Store *)

(* Mutant of persistLocked: the snapshot lacks the idempotency index. *)
persistNoIndex ==
  disk' = [notifications |-> notifications', idempotency |-> disk.idempotency,
           receipts |-> receipts']

persistLocked ==
  disk' = [notifications |-> notifications', idempotency |-> idempotency',
           receipts |-> receipts']

(* persistLocked returns an error: the old file stays, memory is not undone. *)
PersistFails == "disk" \in Faults /\ UNCHANGED disk

(* Mutant of UpdateAllowed: the expected version is not compared. *)
UpdateAnyVersion(n, expected) == notifications[n.id] # Nil

UpdateAllowed(n, expected) ==
  notifications[n.id] # Nil /\ notifications[n.id].version = expected

Put(n) ==
  /\ notifications' = [notifications EXCEPT ![n.id] = n]
  /\ UNCHANGED <<idempotency, receipts>>

(* Store.Update by a caller that ignores the error it returns. *)
Update(n, expected) ==
  \/ UpdateAllowed(n, expected) /\ Put(n) /\ (persistLocked \/ PersistFails)
  \/ ~UpdateAllowed(n, expected) /\ UNCHANGED storeVars

-----------------------------------------------------------------------------
(* queue.Queue.  The order of the heap is left out: Dequeue may return any *)
(* item, so what is shown here holds for every order.                      *)

At(where) == {p \in Ptrs : ptr[p] # Nil /\ ptr[p].at = where}

Move(p, where) == ptr' = [ptr EXCEPT ![p].at = where]
Drop(p)        == ptr' = [ptr EXCEPT ![p] = Nil]

Full == Cardinality(At("queue")) >= QueueCapacity

(* Enqueue by a caller that drops the copy when the queue is full. *)
Enqueue(p) ==
  \/ ~Full /\ Move(p, "queue")
  \/ Full /\ Drop(p)

-----------------------------------------------------------------------------
(* application.Service *)

(* newID returned id: no store, memory or file, ever saw it.  Clients leave *)
(* the id empty; what happens when they do not is the matter of Records.    *)
Fresh(id) ==
  /\ notifications[id] = Nil
  /\ disk.notifications[id] = Nil

(* Submit up to the return of Store.Create, for a key Create has not seen   *)
(* (for one it has seen, Submit returns the stored record and changes       *)
(* nothing).  A notification scheduled for later is stored and not enqueued.*)
Create(id, p, r) ==
  /\ Up
  /\ Fresh(id)
  /\ ptr[p] = Nil
  /\ idempotency[r.key] = Nil
  /\ notifications' = [notifications EXCEPT ![id] = Requested(id, r)]
  /\ idempotency' = [idempotency EXCEPT ![r.key] = id]
  /\ UNCHANGED receipts
  /\ \/ /\ persistLocked
        /\ r.scheduleAt <= clock
        /\ ptr' = [ptr EXCEPT ![p] = [at |-> "submit", n |-> Requested(id, r)]]
     \/ persistLocked /\ r.scheduleAt > clock /\ UNCHANGED ptr
     \/ PersistFails /\ UNCHANGED ptr
  /\ UNCHANGED <<calls, boot, tokens, clock, issued, canceled>>

(* Mutant of Submit: "created" is not looked at, a known key enqueues the   *)
(* stored notification again.                                               *)
SubmitAgain(id, p) ==
  \E r \in Requests :
    \/ Create(id, p, r)
    \/ /\ Up
       /\ ptr[p] = Nil
       /\ idempotency[r.key] = id
       /\ ptr' = [ptr EXCEPT ![p] = [at |-> "submit", n |-> notifications[id]]]
       /\ UNCHANGED <<storeVars, calls, boot, tokens, clock, issued, canceled>>

Submit(id, p) == \E r \in Requests : Create(id, p, r)

(* Replay submits a copy of a stored notification under a new id and key. *)
Replay(old, id, p) ==
  /\ notifications[old] # Nil
  /\ \E k \in Keys :
       Create(id, p, [key |-> k, scheduleAt |-> notifications[old].scheduleAt,
                      expiresAt |-> notifications[old].expiresAt])

(* The Queue.Enqueue at the end of Submit. *)
SubmitEnqueue(p) ==
  /\ p \in At("submit")
  /\ Enqueue(p)
  /\ UNCHANGED <<storeVars, calls, boot, tokens, clock, issued, canceled>>

(* transition, first half: Get, the ETag check, Notification.Transition. *)
TransitionGet(id, next) ==
  /\ Up
  /\ Cardinality(calls) < MaxCalls
  /\ notifications[id] # Nil
  /\ CanTransition(notifications[id], next)
  /\ calls' = calls \cup {[n |-> Transition(notifications[id], next),
                           expected |-> notifications[id].version]}
  /\ UNCHANGED <<storeVars, ptr, boot, tokens, clock, issued, canceled>>

Cancel(id) == TransitionGet(id, "canceled")
Pause(id)  == TransitionGet(id, "paused")

(* transition, second half: Store.Update and the answer to the client. *)
TransitionUpdate(c) ==
  /\ c \in calls
  /\ calls' = calls \ {c}
  /\ \/ /\ UpdateAllowed(c.n, c.expected)
        /\ Put(c.n)
        /\ persistLocked
        /\ canceled' = canceled \cup (IF c.n.status = "canceled" THEN {c.n.id} ELSE {})
     \/ UpdateAllowed(c.n, c.expected) /\ Put(c.n) /\ PersistFails /\ UNCHANGED canceled
     \/ ~UpdateAllowed(c.n, c.expected) /\ UNCHANGED <<storeVars, canceled>>
  /\ UNCHANGED <<ptr, boot, tokens, clock, issued>>

-----------------------------------------------------------------------------
(* worker.Dispatcher *)

(* loop: an idle worker dequeues; what is not due yet goes to a timer. *)
Dequeue(p) ==
  /\ Up
  /\ p \in At("queue")
  /\ Cardinality(At("deliver") \cup At("choose") \cup At("sending")) < Concurrency
  /\ Move(p, IF clock < ptr[p].n.scheduleAt THEN "timer" ELSE "deliver")
  /\ UNCHANGED <<storeVars, calls, boot, tokens, clock, issued, canceled>>

(* A time.AfterFunc runs: the schedule, the throttle or the backoff is over. *)
TimerFires(p) ==
  /\ p \in At("timer")
  /\ clock >= ptr[p].n.scheduleAt
  /\ Enqueue(p)
  /\ UNCHANGED <<storeVars, calls, boot, tokens, clock, issued, canceled>>

Expired(n) == clock > n.expiresAt

(* deliver: past expires_at.  The outcome of Transition is ignored. *)
Expire(p) ==
  /\ p \in At("deliver")
  /\ Expired(ptr[p].n)
  /\ LET n == ptr[p].n IN
       Update(IF CanTransition(n, "expired") THEN Transition(n, "expired") ELSE n,
              n.version)
  /\ Drop(p)
  /\ UNCHANGED <<calls, boot, tokens, clock, issued, canceled>>

(* Mutant of Throttle: no timer is set. *)
ThrottleForgets(p) ==
  /\ p \in At("deliver")
  /\ ~Expired(ptr[p].n)
  /\ tokens = 0
  /\ Drop(p)
  /\ UNCHANGED <<storeVars, calls, boot, tokens, clock, issued, canceled>>

(* deliver: the token bucket refuses. *)
Throttle(p) ==
  /\ p \in At("deliver")
  /\ ~Expired(ptr[p].n)
  /\ tokens = 0
  /\ Move(p, "timer")
  /\ UNCHANGED <<storeVars, calls, boot, tokens, clock, issued, canceled>>

(* Mutant of Claim: an error of persistLocked is ignored. *)
ClaimUnsaved(p) ==
  /\ p \in At("deliver")
  /\ ~Expired(ptr[p].n)
  /\ tokens > 0
  /\ tokens' = tokens - 1
  /\ LET n == ptr[p].n
         m == Transition(n, "processing")
         ok == CanTransition(n, "processing") /\ UpdateAllowed(m, n.version)
     IN \/ ok /\ Put(m) /\ (persistLocked \/ PersistFails)
           /\ ptr' = [ptr EXCEPT ![p] = [at |-> "choose", n |-> m]]
        \/ ~ok /\ UNCHANGED storeVars /\ Drop(p)
  /\ UNCHANGED <<calls, boot, clock, issued, canceled>>

(* deliver: take a token, mark the notification processing, save that.  On  *)
(* any error the worker lets go of its copy.                               *)
Claim(p) ==
  /\ p \in At("deliver")
  /\ ~Expired(ptr[p].n)
  /\ tokens > 0
  /\ tokens' = tokens - 1
  /\ LET n == ptr[p].n
         m == Transition(n, "processing")
         ok == CanTransition(n, "processing") /\ UpdateAllowed(m, n.version)
     IN \/ ok /\ Put(m) /\ persistLocked
           /\ ptr' = [ptr EXCEPT ![p] = [at |-> "choose", n |-> m]]
        \/ ok /\ Put(m) /\ PersistFails /\ Drop(p)
        \/ ~ok /\ UNCHANGED storeVars /\ Drop(p)
  /\ UNCHANGED <<calls, boot, clock, issued, canceled>>

(* deliver: Router.Choose found a provider; Provider.Send is called. *)
Send(p) ==
  /\ p \in At("choose")
  /\ LET n == [ptr[p].n EXCEPT !.attempts = @ + 1]
     IN /\ ptr' = [ptr EXCEPT ![p] = [at |-> "sending", n |-> n]]
        /\ issued' = [issued EXCEPT ![n.id] = @ + 1]
  /\ UNCHANGED <<storeVars, calls, boot, tokens, clock, canceled>>

(* Mutant of retry: one attempt too many. *)
retryOnceMore(p) ==
  LET n == ptr[p].n
      next == IF n.attempts > MaxAttempts THEN "failed" ELSE "queued"
      m == Transition(n, next)
  IN /\ \/ CanTransition(n, next) /\ Update(m, n.version)
        \/ ~CanTransition(n, next) /\ UNCHANGED storeVars
     /\ IF next = "queued" /\ CanTransition(n, next)
          THEN ptr' = [ptr EXCEPT ![p] = [at |-> "timer", n |-> m]]
          ELSE Drop(p)

(* retry: give up after MaxAttempts, otherwise queue again after a backoff. *)
(* The copy is queued again even when Store.Update refused it.             *)
retry(p) ==
  LET n == ptr[p].n
      next == IF n.attempts >= MaxAttempts THEN "failed" ELSE "queued"
      m == Transition(n, next)
  IN /\ \/ CanTransition(n, next) /\ Update(m, n.version)
        \/ ~CanTransition(n, next) /\ UNCHANGED storeVars
     /\ IF next = "queued" /\ CanTransition(n, next)
          THEN ptr' = [ptr EXCEPT ![p] = [at |-> "timer", n |-> m]]
          ELSE Drop(p)

(* Router.Choose found no healthy provider. *)
ChooseFails(p) ==
  /\ p \in At("choose")
  /\ "outage" \in Faults
  /\ ptr[p].n.version < MaxVersion
  /\ retry(p)
  /\ UNCHANGED <<calls, boot, tokens, clock, issued, canceled>>

(* Provider.Send returned an error: rejection, broken connection, or the   *)
(* deadline, whatever became of the request: all a provider may still do   *)
(* with it is to report.                                                   *)
SendFails(p) ==
  /\ p \in At("sending")
  /\ retry(p)
  /\ UNCHANGED <<calls, boot, tokens, clock, issued, canceled>>

(* Mutant of SendSucceeds: the version expected is the one Transition raised. *)
SendSucceedsRaised(p) ==
  /\ p \in At("sending")
  /\ LET n == Transition(ptr[p].n, "accepted") IN
       Update(n, n.version)
  /\ Drop(p)
  /\ UNCHANGED <<calls, boot, tokens, clock, issued, canceled>>

(* Provider.Send returned StatusAccepted. *)
SendSucceeds(p) ==
  /\ p \in At("sending")
  /\ LET n == ptr[p].n IN
       \/ CanTransition(n, "accepted") /\ Update(Transition(n, "accepted"), n.version)
       \/ ~CanTransition(n, "accepted") /\ UNCHANGED storeVars
  /\ Drop(p)
  /\ UNCHANGED <<calls, boot, tokens, clock, issued, canceled>>

-----------------------------------------------------------------------------
(* Mutant of RecordReceipt: the version is not raised. *)
RecordReceiptSilently(id, e) ==
  /\ Up
  /\ notifications[id] # Nil
  /\ e.key \notin receipts
  /\ receipts' = receipts \cup {e.key}
  /\ notifications' = [notifications EXCEPT ![id].status = e.status]
  /\ UNCHANGED idempotency
  /\ persistLocked \/ PersistFails
  /\ UNCHANGED <<ptr, calls, boot, tokens, clock, issued, canceled>>

(* receipt.Service.Ingest and Store.RecordReceipt, for a receipt not seen  *)
(* before (one seen before changes nothing).  Receipts come in any order,  *)
(* also for a notification that no provider has been asked to send, and    *)
(* the key does not tell notifications apart.                              *)
RecordReceipt(id, e) ==
  /\ Up
  /\ notifications[id] # Nil
  /\ e.key \notin receipts
  /\ receipts' = receipts \cup {e.key}
  /\ notifications' = [notifications EXCEPT ![id].status = e.status,
                                            ![id].version = @ + 1]
  /\ UNCHANGED idempotency
  /\ persistLocked \/ PersistFails
  /\ UNCHANGED <<ptr, calls, boot, tokens, clock, issued, canceled>>

-----------------------------------------------------------------------------
(* The limiter, time and the process itself *)

(* Mutant of Refill: the bucket has no capacity. *)
RefillUncapped ==
  /\ tokens' = tokens + 1
  /\ UNCHANGED <<storeVars, ptr, calls, boot, clock, issued, canceled>>

(* Mutant of Refill: an empty bucket is not refilled. *)
RefillNotEmpty ==
  /\ tokens \in 1 .. BucketCapacity - 1
  /\ tokens' = tokens + 1
  /\ UNCHANGED <<storeVars, ptr, calls, boot, clock, issued, canceled>>

Refill ==
  /\ tokens < BucketCapacity
  /\ tokens' = tokens + 1
  /\ UNCHANGED <<storeVars, ptr, calls, boot, clock, issued, canceled>>

Tick ==
  /\ clock < MaxClock
  /\ clock' = clock + 1
  /\ UNCHANGED <<storeVars, ptr, calls, boot, tokens, issued, canceled>>

(* The process dies, or is stopped, and starts again: Open reads the file, *)
(* Queued finds what Recover will enqueue.                                 *)
Crash ==
  /\ "crash" \in Faults
  /\ notifications' = disk.notifications
  /\ idempotency' = disk.idempotency
  /\ receipts' = disk.receipts
  /\ ptr' = [p \in Ptrs |-> Nil]
  /\ calls' = {}
  /\ boot' = {id \in Ids : /\ disk.notifications[id] # Nil
                           /\ disk.notifications[id].status = "queued"}
  /\ tokens' = BucketCapacity
  /\ UNCHANGED <<disk, clock, issued, canceled>>

(* One round of the loop in Recover, before the workers and the API start. *)
Recover(id, p) ==
  /\ id \in boot
  /\ ptr[p] = Nil
  /\ boot' = boot \ {id}
  /\ ptr' = IF Full THEN ptr
            ELSE [ptr EXCEPT ![p] = [at |-> "queue", n |-> notifications[id]]]
  /\ UNCHANGED <<storeVars, calls, tokens, clock, issued, canceled>>

-----------------------------------------------------------------------------
Worker(p) ==
  \/ Expire(p) \/ Throttle(p) \/ Claim(p)
  \/ Send(p) \/ ChooseFails(p) \/ SendFails(p) \/ SendSucceeds(p)

Next ==
  \/ \E id \in Ids, p \in Ptrs :
       \/ Submit(id, p)
       \/ Recover(id, p)
       \/ \E old \in Ids : Replay(old, id, p)
  \/ \E p \in Ptrs : SubmitEnqueue(p) \/ Dequeue(p) \/ TimerFires(p) \/ Worker(p)
  \/ \E id \in Ids : Cancel(id) \/ Pause(id)
  \/ \E c \in calls : TransitionUpdate(c)
  \/ \E id \in Ids, e \in ReceiptEvents : RecordReceipt(id, e)
  \/ Refill \/ Tick \/ Crash

Spec == Init /\ [][Next]_vars

(* Goroutines run, timers fire, buckets fill and time passes.  A worker    *)
(* looks at a queue that is not empty at least every 500 ms.  Clients,     *)
(* receipts and faults: no obligation.                                     *)
Fairness ==
  /\ WF_vars(\E p \in Ptrs : Dequeue(p))
  /\ \A p \in Ptrs : /\ WF_vars(SubmitEnqueue(p))
                     /\ WF_vars(TimerFires(p))
                     /\ WF_vars(Worker(p))
  /\ WF_vars(\E id \in Ids, p \in Ptrs : Recover(id, p))
  /\ WF_vars(\E c \in calls : TransitionUpdate(c))
  /\ WF_vars(Refill)
  /\ WF_vars(Tick)

FairSpec == Spec /\ Fairness

-----------------------------------------------------------------------------
(* Properties *)

Calls == [n : Notifications, expected : Nat]

Snapshots ==
  [notifications : [Ids -> Notifications \cup {Nil}],
   idempotency : [Keys -> Ids \cup {Nil}],
   receipts : SUBSET Nat]

StoreTypeOK ==
  /\ notifications \in [Ids -> Notifications \cup {Nil}]
  /\ \A id \in Ids : notifications[id] # Nil => notifications[id].id = id
  /\ idempotency \in [Keys -> Ids \cup {Nil}]
  /\ receipts \in SUBSET Nat

DiskTypeOK ==
  /\ disk \in Snapshots
  /\ \A id \in Ids : disk.notifications[id] # Nil => disk.notifications[id].id = id

(* Every variable keeps its shape: maps hold records or nothing, the       *)
(* dispatcher's copies are complete notifications, the bucket stays within *)
(* its capacity.                                                           *)
TypeOK ==
  /\ StoreTypeOK
  /\ DiskTypeOK
  /\ ptr \in [Ptrs -> [at : Place, n : Notifications] \cup {Nil}]
  /\ calls \in SUBSET Calls
  /\ boot \in SUBSET Ids
  /\ \A id \in boot : notifications[id] # Nil
  /\ tokens \in 0 .. BucketCapacity
  /\ clock \in 0 .. MaxClock
  /\ issued \in [Ids -> Nat]
  /\ canceled \in SUBSET Ids

(* A notification has at most one private copy among Submit, the queue, the *)
(* timers and the workers, so no two workers ever deliver it at once.  The  *)
(* queue does not look for duplicates: this rests on who enqueues what.     *)
OneCopy ==
  \A p, q \in Ptrs :
    ptr[p] # Nil /\ ptr[q] # Nil /\ ptr[p].n.id = ptr[q].n.id => p = q

(* The retry budget: whatever crashes, failing writes, receipts and client  *)
(* calls come between, Provider.Send is called at most MaxAttempts times    *)
(* for a notification.                                                      *)
SendBudget == \A id \in Ids : issued[id] <= MaxAttempts

(* A worker calls a provider only for what the file no longer shows queued: *)
(* a crash during the call cannot make Recover send the attempt again.      *)
ClaimIsDurable ==
  \A p \in Ptrs :
    ptr[p] # Nil /\ ptr[p].at \in {"choose", "sending"}
      => disk.notifications[ptr[p].n.id] # Nil
         /\ disk.notifications[ptr[p].n.id].status # "queued"

(* Once Cancel has been answered with success the notification never is     *)
(* queued or processing again, in memory or in the file: no stale copy, no  *)
(* late receipt and no restart brings it back into delivery.                *)
CanceledStaysOut ==
  \A id \in canceled :
    /\ notifications[id] # Nil
    /\ notifications[id].status \notin {"queued", "processing"}
    /\ disk.notifications[id] # Nil
    /\ disk.notifications[id].status \notin {"queued", "processing"}

(* An idempotency key names one notification and every notification is      *)
(* found under its key, in memory and in what a restart would read: a       *)
(* repeated submission cannot create a second notification.                 *)
OneNotificationPerKey ==
  /\ \A id \in Ids : notifications[id] # Nil
       => idempotency[notifications[id].key] = id
  /\ \A id \in Ids : disk.notifications[id] # Nil
       => disk.idempotency[disk.notifications[id].key] = id

(* No stored notification changes without a higher version. *)
VersionsRise ==
  \A id \in Ids :
    notifications[id] # Nil /\ notifications'[id] # notifications[id]
      => /\ notifications'[id] # Nil
         /\ notifications'[id].version > notifications[id].version

(* The version is usable as an ETag: no step of any actor changes a stored  *)
(* notification without raising its version, so one version names one       *)
(* content.  (With failing writes a restart may fall back to an older       *)
(* version: the run that checks this has none, the theorem assumes none.)   *)
ETagIdentifiesContent == [][VersionsRise]_vars

StatusIs(id, S) == notifications[id] # Nil /\ notifications[id].status \in S

(* Without crashes and failing writes, with room in the queue, and if the   *)
(* router's outages end (MaxVersion bounds them: they use up no attempt),   *)
(* every queued notification that is not scheduled for later leaves queued  *)
(* and processing: it is sent, refused for good, expired, paused or         *)
(* canceled, and no client call or receipt in between leaves it behind.     *)
Settles ==
  \A id \in Ids : StatusIs(id, {"queued"}) ~> ~StatusIs(id, {"queued", "processing"})

(* Somebody still holds a copy of id, or Recover is about to make one.      *)
Held(id) == id \in boot \/ \E p \in Ptrs : ptr[p] # Nil /\ ptr[p].n.id = id

(* Whoever holds a copy of a queued notification keeps it, passes it on, or *)
(* leaves it no longer queued, unless the queue is full.                    *)
StrandsNothing ==
  \A id \in Ids :
    StatusIs(id, {"queued"}) /\ Held(id) /\ ~Full
      => (StatusIs(id, {"queued"}) => Held(id))'

(* Nothing but a full queue strands a queued notification: a step after     *)
(* which a stored notification is still queued but nobody holds a copy of   *)
(* it any more was made with the queue full (Submit, a timer or Recover,    *)
(* all of which let go of what Enqueue refuses).  No throttle, version      *)
(* conflict, failing write of a worker, expiry or restart leaves one        *)
(* behind.  (What never had a copy, being scheduled for later or refused by *)
(* the file when it was submitted, is not spoken of; nor is what is no      *)
(* longer queued: a claim whose save fails is given up and leaves the       *)
(* notification processing in memory, with no holder, at least until a      *)
(* restart.)                                                                *)
OnlyFullStrands == [][StrandsNothing]_vars

(* The safety half of Settles, for what waits: without failing writes, and  *)
(* while the queue never is full, whoever is to deliver a queued            *)
(* notification that is not scheduled for later has a copy of it, also      *)
(* after crashes.  Nothing but that copy would ever bring it to a provider. *)
QueuedIsHeld ==
  \A id \in Ids :
    StatusIs(id, {"queued"}) /\ notifications[id].scheduleAt = 0 => Held(id)

(* The safety half of Settles, for what is being sent: without crashes and  *)
(* failing writes a notification is processing only while a worker has it   *)
(* whose Update the store will not refuse, whatever clients and receipts    *)
(* changed during Provider.Send.                                            *)
ProcessingIsHeld ==
  \A id \in Ids :
    StatusIs(id, {"processing"})
      => \E p \in At("choose") \cup At("sending") :
           ptr[p].n.id = id /\ ptr[p].n.version = notifications[id].version

(* The abstract specification, read off this one: a notification is claimed *)
(* while its worker is between the save of "processing" and Provider.Send.  *)
P == INSTANCE Promise WITH
       owner <- idempotency,
       claimed <- {ptr[p].n.id : p \in At("choose")},
       sent <- issued

(* The delivery path keeps the promise of module Promise: whatever crashes, *)
(* failing writes, races and retries do, a key never names a second         *)
(* notification once the first was sent or canceled, providers are called   *)
(* only after a claim and within the budget, and an acknowledged Cancel     *)
(* lets through at most the one worker that had claimed before it.          *)
KeepsPromise == P!Spec

(* README, "Domain and state machine": the only arrow into processing comes *)
(* from queued.                                                             *)
ProcessingOnlyFromQueued ==
  [][\A id \in Ids :
       StatusIs(id, Status \ {"queued", "processing"})
         => ~StatusIs(id, {"processing"})']_vars

(* README, "Operations": a restart recovers what a crash interrupted: a     *)
(* notification does not stay in processing for ever.                       *)
ProcessingEnds ==
  \A id \in Ids : []<>~StatusIs(id, {"processing"})

(* A notification with a schedule_at is handed to a provider, or expires,   *)
(* once its time has come.                                                  *)
ScheduledIsDelivered ==
  \A id \in Ids :
    StatusIs(id, {"queued"}) /\ clock >= notifications[id].scheduleAt
      ~> ~StatusIs(id, {"queued"})

-----------------------------------------------------------------------------
(* The inductive invariant behind OneCopy, SendBudget, ClaimIsDurable,     *)
(* CanceledStaysOut and OneNotificationPerKey, in named parts.             *)

Live(p) == ptr[p] # Nil
Waiting == {"submit", "queue", "timer", "deliver"}
Working == {"choose", "sending"}

(* A copy is of a saved notification, is never ahead of it, carries the     *)
(* number of sends so far, and its status tells where it is.                *)
CopyOK(p) ==
  LET n == ptr[p].n
      s == notifications[n.id]
      d == disk.notifications[n.id]
  IN /\ s # Nil /\ d # Nil
     /\ n.key = s.key
     /\ n.version <= s.version
     /\ n.attempts = issued[n.id]
     /\ ptr[p].at \in Waiting => n.status = "queued" /\ n.attempts < MaxAttempts
     /\ ptr[p].at = "choose" => n.attempts < MaxAttempts
     /\ ptr[p].at = "sending" => n.attempts <= MaxAttempts
     /\ ptr[p].at \in Working =>
          /\ n.status = "processing"
          /\ s.status # "queued" /\ d.status # "queued"
          /\ n.version = s.version => s.status = "processing"

CopyInv == \A p \in Ptrs : Live(p) => CopyOK(p)

(* What a restart enqueues, or would enqueue, carries the number of sends.  *)
QueuedInv ==
  \A id \in Ids :
    /\ StatusIs(id, {"queued"}) =>
         /\ notifications[id].attempts = issued[id]
         /\ issued[id] < MaxAttempts
    /\ disk.notifications[id] # Nil /\ disk.notifications[id].status = "queued" =>
         /\ disk.notifications[id].attempts = issued[id]
         /\ issued[id] < MaxAttempts

(* Memory knows every id in the file; nothing is sent that was never saved. *)
DiskInv ==
  \A id \in Ids :
    /\ notifications[id] = Nil => disk.notifications[id] = Nil
    /\ disk.notifications[id] = Nil => issued[id] = 0

(* A copy of a canceled notification is so far behind that neither its own  *)
(* version nor the one the next retry gives it can match the store's.       *)
CancelOK(p) ==
  LET n == ptr[p].n IN
  n.id \in canceled \/ StatusIs(n.id, {"canceled"}) =>
    /\ ptr[p].at \in Waiting => n.version < notifications[n.id].version
    /\ ptr[p].at \in Working => n.version + 1 < notifications[n.id].version

CancelInv == \A p \in Ptrs : Live(p) => CancelOK(p)

(* A client call that would still pass the version check holds the          *)
(* transition of what is stored now.                                        *)
CallInv ==
  \A c \in calls :
    LET s == notifications[c.n.id] IN
    /\ s # Nil
    /\ c.n.status \in {"canceled", "paused"}
    /\ c.n.key = s.key
    /\ c.expected <= s.version
    /\ c.expected = s.version =>
         CanTransition(s, c.n.status) /\ c.n = Transition(s, c.n.status)

(* While Recover runs, nothing else touches the store or the queue. *)
BootInv ==
  /\ boot # {} => /\ notifications = disk.notifications
                  /\ calls = {}
                  /\ \A p \in Ptrs : Live(p) => ptr[p].at = "queue"
  /\ \A id \in boot :
       /\ StatusIs(id, {"queued"})
       /\ \A p \in Ptrs : Live(p) => ptr[p].n.id # id

DeliveryInv ==
  /\ TypeOK
  /\ OneCopy
  /\ CopyInv
  /\ QueuedInv
  /\ DiskInv
  /\ SendBudget
  /\ CanceledStaysOut
  /\ CancelInv
  /\ CallInv
  /\ BootInv
  /\ OneNotificationPerKey

(* A copy that waits for its delivery is of the stored version as long as   *)
(* that is queued: only what is no longer queued can refuse its Update.     *)
CurrentInv ==
  \A p \in Ptrs :
    Live(p) /\ ptr[p].at \in Waiting /\ StatusIs(ptr[p].n.id, {"queued"})
      => ptr[p].n.version = notifications[ptr[p].n.id].version
=============================================================================
