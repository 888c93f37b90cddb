------------------------ MODULE DeliverySafetyProofs ------------------------
(***************************************************************************)
(* DeliveryInv is an inductive invariant of Delivery: no second copy, no   *)
(* send beyond the budget, no way back from a cancellation, one            *)
(* notification per key, whatever crashes, failing writes, receipts and    *)
(* client calls come between the steps of a delivery.  From it follow the  *)
(* safety halves of Settles: whatever is queued or processing is held by   *)
(* somebody who can move it on.                                            *)
(***************************************************************************)
EXTENDS DeliveryProofs, FiniteSetTheorems

-----------------------------------------------------------------------------
(* What the steps that change one stored record have in common *)

(* The record of id is replaced by one a version on (or by itself), and     *)
(* saved or not; nothing is enqueued, restarted or sent.                    *)
StoreStep(id) ==
  LET s == notifications[id]
      t == notifications'[id]
  IN /\ s # Nil /\ t # Nil
     /\ \A i \in Ids : i # id => notifications'[i] = notifications[i]
     /\ t.key = s.key
     /\ t = s \/ t.version = s.version + 1
     /\ t.status = "queued" => t.attempts = issued[id] /\ issued[id] < MaxAttempts
     /\ idempotency' = idempotency
     /\ \/ disk'.notifications = notifications' /\ disk'.idempotency = idempotency'
        \/ disk' = disk
     /\ issued' = issued
     /\ boot = {} /\ boot' = {}
     /\ calls' \subseteq calls
     /\ canceled' \subseteq canceled \cup {id}
     /\ id \in canceled' => t.status \notin {"queued", "processing"}
     /\ id \in canceled' \ canceled => disk'.notifications = notifications'

(* Such a step keeps every part of the invariant that is not about copies.  *)
LEMMA StoreStepKeeps ==
  ASSUME DeliveryInv, TypeOK', NEW id \in Ids, StoreStep(id)
  PROVE  /\ QueuedInv' /\ DiskInv' /\ SendBudget' /\ CanceledStaysOut'
         /\ CallInv' /\ BootInv' /\ OneNotificationPerKey'
<1>1. QueuedInv'
  BY DEF DeliveryInv, QueuedInv, StoreStep, StatusIs
<1>2. DiskInv' /\ SendBudget'
  BY DEF DeliveryInv, DiskInv, SendBudget, StoreStep
<1>3. CanceledStaysOut'
  BY DEF DeliveryInv, CanceledStaysOut, StoreStep, TypeOK
<1>4. CallInv'
  <2> SUFFICES ASSUME NEW c \in calls'
               PROVE  LET s == notifications'[c.n.id] IN
                        /\ s # Nil
                        /\ c.n.status \in {"canceled", "paused"}
                        /\ c.n.key = s.key
                        /\ c.expected <= s.version
                        /\ c.expected = s.version =>
                             CanTransition(s, c.n.status) /\ c.n = Transition(s, c.n.status)
    BY DEF CallInv
  <2>1. c \in calls /\ c.n.id \in Ids /\ c.expected \in Nat
    BY DEF StoreStep, DeliveryInv, TypeOK, Calls, Notifications
  <2>2. notifications[c.n.id] \in Notifications /\ notifications[c.n.id].version \in Nat
    BY <2>1 DEF DeliveryInv, CallInv, TypeOK, StoreTypeOK, Notifications
  <2>3. CASE notifications'[c.n.id] = notifications[c.n.id]
    BY <2>1, <2>3 DEF DeliveryInv, CallInv
  <2>4. CASE c.n.id = id /\ notifications'[id].version = notifications[id].version + 1
    BY <2>1, <2>2, <2>4 DEF DeliveryInv, CallInv, StoreStep
  <2> QED BY <2>1, <2>3, <2>4 DEF StoreStep
<1>5. BootInv'
  BY DEF StoreStep, BootInv
<1>6. OneNotificationPerKey'
  BY DEF DeliveryInv, OneNotificationPerKey, StoreStep
<1> QED BY <1>1, <1>2, <1>3, <1>4, <1>5, <1>6

(* ... and raises the version of what it changes. *)
LEMMA StoreStepRises ==
  ASSUME DeliveryInv, NEW id \in Ids, StoreStep(id)
  PROVE  VersionsRise
<1>1. notifications[id].version \in Nat
  BY DEF StoreStep, DeliveryInv, TypeOK, StoreTypeOK, Notifications
<1> QED BY <1>1 DEF StoreStep, VersionsRise

(* A copy of another notification does not notice. *)
LEMMA OtherCopy ==
  ASSUME DeliveryInv, NEW id \in Ids, StoreStep(id),
         NEW q \in Ptrs, Live(q), ptr'[q] = ptr[q], ptr[q].n.id # id
  PROVE  CopyOK(q)' /\ CancelOK(q)'
<1>1. ptr[q].n.id \in Ids /\ notifications'[ptr[q].n.id] = notifications[ptr[q].n.id]
  <2>1. ptr \in [Ptrs -> [at : Place, n : Notifications] \cup {Nil}]
    BY Zenon DEF DeliveryInv, TypeOK
  <2>2. ptr[q].n.id \in Ids
    BY <2>1 DEF Live, Notifications
  <2> QED BY <2>2, Zenon DEF StoreStep
<1>2. CopyOK(q)'
  BY <1>1 DEF DeliveryInv, CopyInv, CopyOK, StoreStep
<1>3. CancelOK(q)'
  BY <1>1 DEF DeliveryInv, CancelInv, CancelOK, StatusIs, StoreStep
<1> QED BY <1>2, <1>3

(* The worker that makes the step drops its copy: the rest of the invariant. *)
LEMMA StoreStepDrop ==
  ASSUME DeliveryInv, TypeOK', NEW p \in Ptrs, Live(p), StoreStep(ptr[p].n.id),
         ptr'[p] = Nil, \A q \in Ptrs : q # p => ptr'[q] = ptr[q]
  PROVE  DeliveryInv' /\ VersionsRise
<1> DEFINE id == ptr[p].n.id
<1>1. id \in Ids
  BY DEF DeliveryInv, TypeOK, Live, Notifications
<1>2. \A q \in Ptrs : q # p /\ Live(q) => ptr[q].n.id # id
  BY DEF DeliveryInv, OneCopy, Live
<1>3. OneCopy'
  BY DEF DeliveryInv, OneCopy
<1>4. CopyInv' /\ CancelInv'
  BY <1>1, <1>2, OtherCopy DEF CopyInv, CancelInv, Live
<1> QED BY <1>1, <1>3, <1>4, StoreStepKeeps, StoreStepRises DEF DeliveryInv

-----------------------------------------------------------------------------
(* Steps that leave the store alone *)

(* Nothing the invariant speaks of changes. *)
LEMMA IdleStep ==
  ASSUME DeliveryInv, TypeOK',
         UNCHANGED <<storeVars, ptr, calls, boot, issued, canceled>>
  PROVE  DeliveryInv' /\ VersionsRise
<1> USE DEF storeVars
<1>1. OneCopy' /\ QueuedInv' /\ DiskInv' /\ SendBudget' /\ CanceledStaysOut'
  <2>1. OneCopy' /\ SendBudget'
    BY DEF DeliveryInv, OneCopy, SendBudget
  <2>2. QueuedInv' /\ CanceledStaysOut'
    BY DEF DeliveryInv, QueuedInv, CanceledStaysOut, StatusIs
  <2>3. DiskInv'
    <3>1. UNCHANGED <<notifications, disk, issued>>
      OBVIOUS
    <3>2. DiskInv
      BY DEF DeliveryInv
    <3> QED BY <3>1, <3>2, Zenon DEF DiskInv
  <2> QED BY <2>1, <2>2, <2>3
<1>2. CopyInv' /\ CancelInv'
  BY DEF DeliveryInv, CopyInv, CopyOK, CancelInv, CancelOK, Live, StatusIs
<1>3. CallInv' /\ BootInv' /\ OneNotificationPerKey'
  BY DEF DeliveryInv, CallInv, BootInv, OneNotificationPerKey, Live, StatusIs
<1> QED BY <1>1, <1>2, <1>3 DEF DeliveryInv, VersionsRise

(* A copy is dropped, or passed on with its content while it waits. *)
LEMMA CopyStep ==
  ASSUME DeliveryInv, TypeOK', NEW p \in Ptrs, Live(p), boot = {},
         UNCHANGED <<storeVars, calls, boot, issued, canceled>>,
         \A q \in Ptrs : q # p => ptr'[q] = ptr[q],
         \/ ptr'[p] = Nil
         \/ /\ ptr[p].at \in Waiting
            /\ ptr'[p] # Nil /\ ptr'[p].at \in Waiting /\ ptr'[p].n = ptr[p].n
  PROVE  DeliveryInv' /\ VersionsRise
<1> USE DEF storeVars
<1>1. QueuedInv' /\ DiskInv' /\ SendBudget' /\ CanceledStaysOut'
  BY DEF DeliveryInv, QueuedInv, DiskInv, SendBudget, CanceledStaysOut, StatusIs
<1>2. OneCopy'
  BY DEF DeliveryInv, OneCopy, Live
<1>3. ASSUME NEW q \in Ptrs, Live(q)'
      PROVE  /\ Live(q) /\ ptr'[q].n = ptr[q].n
             /\ \/ ptr'[q].at = ptr[q].at
                \/ ptr'[q].at \in Waiting /\ ptr[q].at \in Waiting
  BY <1>3 DEF Live
<1>4. CopyInv'
  <2> SUFFICES ASSUME NEW q \in Ptrs, Live(q)' PROVE CopyOK(q)'
    BY DEF CopyInv
  <2>1. CopyOK(q) /\ ptr'[q].n = ptr[q].n
    BY <1>3 DEF DeliveryInv, CopyInv
  <2> QED BY <1>3, <2>1 DEF CopyOK, Waiting, Working
<1>5. CancelInv'
  <2> SUFFICES ASSUME NEW q \in Ptrs, Live(q)' PROVE CancelOK(q)'
    BY DEF CancelInv
  <2>1. CancelOK(q) /\ ptr'[q].n = ptr[q].n
    BY <1>3 DEF DeliveryInv, CancelInv
  <2> QED BY <1>3, <2>1 DEF CancelOK, Waiting, Working, StatusIs
<1>6. CallInv' /\ BootInv' /\ OneNotificationPerKey'
  BY DEF DeliveryInv, CallInv, BootInv, OneNotificationPerKey
<1> QED BY <1>1, <1>2, <1>4, <1>5, <1>6 DEF DeliveryInv, VersionsRise

(* A restart being in progress, no copy is anywhere but in the queue. *)
LEMMA BusyIsUp ==
  ASSUME DeliveryInv, NEW p \in Ptrs, Live(p), ptr[p].at # "queue"
  PROVE  boot = {}
  BY DEF DeliveryInv, BootInv

(* SubmitEnqueue, Dequeue, TimerFires and Throttle pass a waiting copy on. *)
LEMMA QueueSteps ==
  ASSUME DeliveryInv, TypeOK', NEW p \in Ptrs,
         SubmitEnqueue(p) \/ Dequeue(p) \/ TimerFires(p) \/ Throttle(p)
  PROVE  DeliveryInv' /\ VersionsRise
<1>1. Live(p) /\ ptr[p].at \in Waiting /\ boot = {}
  BY BusyIsUp DEF SubmitEnqueue, Dequeue, TimerFires, Throttle, At, Live, Waiting, Up
<1>2. Drop(p) \/ \E w \in Waiting : Move(p, w)
  <2>1. {"queue", "timer", "deliver"} \subseteq Waiting
    BY DEF Waiting
  <2>2. CASE Dequeue(p)
    BY <2>1, <2>2 DEF Dequeue
  <2> QED BY <2>1, <2>2 DEF SubmitEnqueue, TimerFires, Throttle, Enqueue
<1>3. Waiting \subseteq Place
  BY DEF Waiting, Place
<1>4. /\ \A q \in Ptrs : q # p => ptr'[q] = ptr[q]
      /\ \/ ptr'[p] = Nil
         \/ \E w \in Waiting : ptr'[p] = [at |-> w, n |-> ptr[p].n]
  BY <1>1, <1>2, <1>3, MoveFacts, DropFacts DEF DeliveryInv, TypeOK, Live
<1>5. \/ ptr'[p] = Nil
      \/ ptr'[p] # Nil /\ ptr'[p].at \in Waiting /\ ptr'[p].n = ptr[p].n
  <2>1. ASSUME NEW w \in Waiting, ptr'[p] = [at |-> w, n |-> ptr[p].n]
        PROVE  ptr'[p].at \in Waiting /\ ptr'[p].n = ptr[p].n
    BY <2>1
  <2> QED BY <1>4, <2>1, Zenon
<1>6. UNCHANGED <<storeVars, calls, boot, issued, canceled>>
  BY DEF SubmitEnqueue, Dequeue, TimerFires, Throttle
<1> QED BY <1>1, <1>4, <1>5, <1>6, CopyStep

(* A cancel or pause request reads the store. *)
LEMMA GetStep ==
  ASSUME DeliveryInv, TypeOK', NEW id \in Ids, NEW next \in {"canceled", "paused"},
         TransitionGet(id, next)
  PROVE  DeliveryInv' /\ VersionsRise
<1> USE DEF storeVars, TransitionGet
<1>1. OneCopy' /\ QueuedInv' /\ DiskInv' /\ SendBudget' /\ CanceledStaysOut'
  <2>1. OneCopy' /\ SendBudget'
    BY DEF DeliveryInv, OneCopy, SendBudget
  <2>2. QueuedInv' /\ CanceledStaysOut'
    BY DEF DeliveryInv, QueuedInv, CanceledStaysOut, StatusIs
  <2>3. DiskInv'
    <3>1. UNCHANGED <<notifications, disk, issued>>
      OBVIOUS
    <3>2. DiskInv
      BY DEF DeliveryInv
    <3> QED BY <3>1, <3>2, Zenon DEF DiskInv
  <2> QED BY <2>1, <2>2, <2>3
<1>2. CopyInv' /\ CancelInv'
  BY DEF DeliveryInv, CopyInv, CopyOK, CancelInv, CancelOK, Live, StatusIs
<1>3. CallInv'
  <2> DEFINE s == notifications[id]
  <2>1. s \in Notifications /\ s.id = id /\ s.version \in Nat /\ next \in Status
    BY DEF DeliveryInv, TypeOK, StoreTypeOK, Notifications, Status
  <2>2. /\ Transition(s, next).id = id
        /\ Transition(s, next).status = next
        /\ Transition(s, next).key = s.key
    BY <2>1, TransitionFacts
  <2>3. \A c \in calls' : c \in calls
                          \/ c = [n |-> Transition(s, next), expected |-> s.version]
    OBVIOUS
  <2> QED BY <2>1, <2>2, <2>3 DEF DeliveryInv, CallInv
<1>4. BootInv' /\ OneNotificationPerKey'
  BY DEF DeliveryInv, BootInv, OneNotificationPerKey, Up
<1> QED BY <1>1, <1>2, <1>3, <1>4 DEF DeliveryInv, VersionsRise


-----------------------------------------------------------------------------
(* Steps of the workers *)

(* What the invariant says about the copy p of a worker. *)
LEMMA CopyFacts ==
  ASSUME DeliveryInv, NEW p \in Ptrs, Live(p)
  PROVE  LET n == ptr[p].n
             s == notifications[n.id]
         IN /\ n \in Notifications /\ n.id \in Ids /\ n.version \in Nat /\ n.attempts \in Nat
            /\ ptr[p].at \in Waiting \/ ptr[p].at \in Working
            /\ s \in Notifications /\ s.version \in Nat /\ s.id = n.id
            /\ CopyOK(p) /\ CancelOK(p)
            /\ s.version = n.version => n.id \notin canceled
<1> DEFINE n == ptr[p].n
           s == notifications[n.id]
<1>1. n \in Notifications /\ n.id \in Ids /\ n.version \in Nat /\ n.attempts \in Nat
  BY DEF DeliveryInv, TypeOK, Live, Notifications
<1>2. ptr[p].at \in Waiting \/ ptr[p].at \in Working
  BY DEF DeliveryInv, TypeOK, Live, Place, Waiting, Working
<1>3. CopyOK(p) /\ CancelOK(p)
  BY DEF DeliveryInv, CopyInv, CancelInv
<1>4. s \in Notifications /\ s.version \in Nat /\ s.id = n.id
  BY <1>1, <1>3 DEF CopyOK, DeliveryInv, TypeOK, StoreTypeOK, Notifications
<1>5. s.version = n.version => n.id \notin canceled
  BY <1>1, <1>2, <1>3, <1>4 DEF CancelOK
<1> QED BY <1>1, <1>2, <1>3, <1>4, <1>5

(* A worker's Store.Update that is not refused is a StoreStep: a copy that  *)
(* matches the stored version is not one of a canceled notification.        *)
LEMMA WorkerStoreStep ==
  ASSUME DeliveryInv, NEW p \in Ptrs, Live(p), boot = {},
         UNCHANGED <<calls, boot, issued, canceled>>,
         NEW m \in Notifications, m.id = ptr[p].n.id, m.key = ptr[p].n.key,
         m.version = ptr[p].n.version + 1,
         m.status = "queued" => m.attempts = ptr[p].n.attempts /\ m.attempts < MaxAttempts,
         UpdateAllowed(m, ptr[p].n.version),
         notifications'[m.id] = m,
         \A i \in Ids : i # m.id => notifications'[i] = notifications[i],
         idempotency' = idempotency,
         \/ disk'.notifications = notifications' /\ disk'.idempotency = idempotency'
         \/ disk' = disk
  PROVE  StoreStep(ptr[p].n.id)
<1> DEFINE n == ptr[p].n
           s == notifications[n.id]
<1>1. /\ s # Nil /\ s.version = n.version /\ n.key = s.key /\ n.attempts = issued[n.id]
      /\ n.id \notin canceled
  BY CopyFacts DEF UpdateAllowed, CopyOK
<1>2. m # Nil
  BY NilAssumption
<1>3. /\ notifications'[n.id] = m /\ m.key = s.key /\ m.version = s.version + 1
      /\ m.status = "queued" => m.attempts = issued[n.id] /\ issued[n.id] < MaxAttempts
      /\ \A i \in Ids : i # n.id => notifications'[i] = notifications[i]
  BY <1>1
<1>4. /\ issued' = issued /\ boot' = {} /\ calls' \subseteq calls
      /\ canceled' \subseteq canceled \cup {n.id} /\ n.id \notin canceled'
  BY <1>1
<1> QED BY <1>1, <1>2, <1>3, <1>4, Zenon DEF StoreStep

(* Expire gives up its copy after an Update that may be refused. *)
LEMMA ExpireStep ==
  ASSUME DeliveryInv, TypeOK', NEW p \in Ptrs, Expire(p)
  PROVE  DeliveryInv' /\ VersionsRise
<1> DEFINE n == ptr[p].n
           m == Transition(n, "expired")
<1>1. Live(p) /\ ptr[p].at = "deliver" /\ boot = {}
  BY BusyIsUp DEF Expire, At, Live
<1>2. n \in Notifications /\ n.status = "queued" /\ n.version \in Nat
  BY <1>1, CopyFacts DEF CopyOK, Waiting
<1>3. /\ m \in Notifications /\ m.id = n.id /\ m.key = n.key
      /\ m.version = n.version + 1 /\ m.status = "expired"
  BY <1>2, TransitionFacts DEF Status
<1>4. Update(m, n.version)
  BY <1>2 DEF Expire, CanTransition, allowed
<1>5. /\ ptr'[p] = Nil
      /\ \A q \in Ptrs : q # p => ptr'[q] = ptr[q]
      /\ UNCHANGED <<calls, boot, issued, canceled>>
  BY DropFacts DEF Expire, DeliveryInv, TypeOK
<1> HIDE DEF m
<1>6. CASE UpdateAllowed(m, n.version)
  <2>1. StoreStep(n.id)
    BY <1>1, <1>2, <1>3, <1>4, <1>5, <1>6, UpdateFacts, WorkerStoreStep
       DEF DeliveryInv, TypeOK
  <2> QED BY <1>1, <1>5, <2>1, StoreStepDrop
<1>7. CASE ~UpdateAllowed(m, n.version)
  <2>1. UNCHANGED storeVars
    BY <1>4, <1>7 DEF Update
  <2> QED BY <1>1, <1>5, <2>1, CopyStep
<1> QED BY <1>6, <1>7

(* SendSucceeds likewise. *)
LEMMA SendSucceedsStep ==
  ASSUME DeliveryInv, TypeOK', NEW p \in Ptrs, SendSucceeds(p)
  PROVE  DeliveryInv' /\ VersionsRise
<1> DEFINE n == ptr[p].n
           m == Transition(n, "accepted")
<1>1. Live(p) /\ ptr[p].at = "sending" /\ boot = {}
  BY BusyIsUp DEF SendSucceeds, At, Live
<1>2. n \in Notifications /\ n.status = "processing" /\ n.version \in Nat
  BY <1>1, CopyFacts DEF CopyOK, Working
<1>3. /\ m \in Notifications /\ m.id = n.id /\ m.key = n.key
      /\ m.version = n.version + 1 /\ m.status = "accepted"
  BY <1>2, TransitionFacts DEF Status
<1>4. Update(m, n.version)
  BY <1>2 DEF SendSucceeds, CanTransition, allowed
<1>5. /\ ptr'[p] = Nil
      /\ \A q \in Ptrs : q # p => ptr'[q] = ptr[q]
      /\ UNCHANGED <<calls, boot, issued, canceled>>
  BY DropFacts DEF SendSucceeds, DeliveryInv, TypeOK
<1> HIDE DEF m
<1>6. CASE UpdateAllowed(m, n.version)
  <2>1. StoreStep(n.id)
    BY <1>1, <1>2, <1>3, <1>4, <1>5, <1>6, UpdateFacts, WorkerStoreStep
       DEF DeliveryInv, TypeOK
  <2> QED BY <1>1, <1>5, <2>1, StoreStepDrop
<1>7. CASE ~UpdateAllowed(m, n.version)
  <2>1. UNCHANGED storeVars
    BY <1>4, <1>7 DEF Update
  <2> QED BY <1>1, <1>5, <2>1, CopyStep
<1> QED BY <1>6, <1>7


(* The worker keeps a copy after its Store.Update: it remains to look at it. *)
LEMMA StoreStepKeep ==
  ASSUME DeliveryInv, TypeOK', NEW p \in Ptrs, Live(p), StoreStep(ptr[p].n.id),
         ptr'[p].n.id = ptr[p].n.id, \A q \in Ptrs : q # p => ptr'[q] = ptr[q],
         CopyOK(p)', CancelOK(p)'
  PROVE  DeliveryInv' /\ VersionsRise
<1> DEFINE id == ptr[p].n.id
<1>1. id \in Ids
  BY CopyFacts
<1>2. \A q \in Ptrs : q # p /\ Live(q) => ptr[q].n.id # id
  BY DEF DeliveryInv, OneCopy, Live
<1>3. OneCopy'
  <2> SUFFICES ASSUME NEW q \in Ptrs, NEW r \in Ptrs, ptr'[q] # Nil, ptr'[r] # Nil,
                      ptr'[q].n.id = ptr'[r].n.id
               PROVE  q = r
    BY DEF OneCopy
  <2>1. CASE q # p /\ r # p
    BY <2>1 DEF DeliveryInv, OneCopy
  <2>2. CASE q = p \/ r = p
    BY <1>2, <2>2 DEF Live
  <2> QED BY <2>1, <2>2
<1>4. ASSUME NEW q \in Ptrs, Live(q)'
      PROVE  CopyOK(q)' /\ CancelOK(q)'
  BY <1>1, <1>2, <1>4, OtherCopy DEF Live
<1>5. CopyInv' /\ CancelInv'
  BY <1>4 DEF CopyInv, CancelInv
<1> QED BY <1>1, <1>3, <1>5, StoreStepKeeps, StoreStepRises DEF DeliveryInv

(* Claim: the saved record and the copy agree, the notification is not      *)
(* canceled; when the save fails or the Update is refused the copy is gone. *)
LEMMA ClaimStep ==
  ASSUME DeliveryInv, TypeOK', NEW p \in Ptrs, Claim(p)
  PROVE  DeliveryInv' /\ VersionsRise
<1> DEFINE n == ptr[p].n
           m == Transition(n, "processing")
           ok == CanTransition(n, "processing") /\ UpdateAllowed(m, n.version)
<1>1. Live(p) /\ ptr[p].at = "deliver" /\ boot = {}
  BY BusyIsUp DEF Claim, At, Live
<1>2. /\ n \in Notifications /\ n.id \in Ids /\ n.status = "queued" /\ n.version \in Nat
      /\ n.attempts \in Nat /\ n.attempts < MaxAttempts /\ n.attempts = issued[n.id]
  BY <1>1, CopyFacts DEF CopyOK, Waiting
<1>3. /\ m \in Notifications /\ m.id = n.id /\ m.key = n.key /\ m.attempts = n.attempts
      /\ m.version = n.version + 1 /\ m.status = "processing"
  BY <1>2, TransitionFacts DEF Status
<1>4. UNCHANGED <<calls, boot, issued, canceled>>
  BY DEF Claim
<1>5. \/ ok /\ Put(m) /\ persistLocked
         /\ ptr' = [ptr EXCEPT ![p] = [at |-> "choose", n |-> m]]
      \/ ok /\ Put(m) /\ PersistFails /\ Drop(p)
      \/ UNCHANGED storeVars /\ Drop(p)
  BY DEF Claim
<1> HIDE DEF m
<1>6. ASSUME ok, Put(m), persistLocked \/ PersistFails
      PROVE  StoreStep(n.id)
  <2>1. StoreTypeOK' /\ StoreTypeOK
    BY DEF DeliveryInv, TypeOK
  <2>2. /\ notifications'[m.id] = m
        /\ \A i \in Ids : i # m.id => notifications'[i] = notifications[i]
        /\ idempotency' = idempotency
    BY <1>3, <1>6, <2>1, PutFacts
  <2>3. \/ disk'.notifications = notifications' /\ disk'.idempotency = idempotency'
        \/ disk' = disk
    BY <1>6, <2>1, PersistFacts DEF PersistFails
  <2> QED BY <1>1, <1>3, <1>4, <1>6, <2>2, <2>3, WorkerStoreStep
<1>7. CASE ok /\ Put(m) /\ persistLocked
           /\ ptr' = [ptr EXCEPT ![p] = [at |-> "choose", n |-> m]]
  <2>1. StoreStep(n.id)
    BY <1>6, <1>7
  <2>2. /\ ptr'[p] = [at |-> "choose", n |-> m]
        /\ \A q \in Ptrs : q # p => ptr'[q] = ptr[q]
    BY <1>7 DEF DeliveryInv, TypeOK
  <2>3. ptr'[p].at = "choose" /\ ptr'[p].n = m
    BY <2>2
  <2>4. notifications'[n.id] = m /\ disk'.notifications[n.id] = m /\ m # Nil
    BY <1>3, <1>7, PutFacts, PersistFacts, NilAssumption DEF DeliveryInv, TypeOK
  <2>5. CopyOK(p)'
    BY <1>2, <1>3, <1>4, <2>3, <2>4 DEF CopyOK, Waiting, Working, Notifications
  <2>6. n.id \notin canceled
    BY <1>1, <1>3, <1>7, CopyFacts DEF UpdateAllowed
  <2>7. CancelOK(p)'
    BY <1>3, <1>4, <2>3, <2>4, <2>6 DEF CancelOK, StatusIs
  <2> QED BY <1>1, <1>3, <2>1, <2>2, <2>3, <2>5, <2>7, StoreStepKeep
<1>8. CASE ok /\ Put(m) /\ PersistFails /\ Drop(p)
  <2>1. StoreStep(n.id)
    BY <1>6, <1>8
  <2>2. ptr'[p] = Nil /\ \A q \in Ptrs : q # p => ptr'[q] = ptr[q]
    BY <1>8, DropFacts DEF DeliveryInv, TypeOK
  <2> QED BY <1>1, <2>1, <2>2, StoreStepDrop
<1>9. CASE UNCHANGED storeVars /\ Drop(p)
  <2>1. ptr'[p] = Nil /\ \A q \in Ptrs : q # p => ptr'[q] = ptr[q]
    BY <1>9, DropFacts DEF DeliveryInv, TypeOK
  <2> QED BY <1>1, <1>4, <1>9, <2>1, CopyStep
<1> QED BY <1>5, <1>7, <1>8, <1>9


(* A refused Update is a StoreStep too: nothing changes. *)
LEMMA RefusedStoreStep ==
  ASSUME DeliveryInv, NEW p \in Ptrs, Live(p), boot = {},
         UNCHANGED <<storeVars, calls, boot, issued, canceled>>
  PROVE  StoreStep(ptr[p].n.id)
<1>1. ptr[p].n.id \in Ids /\ notifications[ptr[p].n.id] # Nil
  BY CopyFacts DEF CopyOK
<1> QED BY <1>1 DEF StoreStep, storeVars, DeliveryInv, QueuedInv, CanceledStaysOut, StatusIs

(* retry: the copy that goes to the timer is one version on.  Either the    *)
(* store took that version, or it was ahead already; in the second case it  *)
(* is two ahead of a worker's copy of a canceled notification.              *)
LEMMA RetryStep ==
  ASSUME DeliveryInv, TypeOK', NEW p \in Ptrs, Live(p), ptr[p].at \in Working, retry(p),
         UNCHANGED <<calls, boot, issued, canceled>>
  PROVE  DeliveryInv' /\ VersionsRise
<1> DEFINE n == ptr[p].n
           s == notifications[n.id]
           next == IF n.attempts >= MaxAttempts THEN "failed" ELSE "queued"
           m == Transition(n, next)
<1>1. boot = {} /\ ptr \in [Ptrs -> [at : Place, n : Notifications] \cup {Nil}]
  BY BusyIsUp DEF Working, DeliveryInv, TypeOK
<1>2. /\ n \in Notifications /\ n.id \in Ids /\ n.version \in Nat /\ n.attempts \in Nat
      /\ s \in Notifications /\ s.version \in Nat
      /\ n.status = "processing" /\ n.attempts = issued[n.id] /\ n.key = s.key
      /\ s # Nil /\ disk.notifications[n.id] # Nil /\ n.version <= s.version
      /\ s.version = n.version => n.id \notin canceled
      /\ CancelOK(p)
  BY CopyFacts DEF CopyOK
<1>3. next \in Status /\ next # "processing" /\ CanTransition(n, next)
  BY <1>2 DEF CanTransition, allowed, Status
<1>4. /\ m \in Notifications /\ m.id = n.id /\ m.key = n.key /\ m.attempts = n.attempts
      /\ m.version = n.version + 1 /\ m.status = next
  BY <1>2, <1>3, TransitionFacts
<1>5. next = "queued" => n.attempts < MaxAttempts
  BY <1>2, ConfigAssumption
<1>6. /\ Update(m, n.version)
      /\ IF next = "queued" THEN ptr' = [ptr EXCEPT ![p] = [at |-> "timer", n |-> m]]
                            ELSE Drop(p)
  BY <1>3 DEF retry
<1> HIDE DEF m, next
<1>7. StoreStep(n.id)
  <2>1. CASE UpdateAllowed(m, n.version)
    BY <1>1, <1>2, <1>4, <1>5, <1>6, <2>1, UpdateFacts, WorkerStoreStep
       DEF DeliveryInv, TypeOK
  <2>2. CASE ~UpdateAllowed(m, n.version)
    <3>1. UNCHANGED storeVars
      BY <1>6, <2>2 DEF Update
    <3> QED BY <1>1, <3>1, RefusedStoreStep
  <2> QED BY <2>1, <2>2
<1>8. CASE next = "queued"
  <2>1. /\ ptr'[p] = [at |-> "timer", n |-> m]
        /\ \A q \in Ptrs : q # p => ptr'[q] = ptr[q]
    BY <1>1, <1>6, <1>8
  <2>2. ptr'[p].at = "timer" /\ ptr'[p].n = m
    BY <2>1
  <2>3. /\ m.version <= notifications'[n.id].version
        /\ notifications'[n.id].key = n.key
        /\ notifications'[n.id] # Nil /\ disk'.notifications[n.id] # Nil
    <3>1. CASE UpdateAllowed(m, n.version)
      <4>1. notifications'[n.id] = m /\ m # Nil
        BY <1>2, <1>4, <1>6, <3>1, UpdateFacts, NilAssumption DEF DeliveryInv, TypeOK
      <4>2. m.version \in Nat
        BY <1>2, <1>4
      <4>3. disk'.notifications[n.id] # Nil
        BY <1>2, <1>7, <4>1 DEF StoreStep
      <4> QED BY <1>4, <4>1, <4>2, <4>3
    <3>2. CASE ~UpdateAllowed(m, n.version)
      <4>1. UNCHANGED storeVars
        BY <1>6, <3>2 DEF Update
      <4>2. n.version # s.version
        BY <1>2, <1>4, <3>2 DEF UpdateAllowed
      <4> QED BY <1>2, <1>4, <4>1, <4>2 DEF storeVars
    <3> QED BY <3>1, <3>2
  <2>4. CopyOK(p)'
    BY <1>2, <1>4, <1>5, <1>8, <2>2, <2>3 DEF CopyOK, Waiting, Working
  <2>5. CancelOK(p)'
    <3>1. CASE UpdateAllowed(m, n.version)
      <4>1. n.id \notin canceled
        BY <1>2, <1>4, <3>1 DEF UpdateAllowed
      <4>2. notifications'[n.id].status = "queued"
        BY <1>2, <1>4, <1>6, <1>8, <3>1, UpdateFacts DEF DeliveryInv, TypeOK
      <4> QED BY <1>4, <2>2, <4>1, <4>2 DEF CancelOK, StatusIs
    <3>2. CASE ~UpdateAllowed(m, n.version)
      <4>1. UNCHANGED storeVars
        BY <1>6, <3>2 DEF Update
      <4> QED BY <1>2, <1>4, <2>2, <4>1 DEF CancelOK, StatusIs, storeVars, Waiting, Working
    <3> QED BY <3>1, <3>2
  <2> QED BY <1>4, <1>7, <2>1, <2>2, <2>4, <2>5, StoreStepKeep
<1>9. CASE next # "queued"
  <2>1. ptr'[p] = Nil /\ \A q \in Ptrs : q # p => ptr'[q] = ptr[q]
    BY <1>1, <1>6, <1>9, DropFacts
  <2> QED BY <1>7, <2>1, StoreStepDrop
<1> QED BY <1>8, <1>9


(* Send: the copy is the only one of its notification and neither the store *)
(* nor the file has it queued, so nothing else carries the old count.       *)
LEMMA SendStep ==
  ASSUME DeliveryInv, TypeOK', NEW p \in Ptrs, Send(p)
  PROVE  DeliveryInv' /\ VersionsRise
<1> DEFINE n == ptr[p].n
           m == [n EXCEPT !.attempts = @ + 1]
<1>1. Live(p) /\ ptr[p].at = "choose" /\ boot = {}
  BY BusyIsUp DEF Send, At, Live
<1>2. /\ n \in Notifications /\ n.id \in Ids /\ n.version \in Nat /\ n.attempts \in Nat
      /\ n.attempts = issued[n.id] /\ n.attempts < MaxAttempts
      /\ notifications[n.id] # Nil /\ notifications[n.id].status # "queued"
      /\ disk.notifications[n.id] # Nil /\ disk.notifications[n.id].status # "queued"
      /\ CopyOK(p) /\ CancelOK(p)
  BY <1>1, CopyFacts DEF CopyOK, Working
<1>3. /\ m.id = n.id /\ m.key = n.key /\ m.version = n.version /\ m.status = n.status
      /\ m.attempts = n.attempts + 1
  BY <1>2 DEF Notifications
<1>4. /\ ptr' = [ptr EXCEPT ![p] = [at |-> "sending", n |-> m]]
      /\ issued' = [issued EXCEPT ![m.id] = @ + 1]
      /\ UNCHANGED <<storeVars, calls, boot, canceled>>
  BY DEF Send
<1> HIDE DEF m
<1>5. ptr'[p] = [at |-> "sending", n |-> m] /\ \A q \in Ptrs : q # p => ptr'[q] = ptr[q]
  BY <1>4 DEF DeliveryInv, TypeOK
<1>6. ptr'[p].at = "sending" /\ ptr'[p].n = m
  BY <1>5
<1>7. /\ issued'[n.id] = n.attempts + 1
      /\ \A i \in Ids : i # n.id => issued'[i] = issued[i]
  BY <1>2, <1>3, <1>4 DEF DeliveryInv, TypeOK
<1>8. \A q \in Ptrs : q # p /\ Live(q) => ptr[q].n.id # n.id
  BY <1>1 DEF DeliveryInv, OneCopy, Live
<1> USE DEF storeVars
<1>9. OneCopy'
  <2> SUFFICES ASSUME NEW q \in Ptrs, NEW r \in Ptrs, ptr'[q] # Nil, ptr'[r] # Nil,
                      ptr'[q].n.id = ptr'[r].n.id
               PROVE  q = r
    BY DEF OneCopy
  <2>1. CASE q # p /\ r # p
    BY <1>5, <2>1 DEF DeliveryInv, OneCopy
  <2>2. CASE q = p \/ r = p
    BY <1>3, <1>5, <1>6, <1>8, <2>2 DEF Live
  <2> QED BY <2>1, <2>2
<1>10. ASSUME NEW q \in Ptrs, Live(q)'
       PROVE  CopyOK(q)' /\ CancelOK(q)'
  <2>1. CASE q = p
    <3>1. CopyOK(q)'
      <4>1. /\ ptr'[q].at = "sending" /\ ptr'[q].n = m /\ ptr[p].at \in Working
            /\ notifications' = notifications /\ disk' = disk
            /\ MaxAttempts \in Nat /\ n.attempts \in Nat
        BY <1>1, <1>2, <1>4, <1>6, <2>1, ConfigAssumption DEF Working, Notifications
      <4> QED BY <1>2, <1>3, <1>7, <4>1 DEF CopyOK, Waiting
    <3>2. CancelOK(q)'
      <4>1. /\ ptr'[q].at = "sending" /\ ptr'[q].n.id = n.id /\ ptr'[q].n.version = n.version
            /\ notifications' = notifications /\ canceled' = canceled /\ ptr[p].at \in Working
        BY <1>1, <1>3, <1>4, <1>6, <2>1 DEF Working
      <4> QED BY <1>2, <4>1 DEF CancelOK, Waiting, StatusIs
    <3> QED BY <3>1, <3>2
  <2>2. CASE q # p
    <3>1. Live(q) /\ ptr'[q] = ptr[q]
      BY <1>5, <1>10, <2>2 DEF Live
    <3>2. CopyOK(q) /\ CancelOK(q) /\ issued'[ptr[q].n.id] = issued[ptr[q].n.id]
      BY <1>7, <1>8, <2>2, <3>1, CopyFacts
    <3> QED BY <1>4, <3>1, <3>2 DEF CopyOK, CancelOK, StatusIs
  <2> QED BY <2>1, <2>2
<1>11. CopyInv' /\ CancelInv'
  BY <1>10 DEF CopyInv, CancelInv
<1>12. QueuedInv'
  BY <1>2, <1>4, <1>7 DEF DeliveryInv, QueuedInv, StatusIs
<1>13. DiskInv' /\ SendBudget'
  BY <1>2, <1>4, <1>7, ConfigAssumption DEF DeliveryInv, DiskInv, SendBudget
<1>14. CanceledStaysOut' /\ CallInv' /\ BootInv' /\ OneNotificationPerKey'
  BY <1>1, <1>4 DEF DeliveryInv, CanceledStaysOut, CallInv, BootInv, OneNotificationPerKey
<1> QED BY <1>4, <1>9, <1>11, <1>12, <1>13, <1>14 DEF DeliveryInv, VersionsRise

-----------------------------------------------------------------------------
(* Steps of clients and providers on a stored notification *)

(* A StoreStep that touches no copy keeps the invariant if it never queues  *)
(* and cancels only what is not processing.                                 *)
LEMMA OutsideStoreStep ==
  ASSUME DeliveryInv, TypeOK', NEW id \in Ids, StoreStep(id), ptr' = ptr,
         notifications'[id] # notifications[id] => notifications'[id].status # "queued",
         \/ ~(id \in canceled' \/ StatusIs(id, {"canceled"})')
         \/ id \in canceled \/ StatusIs(id, {"canceled"})
         \/ /\ notifications[id].status # "processing"
            /\ notifications'[id].version = notifications[id].version + 1
  PROVE  DeliveryInv' /\ VersionsRise
<1> DEFINE s == notifications[id]
           t == notifications'[id]
<1>1. ASSUME NEW q \in Ptrs, Live(q)'
      PROVE  CopyOK(q)' /\ CancelOK(q)'
  <2> DEFINE n == ptr[q].n
  <2>1. Live(q) /\ ptr'[q] = ptr[q]
    BY <1>1 DEF Live
  <2>2. CASE n.id # id
    BY <2>1, <2>2, OtherCopy
  <2>3. CASE n.id = id
    <3>1. /\ n.version \in Nat /\ s.version \in Nat
          /\ CopyOK(q) /\ CancelOK(q)
          /\ ptr[q].at \in Waiting \/ ptr[q].at \in Working
      BY <2>1, <2>3, CopyFacts
    <3>2. /\ s # Nil /\ t # Nil /\ t.key = s.key
          /\ t = s \/ t.version = s.version + 1
          /\ disk'.notifications = notifications' \/ disk' = disk
          /\ issued' = issued
      BY DEF StoreStep
    <3>3. CopyOK(q)'
      BY <2>1, <2>3, <3>1, <3>2 DEF CopyOK
    <3>4. CancelOK(q)'
      BY <2>1, <2>3, <3>1, <3>2 DEF CopyOK, CancelOK, StatusIs
    <3> QED BY <3>3, <3>4
  <2> QED BY <2>2, <2>3
<1>2. CopyInv' /\ CancelInv'
  BY <1>1 DEF CopyInv, CancelInv
<1>3. OneCopy'
  BY DEF DeliveryInv, OneCopy
<1> QED BY <1>2, <1>3, StoreStepKeeps, StoreStepRises DEF DeliveryInv

(* The Update of a cancel or pause request. *)
LEMMA TransitionUpdateStep ==
  ASSUME DeliveryInv, TypeOK', NEW c \in calls, TransitionUpdate(c)
  PROVE  DeliveryInv' /\ VersionsRise
<1> DEFINE id == c.n.id
           s == notifications[id]
<1>1. /\ c.n \in Notifications /\ id \in Ids /\ c.expected \in Nat
      /\ s # Nil /\ s \in Notifications /\ s.version \in Nat
      /\ c.n.status \in {"canceled", "paused"} /\ c.n.key = s.key
      /\ c.expected = s.version =>
           CanTransition(s, c.n.status) /\ c.n = Transition(s, c.n.status)
  BY DEF DeliveryInv, TypeOK, StoreTypeOK, Calls, CallInv, Notifications
<1>2. boot = {}
  BY DEF DeliveryInv, BootInv
<1>3. UNCHANGED <<ptr, boot, issued>> /\ calls' \subseteq calls
  BY DEF TransitionUpdate
<1>4. CASE UpdateAllowed(c.n, c.expected)
  <2>1. CanTransition(s, c.n.status) /\ c.n = Transition(s, c.n.status)
    BY <1>1, <1>4 DEF UpdateAllowed
  <2>2. /\ c.n.status = s.status => c.n = s
        /\ c.n.status # s.status => c.n.version = s.version + 1
    <3>1. c.n.status \in Status
      BY <1>1 DEF Status
    <3>2. /\ c.n.status = s.status => Transition(s, c.n.status) = s
          /\ c.n.status # s.status => Transition(s, c.n.status).version = s.version + 1
      BY <1>1, <3>1, TransitionFacts
    <3> QED BY <2>1, <3>2
  <2>3. c.n.status = "canceled" /\ c.n.status # s.status => s.status # "processing"
    BY <2>1 DEF CanTransition, allowed
  <2>4. Put(c.n) /\ (persistLocked \/ PersistFails)
    BY <1>4 DEF TransitionUpdate
  <2>5. /\ notifications'[id] = c.n
        /\ \A i \in Ids : i # id => notifications'[i] = notifications[i]
        /\ idempotency' = idempotency
    BY <1>1, <2>4, PutFacts DEF DeliveryInv, TypeOK
  <2>6. \/ disk'.notifications = notifications' /\ disk'.idempotency = idempotency'
        \/ disk' = disk
    BY <2>4, PersistFacts DEF PersistFails, TypeOK
  <2>7. \/ canceled' = canceled
        \/ /\ canceled' = canceled \cup (IF c.n.status = "canceled" THEN {id} ELSE {})
           /\ persistLocked
    BY <1>4 DEF TransitionUpdate
  <2>8. /\ canceled' \subseteq canceled \cup {id}
        /\ id \in canceled' \ canceled =>
             c.n.status = "canceled" /\ disk'.notifications = notifications'
    BY <2>7, PersistFacts DEF TypeOK
  <2>9. c.n # Nil
    BY <1>1, NilAssumption
  <2>10. StoreStep(id)
    BY <1>1, <1>2, <1>3, <2>2, <2>5, <2>6, <2>8, <2>9 DEF StoreStep
  <2>11. c.n # s => c.n.status # "queued"
    BY <1>1
  <2>12. \/ ~(id \in canceled' \/ StatusIs(id, {"canceled"})')
         \/ id \in canceled \/ StatusIs(id, {"canceled"})
         \/ s.status # "processing" /\ c.n.version = s.version + 1
    BY <1>1, <2>2, <2>3, <2>5, <2>8 DEF StatusIs
  <2> QED BY <1>1, <1>3, <2>5, <2>10, <2>11, <2>12, OutsideStoreStep
<1>5. CASE ~UpdateAllowed(c.n, c.expected)
  <2>1. UNCHANGED <<storeVars, canceled>>
    BY <1>5 DEF TransitionUpdate
  <2>2. StoreStep(id)
    BY <1>1, <1>2, <1>3, <2>1
       DEF StoreStep, storeVars, DeliveryInv, QueuedInv, CanceledStaysOut, StatusIs
  <2> QED BY <1>1, <1>3, <2>1, <2>2, OutsideStoreStep DEF storeVars, StatusIs
<1> QED BY <1>4, <1>5

(* A receipt: neither queues, nor cancels. *)
LEMMA ReceiptStep ==
  ASSUME DeliveryInv, TypeOK', NEW id \in Ids, NEW e \in ReceiptEvents,
         RecordReceipt(id, e)
  PROVE  DeliveryInv' /\ VersionsRise
<1> DEFINE s == notifications[id]
           t == notifications'[id]
<1>1. /\ id \in Ids /\ s # Nil /\ t # Nil
      /\ t.key = s.key /\ t.version = s.version + 1
      /\ t.status \in ReceiptStatus
      /\ \A i \in Ids : i # id => notifications'[i] = notifications[i]
  BY ReceiptFacts, NilAssumption DEF DeliveryInv
<1>2. t.status \notin {"queued", "processing", "canceled"}
  BY <1>1 DEF ReceiptStatus
<1>3. \/ disk'.notifications = notifications' /\ disk'.idempotency = idempotency'
      \/ disk' = disk
  BY PersistFacts DEF RecordReceipt, PersistFails, TypeOK
<1>4. /\ UNCHANGED <<idempotency, ptr, calls, boot, issued, canceled>>
      /\ boot = {}
  BY DEF RecordReceipt, Up
<1>5. StoreStep(id)
  BY <1>1, <1>2, <1>3, <1>4 DEF StoreStep
<1> QED BY <1>1, <1>2, <1>4, <1>5, OutsideStoreStep DEF StatusIs


-----------------------------------------------------------------------------
(* Submission and restart *)

(* Create: the id is new to store, file, copies, calls and cancellations,   *)
(* and has never been sent.                                                 *)
LEMMA CreateStep ==
  ASSUME DeliveryInv, TypeOK', NEW id \in Ids, NEW p \in Ptrs,
         NEW r \in [key : Keys, scheduleAt : Nat, expiresAt : Nat],
         Create(id, p, r)
  PROVE  DeliveryInv' /\ VersionsRise
<1> DEFINE n == Requested(id, r)
<1>1. /\ n \in Notifications /\ n # Nil /\ n.id = id /\ n.key = r.key
      /\ n.status = "queued" /\ n.version = 1 /\ n.attempts = 0
  BY RequestedFacts, NilAssumption
<1>2. /\ notifications[id] = Nil /\ disk.notifications[id] = Nil /\ ptr[p] = Nil
      /\ idempotency[r.key] = Nil /\ boot = {}
      /\ calls' = calls /\ boot' = boot /\ issued' = issued /\ canceled' = canceled
  BY DEF Create, Fresh, Up
<1>3. \/ persistLocked /\ ptr' = [ptr EXCEPT ![p] = [at |-> "submit", n |-> n]]
      \/ (persistLocked \/ disk' = disk) /\ ptr' = ptr
  BY DEF Create, PersistFails
<1>4. /\ notifications'[id] = n
      /\ \A i \in Ids : i # id => notifications'[i] = notifications[i]
      /\ idempotency'[r.key] = id
      /\ \A k \in Keys : k # r.key => idempotency'[k] = idempotency[k]
  BY DEF Create, DeliveryInv, TypeOK, StoreTypeOK
<1> HIDE DEF n
<1>5. \/ disk'.notifications = notifications' /\ disk'.idempotency = idempotency'
      \/ disk' = disk
  BY <1>3, PersistFacts DEF TypeOK
<1>6. issued[id] = 0 /\ id \notin canceled
  BY <1>2 DEF DeliveryInv, DiskInv, CanceledStaysOut
<1>7. \A q \in Ptrs : Live(q) => ptr[q].n.id # id
  BY <1>2, CopyFacts DEF CopyOK
<1>8. ASSUME NEW q \in Ptrs, Live(q)'
      PROVE  \/ ptr'[q] = ptr[q] /\ Live(q)
             \/ /\ q = p /\ ptr'[q].at = "submit" /\ ptr'[q].n = n
                /\ disk'.notifications = notifications'
  <2>1. CASE ptr' = ptr
    BY <1>8, <2>1 DEF Live
  <2>2. CASE persistLocked /\ ptr' = [ptr EXCEPT ![p] = [at |-> "submit", n |-> n]]
    <3>1. CASE q = p
      <4>1. ptr'[q] = [at |-> "submit", n |-> n]
        BY <2>2, <3>1 DEF DeliveryInv, TypeOK
      <4> QED BY <2>2, <3>1, <4>1, PersistFacts DEF TypeOK
    <3>2. CASE q # p
      BY <1>8, <2>2, <3>2 DEF DeliveryInv, TypeOK, Live
    <3> QED BY <3>1, <3>2
  <2> QED BY <1>3, <2>1, <2>2
<1>9. OneCopy'
  <2> SUFFICES ASSUME NEW q \in Ptrs, NEW u \in Ptrs, Live(q)', Live(u)',
                      ptr'[q].n.id = ptr'[u].n.id
               PROVE  q = u
    BY DEF OneCopy, Live
  <2>1. CASE ptr'[q] = ptr[q] /\ Live(q) /\ ptr'[u] = ptr[u] /\ Live(u)
    BY <2>1 DEF DeliveryInv, OneCopy, Live
  <2>2. CASE ptr'[q] = ptr[q] /\ Live(q) /\ ptr'[u].n = n
    BY <1>1, <1>7, <2>2
  <2>3. CASE ptr'[q].n = n /\ ptr'[u] = ptr[u] /\ Live(u)
    BY <1>1, <1>7, <2>3
  <2> QED BY <1>8, <2>1, <2>2, <2>3
<1>10. ASSUME NEW q \in Ptrs, Live(q)'
       PROVE  CopyOK(q)' /\ CancelOK(q)'
  <2>1. CASE ptr'[q] = ptr[q] /\ Live(q)
    <3>1. CopyOK(q) /\ CancelOK(q) /\ ptr[q].n.id \in Ids
          /\ notifications'[ptr[q].n.id] = notifications[ptr[q].n.id]
      BY <1>4, <1>7, <2>1, CopyFacts
    <3>2. CopyOK(q)'
      BY <1>2, <1>5, <2>1, <3>1 DEF CopyOK
    <3>3. CancelOK(q)'
      BY <1>2, <2>1, <3>1 DEF CancelOK, StatusIs
    <3> QED BY <3>2, <3>3
  <2>2. CASE ptr'[q].at = "submit" /\ ptr'[q].n = n /\ disk'.notifications = notifications'
    <3>1. CopyOK(q)'
      BY <1>1, <1>2, <1>4, <1>6, <2>2, ConfigAssumption DEF CopyOK, Waiting, Working
    <3>2. CancelOK(q)'
      BY <1>1, <1>2, <1>4, <1>6, <2>2 DEF CancelOK, StatusIs
    <3> QED BY <3>1, <3>2
  <2> QED BY <1>8, <1>10, <2>1, <2>2
<1>11. CopyInv' /\ CancelInv'
  BY <1>10 DEF CopyInv, CancelInv
<1>12. QueuedInv'
  <2>1. ASSUME NEW i \in Ids
        PROVE  /\ \/ notifications'[i] = notifications[i]
                  \/ notifications'[i] = n /\ i = id
               /\ \/ disk'.notifications[i] = disk.notifications[i]
                  \/ disk'.notifications[i] = notifications'[i]
    BY <1>4, <1>5
  <2>2. n.attempts = issued[id] /\ issued[id] < MaxAttempts
    BY <1>1, <1>6, ConfigAssumption
  <2> QED BY <1>2, <2>1, <2>2 DEF DeliveryInv, QueuedInv, StatusIs
<1>13. DiskInv' /\ SendBudget'
  BY <1>1, <1>2, <1>4, <1>5, <1>6 DEF DeliveryInv, DiskInv, SendBudget
<1>14. CanceledStaysOut'
  BY <1>2, <1>4, <1>5, <1>6 DEF DeliveryInv, CanceledStaysOut, TypeOK
<1>15. CallInv'
  <2>1. ASSUME NEW c \in calls
        PROVE  notifications'[c.n.id] = notifications[c.n.id]
    <3>1. c.n.id \in Ids /\ notifications[c.n.id] # Nil
      BY DEF DeliveryInv, CallInv, TypeOK, Calls, Notifications
    <3> QED BY <1>2, <1>4, <3>1
  <2> QED BY <1>2, <2>1 DEF DeliveryInv, CallInv
<1>16. BootInv'
  BY <1>2 DEF BootInv
<1>17. OneNotificationPerKey'
  <2>1. ASSUME NEW i \in Ids, notifications'[i] # Nil
        PROVE  idempotency'[notifications'[i].key] = i
    <3>1. CASE i = id
      BY <1>1, <1>4, <3>1
    <3>2. CASE i # id
      <4>1. notifications'[i] = notifications[i] /\ notifications[i].key \in Keys
            /\ idempotency[notifications[i].key] = i
        BY <1>4, <2>1, <3>2
           DEF DeliveryInv, TypeOK, StoreTypeOK, OneNotificationPerKey, Notifications
      <4>2. notifications[i].key # r.key
        BY <1>2, <4>1, NilAssumption
      <4> QED BY <1>4, <4>1, <4>2
    <3> QED BY <3>1, <3>2
  <2> QED BY <1>5, <2>1 DEF DeliveryInv, OneNotificationPerKey
<1>18. VersionsRise
  BY <1>2, <1>4 DEF VersionsRise
<1> QED BY <1>9, <1>11, <1>12, <1>13, <1>14, <1>15, <1>16, <1>17, <1>18 DEF DeliveryInv

(* Replay creates from a stored record. *)
LEMMA ReplayStep ==
  ASSUME DeliveryInv, TypeOK', NEW id \in Ids, NEW p \in Ptrs, NEW old \in Ids,
         Replay(old, id, p)
  PROVE  DeliveryInv' /\ VersionsRise
<1>1. notifications[old] \in Notifications
  BY DEF Replay, DeliveryInv, TypeOK, StoreTypeOK
<1>2. \E r \in [key : Keys, scheduleAt : Nat, expiresAt : Nat] : Create(id, p, r)
  BY <1>1 DEF Replay, Notifications
<1> QED BY <1>2, CreateStep

(* Crash: what is left is the file, and Recover's list made from it. *)
LEMMA CrashStep ==
  ASSUME DeliveryInv, TypeOK', Crash
  PROVE  DeliveryInv'
<1> USE DEF Crash
<1>1. \A q \in Ptrs : ~Live(q)'
  BY DEF Live
<1>2. OneCopy' /\ CopyInv' /\ CancelInv' /\ CallInv'
  BY <1>1 DEF OneCopy, CopyInv, CancelInv, CallInv, Live
<1>3. QueuedInv' /\ DiskInv' /\ SendBudget'
  BY DEF DeliveryInv, QueuedInv, DiskInv, SendBudget, StatusIs
<1>4. CanceledStaysOut' /\ OneNotificationPerKey'
  BY DEF DeliveryInv, CanceledStaysOut, OneNotificationPerKey
<1>5. BootInv'
  BY <1>1 DEF BootInv, StatusIs
<1> QED BY <1>2, <1>3, <1>4, <1>5 DEF DeliveryInv

(* Recover: the enqueued copy is the stored record, still queued. *)
LEMMA RecoverStep ==
  ASSUME DeliveryInv, TypeOK', NEW id \in Ids, NEW p \in Ptrs, Recover(id, p)
  PROVE  DeliveryInv' /\ VersionsRise
<1> DEFINE s == notifications[id]
<1>1. /\ id \in boot /\ ptr[p] = Nil /\ boot' = boot \ {id}
      /\ UNCHANGED <<notifications, idempotency, disk, calls, issued, canceled>>
  BY DEF Recover, storeVars
<1>2. /\ s # Nil /\ s \in Notifications /\ s.id = id /\ s.status = "queued" /\ s.version \in Nat
      /\ notifications = disk.notifications /\ calls = {}
      /\ \A q \in Ptrs : Live(q) => ptr[q].at = "queue" /\ ptr[q].n.id # id
  BY <1>1 DEF DeliveryInv, BootInv, TypeOK, StoreTypeOK, StatusIs, Notifications
<1>3. s.attempts = issued[id] /\ issued[id] < MaxAttempts /\ id \notin canceled
  BY <1>2 DEF DeliveryInv, QueuedInv, CanceledStaysOut, StatusIs
<1>4. ASSUME NEW q \in Ptrs, Live(q)'
      PROVE  \/ ptr'[q] = ptr[q] /\ Live(q)
             \/ q = p /\ ptr'[q].at = "queue" /\ ptr'[q].n = s
  <2>1. CASE ptr' = ptr
    BY <1>4, <2>1 DEF Live
  <2>2. CASE ptr' = [ptr EXCEPT ![p] = [at |-> "queue", n |-> s]]
    <3>1. CASE q = p
      <4>1. ptr'[q] = [at |-> "queue", n |-> s]
        BY <2>2, <3>1 DEF DeliveryInv, TypeOK
      <4> QED BY <3>1, <4>1
    <3>2. CASE q # p
      BY <1>4, <2>2, <3>2 DEF DeliveryInv, TypeOK, Live
    <3> QED BY <3>1, <3>2
  <2> QED BY <2>1, <2>2 DEF Recover
<1>5. OneCopy'
  <2> SUFFICES ASSUME NEW q \in Ptrs, NEW u \in Ptrs, Live(q)', Live(u)',
                      ptr'[q].n.id = ptr'[u].n.id
               PROVE  q = u
    BY DEF OneCopy, Live
  <2>1. CASE ptr'[q] = ptr[q] /\ Live(q) /\ ptr'[u] = ptr[u] /\ Live(u)
    BY <2>1 DEF DeliveryInv, OneCopy, Live
  <2>2. CASE ptr'[q] = ptr[q] /\ Live(q) /\ ptr'[u].n = s
    BY <1>2, <2>2
  <2>3. CASE ptr'[q].n = s /\ ptr'[u] = ptr[u] /\ Live(u)
    BY <1>2, <2>3
  <2> QED BY <1>4, <2>1, <2>2, <2>3
<1>6. ASSUME NEW q \in Ptrs, Live(q)'
      PROVE  CopyOK(q)' /\ CancelOK(q)'
  <2>1. CASE ptr'[q] = ptr[q] /\ Live(q)
    <3>1. CopyOK(q) /\ CancelOK(q)
      BY <2>1, CopyFacts
    <3> QED BY <1>1, <2>1, <3>1 DEF CopyOK, CancelOK, StatusIs
  <2>2. CASE ptr'[q].at = "queue" /\ ptr'[q].n = s
    <3>1. CopyOK(q)'
      BY <1>1, <1>2, <1>3, <2>2 DEF CopyOK, Waiting, Working
    <3>2. CancelOK(q)'
      BY <1>1, <1>2, <1>3, <2>2 DEF CancelOK, StatusIs
    <3> QED BY <3>1, <3>2
  <2> QED BY <1>4, <1>6, <2>1, <2>2
<1>7. CopyInv' /\ CancelInv'
  BY <1>6 DEF CopyInv, CancelInv
<1>8. QueuedInv' /\ DiskInv' /\ SendBudget' /\ CanceledStaysOut' /\ CallInv'
      /\ OneNotificationPerKey'
  BY <1>1, <1>2 DEF DeliveryInv, QueuedInv, DiskInv, SendBudget, CanceledStaysOut,
                    CallInv, OneNotificationPerKey, StatusIs
<1>9. BootInv'
  <2>1. ASSUME NEW q \in Ptrs, Live(q)'
        PROVE  ptr'[q].at = "queue" /\ ptr'[q].n.id \notin boot'
    BY <1>1, <1>2, <1>4, <2>1 DEF DeliveryInv, BootInv
  <2> QED BY <1>1, <1>2, <2>1 DEF DeliveryInv, BootInv, StatusIs
<1> QED BY <1>1, <1>5, <1>7, <1>8, <1>9 DEF DeliveryInv, VersionsRise

-----------------------------------------------------------------------------
(* The theorems *)

(* Every step keeps the invariant and, but for a crash, raises versions. *)
LEMMA InvStep == DeliveryInv /\ [Next]_vars => DeliveryInv' /\ (Crash \/ VersionsRise)
<1> SUFFICES ASSUME DeliveryInv, [Next]_vars
             PROVE  DeliveryInv' /\ (Crash \/ VersionsRise)
  OBVIOUS
<1>0. TypeOK'
  BY TypeStep DEF DeliveryInv
<1>1. CASE UNCHANGED vars
  BY <1>0, <1>1, IdleStep DEF vars, storeVars
<1>2. ASSUME NEW id \in Ids, NEW p \in Ptrs, Submit(id, p)
      PROVE  DeliveryInv' /\ (Crash \/ VersionsRise)
  BY <1>0, <1>2, CreateStep, EnvironmentAssumption DEF Submit
<1>3. ASSUME NEW id \in Ids, NEW p \in Ptrs, NEW old \in Ids, Replay(old, id, p)
      PROVE  DeliveryInv' /\ (Crash \/ VersionsRise)
  BY <1>0, <1>3, ReplayStep
<1>4. ASSUME NEW id \in Ids, NEW p \in Ptrs, Recover(id, p)
      PROVE  DeliveryInv' /\ (Crash \/ VersionsRise)
  BY <1>0, <1>4, RecoverStep
<1>5. ASSUME NEW p \in Ptrs, SubmitEnqueue(p) \/ Dequeue(p) \/ TimerFires(p) \/ Throttle(p)
      PROVE  DeliveryInv' /\ (Crash \/ VersionsRise)
  BY <1>0, <1>5, QueueSteps
<1>6. ASSUME NEW p \in Ptrs, Worker(p), ~Throttle(p)
      PROVE  DeliveryInv' /\ (Crash \/ VersionsRise)
  <2>1. CASE Expire(p)
    BY <1>0, <2>1, ExpireStep
  <2>2. CASE Claim(p)
    BY <1>0, <2>2, ClaimStep
  <2>3. CASE Send(p)
    BY <1>0, <2>3, SendStep
  <2>4. CASE ChooseFails(p)
    BY <1>0, <2>4, RetryStep DEF ChooseFails, At, Live, Working
  <2>5. CASE SendFails(p)
    BY <1>0, <2>5, RetryStep DEF SendFails, At, Live, Working
  <2>6. CASE SendSucceeds(p)
    BY <1>0, <2>6, SendSucceedsStep
  <2> QED BY <1>6, <2>1, <2>2, <2>3, <2>4, <2>5, <2>6 DEF Worker
<1>7. ASSUME NEW id \in Ids, Cancel(id) \/ Pause(id)
      PROVE  DeliveryInv' /\ (Crash \/ VersionsRise)
  BY <1>0, <1>7, GetStep DEF Cancel, Pause
<1>8. ASSUME NEW c \in calls, TransitionUpdate(c)
      PROVE  DeliveryInv' /\ (Crash \/ VersionsRise)
  BY <1>0, <1>8, TransitionUpdateStep
<1>9. ASSUME NEW id \in Ids, NEW e \in ReceiptEvents, RecordReceipt(id, e)
      PROVE  DeliveryInv' /\ (Crash \/ VersionsRise)
  BY <1>0, <1>9, ReceiptStep
<1>10. CASE Refill \/ Tick
  BY <1>0, <1>10, IdleStep DEF Refill, Tick
<1>11. CASE Crash
  BY <1>0, <1>11, CrashStep
<1> QED
  BY <1>1, <1>2, <1>3, <1>4, <1>5, <1>6, <1>7, <1>8, <1>9, <1>10, <1>11 DEF Next

(* Delivery keeps its inductive invariant. *)
THEOREM DeliveryInvariant == Spec => []DeliveryInv
<1>1. Init => DeliveryInv
  <2> SUFFICES ASSUME Init PROVE DeliveryInv
    OBVIOUS
  <2>1. TypeOK
    BY ConfigAssumption DEF Init, TypeOK, StoreTypeOK, DiskTypeOK, Snapshots
  <2>2. \A p \in Ptrs : ~Live(p)
    BY DEF Init, Live
  <2>3. OneCopy /\ CopyInv /\ CancelInv /\ CallInv /\ BootInv
    BY <2>2 DEF Init, OneCopy, CopyInv, CancelInv, CallInv, BootInv, Live
  <2>4. QueuedInv /\ DiskInv /\ SendBudget /\ CanceledStaysOut /\ OneNotificationPerKey
    BY ConfigAssumption DEF Init, QueuedInv, DiskInv, SendBudget, CanceledStaysOut,
       OneNotificationPerKey, StatusIs
  <2> QED BY <2>1, <2>3, <2>4 DEF DeliveryInv
<1> QED BY <1>1, InvStep, PTL DEF Spec

(* No notification ever has two copies among Submit, the queue, the timers  *)
(* and the workers: no two workers deliver it at once.                      *)
THEOREM CopiesAreUnique == Spec => []OneCopy
  BY DeliveryInvariant, PTL DEF DeliveryInv

(* Provider.Send is called at most MaxAttempts times for a notification,    *)
(* over any number of crashes, failing writes and client calls.             *)
THEOREM BudgetHolds == Spec => []SendBudget
  BY DeliveryInvariant, PTL DEF DeliveryInv

(* While a worker talks to a provider the file does not show its            *)
(* notification queued: a restart does not send the same attempt again.     *)
THEOREM ClaimsAreDurable == Spec => []ClaimIsDurable
<1>1. DeliveryInv => ClaimIsDurable
  BY DEF DeliveryInv, CopyInv, CopyOK, ClaimIsDurable, Live, Working
<1> QED BY <1>1, DeliveryInvariant, PTL

(* A cancellation the client was told of is final: the notification is      *)
(* never queued or processing again, not even after a restart.              *)
THEOREM CancellationIsFinal == Spec => []CanceledStaysOut
  BY DeliveryInvariant, PTL DEF DeliveryInv

(* Idempotency keys and notifications correspond, in memory and in the      *)
(* file: a key never yields a second notification.                          *)
THEOREM KeysAreUnique == Spec => []OneNotificationPerKey
  BY DeliveryInvariant, PTL DEF DeliveryInv


(* While writes do not fail, the file holds what memory holds. *)
Saved == disk.notifications = notifications

(* Every step keeps that: it saves, or leaves both, or reads the file. *)
LEMMA SavedStep ==
  ASSUME "disk" \notin Faults, TypeOK, TypeOK', Saved, [Next]_vars
  PROVE  Saved'
<1> USE DEF Saved, storeVars
<1>1. CASE UNCHANGED vars
  BY <1>1 DEF vars
<1>2. ~PersistFails
  BY DEF PersistFails
<1>3. persistLocked => Saved'
  BY PersistFacts DEF TypeOK
<1>4. \A n, e : Update(n, e) => Saved'
  BY <1>2, <1>3 DEF Update
<1>5. ASSUME NEW id, NEW p, NEW r, Create(id, p, r)
      PROVE  Saved'
  BY <1>2, <1>3, <1>5 DEF Create
<1>6. ASSUME NEW p \in Ptrs, Worker(p)
      PROVE  Saved'
  <2>1. CASE Expire(p)
    BY <1>4, <2>1 DEF Expire
  <2>2. CASE Throttle(p) \/ Send(p)
    BY <2>2 DEF Throttle, Send
  <2>3. CASE Claim(p)
    BY <1>2, <1>3, <2>3 DEF Claim
  <2>4. CASE retry(p)
    BY <1>4, <2>4 DEF retry
  <2>5. CASE SendSucceeds(p)
    BY <1>4, <2>5 DEF SendSucceeds
  <2> QED BY <1>6, <2>1, <2>2, <2>3, <2>4, <2>5 DEF Worker, ChooseFails, SendFails
<1>7. ASSUME NEW p \in Ptrs, SubmitEnqueue(p) \/ Dequeue(p) \/ TimerFires(p)
      PROVE  Saved'
  BY <1>7 DEF SubmitEnqueue, Dequeue, TimerFires
<1>8. ASSUME NEW c \in calls, TransitionUpdate(c)
      PROVE  Saved'
  BY <1>2, <1>3, <1>8 DEF TransitionUpdate
<1>9. ASSUME NEW id, NEW e, RecordReceipt(id, e)
      PROVE  Saved'
  BY <1>2, <1>3, <1>9 DEF RecordReceipt
<1>10. ASSUME NEW id \in Ids, NEW p \in Ptrs,
              Submit(id, p) \/ Recover(id, p) \/ \E old \in Ids : Replay(old, id, p)
       PROVE  Saved'
  BY <1>5, <1>10 DEF Submit, Recover, Replay
<1>11. CASE (\E id \in Ids : Cancel(id) \/ Pause(id)) \/ Refill \/ Tick \/ Crash
  BY <1>11 DEF Cancel, Pause, TransitionGet, Refill, Tick, Crash
<1> QED BY <1>1, <1>6, <1>7, <1>8, <1>9, <1>10, <1>11 DEF Next

(* While writes do not fail, no step changes a stored notification without  *)
(* raising its version: an ETag names one content, over restarts too.       *)
THEOREM VersionsAreETags ==
  ASSUME "disk" \notin Faults
  PROVE  Spec => ETagIdentifiesContent
<1>1. Init => Saved
  BY DEF Init, Saved
<1>2. DeliveryInv /\ DeliveryInv' /\ Saved /\ [Next]_vars => Saved'
  BY SavedStep DEF DeliveryInv
<1>3. DeliveryInv /\ Saved /\ [Next]_vars => [VersionsRise]_vars
  <2>1. Saved /\ Crash => VersionsRise
    BY DEF Saved, Crash, VersionsRise
  <2> QED BY <2>1, InvStep
<1> QED BY <1>1, <1>2, <1>3, DeliveryInvariant, PTL DEF Spec, ETagIdentifiesContent

-----------------------------------------------------------------------------
(* Nothing but a full queue strands a notification *)

(* What a step leaves queued it found so, or it is held, or scheduled for   *)
(* later.  (A failing write of Submit leaves a record nobody holds.)        *)
QueuesHeld ==
  "disk" \notin Faults =>
    \A i \in Ids : StatusIs(i, {"queued"})' =>
      \/ notifications'[i] = notifications[i]
      \/ Held(i)'
      \/ notifications'[i].scheduleAt # 0

(* Holders and stored records stay, or what changes is no longer queued. *)
LEMMA HoldersStay ==
  ASSUME DeliveryInv, CurrentInv, ptr' = ptr, boot' = boot,
         NEW S \in SUBSET Ids, \A i \in Ids \ S : notifications'[i] = notifications[i],
         \A i \in S : ~StatusIs(i, {"queued"})'
  PROVE  CurrentInv' /\ StrandsNothing /\ QueuesHeld
<1>1. \A i \in Ids : StatusIs(i, {"queued"})' => notifications'[i] = notifications[i]
  OBVIOUS
<1>2. ASSUME NEW q \in Ptrs, Live(q)
      PROVE  ptr[q].n.id \in Ids
  BY <1>2, CopyFacts
<1>3. CurrentInv'
  BY <1>1, <1>2 DEF CurrentInv, Live, StatusIs
<1>4. StrandsNothing
  BY DEF StrandsNothing, Held
<1>5. QueuesHeld
  BY <1>1 DEF QueuesHeld
<1> QED BY <1>3, <1>4, <1>5

(* In particular, if nothing changes. *)
LEMMA NothingMoves ==
  ASSUME DeliveryInv, CurrentInv, UNCHANGED <<ptr, boot, notifications>>
  PROVE  CurrentInv' /\ StrandsNothing /\ QueuesHeld
<1>1. {} \in SUBSET Ids
  OBVIOUS
<1> QED BY <1>1, HoldersStay

(* The holder of copy p acts on its own notification only.  It strands none *)
(* if it keeps a copy, or the notification is not queued afterwards.        *)
LEMMA HolderActs ==
  ASSUME DeliveryInv, CurrentInv, NEW p \in Ptrs, Live(p), boot' = boot,
         NEW id \in Ids, ptr[p].n.id = id,
         \A q \in Ptrs : q # p => ptr'[q] = ptr[q],
         \A i \in Ids : i # id => notifications'[i] = notifications[i],
         \/ ptr'[p] = Nil /\ ~StatusIs(id, {"queued"})'
         \/ /\ ptr'[p] # Nil /\ ptr'[p].n.id = id
            /\ ptr'[p].at \in Waiting /\ StatusIs(id, {"queued"})'
                 => ptr'[p].n.version = notifications'[id].version
  PROVE  CurrentInv' /\ StrandsNothing /\ QueuesHeld
<1>1. ASSUME NEW q \in Ptrs, q # p, Live(q)
      PROVE  ptr[q].n.id # id /\ ptr[q].n.id \in Ids
  BY <1>1, CopyFacts DEF DeliveryInv, OneCopy, Live
<1>2. CurrentInv'
  <2>1. ASSUME NEW q \in Ptrs, ptr'[q] # Nil, ptr'[q].at \in Waiting,
               NEW i, ptr'[q].n.id = i, StatusIs(i, {"queued"})'
        PROVE  ptr'[q].n.version = notifications'[i].version
    <3>1. CASE q = p
      BY <2>1, <3>1
    <3>2. CASE q # p
      <4>1. Live(q) /\ ptr'[q] = ptr[q] /\ notifications'[i] = notifications[i]
        BY <1>1, <2>1, <3>2 DEF Live
      <4> QED BY <2>1, <4>1 DEF CurrentInv, StatusIs
    <3> QED BY <3>1, <3>2
  <2> QED BY <2>1 DEF CurrentInv, Live
<1>3. StrandsNothing
  <2> SUFFICES ASSUME NEW i \in Ids, Held(i), StatusIs(i, {"queued"})'
               PROVE  Held(i)'
    BY DEF StrandsNothing
  <2>1. CASE i \in boot
    BY <2>1 DEF Held
  <2>2. ASSUME NEW q \in Ptrs, ptr[q] # Nil, ptr[q].n.id = i
        PROVE  Held(i)'
    <3>1. CASE q = p
      BY <2>2, <3>1 DEF Held
    <3>2. CASE q # p
      BY <2>2, <3>2 DEF Held
    <3> QED BY <3>1, <3>2
  <2> QED BY <2>1, <2>2 DEF Held
<1>4. ASSUME NEW i \in Ids, StatusIs(i, {"queued"})'
      PROVE  notifications'[i] = notifications[i] \/ Held(i)'
  <2>1. CASE i # id
    BY <2>1
  <2>2. CASE i = id
    BY <1>4, <2>2 DEF Held
  <2> QED BY <2>1, <2>2
<1> QED BY <1>2, <1>3, <1>4 DEF QueuesHeld

(* A copy waits in the queue's hands: only Enqueue lets go of it, when Full. *)
LEMMA QueueHolds ==
  ASSUME DeliveryInv, CurrentInv, NEW p \in Ptrs,
         SubmitEnqueue(p) \/ Dequeue(p) \/ TimerFires(p) \/ Throttle(p)
  PROVE  CurrentInv' /\ StrandsNothing /\ QueuesHeld
<1>1. /\ Live(p) /\ ptr[p].at \in Waiting
      /\ boot' = boot /\ notifications' = notifications
  BY DEF SubmitEnqueue, Dequeue, TimerFires, Throttle, At, Live, Waiting, storeVars
<1>2. ptr \in [Ptrs -> [at : Place, n : Notifications] \cup {Nil}]
  BY DEF DeliveryInv, TypeOK
<1>3. ASSUME NEW w \in Place, Move(p, w)
      PROVE  CurrentInv' /\ StrandsNothing /\ QueuesHeld
  <2>1. /\ ptr'[p] = [at |-> w, n |-> ptr[p].n]
        /\ \A q \in Ptrs : q # p => ptr'[q] = ptr[q]
        /\ ptr' \in [Ptrs -> [at : Place, n : Notifications] \cup {Nil}]
    BY <1>1, <1>2, <1>3, MoveFacts DEF Live
  <2>2. ptr'[p].n = ptr[p].n /\ ptr'[p] # Nil
    <3>1. ptr[p].n \in Notifications
      BY <1>1, CopyFacts
    <3>2. [at |-> w, n |-> ptr[p].n] \in [at : Place, n : Notifications]
      BY <3>1
    <3> QED BY <2>1, <3>2, NilAssumption
  <2>3. PICK id \in Ids : ptr[p].n.id = id
    BY <1>1, CopyFacts
  <2>4. StatusIs(id, {"queued"})' => ptr'[p].n.version = notifications'[id].version
    BY <1>1, <2>2, <2>3 DEF CurrentInv, StatusIs
  <2> QED BY <1>1, <2>1, <2>2, <2>3, <2>4, HolderActs
<1>4. ASSUME Full, Drop(p)
      PROVE  CurrentInv' /\ StrandsNothing /\ QueuesHeld
  <2>1. ptr'[p] = Nil /\ \A q \in Ptrs : q # p => ptr'[q] = ptr[q]
    BY <1>2, <1>4, DropFacts
  <2>2. CurrentInv'
    <3> SUFFICES ASSUME NEW q \in Ptrs, Live(q)'
                 PROVE  Live(q) /\ ptr'[q] = ptr[q]
      BY <1>1 DEF CurrentInv, StatusIs
    <3> QED BY <2>1 DEF Live
  <2> QED BY <1>1, <1>4, <2>2 DEF StrandsNothing, QueuesHeld
<1>5. {"queue", "timer", "deliver"} \subseteq Place
  BY DEF Place
<1>6. (\E w \in Place : Move(p, w)) \/ (Full /\ Drop(p))
  <2>1. CASE Dequeue(p)
    BY <1>5, <2>1 DEF Dequeue
  <2> QED BY <1>5, <2>1 DEF SubmitEnqueue, TimerFires, Throttle, Enqueue
<1> QED BY <1>3, <1>4, <1>6

(* What a worker's Update leaves in the store: the new record, or a record  *)
(* of another version.                                                      *)
LEMMA UpdateLeaves ==
  ASSUME DeliveryInv, NEW n \in Notifications, NEW e \in Nat, Update(n, e)
  PROVE  /\ \A i \in Ids : i # n.id => notifications'[i] = notifications[i]
         /\ \/ notifications'[n.id] = n
            \/ /\ notifications'[n.id] = notifications[n.id]
               /\ ~UpdateAllowed(n, e)
<1>1. StoreTypeOK /\ DiskTypeOK
  BY Zenon DEF DeliveryInv, TypeOK
<1> QED BY <1>1, UpdateFacts, Zenon

(* The worker that gives up a waiting copy: the stored record either took   *)
(* the Update or, being of another version, was not queued any more.        *)
LEMMA WaitingRefused ==
  ASSUME DeliveryInv, CurrentInv, NEW p \in Ptrs, Live(p), ptr[p].at \in Waiting,
         NEW m, m.id = ptr[p].n.id, ~UpdateAllowed(m, ptr[p].n.version)
  PROVE  notifications[m.id].status # "queued"
  BY CopyFacts DEF CurrentInv, UpdateAllowed, StatusIs, CopyOK

(* Expire and SendSucceeds let go of what is no longer queued. *)
LEMMA EndsHold ==
  ASSUME DeliveryInv, CurrentInv, NEW p \in Ptrs, Expire(p) \/ SendSucceeds(p)
  PROVE  CurrentInv' /\ StrandsNothing /\ QueuesHeld
<1>1. Live(p) /\ boot' = boot
      /\ ptr'[p] = Nil /\ \A q \in Ptrs : q # p => ptr'[q] = ptr[q]
  BY DropFacts DEF Expire, SendSucceeds, At, Live, DeliveryInv, TypeOK
<1>2. PICK n \in Notifications : ptr[p].n = n
  BY <1>1, CopyFacts
<1>3. n.id \in Ids /\ n.version \in Nat /\ {"expired", "accepted"} \subseteq Status
  BY DEF Notifications, Status
<1>4. CASE Expire(p)
  <2>1. ptr[p].at \in Waiting /\ n.status = "queued"
    BY <1>1, <1>2, <1>4, CopyFacts DEF Expire, At, Waiting, CopyOK
  <2>2. PICK m \in Notifications : Update(m, n.version) /\ m.id = n.id /\ m.status = "expired"
    <3>1. Update(Transition(n, "expired"), n.version)
      BY <1>2, <1>4, <2>1 DEF Expire, CanTransition, allowed
    <3> QED BY <1>3, <3>1, TransitionFacts
  <2>3. ~UpdateAllowed(m, n.version) => notifications[n.id].status # "queued"
    BY <1>1, <1>2, <2>1, <2>2, WaitingRefused
  <2>4. ~StatusIs(n.id, {"queued"})' /\ \A i \in Ids : i # n.id => notifications'[i] = notifications[i]
    BY <1>3, <2>2, <2>3, UpdateLeaves DEF StatusIs
  <2> QED BY <1>1, <1>2, <1>3, <2>4, HolderActs
<1>5. CASE SendSucceeds(p)
  <2>1. n.status = "processing" /\ notifications[n.id].status # "queued"
    BY <1>1, <1>2, <1>5, CopyFacts DEF SendSucceeds, At, Working, CopyOK
  <2>2. PICK m \in Notifications : Update(m, n.version) /\ m.id = n.id /\ m.status = "accepted"
    <3>1. Update(Transition(n, "accepted"), n.version)
      BY <1>2, <1>5, <2>1 DEF SendSucceeds, CanTransition, allowed
    <3> QED BY <1>3, <3>1, TransitionFacts
  <2>3. ~StatusIs(n.id, {"queued"})' /\ \A i \in Ids : i # n.id => notifications'[i] = notifications[i]
    BY <1>3, <2>1, <2>2, UpdateLeaves DEF StatusIs
  <2> QED BY <1>1, <1>2, <1>3, <2>3, HolderActs
<1> QED BY <1>4, <1>5

(* Claim: the notification is processing, or was no longer queued. *)
LEMMA ClaimHolds ==
  ASSUME DeliveryInv, CurrentInv, NEW p \in Ptrs, Claim(p)
  PROVE  CurrentInv' /\ StrandsNothing /\ QueuesHeld
<1>1. Live(p) /\ ptr[p].at \in Waiting /\ boot' = boot
  BY DEF Claim, At, Live, Waiting
<1>2. PICK n \in Notifications : ptr[p].n = n
  BY <1>1, CopyFacts
<1>3. n.id \in Ids /\ n.version \in Nat /\ n.status = "queued"
  BY <1>1, <1>2, CopyFacts DEF CopyOK, Notifications
<1>4. PICK m \in Notifications :
        /\ m.id = n.id /\ m.status = "processing"
        /\ \/ Put(m) /\ ptr' = [ptr EXCEPT ![p] = [at |-> "choose", n |-> m]]
           \/ Put(m) /\ Drop(p)
           \/ ~UpdateAllowed(m, n.version) /\ UNCHANGED storeVars /\ Drop(p)
  <2>1. CanTransition(n, "processing") /\ "processing" \in Status
    BY <1>3 DEF CanTransition, allowed, Status
  <2>2. LET m == Transition(n, "processing") IN
          \/ Put(m) /\ ptr' = [ptr EXCEPT ![p] = [at |-> "choose", n |-> m]]
          \/ Put(m) /\ Drop(p)
          \/ ~UpdateAllowed(m, n.version) /\ UNCHANGED storeVars /\ Drop(p)
    BY <1>2, <2>1 DEF Claim
  <2> QED BY <2>1, <2>2, TransitionFacts
<1>5. ~StatusIs(n.id, {"queued"})' /\ \A i \in Ids : i # n.id => notifications'[i] = notifications[i]
  <2>1. CASE Put(m)
    BY <1>4, <2>1, PutFacts DEF StatusIs, DeliveryInv, TypeOK
  <2>2. CASE ~UpdateAllowed(m, n.version) /\ UNCHANGED storeVars
    BY <1>1, <1>2, <1>4, <2>2, WaitingRefused DEF StatusIs, storeVars
  <2> QED BY <1>4, <2>1, <2>2
<1>6. CASE ptr' = [ptr EXCEPT ![p] = [at |-> "choose", n |-> m]]
  <2>1. /\ ptr'[p] = [at |-> "choose", n |-> m]
        /\ \A q \in Ptrs : q # p => ptr'[q] = ptr[q]
    BY <1>6 DEF DeliveryInv, TypeOK
  <2>2. [at |-> "choose", n |-> m] \in [at : Place, n : Notifications]
    BY DEF Place
  <2>3. ptr'[p] # Nil /\ ptr'[p].n.id = n.id
    BY <1>4, <2>1, <2>2, NilAssumption
  <2> QED BY <1>1, <1>2, <1>3, <1>5, <2>1, <2>3, HolderActs
<1>7. CASE Drop(p)
  <2>1. ptr'[p] = Nil /\ \A q \in Ptrs : q # p => ptr'[q] = ptr[q]
    BY <1>7, DropFacts DEF DeliveryInv, TypeOK
  <2> QED BY <1>1, <1>2, <1>3, <1>5, <2>1, HolderActs
<1> QED BY <1>4, <1>6, <1>7

(* retry queues again what it keeps, or leaves it failed. *)
LEMMA RetryHolds ==
  ASSUME DeliveryInv, CurrentInv, NEW p \in Ptrs, Live(p), ptr[p].at \in Working, retry(p),
         boot' = boot
  PROVE  CurrentInv' /\ StrandsNothing /\ QueuesHeld
<1>1. PICK n \in Notifications : ptr[p].n = n
  BY CopyFacts
<1>2. /\ n.id \in Ids /\ n.version \in Nat /\ n.status = "processing"
      /\ notifications[n.id].status # "queued"
  BY <1>1, CopyFacts DEF CopyOK, Notifications
<1>3. PICK m \in Notifications :
        /\ m.id = n.id /\ Update(m, n.version)
        /\ \/ m.status = "failed" /\ Drop(p)
           \/ ptr' = [ptr EXCEPT ![p] = [at |-> "timer", n |-> m]]
  <2> DEFINE next == IF n.attempts >= MaxAttempts THEN "failed" ELSE "queued"
             m == Transition(n, next)
  <2>1. next \in Status /\ CanTransition(n, next) /\ (next = "queued" \/ next = "failed")
    BY <1>2 DEF CanTransition, allowed, Status
  <2>2. /\ Update(m, n.version)
        /\ IF next = "queued" THEN ptr' = [ptr EXCEPT ![p] = [at |-> "timer", n |-> m]]
                              ELSE Drop(p)
    BY <1>1, <2>1 DEF retry
  <2>3. m \in Notifications /\ m.id = n.id /\ m.status = next
    BY <2>1, TransitionFacts
  <2> HIDE DEF m, next
  <2> QED BY <2>1, <2>2, <2>3
<1>4. /\ \A i \in Ids : i # n.id => notifications'[i] = notifications[i]
      /\ StatusIs(n.id, {"queued"})' => notifications'[n.id] = m
  BY <1>2, <1>3, UpdateLeaves DEF StatusIs
<1>5. CASE m.status = "failed" /\ Drop(p)
  <2>1. ptr'[p] = Nil /\ \A q \in Ptrs : q # p => ptr'[q] = ptr[q]
    BY <1>5, DropFacts DEF DeliveryInv, TypeOK
  <2>2. ~StatusIs(n.id, {"queued"})'
    BY <1>4, <1>5 DEF StatusIs
  <2> QED BY <1>1, <1>2, <1>4, <2>1, <2>2, HolderActs
<1>6. CASE ptr' = [ptr EXCEPT ![p] = [at |-> "timer", n |-> m]]
  <2>1. /\ ptr'[p] = [at |-> "timer", n |-> m]
        /\ \A q \in Ptrs : q # p => ptr'[q] = ptr[q]
    BY <1>6 DEF DeliveryInv, TypeOK
  <2>2. [at |-> "timer", n |-> m] \in [at : Place, n : Notifications]
    BY DEF Place
  <2>3. ptr'[p] # Nil /\ ptr'[p].n = m
    BY <2>1, <2>2, NilAssumption
  <2> QED BY <1>1, <1>2, <1>3, <1>4, <2>1, <2>3, HolderActs
<1> QED BY <1>3, <1>5, <1>6

(* Send passes the copy on. *)
LEMMA SendHolds ==
  ASSUME DeliveryInv, CurrentInv, NEW p \in Ptrs, Send(p)
  PROVE  CurrentInv' /\ StrandsNothing /\ QueuesHeld
<1>1. Live(p) /\ boot' = boot /\ notifications' = notifications
  BY DEF Send, At, Live, storeVars
<1>2. PICK n \in Notifications : ptr[p].n = n
  BY <1>1, CopyFacts
<1>3. PICK m \in Notifications :
        m.id = n.id /\ ptr' = [ptr EXCEPT ![p] = [at |-> "sending", n |-> m]]
  <2>1. [n EXCEPT !.attempts = @ + 1] \in Notifications
        /\ [n EXCEPT !.attempts = @ + 1].id = n.id
    BY DEF Notifications
  <2> QED BY <1>2, <2>1 DEF Send
<1>4. /\ ptr'[p] = [at |-> "sending", n |-> m]
      /\ \A q \in Ptrs : q # p => ptr'[q] = ptr[q]
  BY <1>3 DEF DeliveryInv, TypeOK
<1>5. [at |-> "sending", n |-> m] \in [at : Place, n : Notifications]
  BY DEF Place
<1>6. ptr'[p] # Nil /\ ptr'[p].n.id = n.id /\ ptr'[p].at \notin Waiting
  BY <1>3, <1>4, <1>5, NilAssumption DEF Waiting
<1>7. n.id \in Ids
  BY DEF Notifications
<1> QED BY <1>1, <1>2, <1>4, <1>6, <1>7, HolderActs

(* A new copy is of the stored record; the copies there were stay. *)
LEMMA NewHolder ==
  ASSUME DeliveryInv, CurrentInv, NEW id \in Ids, NEW p \in Ptrs, ptr[p] = Nil,
         \A i \in boot : i \in boot' \/ i = id,
         \A i \in Ids : i # id => notifications'[i] = notifications[i],
         \A q \in Ptrs : Live(q) => ptr[q].n.id # id,
         \/ /\ ptr' = ptr /\ id \notin boot
            /\ "disk" \in Faults \/ notifications'[id].scheduleAt # 0
         \/ /\ \A q \in Ptrs : q # p => ptr'[q] = ptr[q]
            /\ ptr'[p] # Nil /\ ptr'[p].n = notifications'[id] /\ ptr'[p].n.id = id
  PROVE  CurrentInv' /\ StrandsNothing /\ QueuesHeld
<1>1. ASSUME NEW q \in Ptrs, ptr'[q] # Nil
      PROVE  \/ Live(q) /\ ptr'[q] = ptr[q] /\ ptr[q].n.id \in Ids /\ ptr[q].n.id # id
             \/ ptr'[q].n = notifications'[id] /\ ptr'[q].n.id = id
  BY <1>1, CopyFacts DEF Live
<1>2. CurrentInv'
  <2>1. ASSUME NEW q \in Ptrs, ptr'[q] # Nil, ptr'[q].at \in Waiting,
               NEW i, ptr'[q].n.id = i, StatusIs(i, {"queued"})'
        PROVE  ptr'[q].n.version = notifications'[i].version
    <3>1. CASE ptr'[q].n = notifications'[id] /\ ptr'[q].n.id = id
      BY <2>1, <3>1
    <3>2. CASE Live(q) /\ ptr'[q] = ptr[q] /\ ptr[q].n.id \in Ids /\ ptr[q].n.id # id
      <4>1. notifications'[i] = notifications[i]
        BY <2>1, <3>2
      <4> QED BY <2>1, <3>2, <4>1 DEF CurrentInv, StatusIs
    <3> QED BY <1>1, <2>1, <3>1, <3>2
  <2> QED BY <2>1 DEF CurrentInv, Live
<1>3. ASSUME NEW i \in Ids, Held(i)
      PROVE  Held(i)'
  <2>1. ASSUME NEW q \in Ptrs, ptr[q] # Nil, ptr[q].n.id = i
        PROVE  Held(i)'
    BY <2>1 DEF Held
  <2>2. CASE i \in boot
    BY <2>2 DEF Held
  <2> QED BY <1>3, <2>1, <2>2 DEF Held
<1>4. StrandsNothing
  BY <1>3 DEF StrandsNothing
<1>5. ASSUME NEW i \in Ids, StatusIs(i, {"queued"})'
      PROVE  \/ notifications'[i] = notifications[i]
             \/ Held(i)'
             \/ "disk" \in Faults \/ notifications'[i].scheduleAt # 0
  <2>1. CASE i # id
    BY <2>1
  <2>2. CASE i = id /\ ptr' # ptr
    BY <2>2 DEF Held
  <2>3. CASE i = id /\ ptr' = ptr
    BY <2>3
  <2> QED BY <2>1, <2>2, <2>3
<1> QED BY <1>2, <1>4, <1>5 DEF QueuesHeld

(* Submit and Replay make the copy they enqueue from what they stored. *)
LEMMA CreateHolds ==
  ASSUME DeliveryInv, CurrentInv, NEW id \in Ids, NEW p \in Ptrs,
         NEW r \in [key : Keys, scheduleAt : Nat, expiresAt : Nat],
         Create(id, p, r)
  PROVE  CurrentInv' /\ StrandsNothing /\ QueuesHeld
<1>1. PICK n \in Notifications : n = Requested(id, r) /\ n.id = id
  BY RequestedFacts
<1>2. /\ ptr[p] = Nil /\ boot = {} /\ boot' = boot /\ notifications[id] = Nil
      /\ notifications' = [notifications EXCEPT ![id] = n]
      /\ \/ ptr' = [ptr EXCEPT ![p] = [at |-> "submit", n |-> n]]
         \/ ptr' = ptr /\ ("disk" \in Faults \/ r.scheduleAt > clock)
  BY <1>1 DEF Create, Up, Fresh, PersistFails
<1>3. /\ notifications'[id] = n
      /\ \A i \in Ids : i # id => notifications'[i] = notifications[i]
  BY <1>2 DEF DeliveryInv, TypeOK, StoreTypeOK
<1>4. ASSUME NEW q \in Ptrs, Live(q)
      PROVE  ptr[q].n.id # id
  BY <1>2, <1>4, CopyFacts DEF CopyOK
<1>5. CASE ptr' = [ptr EXCEPT ![p] = [at |-> "submit", n |-> n]]
  <2>1. /\ ptr'[p] = [at |-> "submit", n |-> n]
        /\ \A q \in Ptrs : q # p => ptr'[q] = ptr[q]
    BY <1>5 DEF DeliveryInv, TypeOK
  <2>2. [at |-> "submit", n |-> n] \in [at : Place, n : Notifications]
    BY DEF Place
  <2>3. ptr'[p] # Nil /\ ptr'[p].n = n
    BY <2>1, <2>2, NilAssumption
  <2> QED BY <1>1, <1>2, <1>3, <1>4, <2>1, <2>3, NewHolder
<1>6. CASE ptr' = ptr /\ ("disk" \in Faults \/ r.scheduleAt > clock)
  <2>1. n.scheduleAt = r.scheduleAt /\ r.scheduleAt \in Nat /\ clock \in Nat
    BY <1>1, ConfigAssumption DEF Requested, DeliveryInv, TypeOK, ConfigAssumption
  <2>2. "disk" \in Faults \/ notifications'[id].scheduleAt # 0
    BY <1>3, <1>6, <2>1
  <2> QED BY <1>2, <1>3, <1>4, <1>6, <2>2, NewHolder
<1> QED BY <1>2, <1>5, <1>6

(* Recover takes an id off its list and, unless the queue is full, holds a  *)
(* copy of the stored record instead.                                       *)
LEMMA RecoverHolds ==
  ASSUME DeliveryInv, CurrentInv, NEW id \in Ids, NEW p \in Ptrs, Recover(id, p)
  PROVE  CurrentInv' /\ StrandsNothing /\ QueuesHeld
<1>1. /\ id \in boot /\ ptr[p] = Nil /\ boot' = boot \ {id}
      /\ notifications' = notifications
  BY DEF Recover, storeVars
<1>2. PICK n \in Notifications : n = notifications[id] /\ n.id = id
  BY <1>1 DEF DeliveryInv, TypeOK, StoreTypeOK
<1>3. \A q \in Ptrs : Live(q) => ptr[q].n.id # id
  BY <1>1 DEF DeliveryInv, BootInv
<1>4. CASE Full
  <2>1. ptr' = ptr
    BY <1>4 DEF Recover
  <2> QED BY <1>1, <1>4, <2>1 DEF StrandsNothing, CurrentInv, QueuesHeld, Live, StatusIs
<1>5. CASE ~Full
  <2>1. /\ ptr'[p] = [at |-> "queue", n |-> n]
        /\ \A q \in Ptrs : q # p => ptr'[q] = ptr[q]
    BY <1>2, <1>5 DEF Recover, DeliveryInv, TypeOK
  <2>2. [at |-> "queue", n |-> n] \in [at : Place, n : Notifications]
    BY DEF Place
  <2>3. ptr'[p] # Nil /\ ptr'[p].n = n
    BY <2>1, <2>2, NilAssumption
  <2> QED BY <1>1, <1>2, <1>3, <2>1, <2>3, NewHolder
<1> QED BY <1>4, <1>5

(* After a crash Recover's list names everything the file has queued. *)
LEMMA CrashHolds ==
  ASSUME DeliveryInv, CurrentInv, Crash
  PROVE  CurrentInv' /\ StrandsNothing /\ QueuesHeld
<1>1. CurrentInv'
  BY DEF Crash, CurrentInv, Live
<1>2. StrandsNothing
  BY DEF Crash, StrandsNothing, StatusIs, Held
<1>3. QueuesHeld
  BY DEF Crash, QueuesHeld, StatusIs, Held
<1> QED BY <1>1, <1>2, <1>3

(* Clients and receipts change a stored record to something not queued. *)
LEMMA OutsideHolds ==
  ASSUME DeliveryInv, CurrentInv,
         \/ \E c \in calls : TransitionUpdate(c)
         \/ \E id \in Ids, e \in ReceiptEvents : RecordReceipt(id, e)
  PROVE  CurrentInv' /\ StrandsNothing /\ QueuesHeld
<1>1. ASSUME NEW c \in calls, TransitionUpdate(c)
      PROVE  CurrentInv' /\ StrandsNothing /\ QueuesHeld
  <2>1. c.n \in Notifications /\ c.n.id \in Ids /\ c.n.status # "queued"
    BY DEF DeliveryInv, TypeOK, Calls, CallInv, Notifications
  <2>2. ptr' = ptr /\ boot' = boot
    BY <1>1 DEF TransitionUpdate
  <2>3. CASE Put(c.n)
    <3>1. ~StatusIs(c.n.id, {"queued"})' /\ \A i \in Ids \ {c.n.id} : notifications'[i] = notifications[i]
      BY <2>1, <2>3, PutFacts DEF StatusIs, DeliveryInv, TypeOK
    <3>2. {c.n.id} \in SUBSET Ids
      BY <2>1
    <3> QED BY <2>2, <3>1, <3>2, HoldersStay
  <2>4. CASE notifications' = notifications
    BY <2>2, <2>4, NothingMoves
  <2> QED BY <1>1, <2>3, <2>4 DEF TransitionUpdate, storeVars
<1>2. ASSUME NEW id \in Ids, NEW e \in ReceiptEvents, RecordReceipt(id, e)
      PROVE  CurrentInv' /\ StrandsNothing /\ QueuesHeld
  <2>1. /\ id \in Ids
        /\ ~StatusIs(id, {"queued"})'
        /\ \A i \in Ids \ {id} : notifications'[i] = notifications[i]
    BY <1>2, ReceiptFacts DEF StatusIs, ReceiptStatus, DeliveryInv
  <2>2. ptr' = ptr /\ boot' = boot /\ {id} \in SUBSET Ids
    BY <1>2, <2>1 DEF RecordReceipt
  <2> QED BY <2>1, <2>2, HoldersStay
<1> QED BY <1>1, <1>2

(* No step strands a queued notification while the queue has room. *)
LEMMA StrandStep ==
  DeliveryInv /\ CurrentInv /\ [Next]_vars => CurrentInv' /\ StrandsNothing /\ QueuesHeld
<1> SUFFICES ASSUME DeliveryInv, CurrentInv, [Next]_vars
             PROVE  CurrentInv' /\ StrandsNothing /\ QueuesHeld
  OBVIOUS
<1>1. ASSUME NEW id \in Ids, NEW p \in Ptrs, Submit(id, p)
      PROVE  CurrentInv' /\ StrandsNothing /\ QueuesHeld
  BY <1>1, CreateHolds, EnvironmentAssumption DEF Submit
<1>2. ASSUME NEW id \in Ids, NEW p \in Ptrs, NEW old \in Ids, Replay(old, id, p)
      PROVE  CurrentInv' /\ StrandsNothing /\ QueuesHeld
  <2>1. notifications[old] \in Notifications
    BY <1>2 DEF Replay, DeliveryInv, TypeOK, StoreTypeOK
  <2>2. \E r \in [key : Keys, scheduleAt : Nat, expiresAt : Nat] : Create(id, p, r)
    BY <1>2, <2>1 DEF Replay, Notifications
  <2> QED BY <2>2, CreateHolds
<1>3. ASSUME NEW id \in Ids, NEW p \in Ptrs, Recover(id, p)
      PROVE  CurrentInv' /\ StrandsNothing /\ QueuesHeld
  BY <1>3, RecoverHolds
<1>4. ASSUME NEW p \in Ptrs, SubmitEnqueue(p) \/ Dequeue(p) \/ TimerFires(p) \/ Worker(p)
      PROVE  CurrentInv' /\ StrandsNothing /\ QueuesHeld
  <2>1. CASE ChooseFails(p) \/ SendFails(p)
    BY <2>1, RetryHolds DEF ChooseFails, SendFails, At, Live, Working
  <2>2. CASE Claim(p) \/ Send(p) \/ Expire(p) \/ SendSucceeds(p)
    BY <2>2, ClaimHolds, SendHolds, EndsHold
  <2> QED BY <1>4, <2>1, <2>2, QueueHolds DEF Worker
<1>5. CASE \/ \E c \in calls : TransitionUpdate(c)
           \/ \E id \in Ids, e \in ReceiptEvents : RecordReceipt(id, e)
  BY <1>5, OutsideHolds
<1>6. CASE (\E id \in Ids : Cancel(id) \/ Pause(id)) \/ Refill \/ Tick \/ UNCHANGED vars
  BY <1>6, NothingMoves DEF Cancel, Pause, TransitionGet, Refill, Tick, storeVars, vars
<1>7. CASE Crash
  BY <1>7, CrashHolds
<1> QED BY <1>1, <1>2, <1>3, <1>4, <1>5, <1>6, <1>7 DEF Next

(* While the queue has room, no step of a client, a worker, a timer, a      *)
(* restart or a failing write leaves a queued notification that somebody    *)
(* held without a holder.                                                   *)
THEOREM NothingIsStranded == Spec => OnlyFullStrands
<1>1. Init => CurrentInv
  BY DEF Init, CurrentInv, Live
<1>2. DeliveryInv /\ CurrentInv /\ [Next]_vars => CurrentInv' /\ [StrandsNothing]_vars
  BY StrandStep
<1> QED BY <1>1, <1>2, DeliveryInvariant, PTL DEF Spec, OnlyFullStrands

(* While writes do not fail and the queue never is full, every queued       *)
(* notification that is not scheduled for later is held: by Submit, the     *)
(* queue, a timer, a worker, or Recover's list after a restart.             *)
THEOREM QueuedNotificationsAreHeld ==
  ASSUME "disk" \notin Faults
  PROVE  Spec /\ []~Full => []QueuedIsHeld
<1>1. Init => CurrentInv /\ QueuedIsHeld
  BY DEF Init, CurrentInv, Live, QueuedIsHeld, StatusIs
<1>2. ASSUME DeliveryInv, CurrentInv, QueuedIsHeld, ~Full, [Next]_vars
      PROVE  CurrentInv' /\ QueuedIsHeld'
  <2>1. CurrentInv' /\ StrandsNothing /\ QueuesHeld
    BY <1>2, StrandStep
  <2>2. ASSUME NEW id \in Ids, StatusIs(id, {"queued"})', notifications'[id].scheduleAt = 0
        PROVE  Held(id)'
    <3>1. CASE notifications'[id] = notifications[id]
      <4>1. StatusIs(id, {"queued"}) /\ Held(id)
        BY <1>2, <2>2, <3>1 DEF QueuedIsHeld, StatusIs
      <4> QED BY <1>2, <2>1, <2>2, <4>1 DEF StrandsNothing
    <3> QED BY <2>1, <2>2, <3>1 DEF QueuesHeld
  <2> QED BY <2>1, <2>2 DEF QueuedIsHeld
<1> QED BY <1>1, <1>2, DeliveryInvariant, PTL DEF Spec

-----------------------------------------------------------------------------
(* What is processing is in the hands of a worker *)

(* The worker of ProcessingIsHeld. *)
HasWorker(id) ==
  \E p \in Ptrs : /\ ptr[p] # Nil /\ ptr[p].at \in Working
                  /\ ptr[p].n.id = id /\ ptr[p].n.version = notifications[id].version

LEMMA HeldByWorker ==
  /\ ProcessingIsHeld <=> \A id \in Ids : StatusIs(id, {"processing"}) => HasWorker(id)
  /\ ProcessingIsHeld' <=> \A id \in Ids : StatusIs(id, {"processing"})' => HasWorker(id)'
<1>1. At("choose") \cup At("sending") = {p \in Ptrs : ptr[p] # Nil /\ ptr[p].at \in Working}
  BY DEF At, Working
<1>2. (At("choose") \cup At("sending"))' = {p \in Ptrs : ptr'[p] # Nil /\ ptr'[p].at \in Working}
  BY DEF At, Working
<1> QED BY <1>1, <1>2 DEF ProcessingIsHeld, HasWorker

(* The holder of a copy is the worker, if there is one. *)
LEMMA HolderIsWorker ==
  ASSUME DeliveryInv, ProcessingIsHeld, NEW p \in Ptrs, Live(p), NEW id \in Ids,
         ptr[p].n.id = id, StatusIs(id, {"processing"})
  PROVE  ptr[p].at \in Working /\ ptr[p].n.version = notifications[id].version
<1>1. HasWorker(id)
  BY HeldByWorker
<1>2. PICK q \in Ptrs : /\ ptr[q] # Nil /\ ptr[q].at \in Working
                        /\ ptr[q].n.id = id /\ ptr[q].n.version = notifications[id].version
  BY <1>1 DEF HasWorker
<1>3. q = p
  BY <1>2 DEF DeliveryInv, OneCopy, Live
<1> QED BY <1>2, <1>3

(* A step on one notification that leaves it with a worker or not           *)
(* processing, and the copies of the others alone.                          *)
LEMMA WorkersStay ==
  ASSUME ProcessingIsHeld, NEW id \in Ids,
         \A i \in Ids : i # id => notifications'[i] = notifications[i],
         \A q \in Ptrs : ptr[q] # Nil /\ ptr[q].n.id # id => ptr'[q] = ptr[q],
         ~StatusIs(id, {"processing"})' \/ HasWorker(id)'
  PROVE  ProcessingIsHeld'
<1>1. ASSUME NEW i \in Ids, StatusIs(i, {"processing"})'
      PROVE  HasWorker(i)'
  <2>1. CASE i = id
    BY <1>1, <2>1
  <2>2. CASE i # id
    <3>1. StatusIs(i, {"processing"}) /\ notifications'[i] = notifications[i]
      BY <1>1, <2>2 DEF StatusIs
    <3>2. HasWorker(i)
      BY <3>1, HeldByWorker
    <3>3. PICK q \in Ptrs : /\ ptr[q] # Nil /\ ptr[q].at \in Working
                            /\ ptr[q].n.id = i /\ ptr[q].n.version = notifications[i].version
      BY <3>2 DEF HasWorker
    <3>4. ptr'[q] = ptr[q]
      BY <2>2, <3>3
    <3> QED BY <3>1, <3>3, <3>4 DEF HasWorker
  <2> QED BY <2>1, <2>2
<1> QED BY <1>1, HeldByWorker

(* The other copies are of other notifications. *)
LEMMA OthersStay ==
  ASSUME DeliveryInv, NEW p \in Ptrs, NEW id \in Ids, Live(p), ptr[p].n.id = id,
         \A q \in Ptrs : q # p => ptr'[q] = ptr[q]
  PROVE  \A q \in Ptrs : ptr[q] # Nil /\ ptr[q].n.id # id => ptr'[q] = ptr[q]
  OBVIOUS

(* Nothing is processing that a waiting copy is of; moving it changes that  *)
(* not.                                                                     *)
LEMMA WaitingMoves ==
  ASSUME DeliveryInv, ProcessingIsHeld, NEW p \in Ptrs,
         SubmitEnqueue(p) \/ Dequeue(p) \/ TimerFires(p) \/ Throttle(p)
  PROVE  ProcessingIsHeld'
<1>1. Live(p) /\ ptr[p].at \notin Working /\ notifications' = notifications
  BY DEF SubmitEnqueue, Dequeue, TimerFires, Throttle, At, Live, Working, storeVars
<1>2. PICK id \in Ids : ptr[p].n.id = id
  BY <1>1, CopyFacts
<1>3. \A q \in Ptrs : q # p => ptr'[q] = ptr[q]
  <2>1. (\E w : Move(p, w)) \/ Drop(p)
    BY DEF SubmitEnqueue, Dequeue, TimerFires, Throttle, Enqueue
  <2> QED BY <2>1 DEF Move, Drop, DeliveryInv, TypeOK
<1>4. ~StatusIs(id, {"processing"})
  BY <1>1, <1>2, HolderIsWorker
<1>5. ~StatusIs(id, {"processing"})'
  BY <1>1, <1>4 DEF StatusIs
<1>6. \A q \in Ptrs : ptr[q] # Nil /\ ptr[q].n.id # id => ptr'[q] = ptr[q]
  BY <1>1, <1>2, <1>3, OthersStay
<1> QED BY <1>1, <1>5, <1>6, WorkersStay

(* Expire and the end of a send: an Update the worker's copy passes. *)
LEMMA EndsProcessing ==
  ASSUME DeliveryInv, ProcessingIsHeld, NEW p \in Ptrs, Live(p),
         NEW n \in Notifications, ptr[p].n = n,
         NEW m \in Notifications, m.id = n.id, m.status # "processing",
         Update(m, n.version)
  PROVE  /\ n.id \in Ids /\ ~StatusIs(n.id, {"processing"})'
         /\ \A i \in Ids : i # n.id => notifications'[i] = notifications[i]
<1>1. n.id \in Ids /\ n.version \in Nat
  BY DEF Notifications
<1>2. /\ \A i \in Ids : i # n.id => notifications'[i] = notifications[i]
      /\ \/ notifications'[n.id] = m
         \/ notifications'[n.id] = notifications[n.id] /\ ~UpdateAllowed(m, n.version)
  BY <1>1, UpdateLeaves
<1>3. StatusIs(n.id, {"processing"}) => UpdateAllowed(m, n.version)
  BY <1>1, HolderIsWorker DEF UpdateAllowed, StatusIs
<1>4. ~StatusIs(n.id, {"processing"})'
  BY <1>2, <1>3 DEF StatusIs
<1> QED BY <1>1, <1>2, <1>4

(* Expire, SendSucceeds and retry leave the notification not processing. *)
LEMMA WorkerEnds ==
  ASSUME DeliveryInv, ProcessingIsHeld, NEW p \in Ptrs,
         \/ Expire(p) \/ SendSucceeds(p)
         \/ retry(p) /\ Live(p) /\ ptr[p].at \in Working
  PROVE  ProcessingIsHeld'
<1>1. Live(p)
  BY DEF Expire, SendSucceeds, At, Live
<1>2. PICK n \in Notifications : ptr[p].n = n
  BY <1>1, CopyFacts
<1>3. {"expired", "accepted", "failed", "queued"} \subseteq Status
  BY DEF Status
<1>4. PICK next \in {"expired", "accepted", "failed", "queued"} :
        Update(Transition(n, next), n.version)
  <2>1. CASE Expire(p)
    <3>1. n.status = "queued"
      BY <1>1, <1>2, <2>1, CopyFacts DEF Expire, At, Waiting, CopyOK
    <3> QED BY <1>2, <2>1, <3>1 DEF Expire, CanTransition, allowed
  <2>2. CASE SendSucceeds(p)
    <3>1. n.status = "processing"
      BY <1>1, <1>2, <2>2, CopyFacts DEF SendSucceeds, At, Working, CopyOK
    <3> QED BY <1>2, <2>2, <3>1 DEF SendSucceeds, CanTransition, allowed
  <2>3. CASE retry(p) /\ ptr[p].at \in Working
    <3>1. n.status = "processing"
      BY <1>1, <1>2, <2>3, CopyFacts DEF CopyOK
    <3> QED BY <1>2, <2>3, <3>1 DEF retry, CanTransition, allowed
  <2> QED BY <2>1, <2>2, <2>3
<1>5. PICK m \in Notifications : m = Transition(n, next) /\ m.id = n.id /\ m.status # "processing"
  BY <1>3, TransitionFacts
<1>6. /\ n.id \in Ids /\ ~StatusIs(n.id, {"processing"})'
      /\ \A i \in Ids : i # n.id => notifications'[i] = notifications[i]
  BY <1>1, <1>2, <1>4, <1>5, EndsProcessing
<1>7. \A q \in Ptrs : q # p => ptr'[q] = ptr[q]
  BY DEF Expire, SendSucceeds, retry, Drop, DeliveryInv, TypeOK
<1>8. \A q \in Ptrs : ptr[q] # Nil /\ ptr[q].n.id # n.id => ptr'[q] = ptr[q]
  BY <1>1, <1>2, <1>6, <1>7, OthersStay
<1> QED BY <1>6, <1>8, WorkersStay

(* Claim makes the worker the holder, at the version it has stored. *)
LEMMA ClaimWorks ==
  ASSUME "disk" \notin Faults, DeliveryInv, ProcessingIsHeld, NEW p \in Ptrs, Claim(p)
  PROVE  ProcessingIsHeld'
<1>1. Live(p) /\ ptr[p].at \in Waiting /\ ptr[p].at \notin Working
  BY DEF Claim, At, Live, Waiting, Working
<1>2. PICK n \in Notifications : ptr[p].n = n
  BY <1>1, CopyFacts
<1>3. n.id \in Ids /\ n.status = "queued"
  BY <1>1, <1>2, CopyFacts DEF CopyOK, Notifications
<1>4. PICK m \in Notifications :
        /\ m.id = n.id
        /\ \/ Put(m) /\ ptr' = [ptr EXCEPT ![p] = [at |-> "choose", n |-> m]]
           \/ UNCHANGED storeVars /\ Drop(p)
  <2>1. CanTransition(n, "processing") /\ "processing" \in Status
    BY <1>3 DEF CanTransition, allowed, Status
  <2>2. LET m == Transition(n, "processing") IN
          \/ Put(m) /\ ptr' = [ptr EXCEPT ![p] = [at |-> "choose", n |-> m]]
          \/ UNCHANGED storeVars /\ Drop(p)
    BY <1>2, <2>1 DEF Claim, PersistFails
  <2> QED BY <2>1, <2>2, TransitionFacts
<1>5. \A q \in Ptrs : q # p => ptr'[q] = ptr[q]
  BY <1>4 DEF Drop, DeliveryInv, TypeOK
<1>6. \A q \in Ptrs : ptr[q] # Nil /\ ptr[q].n.id # n.id => ptr'[q] = ptr[q]
  BY <1>1, <1>2, <1>3, <1>5, OthersStay
<1>7. CASE Put(m) /\ ptr' = [ptr EXCEPT ![p] = [at |-> "choose", n |-> m]]
  <2>1. /\ notifications'[n.id] = m
        /\ \A i \in Ids : i # n.id => notifications'[i] = notifications[i]
    BY <1>3, <1>4, <1>7 DEF Put, DeliveryInv, TypeOK, StoreTypeOK
  <2>2. ptr'[p] = [at |-> "choose", n |-> m]
    BY <1>7 DEF DeliveryInv, TypeOK
  <2>3. [at |-> "choose", n |-> m] \in [at : Place, n : Notifications]
    BY DEF Place
  <2>4. ptr'[p] # Nil /\ ptr'[p].at \in Working /\ ptr'[p].n = m
    BY <2>2, <2>3, NilAssumption DEF Working
  <2>5. HasWorker(n.id)'
    BY <1>4, <2>1, <2>4 DEF HasWorker
  <2> QED BY <1>3, <1>6, <2>1, <2>5, WorkersStay
<1>8. CASE UNCHANGED storeVars /\ Drop(p)
  <2>1. notifications' = notifications
    BY <1>8 DEF storeVars
  <2>2. ~StatusIs(n.id, {"processing"})
    BY <1>1, <1>2, <1>3, HolderIsWorker
  <2>3. ~StatusIs(n.id, {"processing"})'
    BY <2>1, <2>2 DEF StatusIs
  <2> QED BY <1>3, <1>6, <2>1, <2>3, WorkersStay
<1> QED BY <1>4, <1>7, <1>8

(* Send counts an attempt on the worker's copy, whose version stays. *)
LEMMA SendWorks ==
  ASSUME DeliveryInv, ProcessingIsHeld, NEW p \in Ptrs, Send(p)
  PROVE  ProcessingIsHeld'
<1>1. Live(p) /\ notifications' = notifications
  BY DEF Send, At, Live, storeVars
<1>2. PICK n \in Notifications : ptr[p].n = n
  BY <1>1, CopyFacts
<1>3. n.id \in Ids
  BY DEF Notifications
<1>4. PICK m \in Notifications :
        /\ m.id = n.id /\ m.version = n.version
        /\ ptr' = [ptr EXCEPT ![p] = [at |-> "sending", n |-> m]]
  <2>1. LET m == [n EXCEPT !.attempts = @ + 1] IN
          m \in Notifications /\ m.id = n.id /\ m.version = n.version
    BY DEF Notifications
  <2> QED BY <1>2, <2>1 DEF Send
<1>5. /\ ptr'[p] = [at |-> "sending", n |-> m]
      /\ \A q \in Ptrs : q # p => ptr'[q] = ptr[q]
  BY <1>4 DEF DeliveryInv, TypeOK
<1>6. [at |-> "sending", n |-> m] \in [at : Place, n : Notifications]
  BY DEF Place
<1>7. ptr'[p] # Nil /\ ptr'[p].at \in Working /\ ptr'[p].n = m
  BY <1>5, <1>6, NilAssumption DEF Working
<1>8. \A q \in Ptrs : ptr[q] # Nil /\ ptr[q].n.id # n.id => ptr'[q] = ptr[q]
  BY <1>1, <1>2, <1>3, <1>5, OthersStay
<1>9. StatusIs(n.id, {"processing"})' => HasWorker(n.id)'
  <2>1. StatusIs(n.id, {"processing"})' => n.version = notifications[n.id].version
    BY <1>1, <1>2, <1>3, HolderIsWorker DEF StatusIs
  <2> QED BY <1>1, <1>4, <1>7, <2>1 DEF HasWorker
<1> QED BY <1>1, <1>3, <1>8, <1>9, WorkersStay

(* Submit and Replay store a queued record under a new id. *)
LEMMA CreateWorks ==
  ASSUME DeliveryInv, ProcessingIsHeld, NEW id \in Ids, NEW p \in Ptrs, NEW r, Create(id, p, r)
  PROVE  ProcessingIsHeld'
<1>1. /\ notifications' = [notifications EXCEPT ![id] = Requested(id, r)] /\ ptr[p] = Nil
      /\ \/ ptr' = [ptr EXCEPT ![p] = [at |-> "submit", n |-> Requested(id, r)]]
         \/ ptr' = ptr
  BY DEF Create
<1>2. /\ notifications'[id] = Requested(id, r)
      /\ \A i \in Ids : i # id => notifications'[i] = notifications[i]
  BY <1>1 DEF DeliveryInv, TypeOK, StoreTypeOK
<1>3. ~StatusIs(id, {"processing"})'
  BY <1>2 DEF StatusIs, Requested
<1>4. \A q \in Ptrs : ptr[q] # Nil => ptr'[q] = ptr[q]
  BY <1>1 DEF DeliveryInv, TypeOK
<1> QED BY <1>2, <1>3, <1>4, WorkersStay

(* Recover makes copies of queued records. *)
LEMMA RecoverWorks ==
  ASSUME DeliveryInv, ProcessingIsHeld, NEW id \in Ids, NEW p \in Ptrs, Recover(id, p)
  PROVE  ProcessingIsHeld'
<1>1. /\ id \in boot /\ ptr[p] = Nil /\ notifications' = notifications
      /\ \A q \in Ptrs : q # p => ptr'[q] = ptr[q]
  BY DEF Recover, storeVars, DeliveryInv, TypeOK
<1>2. ~StatusIs(id, {"processing"})'
  BY <1>1 DEF DeliveryInv, BootInv, StatusIs
<1>3. \A q \in Ptrs : ptr[q] # Nil => ptr'[q] = ptr[q]
  BY <1>1
<1> QED BY <1>1, <1>2, <1>3, WorkersStay

(* Clients and receipts move a notification to something not processing. *)
LEMMA OutsideWorks ==
  ASSUME DeliveryInv, ProcessingIsHeld, ptr' = ptr, NEW id \in Ids,
         notifications' = notifications \/ ~StatusIs(id, {"processing"})',
         \A i \in Ids : i # id => notifications'[i] = notifications[i]
  PROVE  ProcessingIsHeld'
<1>1. CASE notifications' = notifications
  BY <1>1 DEF ProcessingIsHeld, At, StatusIs
<1>2. CASE ~StatusIs(id, {"processing"})'
  BY <1>2, WorkersStay
<1> QED BY <1>1, <1>2

LEMMA ProcessingStep ==
  ASSUME {"crash", "disk"} \cap Faults = {}, DeliveryInv, ProcessingIsHeld, [Next]_vars
  PROVE  ProcessingIsHeld'
<1>1. ASSUME NEW id \in Ids, NEW p \in Ptrs, NEW old \in Ids,
             Submit(id, p) \/ Replay(old, id, p)
      PROVE  ProcessingIsHeld'
  BY <1>1, CreateWorks DEF Submit, Replay
<1>2. ASSUME NEW id \in Ids, NEW p \in Ptrs, Recover(id, p)
      PROVE  ProcessingIsHeld'
  BY <1>2, RecoverWorks
<1>3. ASSUME NEW p \in Ptrs, SubmitEnqueue(p) \/ Dequeue(p) \/ TimerFires(p) \/ Worker(p)
      PROVE  ProcessingIsHeld'
  <2>1. CASE ChooseFails(p) \/ SendFails(p)
    BY <2>1, WorkerEnds DEF ChooseFails, SendFails, At, Live, Working
  <2>2. CASE Expire(p) \/ SendSucceeds(p)
    BY <2>2, WorkerEnds
  <2>3. CASE Claim(p) \/ Send(p)
    BY <2>3, ClaimWorks, SendWorks
  <2> QED BY <1>3, <2>1, <2>2, <2>3, WaitingMoves DEF Worker
<1>4. ASSUME NEW c \in calls, TransitionUpdate(c)
      PROVE  ProcessingIsHeld'
  <2>1. c.n \in Notifications /\ c.n.id \in Ids /\ c.n.status # "processing"
    BY DEF DeliveryInv, TypeOK, Calls, CallInv, Notifications
  <2>2. ptr' = ptr /\ (Put(c.n) \/ notifications' = notifications)
    BY <1>4 DEF TransitionUpdate, storeVars
  <2>3. Put(c.n) => /\ ~StatusIs(c.n.id, {"processing"})'
                    /\ \A i \in Ids : i # c.n.id => notifications'[i] = notifications[i]
    BY <2>1, PutFacts DEF StatusIs, DeliveryInv, TypeOK
  <2> QED BY <2>1, <2>2, <2>3, OutsideWorks
<1>5. ASSUME NEW id \in Ids, NEW e \in ReceiptEvents, RecordReceipt(id, e)
      PROVE  ProcessingIsHeld'
  <2>1. /\ id \in Ids
        /\ ~StatusIs(id, {"processing"})'
        /\ \A i \in Ids : i # id => notifications'[i] = notifications[i]
    BY <1>5, ReceiptFacts DEF StatusIs, ReceiptStatus, DeliveryInv
  <2>2. ptr' = ptr
    BY <1>5 DEF RecordReceipt
  <2> QED BY <2>1, <2>2, OutsideWorks
<1>6. CASE (\E id \in Ids : Cancel(id) \/ Pause(id)) \/ Refill \/ Tick \/ UNCHANGED vars
  <2>1. notifications' = notifications /\ ptr' = ptr
    BY <1>6 DEF Cancel, Pause, TransitionGet, Refill, Tick, storeVars, vars
  <2> QED BY <2>1 DEF ProcessingIsHeld, At, StatusIs
<1>7. ~Crash
  BY DEF Crash
<1> QED BY <1>1, <1>2, <1>3, <1>4, <1>5, <1>6, <1>7 DEF Next

(* Without crashes and failing writes no notification is left processing:   *)
(* a worker has it, at the stored version, until it has moved it on, though *)
(* clients and receipts change records during Provider.Send and deliver and *)
(* retry ignore what Update answers.                                        *)
THEOREM ProcessingNotificationsAreHeld ==
  ASSUME {"crash", "disk"} \cap Faults = {}
  PROVE  Spec => []ProcessingIsHeld
<1>1. Init => ProcessingIsHeld
  BY DEF Init, ProcessingIsHeld, StatusIs
<1>2. DeliveryInv /\ ProcessingIsHeld /\ [Next]_vars => ProcessingIsHeld'
  BY ProcessingStep
<1> QED BY <1>1, <1>2, DeliveryInvariant, PTL DEF Spec

-----------------------------------------------------------------------------
(* The dispatcher by itself keeps to the state machine *)

(* A copy is of the stored version, and what waits is queued. *)
AloneInv ==
  \A p \in Ptrs : Live(p) =>
    LET s == notifications[ptr[p].n.id] IN
    ptr[p].n.version = s.version /\ (ptr[p].at \in Waiting => s.status = "queued")

(* What becomes processing was queued. *)
ClaimsQueued ==
  \A i \in Ids : StatusIs(i, {"processing"})' =>
    notifications'[i] = notifications[i] \/ StatusIs(i, {"queued"})

(* A step on one notification, of which at most copy p is left. *)
LEMMA ActsAlone ==
  ASSUME DeliveryInv, AloneInv, NEW id \in Ids, NEW p \in Ptrs,
         Live(p) => ptr[p].n.id = id,
         \A q \in Ptrs : q # p /\ Live(q) => ptr[q].n.id # id,
         \A q \in Ptrs : q # p => ptr'[q] = ptr[q],
         \A i \in Ids : i # id => notifications'[i] = notifications[i],
         \/ ptr'[p] = Nil
         \/ /\ ptr'[p].n.id = id /\ ptr'[p].n.version = notifications'[id].version
            /\ ptr'[p].at \in Waiting => notifications'[id].status = "queued",
         \/ StatusIs(id, {"queued"}) \/ ~StatusIs(id, {"processing"})'
         \/ notifications'[id] = notifications[id]
  PROVE  AloneInv' /\ ClaimsQueued
<1>1. ASSUME NEW q \in Ptrs, ptr'[q] # Nil, NEW i, ptr'[q].n.id = i
      PROVE  /\ ptr'[q].n.version = notifications'[i].version
             /\ ptr'[q].at \in Waiting => notifications'[i].status = "queued"
  <2>1. CASE q = p
    BY <1>1, <2>1
  <2>2. CASE q # p
    <3>1. ptr'[q] = ptr[q] /\ Live(q) /\ ptr[q].n.id = i /\ i # id
      BY <1>1, <2>2 DEF Live
    <3>2. i \in Ids
      BY <3>1, CopyFacts
    <3>3. notifications'[i] = notifications[i]
      BY <3>1, <3>2
    <3> QED BY <3>1, <3>3 DEF AloneInv
  <2> QED BY <2>1, <2>2
<1>2. AloneInv'
  BY <1>1 DEF AloneInv, Live
<1> QED BY <1>2 DEF ClaimsQueued

(* In particular, a step of the holder of p. *)
LEMMA HolderAlone ==
  ASSUME DeliveryInv, AloneInv, NEW id \in Ids, NEW p \in Ptrs, Live(p), ptr[p].n.id = id,
         \A q \in Ptrs : q # p => ptr'[q] = ptr[q],
         \A i \in Ids : i # id => notifications'[i] = notifications[i],
         \/ ptr'[p] = Nil
         \/ /\ ptr'[p].n.id = id /\ ptr'[p].n.version = notifications'[id].version
            /\ ptr'[p].at \in Waiting => notifications'[id].status = "queued",
         \/ StatusIs(id, {"queued"}) \/ ~StatusIs(id, {"processing"})'
         \/ notifications'[id] = notifications[id]
  PROVE  AloneInv' /\ ClaimsQueued
<1>1. \A q \in Ptrs : q # p /\ Live(q) => ptr[q].n.id # id
  BY DEF DeliveryInv, OneCopy, Live
<1> QED BY <1>1, ActsAlone

(* Nothing moves. *)
LEMMA IdleAlone ==
  ASSUME AloneInv, UNCHANGED <<ptr, notifications>>
  PROVE  AloneInv' /\ ClaimsQueued
  BY DEF AloneInv, ClaimsQueued, Live

(* A waiting copy moves on or is let go of. *)
LEMMA QueueAlone ==
  ASSUME DeliveryInv, AloneInv, NEW p \in Ptrs,
         SubmitEnqueue(p) \/ Dequeue(p) \/ TimerFires(p) \/ Throttle(p)
  PROVE  AloneInv' /\ ClaimsQueued
<1>1. Live(p) /\ ptr[p].at \in Waiting /\ notifications' = notifications
  BY DEF SubmitEnqueue, Dequeue, TimerFires, Throttle, At, Live, Waiting, storeVars
<1>2. PICK id \in Ids : ptr[p].n.id = id
  BY <1>1, CopyFacts
<1>3. notifications[id].status = "queued" /\ ptr[p].n.version = notifications[id].version
  BY <1>1, <1>2 DEF AloneInv
<1>4. ptr \in [Ptrs -> [at : Place, n : Notifications] \cup {Nil}]
  BY DEF DeliveryInv, TypeOK
<1>5. CASE Drop(p)
  <2>1. ptr'[p] = Nil /\ \A q \in Ptrs : q # p => ptr'[q] = ptr[q]
    BY <1>4, <1>5, DropFacts
  <2> QED BY <1>1, <1>2, <2>1, HolderAlone
<1>6. ASSUME NEW w \in Place, Move(p, w)
      PROVE  AloneInv' /\ ClaimsQueued
  <2>1. /\ ptr'[p] = [at |-> w, n |-> ptr[p].n]
        /\ \A q \in Ptrs : q # p => ptr'[q] = ptr[q]
    BY <1>1, <1>4, <1>6, MoveFacts DEF Live
  <2>2. ptr'[p].n = ptr[p].n
    BY <2>1
  <2> QED BY <1>1, <1>2, <1>3, <2>1, <2>2, HolderAlone
<1>7. (\E w \in Place : Move(p, w)) \/ Drop(p)
  <2>1. {"queue", "timer", "deliver"} \subseteq Place
    BY DEF Place
  <2>2. CASE Dequeue(p)
    BY <2>1, <2>2 DEF Dequeue
  <2> QED BY <2>1, <2>2 DEF SubmitEnqueue, TimerFires, Throttle, Enqueue
<1> QED BY <1>5, <1>6, <1>7

(* Expire and SendSucceeds let go of the copy. *)
LEMMA EndAlone ==
  ASSUME DeliveryInv, AloneInv, NEW p \in Ptrs, Expire(p) \/ SendSucceeds(p)
  PROVE  AloneInv' /\ ClaimsQueued
<1>1. Live(p) /\ Drop(p)
  BY DEF Expire, SendSucceeds, At, Live
<1>2. PICK n \in Notifications : ptr[p].n = n
  BY <1>1, CopyFacts
<1>3. n.id \in Ids /\ n.version \in Nat /\ {"expired", "accepted"} \subseteq Status
  BY DEF Notifications, Status
<1>4. PICK next \in {"expired", "accepted"} : Update(Transition(n, next), n.version)
  <2>1. CASE Expire(p)
    <3>1. n.status = "queued"
      BY <1>1, <1>2, <2>1, CopyFacts DEF Expire, At, Waiting, CopyOK
    <3> QED BY <1>2, <2>1, <3>1 DEF Expire, CanTransition, allowed
  <2>2. CASE SendSucceeds(p)
    <3>1. n.status = "processing"
      BY <1>1, <1>2, <2>2, CopyFacts DEF SendSucceeds, At, Working, CopyOK
    <3> QED BY <1>2, <2>2, <3>1 DEF SendSucceeds, CanTransition, allowed
  <2> QED BY <2>1, <2>2
<1>5. PICK m \in Notifications : m = Transition(n, next) /\ m.id = n.id /\ m.status # "processing"
  BY <1>3, TransitionFacts
<1>6. /\ \A i \in Ids : i # n.id => notifications'[i] = notifications[i]
      /\ notifications'[n.id] = m \/ notifications'[n.id] = notifications[n.id]
  BY <1>3, <1>4, <1>5, UpdateLeaves
<1>7. ptr'[p] = Nil /\ \A q \in Ptrs : q # p => ptr'[q] = ptr[q]
  BY <1>1, DropFacts DEF DeliveryInv, TypeOK
<1>8. ~StatusIs(n.id, {"processing"})' \/ notifications'[n.id] = notifications[n.id]
  BY <1>5, <1>6 DEF StatusIs
<1> QED BY <1>1, <1>2, <1>3, <1>6, <1>7, <1>8, HolderAlone

(* Claim takes what is queued to processing. *)
LEMMA ClaimAlone ==
  ASSUME DeliveryInv, AloneInv, NEW p \in Ptrs, Claim(p)
  PROVE  AloneInv' /\ ClaimsQueued
<1>1. Live(p) /\ ptr[p].at \in Waiting
  BY DEF Claim, At, Live, Waiting
<1>2. PICK n \in Notifications : ptr[p].n = n
  BY <1>1, CopyFacts
<1>3. n.id \in Ids /\ StatusIs(n.id, {"queued"})
  BY <1>1, <1>2, CopyFacts DEF CopyOK, AloneInv, StatusIs, Notifications
<1>4. PICK m \in Notifications :
        /\ m.id = n.id
        /\ Put(m) \/ notifications' = notifications
        /\ \/ Put(m) /\ ptr' = [ptr EXCEPT ![p] = [at |-> "choose", n |-> m]]
           \/ Drop(p)
  <2>1. "processing" \in Status
    BY DEF Status
  <2>2. LET m == Transition(n, "processing") IN
          /\ Put(m) \/ notifications' = notifications
          /\ \/ Put(m) /\ ptr' = [ptr EXCEPT ![p] = [at |-> "choose", n |-> m]]
             \/ Drop(p)
    BY <1>2 DEF Claim, storeVars
  <2> QED BY <2>1, <2>2, TransitionFacts
<1>5. \A i \in Ids : i # n.id => notifications'[i] = notifications[i]
  BY <1>4, PutFacts DEF DeliveryInv, TypeOK
<1>6. CASE Drop(p)
  <2>1. ptr'[p] = Nil /\ \A q \in Ptrs : q # p => ptr'[q] = ptr[q]
    BY <1>6, DropFacts DEF DeliveryInv, TypeOK
  <2> QED BY <1>1, <1>2, <1>3, <1>5, <2>1, HolderAlone
<1>7. CASE Put(m) /\ ptr' = [ptr EXCEPT ![p] = [at |-> "choose", n |-> m]]
  <2>1. notifications'[n.id] = m
    BY <1>4, <1>7, PutFacts DEF DeliveryInv, TypeOK
  <2>2. /\ ptr'[p] = [at |-> "choose", n |-> m]
        /\ \A q \in Ptrs : q # p => ptr'[q] = ptr[q]
    BY <1>7 DEF DeliveryInv, TypeOK
  <2>3. ptr'[p].n = m /\ ptr'[p].at \notin Waiting
    BY <2>2 DEF Waiting
  <2> QED BY <1>1, <1>2, <1>3, <1>4, <1>5, <2>1, <2>2, <2>3, HolderAlone
<1> QED BY <1>4, <1>6, <1>7

(* Send keeps the version. *)
LEMMA SendAlone ==
  ASSUME DeliveryInv, AloneInv, NEW p \in Ptrs, Send(p)
  PROVE  AloneInv' /\ ClaimsQueued
<1>1. Live(p) /\ notifications' = notifications
  BY DEF Send, At, Live, storeVars
<1>2. PICK n \in Notifications : ptr[p].n = n
  BY <1>1, CopyFacts
<1>3. n.id \in Ids /\ n.version = notifications[n.id].version
  BY <1>1, <1>2 DEF Notifications, AloneInv
<1>4. PICK m \in Notifications :
        /\ m.id = n.id /\ m.version = n.version
        /\ ptr' = [ptr EXCEPT ![p] = [at |-> "sending", n |-> m]]
  <2>1. LET m == [n EXCEPT !.attempts = @ + 1] IN
          m \in Notifications /\ m.id = n.id /\ m.version = n.version
    BY DEF Notifications
  <2> QED BY <1>2, <2>1 DEF Send
<1>5. /\ ptr'[p] = [at |-> "sending", n |-> m]
      /\ \A q \in Ptrs : q # p => ptr'[q] = ptr[q]
  BY <1>4 DEF DeliveryInv, TypeOK
<1>6. ptr'[p].n = m /\ ptr'[p].at \notin Waiting
  BY <1>5 DEF Waiting
<1> QED BY <1>1, <1>2, <1>3, <1>4, <1>5, <1>6, HolderAlone

(* retry's Update passes, so the copy it keeps is the stored record. *)
LEMMA RetryAlone ==
  ASSUME DeliveryInv, AloneInv, NEW p \in Ptrs, Live(p), ptr[p].at \in Working, retry(p)
  PROVE  AloneInv' /\ ClaimsQueued
<1>1. PICK n \in Notifications : ptr[p].n = n
  BY CopyFacts
<1>2. /\ n.id \in Ids /\ n.version \in Nat /\ n.status = "processing"
      /\ notifications[n.id] # Nil /\ notifications[n.id].version = n.version
  BY <1>1, CopyFacts DEF CopyOK, AloneInv, Notifications
<1>3. PICK m \in Notifications :
        /\ m.id = n.id /\ Update(m, n.version)
        /\ \/ m.status = "failed" /\ Drop(p)
           \/ m.status = "queued" /\ ptr' = [ptr EXCEPT ![p] = [at |-> "timer", n |-> m]]
  <2> DEFINE next == IF n.attempts >= MaxAttempts THEN "failed" ELSE "queued"
             m == Transition(n, next)
  <2>1. next \in Status /\ CanTransition(n, next) /\ (next = "queued" \/ next = "failed")
    BY <1>2 DEF CanTransition, allowed, Status
  <2>2. /\ Update(m, n.version)
        /\ IF next = "queued" THEN ptr' = [ptr EXCEPT ![p] = [at |-> "timer", n |-> m]]
                              ELSE Drop(p)
    BY <1>1, <2>1 DEF retry
  <2>3. m \in Notifications /\ m.id = n.id /\ m.status = next
    BY <2>1, TransitionFacts
  <2> HIDE DEF m, next
  <2> QED BY <2>1, <2>2, <2>3
<1>4. /\ \A i \in Ids : i # n.id => notifications'[i] = notifications[i]
      /\ notifications'[n.id] = m
  BY <1>2, <1>3, UpdateLeaves DEF UpdateAllowed
<1>5. ~StatusIs(n.id, {"processing"})'
  BY <1>3, <1>4 DEF StatusIs
<1>6. CASE Drop(p)
  <2>1. ptr'[p] = Nil /\ \A q \in Ptrs : q # p => ptr'[q] = ptr[q]
    BY <1>6, DropFacts DEF DeliveryInv, TypeOK
  <2> QED BY <1>1, <1>2, <1>4, <1>5, <2>1, HolderAlone
<1>7. CASE m.status = "queued" /\ ptr' = [ptr EXCEPT ![p] = [at |-> "timer", n |-> m]]
  <2>1. /\ ptr'[p] = [at |-> "timer", n |-> m]
        /\ \A q \in Ptrs : q # p => ptr'[q] = ptr[q]
    BY <1>7 DEF DeliveryInv, TypeOK
  <2>2. ptr'[p].n = m
    BY <2>1
  <2> QED BY <1>1, <1>2, <1>3, <1>4, <1>5, <1>7, <2>1, <2>2, HolderAlone
<1> QED BY <1>3, <1>6, <1>7

(* Submit, Replay and Recover make copies of what is stored and queued. *)
LEMMA NewCopyAlone ==
  ASSUME DeliveryInv, AloneInv, NEW id \in Ids, NEW p \in Ptrs,
         \/ Recover(id, p)
         \/ \E r \in [key : Keys, scheduleAt : Nat, expiresAt : Nat] : Create(id, p, r)
  PROVE  AloneInv' /\ ClaimsQueued
<1>1. ptr[p] = Nil /\ ~Live(p)
  BY DEF Recover, Create, Live
<1>2. \A q \in Ptrs : Live(q) => ptr[q].n.id # id
  <2>1. CASE Recover(id, p)
    <3>1. id \in boot /\ BootInv
      BY <2>1 DEF Recover, DeliveryInv
    <3> QED BY <3>1 DEF BootInv
  <2>2. ASSUME NEW r, Create(id, p, r), NEW q \in Ptrs, Live(q)
        PROVE  ptr[q].n.id # id
    BY <2>2, CopyFacts DEF Create, Fresh, CopyOK
  <2> QED BY <2>1, <2>2
<1>3. PICK m \in Notifications :
        /\ m.id = id /\ m.status = "queued" /\ notifications'[id] = m
        /\ ptr' = ptr \/ \E w : ptr' = [ptr EXCEPT ![p] = [at |-> w, n |-> m]]
        /\ \A i \in Ids : i # id => notifications'[i] = notifications[i]
  <2>1. CASE Recover(id, p)
    <3>1. id \in boot /\ notifications' = notifications
      BY <2>1 DEF Recover, storeVars
    <3>2. /\ notifications[id] \in Notifications /\ notifications[id].id = id
          /\ notifications[id].status = "queued"
      BY <3>1 DEF DeliveryInv, TypeOK, StoreTypeOK, BootInv, StatusIs
    <3>3. ptr' = ptr \/ ptr' = [ptr EXCEPT ![p] = [at |-> "queue", n |-> notifications[id]]]
      BY <2>1 DEF Recover
    <3> QED BY <3>1, <3>2, <3>3
  <2>2. ASSUME NEW r \in [key : Keys, scheduleAt : Nat, expiresAt : Nat], Create(id, p, r)
        PROVE  \E m \in Notifications :
                 /\ m.id = id /\ m.status = "queued" /\ notifications'[id] = m
                 /\ ptr' = ptr \/ \E w : ptr' = [ptr EXCEPT ![p] = [at |-> w, n |-> m]]
                 /\ \A i \in Ids : i # id => notifications'[i] = notifications[i]
    <3>1. PICK m \in Notifications : m = Requested(id, r) /\ m.id = id /\ m.status = "queued"
      BY RequestedFacts
    <3>2. /\ notifications' = [notifications EXCEPT ![id] = m]
          /\ ptr' = ptr \/ ptr' = [ptr EXCEPT ![p] = [at |-> "submit", n |-> m]]
      BY <2>2, <3>1 DEF Create
    <3>3. /\ notifications'[id] = m
          /\ \A i \in Ids : i # id => notifications'[i] = notifications[i]
      BY <3>2 DEF DeliveryInv, TypeOK, StoreTypeOK
    <3> QED BY <3>1, <3>2, <3>3
  <2> QED BY <2>1, <2>2
<1>4. ~StatusIs(id, {"processing"})'
  BY <1>3 DEF StatusIs
<1>5. CASE ptr' = ptr
  BY <1>1, <1>2, <1>3, <1>4, <1>5, ActsAlone
<1>6. ASSUME NEW w, ptr' = [ptr EXCEPT ![p] = [at |-> w, n |-> m]]
      PROVE  AloneInv' /\ ClaimsQueued
  <2>1. /\ ptr'[p] = [at |-> w, n |-> m]
        /\ \A q \in Ptrs : q # p => ptr'[q] = ptr[q]
    BY <1>6 DEF DeliveryInv, TypeOK
  <2>2. ptr'[p].n = m
    BY <2>1
  <2> QED BY <1>1, <1>2, <1>3, <1>4, <2>1, <2>2, ActsAlone
<1> QED BY <1>3, <1>5, <1>6

(* No client call is under way. *)
NoCalls == calls = {}

LEMMA AloneStep ==
  ASSUME MaxCalls = 0, ReceiptEvents = {}, DeliveryInv, Saved, AloneInv, NoCalls, [Next]_vars
  PROVE  NoCalls' /\ AloneInv' /\ ClaimsQueued
<1>1. ~\E id \in Ids : Cancel(id) \/ Pause(id)
  BY FS_EmptySet DEF NoCalls, Cancel, Pause, TransitionGet
<1>2. NoCalls'
  <2>1. CASE Crash \/ UNCHANGED vars \/ Refill \/ Tick
    BY <2>1 DEF NoCalls, Crash, vars, Refill, Tick
  <2>2. ASSUME NEW id \in Ids, NEW p \in Ptrs, NEW old \in Ids,
               Submit(id, p) \/ Recover(id, p) \/ Replay(old, id, p)
        PROVE  NoCalls'
    BY <2>2 DEF NoCalls, Submit, Replay, Create, Recover
  <2>3. ASSUME NEW p \in Ptrs, SubmitEnqueue(p) \/ Dequeue(p) \/ TimerFires(p) \/ Worker(p)
        PROVE  NoCalls'
    BY <2>3 DEF NoCalls, SubmitEnqueue, Dequeue, TimerFires, Worker, Expire, Throttle, Claim, Send,
                ChooseFails, SendFails, SendSucceeds
  <2> QED BY <1>1, <2>1, <2>2, <2>3 DEF Next, NoCalls
<1>3. ASSUME NEW id \in Ids, NEW p \in Ptrs, NEW old \in Ids,
             Submit(id, p) \/ Recover(id, p) \/ Replay(old, id, p)
      PROVE  AloneInv' /\ ClaimsQueued
  <2>1. CASE Submit(id, p) \/ Recover(id, p)
    BY <2>1, NewCopyAlone, EnvironmentAssumption DEF Submit
  <2>2. CASE Replay(old, id, p)
    <3>1. notifications[old] \in Notifications
      BY <2>2 DEF Replay, DeliveryInv, TypeOK, StoreTypeOK
    <3>2. \E r \in [key : Keys, scheduleAt : Nat, expiresAt : Nat] : Create(id, p, r)
      BY <2>2, <3>1 DEF Replay, Notifications
    <3> QED BY <3>2, NewCopyAlone
  <2> QED BY <1>3, <2>1, <2>2
<1>4. ASSUME NEW p \in Ptrs, SubmitEnqueue(p) \/ Dequeue(p) \/ TimerFires(p) \/ Worker(p)
      PROVE  AloneInv' /\ ClaimsQueued
  <2>1. CASE ChooseFails(p) \/ SendFails(p)
    BY <2>1, RetryAlone DEF ChooseFails, SendFails, At, Live, Working
  <2>2. CASE Claim(p) \/ Send(p) \/ Expire(p) \/ SendSucceeds(p)
    BY <2>2, ClaimAlone, SendAlone, EndAlone
  <2> QED BY <1>4, <2>1, <2>2, QueueAlone DEF Worker
<1>5. CASE Refill \/ Tick \/ UNCHANGED vars
  <2>1. UNCHANGED <<ptr, notifications>>
    BY <1>5 DEF Refill, Tick, storeVars, vars
  <2> QED BY <1>2, <2>1, IdleAlone
<1>6. CASE Crash
  <2>1. AloneInv'
    BY <1>6 DEF Crash, AloneInv, Live
  <2>2. notifications' = notifications
    BY <1>6 DEF Crash, Saved
  <2>3. ClaimsQueued
    BY <2>2, Zenon DEF ClaimsQueued
  <2> QED BY <1>2, <2>1, <2>3
<1>7. CASE Next
  <2>1. \/ \E id \in Ids, p \in Ptrs, old \in Ids :
              Submit(id, p) \/ Recover(id, p) \/ Replay(old, id, p)
        \/ \E p \in Ptrs : SubmitEnqueue(p) \/ Dequeue(p) \/ TimerFires(p) \/ Worker(p)
        \/ Refill \/ Tick \/ Crash
    BY <1>1, <1>7 DEF Next, NoCalls
  <2> QED BY <1>2, <1>3, <1>4, <1>5, <1>6, <2>1
<1> QED BY <1>2, <1>5, <1>7

(* The arrow into processing comes from queued, as the README draws it, as  *)
(* long as no client pauses or cancels and no receipt arrives, and a write  *)
(* does not fail: crashes, retries and outages do not bring it about.  What *)
(* breaks it (the stale copy of retry) needs a second writer.               *)
THEOREM AloneFollowsStateMachine ==
  ASSUME "disk" \notin Faults, MaxCalls = 0, ReceiptEvents = {}
  PROVE  Spec => ProcessingOnlyFromQueued
<1>1. Init => Saved /\ AloneInv /\ NoCalls
  BY DEF Init, NoCalls, Saved, AloneInv, Live
<1>2. DeliveryInv /\ DeliveryInv' /\ Saved /\ [Next]_vars => Saved'
  BY SavedStep DEF DeliveryInv
<1>3. DeliveryInv /\ Saved /\ AloneInv /\ NoCalls /\ [Next]_vars
        => /\ NoCalls' /\ AloneInv'
           /\ [\A id \in Ids : StatusIs(id, Status \ {"queued", "processing"})
                                => ~StatusIs(id, {"processing"})']_vars
  <2> SUFFICES ASSUME DeliveryInv, Saved, AloneInv, NoCalls, [Next]_vars,
                      NEW id \in Ids, StatusIs(id, Status \ {"queued", "processing"})
               PROVE  NoCalls' /\ AloneInv' /\ ~StatusIs(id, {"processing"})'
    BY AloneStep
  <2>1. NoCalls' /\ AloneInv' /\ ClaimsQueued
    BY AloneStep
  <2>2. ~StatusIs(id, {"processing"})'
    BY <2>1 DEF ClaimsQueued, StatusIs
  <2> QED BY <2>1, <2>2
<1> QED BY <1>1, <1>2, <1>3, DeliveryInvariant, PTL DEF Spec, ProcessingOnlyFromQueued
=============================================================================
