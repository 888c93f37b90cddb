--------------------------- MODULE DeliveryProofs ---------------------------
(***************************************************************************)
(* Proofs about Delivery, for every number of notifications, copies,       *)
(* workers and calls, every capacity and every combination of faults.      *)
(***************************************************************************)
EXTENDS Delivery, TLAPS

-----------------------------------------------------------------------------
(* Facts about the operators the actions are built from *)

(* Notification.Transition changes the status and, when that is a change,  *)
(* raises the version by one; identity and attempts stay.                  *)
LEMMA TransitionFacts ==
  ASSUME NEW n \in Notifications, NEW next \in Status
  PROVE  /\ Transition(n, next) \in Notifications
         /\ Transition(n, next).id = n.id
         /\ Transition(n, next).key = n.key
         /\ Transition(n, next).attempts = n.attempts
         /\ Transition(n, next).status = next
         /\ n.status # next => Transition(n, next).version = n.version + 1
         /\ n.status = next => Transition(n, next) = n
<1>1. CASE n.status = next
  BY <1>1 DEF Transition
<1>2. CASE n.status # next
  <2> DEFINE m == [n EXCEPT !.status = next, !.version = @ + 1]
  <2>1. Transition(n, next) = m
    BY <1>2 DEF Transition
  <2>2. m \in Notifications
    <3> DEFINE k == [n EXCEPT !.status = next]
    <3>1. k \in Notifications /\ k.version + 1 \in Nat
      BY DEF Notifications
    <3>2. [k EXCEPT !.version = @ + 1] \in Notifications
      BY <3>1 DEF Notifications
    <3> QED BY <3>2
  <2>3. /\ m.id = n.id /\ m.key = n.key /\ m.attempts = n.attempts
        /\ m.status = next /\ m.version = n.version + 1
    BY DEF Notifications
  <2> QED BY <1>2, <2>1, <2>2, <2>3
<1> QED BY <1>1, <1>2

(* A Put replaces the stored record of one id. *)
LEMMA PutFacts ==
  ASSUME StoreTypeOK, NEW n \in Notifications, Put(n)
  PROVE  /\ StoreTypeOK'
         /\ notifications'[n.id] = n
         /\ \A i \in Ids : i # n.id => notifications'[i] = notifications[i]
         /\ idempotency' = idempotency
         /\ n.id \in Ids
  BY NilAssumption DEF StoreTypeOK, Put, Notifications

(* A save copies a well-formed memory to the file. *)
LEMMA PersistFacts ==
  ASSUME StoreTypeOK', persistLocked
  PROVE  /\ DiskTypeOK'
         /\ disk'.notifications = notifications'
         /\ disk'.idempotency = idempotency'
  BY DEF StoreTypeOK, DiskTypeOK, persistLocked, Snapshots

(* Store.Update either replaces one record that had the expected version,   *)
(* saved or not, or changes nothing.                                        *)
LEMMA UpdateFacts ==
  ASSUME StoreTypeOK, DiskTypeOK, NEW n \in Notifications, NEW e \in Nat,
         Update(n, e)
  PROVE  /\ StoreTypeOK' /\ DiskTypeOK'
         /\ idempotency' = idempotency
         /\ \/ /\ UpdateAllowed(n, e)
               /\ notifications'[n.id] = n
               /\ \A i \in Ids : i # n.id => notifications'[i] = notifications[i]
               /\ \/ disk'.notifications = notifications' /\ disk'.idempotency = idempotency'
                  \/ disk' = disk
            \/ /\ ~UpdateAllowed(n, e)
               /\ notifications' = notifications
               /\ disk' = disk
<1>1. CASE UpdateAllowed(n, e) /\ Put(n) /\ persistLocked
  BY <1>1, PutFacts, PersistFacts
<1>2. CASE UpdateAllowed(n, e) /\ Put(n) /\ PersistFails
  BY <1>2, PutFacts DEF PersistFails, DiskTypeOK
<1>3. CASE ~UpdateAllowed(n, e) /\ UNCHANGED storeVars
  BY <1>3 DEF storeVars, StoreTypeOK, DiskTypeOK
<1> QED BY <1>1, <1>2, <1>3 DEF Update

(* Request records make well-formed notifications. *)
LEMMA RequestedFacts ==
  ASSUME NEW id \in Ids, NEW r \in [key : Keys, scheduleAt : Nat, expiresAt : Nat]
  PROVE  /\ Requested(id, r) \in Notifications
         /\ Requested(id, r).id = id
         /\ Requested(id, r).key = r.key
         /\ Requested(id, r).status = "queued"
         /\ Requested(id, r).version = 1
         /\ Requested(id, r).attempts = 0
  BY DEF Requested, Notifications, Status

(* Where a copy moves, the others stay. *)
LEMMA MoveFacts ==
  ASSUME ptr \in [Ptrs -> [at : Place, n : Notifications] \cup {Nil}],
         NEW p \in Ptrs, ptr[p] # Nil, NEW where \in Place, Move(p, where)
  PROVE  /\ ptr' \in [Ptrs -> [at : Place, n : Notifications] \cup {Nil}]
         /\ ptr'[p] = [at |-> where, n |-> ptr[p].n]
         /\ \A q \in Ptrs : q # p => ptr'[q] = ptr[q]
<1>1. ptr[p] \in [at : Place, n : Notifications]
  OBVIOUS
<1>2. [ptr[p] EXCEPT !.at = where] = [at |-> where, n |-> ptr[p].n]
  BY <1>1
<1> QED BY <1>1, <1>2 DEF Move

(* A copy is let go of, the others stay. *)
LEMMA DropFacts ==
  ASSUME ptr \in [Ptrs -> [at : Place, n : Notifications] \cup {Nil}],
         NEW p \in Ptrs, Drop(p)
  PROVE  /\ ptr' \in [Ptrs -> [at : Place, n : Notifications] \cup {Nil}]
         /\ ptr'[p] = Nil
         /\ \A q \in Ptrs : q # p => ptr'[q] = ptr[q]
  BY DEF Drop

-----------------------------------------------------------------------------
(* Type correctness *)

(* What an Update keeps of the types. *)
LEMMA UpdateType ==
  ASSUME TypeOK, NEW n \in Notifications, NEW e \in Nat, Update(n, e)
  PROVE  StoreTypeOK' /\ DiskTypeOK' /\ \A id \in boot : notifications'[id] # Nil
  BY UpdateFacts, NilAssumption DEF TypeOK

(* Retrying keeps the types: the store moves by one Update, the copy goes   *)
(* to a timer or is dropped.                                                *)
LEMMA RetryType ==
  ASSUME TypeOK, NEW p \in Ptrs, ptr[p] # Nil, retry(p)
  PROVE  StoreTypeOK' /\ DiskTypeOK' /\ (\A id \in boot : notifications'[id] # Nil)
         /\ ptr' \in [Ptrs -> [at : Place, n : Notifications] \cup {Nil}]
<1> DEFINE n == ptr[p].n
           next == IF n.attempts >= MaxAttempts THEN "failed" ELSE "queued"
           m == Transition(n, next)
<1>1. n \in Notifications /\ next \in Status /\ n.version \in Nat
  BY DEF TypeOK, Status, Notifications
<1>2. m \in Notifications
  BY <1>1, TransitionFacts
<1>3. StoreTypeOK' /\ DiskTypeOK' /\ \A id \in boot : notifications'[id] # Nil
  <2>1. CASE Update(m, n.version)
    BY <2>1, <1>1, <1>2, UpdateType
  <2>2. CASE UNCHANGED storeVars
    BY <2>2 DEF TypeOK, storeVars, StoreTypeOK, DiskTypeOK
  <2> QED BY <2>1, <2>2 DEF retry
<1>4. ptr' \in [Ptrs -> [at : Place, n : Notifications] \cup {Nil}]
  BY <1>2, DropFacts DEF retry, TypeOK, Place
<1> QED BY <1>3, <1>4

(* Submit and Replay keep the types. *)
LEMMA CreateType ==
  ASSUME TypeOK, NEW id \in Ids, NEW p \in Ptrs,
         NEW r \in [key : Keys, scheduleAt : Nat, expiresAt : Nat],
         Create(id, p, r)
  PROVE  TypeOK'
<1>1. Requested(id, r) \in Notifications /\ Requested(id, r).id = id
  BY RequestedFacts
<1>2. StoreTypeOK'
  BY <1>1, NilAssumption DEF Create, TypeOK, StoreTypeOK
<1>3. DiskTypeOK'
  BY <1>2, PersistFacts DEF Create, PersistFails, TypeOK, DiskTypeOK
<1>4. ptr' \in [Ptrs -> [at : Place, n : Notifications] \cup {Nil}]
  BY <1>1 DEF Create, TypeOK, Place
<1> QED BY <1>2, <1>3, <1>4 DEF Create, TypeOK, Up

(* What a worker does with its copy keeps the types. *)
LEMMA WorkerType ==
  ASSUME TypeOK, NEW p \in Ptrs, Worker(p)
  PROVE  TypeOK'
<1> DEFINE n == ptr[p].n
<1> USE DEF storeVars
<1>0. /\ ptr[p] # Nil
      /\ n \in Notifications
      /\ n.version \in Nat /\ n.attempts \in Nat /\ n.id \in Ids
      /\ {"expired", "processing", "accepted"} \subseteq Status
  BY DEF Worker, Expire, Throttle, Claim, Send, ChooseFails, SendFails,
         SendSucceeds, At, TypeOK, Notifications, Status
<1>1. CASE Expire(p)
  <2>1. \E m \in Notifications : Update(m, n.version)
    BY <1>0, <1>1, TransitionFacts DEF Expire
  <2> QED BY <1>0, <1>1, <2>1, UpdateType, DropFacts DEF Expire, TypeOK
<1>2. CASE Throttle(p)
  BY <1>0, <1>2, MoveFacts DEF Throttle, TypeOK, StoreTypeOK, DiskTypeOK, Place
<1>3. CASE Claim(p)
  <2> DEFINE m == Transition(n, "processing")
  <2>1. m \in Notifications
    BY <1>0, TransitionFacts
  <2>2. tokens' \in 0 .. BucketCapacity
    BY <1>3, ConfigAssumption DEF Claim, TypeOK
  <2>3. CASE Put(m) /\ persistLocked /\ ptr' = [ptr EXCEPT ![p] = [at |-> "choose", n |-> m]]
    BY <1>3, <2>1, <2>2, <2>3, PutFacts, PersistFacts, NilAssumption DEF Claim, TypeOK, Place
  <2>4. CASE Put(m) /\ PersistFails /\ Drop(p)
    BY <1>3, <2>1, <2>2, <2>4, PutFacts, DropFacts, NilAssumption
       DEF Claim, TypeOK, PersistFails, DiskTypeOK
  <2>5. CASE UNCHANGED storeVars /\ Drop(p)
    BY <1>3, <2>2, <2>5, DropFacts DEF Claim, TypeOK, StoreTypeOK, DiskTypeOK
  <2> QED BY <1>3, <2>3, <2>4, <2>5 DEF Claim
<1>4. CASE Send(p)
  <2> DEFINE m == [n EXCEPT !.attempts = @ + 1]
  <2>1. m \in Notifications /\ m.id = n.id /\ m.attempts \in Nat
    BY <1>0 DEF Notifications
  <2>2. ptr' \in [Ptrs -> [at : Place, n : Notifications] \cup {Nil}]
    BY <1>4, <2>1 DEF Send, TypeOK, Place
  <2>3. issued' \in [Ids -> Nat]
    BY <1>0, <1>4, <2>1 DEF Send, TypeOK
  <2> QED BY <1>4, <2>2, <2>3 DEF Send, TypeOK, StoreTypeOK, DiskTypeOK
<1>5. CASE ChooseFails(p)
  BY <1>0, <1>5, RetryType DEF ChooseFails, TypeOK
<1>6. CASE SendFails(p)
  BY <1>0, <1>6, RetryType DEF SendFails, TypeOK
<1>7. CASE SendSucceeds(p)
  <2>1. CASE Update(Transition(n, "accepted"), n.version)
    BY <1>0, <1>7, <2>1, TransitionFacts, UpdateType, DropFacts DEF SendSucceeds, TypeOK
  <2>2. CASE UNCHANGED storeVars
    BY <1>7, <2>2, DropFacts DEF SendSucceeds, TypeOK, StoreTypeOK, DiskTypeOK
  <2> QED BY <1>7, <2>1, <2>2 DEF SendSucceeds
<1> QED BY <1>1, <1>2, <1>3, <1>4, <1>5, <1>6, <1>7 DEF Worker

(* A receipt moves the stored record to a receipt status, one version on. *)
LEMMA ReceiptFacts ==
  ASSUME TypeOK, NEW id \in Ids, NEW e \in ReceiptEvents, RecordReceipt(id, e)
  PROVE  LET s == notifications[id]
             t == notifications'[id]
         IN /\ id \in Ids /\ s \in Notifications
            /\ t \in Notifications
            /\ t.id = s.id /\ t.key = s.key /\ t.attempts = s.attempts
            /\ t.version = s.version + 1
            /\ t.status \in ReceiptStatus
            /\ \A i \in Ids : i # id => notifications'[i] = notifications[i]
            /\ notifications' \in [Ids -> Notifications \cup {Nil}]
<1> DEFINE s == notifications[id]
           k == [s EXCEPT !.status = e.status]
           t == [k EXCEPT !.version = @ + 1]
<1>1. id \in Ids /\ s \in Notifications
  BY DEF TypeOK, StoreTypeOK, RecordReceipt
<1>2. e.status \in ReceiptStatus /\ e.status \in Status
  BY EnvironmentAssumption DEF ReceiptStatus, Status
<1>3. k \in Notifications /\ k.version = s.version /\ k.version + 1 \in Nat
      /\ k.id = s.id /\ k.key = s.key /\ k.attempts = s.attempts /\ k.status = e.status
  BY <1>1, <1>2 DEF Notifications
<1>4. t \in Notifications /\ t.version = s.version + 1
      /\ t.id = s.id /\ t.key = s.key /\ t.attempts = s.attempts /\ t.status = e.status
  BY <1>3 DEF Notifications
<1>5. notifications' = [notifications EXCEPT ![id] = t]
  <2> DEFINE u == [notifications EXCEPT ![id] = k]
  <2>1. DOMAIN notifications = Ids /\ u[id] = k
    BY <1>1 DEF TypeOK, StoreTypeOK
  <2>2. notifications' = [u EXCEPT ![id] = [u[id] EXCEPT !.version = @ + 1]]
    BY DEF RecordReceipt
  <2> HIDE DEF k
  <2> QED BY <2>1, <2>2
<1> HIDE DEF t, k
<1>6. notifications'[id] = t
  BY <1>1, <1>5 DEF TypeOK, StoreTypeOK
<1> QED BY <1>1, <1>2, <1>4, <1>5, <1>6 DEF TypeOK, StoreTypeOK

(* Receipts keep the types. *)
LEMMA ReceiptType ==
  ASSUME TypeOK, NEW id \in Ids, NEW e \in ReceiptEvents, RecordReceipt(id, e)
  PROVE  TypeOK'
<1>1. StoreTypeOK'
  <2>1. e.key \in Nat
    BY EnvironmentAssumption
  <2>2. receipts' \in SUBSET Nat
    BY <2>1 DEF RecordReceipt, TypeOK, StoreTypeOK
  <2>3. notifications' \in [Ids -> Notifications \cup {Nil}]
    BY ReceiptFacts
  <2>4. notifications[id].id = id
    BY ReceiptFacts, NilAssumption DEF TypeOK, StoreTypeOK
  <2>5. \A i \in Ids : notifications'[i] # Nil => notifications'[i].id = i
    BY <2>4, ReceiptFacts DEF TypeOK, StoreTypeOK
  <2> QED BY <2>2, <2>3, <2>5 DEF RecordReceipt, TypeOK, StoreTypeOK
<1>2. DiskTypeOK'
  BY <1>1, PersistFacts DEF RecordReceipt, PersistFails, TypeOK, DiskTypeOK
<1>3. \A i \in boot : notifications'[i] # Nil
  BY ReceiptFacts, NilAssumption DEF TypeOK
<1> QED BY <1>1, <1>2, <1>3 DEF RecordReceipt, TypeOK

(* Every step keeps the types. *)
LEMMA TypeStep == TypeOK /\ [Next]_vars => TypeOK'
<1> SUFFICES ASSUME TypeOK, [Next]_vars
             PROVE  TypeOK'
  OBVIOUS
<1> USE DEF storeVars
<1>0. CASE UNCHANGED vars
  BY <1>0 DEF vars, TypeOK, StoreTypeOK, DiskTypeOK
<1>1. ASSUME NEW id \in Ids, NEW p \in Ptrs, Submit(id, p)
      PROVE  TypeOK'
  BY <1>1, CreateType, EnvironmentAssumption DEF Submit
<1>2. ASSUME NEW id \in Ids, NEW p \in Ptrs, NEW old \in Ids, Replay(old, id, p)
      PROVE  TypeOK'
  <2>1. PICK k \in Keys :
          Create(id, p, [key |-> k, scheduleAt |-> notifications[old].scheduleAt,
                         expiresAt |-> notifications[old].expiresAt])
    BY <1>2 DEF Replay
  <2>2. notifications[old] \in Notifications
    BY <1>2 DEF Replay, TypeOK, StoreTypeOK
  <2>3. [key |-> k, scheduleAt |-> notifications[old].scheduleAt,
         expiresAt |-> notifications[old].expiresAt]
          \in [key : Keys, scheduleAt : Nat, expiresAt : Nat]
    BY <2>2 DEF Notifications
  <2> QED BY <2>1, <2>3, CreateType
<1>3. ASSUME NEW id \in Ids, NEW p \in Ptrs, Recover(id, p)
      PROVE  TypeOK'
  BY <1>3, NilAssumption DEF Recover, TypeOK, StoreTypeOK, DiskTypeOK, Place
<1>4. ASSUME NEW p \in Ptrs, SubmitEnqueue(p)
      PROVE  TypeOK'
  BY <1>4, MoveFacts, DropFacts
     DEF SubmitEnqueue, Enqueue, At, TypeOK, StoreTypeOK, DiskTypeOK, Place
<1>5. ASSUME NEW p \in Ptrs, Dequeue(p)
      PROVE  TypeOK'
  BY <1>5, MoveFacts DEF Dequeue, At, TypeOK, StoreTypeOK, DiskTypeOK, Place
<1>6. ASSUME NEW p \in Ptrs, TimerFires(p)
      PROVE  TypeOK'
  BY <1>6, MoveFacts, DropFacts
     DEF TimerFires, Enqueue, At, TypeOK, StoreTypeOK, DiskTypeOK, Place
<1>7. ASSUME NEW p \in Ptrs, Worker(p)
      PROVE  TypeOK'
  BY <1>7, WorkerType
<1>8. ASSUME NEW id \in Ids, NEW next \in {"canceled", "paused"}, TransitionGet(id, next)
      PROVE  TypeOK'
  <2>1. notifications[id] \in Notifications /\ next \in Status
    BY <1>8 DEF TransitionGet, TypeOK, StoreTypeOK, Status
  <2>2. [n |-> Transition(notifications[id], next),
         expected |-> notifications[id].version] \in Calls
    BY <2>1, TransitionFacts DEF Calls, Notifications
  <2> QED BY <1>8, <2>2 DEF TransitionGet, TypeOK, StoreTypeOK, DiskTypeOK
<1>9. ASSUME NEW c \in calls, TransitionUpdate(c)
      PROVE  TypeOK'
  <2>1. c.n \in Notifications /\ c.n.id \in Ids
    BY DEF TypeOK, Calls, Notifications
  <2>2. StoreTypeOK' /\ DiskTypeOK'
    BY <1>9, <2>1, PutFacts, PersistFacts
       DEF TransitionUpdate, TypeOK, StoreTypeOK, DiskTypeOK, PersistFails
  <2>3. \A id \in boot : notifications'[id] # Nil
    BY <1>9, <2>1, PutFacts, NilAssumption DEF TransitionUpdate, TypeOK
  <2> QED BY <1>9, <2>1, <2>2, <2>3 DEF TransitionUpdate, TypeOK
<1>10. ASSUME NEW id \in Ids, NEW e \in ReceiptEvents, RecordReceipt(id, e)
       PROVE  TypeOK'
  BY <1>10, ReceiptType
<1>11. CASE Refill
  BY <1>11, ConfigAssumption DEF Refill, TypeOK, StoreTypeOK, DiskTypeOK
<1>12. CASE Tick
  BY <1>12, ConfigAssumption DEF Tick, TypeOK, StoreTypeOK, DiskTypeOK
<1>13. CASE Crash
  BY <1>13, ConfigAssumption DEF Crash, TypeOK, StoreTypeOK, DiskTypeOK, Snapshots
<1> QED
  BY <1>0, <1>1, <1>2, <1>3, <1>4, <1>5, <1>6, <1>7, <1>8, <1>9, <1>10,
     <1>11, <1>12, <1>13 DEF Next, Cancel, Pause

(* Delivery keeps every variable within its type. *)
THEOREM TypeCorrect == Spec => []TypeOK
<1>1. Init => TypeOK
  BY ConfigAssumption DEF Init, TypeOK, StoreTypeOK, DiskTypeOK, Snapshots
<1> QED BY <1>1, TypeStep, PTL DEF Spec
=============================================================================
