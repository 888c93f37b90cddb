--------------------------- MODULE PromiseProofs ----------------------------
(***************************************************************************)
(* Delivery implements Promise, for every number of notifications, keys,   *)
(* copies and workers, every retry budget and every combination of faults. *)
(***************************************************************************)
EXTENDS DeliverySafetyProofs

-----------------------------------------------------------------------------
(* The idempotency index, which a restart replaces by the saved one *)

IndexOK(ns, ix) ==
  \A k \in Keys : ix[k] # Nil => ns[ix[k]] # Nil /\ ns[ix[k]].key = k

(* Every entry names a stored notification with that key, in memory and in  *)
(* the file, and the file's entries are among those of memory.              *)
IndexInv ==
  /\ IndexOK(notifications, idempotency)
  /\ IndexOK(disk.notifications, disk.idempotency)
  /\ \A k \in Keys : disk.idempotency[k] # Nil => disk.idempotency[k] = idempotency[k]
  /\ \A id \in Ids : disk.notifications[id] # Nil
       => notifications[id] # Nil /\ disk.notifications[id].key = notifications[id].key

Saves ==
  \/ disk' = disk
  \/ disk'.notifications = notifications' /\ disk'.idempotency = idempotency'

(* A step that binds no key: stored notifications stay stored, with their   *)
(* keys, and the file keeps its content or is written.                      *)
KeepsKeys ==
  /\ idempotency' = idempotency
  /\ \A id \in Ids : notifications[id] # Nil
       => notifications'[id] # Nil /\ notifications'[id].key = notifications[id].key
  /\ Saves

LEMMA KeepsKeysIndex ==
  ASSUME TypeOK, IndexInv, KeepsKeys
  PROVE  IndexInv'
  BY DEF TypeOK, StoreTypeOK, DiskTypeOK, Snapshots, IndexInv, IndexOK, KeepsKeys, Saves

(* Store.Update with a record that has the key of the stored one. *)
LEMMA UpdateKeepsKeys ==
  ASSUME TypeOK, NEW n \in Notifications, NEW e \in Nat, Update(n, e),
         notifications[n.id] # Nil => n.key = notifications[n.id].key
  PROVE  KeepsKeys
<1>1. StoreTypeOK /\ DiskTypeOK
  BY DEF TypeOK
<1> QED BY <1>1, UpdateFacts, NilAssumption DEF KeepsKeys, Saves

LEMMA UnchangedKeepsKeys ==
  ASSUME UNCHANGED storeVars PROVE KeepsKeys
  BY DEF storeVars, KeepsKeys, Saves

-----------------------------------------------------------------------------
(* The claims, as the mapping reads them off the copies *)

Claimed == {ptr[p].n.id : p \in At("choose")}

Choosing(p) == ptr[p] # Nil /\ ptr[p].at = "choose"

(* One copy moves and neither was nor is between claim and send. *)
LEMMA SameClaims ==
  ASSUME NEW p \in Ptrs, \A q \in Ptrs : q # p => ptr'[q] = ptr[q],
         ~Choosing(p), ~Choosing(p)'
  PROVE  Claimed' = Claimed
<1>1. \A q \in Ptrs : Choosing(q)' <=> Choosing(q)
  BY DEF Choosing
<1>2. \A q \in Ptrs : Choosing(q) => ptr'[q] = ptr[q]
  BY DEF Choosing
<1>3. At("choose")' = At("choose")
  BY <1>1 DEF At, Choosing
<1>4. \A q \in At("choose") : ptr'[q] = ptr[q]
  BY <1>2 DEF At, Choosing
<1> QED BY <1>3, <1>4 DEF Claimed

(* The copy leaves its place between claim and send. *)
LEMMA FewerClaims ==
  ASSUME OneCopy, NEW p \in Ptrs, \A q \in Ptrs : q # p => ptr'[q] = ptr[q],
         Choosing(p), ~Choosing(p)'
  PROVE  ptr[p].n.id \in Claimed /\ Claimed' = Claimed \ {ptr[p].n.id}
<1>1. p \in At("choose") /\ At("choose")' = At("choose") \ {p}
  BY DEF At, Choosing
<1>2. \A q \in At("choose") : q # p => ptr'[q] = ptr[q] /\ ptr[q].n.id # ptr[p].n.id
  BY DEF At, Choosing, OneCopy
<1>3. Claimed' = {ptr[q].n.id : q \in At("choose") \ {p}}
  BY <1>1, <1>2 DEF Claimed
<1> QED BY <1>1, <1>2, <1>3 DEF Claimed

(* The copy gets there. *)
LEMMA MoreClaims ==
  ASSUME OneCopy, NEW p \in Ptrs, \A q \in Ptrs : q # p => ptr'[q] = ptr[q],
         ptr[p] # Nil, ~Choosing(p), Choosing(p)', ptr'[p].n.id = ptr[p].n.id
  PROVE  ptr[p].n.id \notin Claimed /\ Claimed' = Claimed \cup {ptr[p].n.id}
<1>1. p \notin At("choose") /\ At("choose")' = At("choose") \cup {p}
  BY DEF At, Choosing
<1>2. \A q \in At("choose") : ptr'[q] = ptr[q] /\ ptr[q].n.id # ptr[p].n.id
  BY <1>1 DEF At, Choosing, OneCopy
<1>3. Claimed' = {ptr[q].n.id : q \in At("choose")} \cup {ptr[p].n.id}
  BY <1>1, <1>2 DEF Claimed
<1> QED BY <1>2, <1>3 DEF Claimed

-----------------------------------------------------------------------------
(* Every step of Delivery maps to a step of Promise, or to none *)

Mapped == [P!Next]_(P!vars)

LEMMA StutterMapped ==
  ASSUME UNCHANGED <<idempotency, issued, canceled>>, Claimed' = Claimed
  PROVE  Mapped
  BY DEF Mapped, P!vars, Claimed

LEMMA SendMapped ==
  ASSUME NEW id \in Ids, id \in Claimed, Claimed' = Claimed \ {id},
         issued' = [issued EXCEPT ![id] = @ + 1] \/ issued' = issued,
         UNCHANGED <<idempotency, canceled>>
  PROVE  Mapped
  BY DEF Mapped, P!vars, P!Next, P!Send, P!Release, Claimed

(* Submit and Replay: the key was free, the id fresh. *)
LEMMA CreateMapped ==
  ASSUME DeliveryInv, TypeOK', IndexInv, NEW id \in Ids, NEW p \in Ptrs,
         NEW r \in [key : Keys, scheduleAt : Nat, expiresAt : Nat], Create(id, p, r)
  PROVE  IndexInv' /\ Mapped
<1> DEFINE n == Requested(id, r)
<1>1. /\ n \in Notifications /\ n.id = id /\ n.key = r.key /\ n # Nil /\ r.key \in Keys
      /\ id # Nil
  BY RequestedFacts, NilAssumption
<1>2. /\ notifications[id] = Nil /\ disk.notifications[id] = Nil
      /\ idempotency[r.key] = Nil /\ ptr[p] = Nil
      /\ notifications' = [notifications EXCEPT ![id] = n]
      /\ idempotency' = [idempotency EXCEPT ![r.key] = id]
      /\ persistLocked \/ PersistFails
      /\ ptr' = ptr \/ ptr' = [ptr EXCEPT ![p] = [at |-> "submit", n |-> n]]
      /\ issued' = issued /\ canceled' = canceled
  BY DEF Create, Fresh
<1> HIDE DEF n
<1>3. Saves
  BY <1>2, PersistFacts DEF Saves, PersistFails, TypeOK
<1>4. IndexInv'
  <2>1. IndexOK(notifications, idempotency)'
    BY <1>1, <1>2 DEF IndexInv, IndexOK, DeliveryInv, TypeOK, StoreTypeOK
  <2>2. CASE disk' = disk
    BY <1>1, <1>2, <2>1, <2>2
       DEF IndexInv, IndexOK, DeliveryInv, TypeOK, StoreTypeOK, DiskTypeOK, Snapshots
  <2>3. CASE disk'.notifications = notifications' /\ disk'.idempotency = idempotency'
    BY <2>1, <2>3 DEF IndexInv, IndexOK
  <2> QED BY <1>3, <2>2, <2>3 DEF Saves
<1>5. Claimed' = Claimed
  <2>1. \A q \in Ptrs : q # p => ptr'[q] = ptr[q]
    BY <1>2 DEF DeliveryInv, TypeOK
  <2>2. ptr'[p] = ptr[p] \/ ptr'[p] = [at |-> "submit", n |-> n]
    BY <1>2 DEF DeliveryInv, TypeOK
  <2>3. ~Choosing(p) /\ ~Choosing(p)'
    BY <1>2, <2>2 DEF Choosing
  <2> QED BY <2>1, <2>3, SameClaims
<1>6. /\ issued[id] = 0 /\ id \notin canceled
      /\ \A k \in Keys : idempotency[k] # id
  BY <1>1, <1>2 DEF DeliveryInv, DiskInv, CanceledStaysOut, IndexInv, IndexOK
<1>7. P!Accept(r.key, id)
  BY <1>1, <1>2, <1>5, <1>6 DEF P!Accept, P!Known, Claimed
<1> QED BY <1>1, <1>4, <1>7 DEF Mapped, P!Next

(* Queue steps: the copy waits before and after. *)
LEMMA QueueMapped ==
  ASSUME DeliveryInv, IndexInv, NEW p \in Ptrs,
         SubmitEnqueue(p) \/ Dequeue(p) \/ TimerFires(p) \/ Throttle(p)
  PROVE  IndexInv' /\ Mapped
<1>1. /\ ptr[p] # Nil /\ ~Choosing(p)
      /\ \E where \in {"queue", "timer", "deliver"} : Move(p, where) \/ Drop(p)
      /\ UNCHANGED <<storeVars, issued, canceled>>
  BY DEF SubmitEnqueue, Dequeue, TimerFires, Throttle, At, Choosing, Enqueue
<1>2. (\A q \in Ptrs : q # p => ptr'[q] = ptr[q]) /\ ~Choosing(p)'
  <2>0. ptr \in [Ptrs -> [at : Place, n : Notifications] \cup {Nil}]
    BY DEF DeliveryInv, TypeOK
  <2>1. ASSUME NEW where \in {"queue", "timer", "deliver"}, Move(p, where)
        PROVE  (\A q \in Ptrs : q # p => ptr'[q] = ptr[q]) /\ ~Choosing(p)'
    <3>1. where \in Place /\ where # "choose"
      BY DEF Place
    <3>2. /\ ptr'[p] = [at |-> where, n |-> ptr[p].n]
          /\ \A q \in Ptrs : q # p => ptr'[q] = ptr[q]
      BY <1>1, <2>0, <2>1, <3>1, MoveFacts
    <3> QED BY <3>1, <3>2 DEF Choosing
  <2>2. CASE Drop(p)
    BY <2>0, <2>2, DropFacts DEF Choosing
  <2> QED BY <1>1, <2>1, <2>2
<1> QED BY <1>1, <1>2, SameClaims, StutterMapped, UnchangedKeepsKeys, KeepsKeysIndex
        DEF DeliveryInv, storeVars

(* Expire and the end of a send: an Update, and the copy is let go of. *)
LEMMA EndMapped ==
  ASSUME DeliveryInv, IndexInv, NEW p \in Ptrs, Expire(p) \/ SendSucceeds(p)
  PROVE  IndexInv' /\ Mapped
<1> DEFINE n == ptr[p].n
<1>1. /\ Live(p) /\ ~Choosing(p) /\ Drop(p) /\ UNCHANGED <<issued, canceled>>
      /\ \/ Update(n, n.version) \/ UNCHANGED storeVars
         \/ \E next \in {"expired", "accepted"} : Update(Transition(n, next), n.version)
  BY DEF Expire, SendSucceeds, At, Live, Choosing
<1>2. n \in Notifications /\ n.version \in Nat /\ n.key = notifications[n.id].key
  BY <1>1, CopyFacts DEF CopyOK
<1>3. \A next \in {"expired", "accepted"} :
        /\ Transition(n, next) \in Notifications
        /\ Transition(n, next).id = n.id /\ Transition(n, next).key = n.key
  BY <1>2, TransitionFacts DEF Status
<1>4. KeepsKeys
  BY <1>1, <1>2, <1>3, UpdateKeepsKeys, UnchangedKeepsKeys DEF DeliveryInv
<1>5. (\A q \in Ptrs : q # p => ptr'[q] = ptr[q]) /\ ~Choosing(p)'
  BY <1>1, DropFacts DEF DeliveryInv, TypeOK, Choosing
<1> QED BY <1>1, <1>4, <1>5, SameClaims, StutterMapped, KeepsKeysIndex
        DEF DeliveryInv, KeepsKeys

LEMMA NewClaimMapped ==
  ASSUME NEW id \in Ids, NEW k \in Keys, idempotency[k] = id,
         id \notin Claimed, Claimed' = Claimed \cup {id},
         id \notin canceled, issued[id] < MaxAttempts,
         UNCHANGED <<idempotency, issued, canceled>>
  PROVE  Mapped
<1>1. P!Claim(id)
  BY DEF P!Claim, P!Known, Claimed
<1> QED BY <1>1 DEF Mapped, P!Next

(* A claim that succeeds is one of a notification that is neither claimed   *)
(* nor canceled and has attempts left.                                      *)
LEMMA ClaimMapped ==
  ASSUME DeliveryInv, TypeOK', IndexInv, NEW p \in Ptrs, Claim(p)
  PROVE  IndexInv' /\ Mapped
<1> DEFINE n == ptr[p].n
           m == Transition(n, "processing")
           ok == CanTransition(n, "processing") /\ UpdateAllowed(m, n.version)
<1>1. Live(p) /\ ptr[p].at = "deliver" /\ ~Choosing(p) /\ ptr[p] # Nil
  BY DEF Claim, At, Live, Choosing
<1>2. /\ n \in Notifications /\ n.id \in Ids /\ n.version \in Nat
      /\ n.attempts < MaxAttempts /\ n.attempts = issued[n.id]
      /\ notifications[n.id] # Nil /\ n.key = notifications[n.id].key
      /\ notifications[n.id].version = n.version => n.id \notin canceled
  BY <1>1, CopyFacts DEF CopyOK, Waiting
<1>3. m \in Notifications /\ m.id = n.id /\ m.key = n.key
  BY <1>2, TransitionFacts DEF Status
<1>4. /\ UNCHANGED <<issued, canceled>>
      /\ \/ /\ ok /\ Put(m) /\ persistLocked
            /\ ptr' = [ptr EXCEPT ![p] = [at |-> "choose", n |-> m]]
         \/ ok /\ Put(m) /\ PersistFails /\ Drop(p)
         \/ UNCHANGED storeVars /\ Drop(p)
  BY DEF Claim
<1> HIDE DEF m
<1>5. KeepsKeys
  <2>1. ok /\ Put(m) /\ (persistLocked \/ PersistFails) => Update(m, n.version)
    BY DEF Update
  <2> QED BY <1>2, <1>3, <1>4, <2>1, UpdateKeepsKeys, UnchangedKeepsKeys DEF DeliveryInv
<1>6. Mapped
  <2>1. CASE Drop(p)
    <3>1. (\A q \in Ptrs : q # p => ptr'[q] = ptr[q]) /\ ~Choosing(p)'
      BY <2>1, DropFacts DEF DeliveryInv, TypeOK, Choosing
    <3> QED BY <1>1, <1>4, <1>5, <3>1, SameClaims, StutterMapped DEF KeepsKeys
  <2>2. CASE ok /\ ptr' = [ptr EXCEPT ![p] = [at |-> "choose", n |-> m]]
    <3>1. /\ \A q \in Ptrs : q # p => ptr'[q] = ptr[q]
          /\ ptr'[p] = [at |-> "choose", n |-> m]
      BY <2>2 DEF DeliveryInv, TypeOK
    <3>2. ptr'[p] \in [at : Place, n : Notifications]
      BY <1>3, <3>1 DEF Place
    <3>3. Choosing(p)' /\ ptr'[p].n.id = n.id
      BY <1>3, <3>1, <3>2, NilAssumption DEF Choosing
    <3>4. n.id \notin Claimed /\ Claimed' = Claimed \cup {n.id}
      BY <1>1, <3>1, <3>3, MoreClaims DEF DeliveryInv
    <3>5. n.id \notin canceled
      BY <1>2, <1>3, <2>2 DEF UpdateAllowed
    <3>6. idempotency[n.key] = n.id /\ n.key \in Keys
      BY <1>2 DEF DeliveryInv, OneNotificationPerKey, Notifications
    <3> QED BY <1>2, <1>4, <1>5, <3>4, <3>5, <3>6, NewClaimMapped DEF KeepsKeys
  <2> QED BY <1>4, <2>1, <2>2
<1> QED BY <1>5, <1>6, KeepsKeysIndex DEF DeliveryInv

(* Send, and the retry after a failing Choose or Send. *)
LEMMA SendStepMapped ==
  ASSUME DeliveryInv, IndexInv, NEW p \in Ptrs, Send(p)
  PROVE  IndexInv' /\ Mapped
<1> DEFINE n == [ptr[p].n EXCEPT !.attempts = @ + 1]
<1>1. Live(p) /\ Choosing(p)
  BY DEF Send, At, Live, Choosing
<1>2. ptr[p].n \in Notifications /\ ptr[p].n.id \in Ids
  BY <1>1, CopyFacts
<1>3. n.id = ptr[p].n.id
  BY <1>2 DEF Notifications
<1>4. /\ ptr' = [ptr EXCEPT ![p] = [at |-> "sending", n |-> n]]
      /\ issued' = [issued EXCEPT ![n.id] = @ + 1]
      /\ UNCHANGED <<storeVars, canceled>>
  BY DEF Send
<1> HIDE DEF n
<1>5. (\A q \in Ptrs : q # p => ptr'[q] = ptr[q]) /\ ~Choosing(p)'
  BY <1>4 DEF DeliveryInv, TypeOK, Choosing
<1>6. ptr[p].n.id \in Claimed /\ Claimed' = Claimed \ {ptr[p].n.id}
  BY <1>1, <1>5, FewerClaims DEF DeliveryInv
<1>7. Mapped
  BY <1>2, <1>3, <1>4, <1>6, SendMapped DEF storeVars
<1> QED BY <1>4, <1>7, UnchangedKeepsKeys, KeepsKeysIndex DEF DeliveryInv

LEMMA RetryMapped ==
  ASSUME DeliveryInv, IndexInv, NEW p \in Ptrs, ChooseFails(p) \/ SendFails(p)
  PROVE  IndexInv' /\ Mapped
<1> DEFINE n == ptr[p].n
           next == IF n.attempts >= MaxAttempts THEN "failed" ELSE "queued"
           m == Transition(n, next)
<1>1. Live(p) /\ retry(p) /\ UNCHANGED <<issued, canceled>>
  BY DEF ChooseFails, SendFails, At, Live
<1>2. n \in Notifications /\ n.id \in Ids /\ n.version \in Nat /\ n.key = notifications[n.id].key
  BY <1>1, CopyFacts DEF CopyOK
<1>3. m \in Notifications /\ m.id = n.id /\ m.key = n.key
  BY <1>2, TransitionFacts DEF Status
<1>4. /\ Update(m, n.version) \/ UNCHANGED storeVars
      /\ ptr' = [ptr EXCEPT ![p] = [at |-> "timer", n |-> m]] \/ Drop(p)
  BY <1>1 DEF retry
<1> HIDE DEF m
<1>5. KeepsKeys
  BY <1>2, <1>3, <1>4, UpdateKeepsKeys, UnchangedKeepsKeys DEF DeliveryInv
<1>6. (\A q \in Ptrs : q # p => ptr'[q] = ptr[q]) /\ ~Choosing(p)'
  BY <1>4, DropFacts DEF DeliveryInv, TypeOK, Choosing
<1>7. CASE Choosing(p)
  <2>1. n.id \in Claimed /\ Claimed' = Claimed \ {n.id}
    BY <1>6, <1>7, FewerClaims DEF DeliveryInv
  <2> QED BY <1>1, <1>2, <1>5, <2>1, SendMapped, KeepsKeysIndex DEF KeepsKeys, DeliveryInv
<1>8. CASE ~Choosing(p)
  BY <1>1, <1>5, <1>6, <1>8, SameClaims, StutterMapped, KeepsKeysIndex
     DEF KeepsKeys, DeliveryInv
<1> QED BY <1>7, <1>8

LEMMA CancelMapped ==
  ASSUME NEW id \in Ids, NEW k \in Keys, idempotency[k] = id, Claimed' = Claimed,
         canceled' = canceled \cup {id}, UNCHANGED <<idempotency, issued>>
  PROVE  Mapped
<1>1. P!Cancel(id)
  BY DEF P!Cancel, P!Known, Claimed
<1> QED BY <1>1 DEF Mapped, P!Next

(* The Update of a cancel or pause request, and receipts: copies stay. *)
LEMMA CallMapped ==
  ASSUME DeliveryInv, IndexInv, NEW c \in calls, TransitionUpdate(c)
  PROVE  IndexInv' /\ Mapped
<1> DEFINE id == c.n.id
<1>1. /\ c.n \in Notifications /\ id \in Ids /\ c.expected \in Nat
      /\ notifications[id] # Nil /\ c.n.key = notifications[id].key
  BY DEF DeliveryInv, TypeOK, Calls, CallInv, Notifications
<1>2. /\ Update(c.n, c.expected)
      /\ canceled' = canceled \/ canceled' = canceled \cup {id}
      /\ UNCHANGED <<ptr, issued>>
  BY DEF TransitionUpdate, Update
<1>3. KeepsKeys
  BY <1>1, <1>2, UpdateKeepsKeys DEF DeliveryInv
<1>4. Claimed' = Claimed
  BY <1>2 DEF Claimed, At
<1>5. idempotency[notifications[id].key] = id /\ notifications[id].key \in Keys
  BY <1>1 DEF DeliveryInv, OneNotificationPerKey, TypeOK, StoreTypeOK, Notifications
<1>6. Mapped
  <2>1. CASE canceled' = canceled
    BY <1>2, <1>3, <1>4, <2>1, StutterMapped DEF KeepsKeys
  <2>2. CASE canceled' = canceled \cup {id}
    BY <1>1, <1>2, <1>3, <1>4, <1>5, <2>2, CancelMapped DEF KeepsKeys
  <2> QED BY <1>2, <2>1, <2>2
<1> QED BY <1>3, <1>6, KeepsKeysIndex DEF DeliveryInv

LEMMA ReceiptMapped ==
  ASSUME DeliveryInv, TypeOK', IndexInv, NEW id \in Ids, NEW e \in ReceiptEvents,
         RecordReceipt(id, e)
  PROVE  IndexInv' /\ Mapped
<1>1. /\ idempotency' = idempotency
      /\ persistLocked \/ PersistFails
      /\ UNCHANGED <<ptr, issued, canceled>>
  BY DEF RecordReceipt
<1>2. \A i \in Ids : notifications[i] # Nil
        => notifications'[i] # Nil /\ notifications'[i].key = notifications[i].key
  BY ReceiptFacts, NilAssumption DEF DeliveryInv
<1>3. KeepsKeys
  BY <1>1, <1>2, PersistFacts DEF RecordReceipt, KeepsKeys, Saves, PersistFails, TypeOK
<1>4. Claimed' = Claimed
  BY <1>1 DEF Claimed, At
<1> QED BY <1>1, <1>3, <1>4, StutterMapped, KeepsKeysIndex DEF DeliveryInv, KeepsKeys

(* A restart frees only keys under which nothing was sent or canceled:      *)
(* anything else is in the file.                                            *)
LEMMA CrashMapped ==
  ASSUME DeliveryInv, TypeOK', IndexInv, Crash
  PROVE  IndexInv' /\ Mapped
<1>1. /\ notifications' = disk.notifications /\ idempotency' = disk.idempotency
      /\ ptr' = [p \in Ptrs |-> Nil] /\ UNCHANGED <<disk, issued, canceled>>
  BY DEF Crash
<1>2. IndexInv'
  BY <1>1 DEF IndexInv, IndexOK
<1>3. Claimed' = {}
  BY <1>1 DEF Claimed, At
<1>4. idempotency' \in [Keys -> Ids \cup {Nil}] /\ idempotency \in [Keys -> Ids \cup {Nil}]
  BY DEF TypeOK, StoreTypeOK, DeliveryInv
<1>5. ASSUME NEW k \in Keys, idempotency'[k] # idempotency[k]
      PROVE  /\ idempotency'[k] = Nil
             /\ issued[idempotency[k]] = 0 /\ idempotency[k] \notin canceled
  <2> DEFINE id == idempotency[k]
  <2>1. idempotency'[k] = Nil /\ id # Nil /\ id \in Ids
    BY <1>1, <1>4, <1>5 DEF IndexInv
  <2>2. notifications[id].key = k
    BY <2>1 DEF IndexInv, IndexOK
  <2>3. disk.notifications[id] = Nil
    <3>1. SUFFICES ASSUME disk.notifications[id] # Nil PROVE FALSE
      OBVIOUS
    <3>2. disk.notifications[id].key = k
      BY <2>1, <2>2, <3>1 DEF IndexInv
    <3>3. disk.idempotency[k] = id
      BY <2>1, <3>1, <3>2 DEF DeliveryInv, OneNotificationPerKey
    <3> QED BY <1>1, <2>1, <3>3
  <2> QED BY <2>1, <2>3 DEF DeliveryInv, DiskInv, CanceledStaysOut
<1>6. P!Restart
  BY <1>1, <1>3, <1>4, <1>5 DEF P!Restart, Claimed
<1> QED BY <1>2, <1>6 DEF Mapped, P!Next

(* Recover puts copies in the queue. *)
LEMMA RecoverMapped ==
  ASSUME DeliveryInv, IndexInv, NEW id \in Ids, NEW p \in Ptrs, Recover(id, p)
  PROVE  IndexInv' /\ Mapped
<1>1. /\ ptr[p] = Nil /\ UNCHANGED <<storeVars, issued, canceled>>
      /\ ptr' = ptr \/ ptr' = [ptr EXCEPT ![p] = [at |-> "queue", n |-> notifications[id]]]
  BY DEF Recover
<1>2. (\A q \in Ptrs : q # p => ptr'[q] = ptr[q]) /\ ~Choosing(p) /\ ~Choosing(p)'
  BY <1>1 DEF DeliveryInv, TypeOK, Choosing
<1> QED BY <1>1, <1>2, SameClaims, StutterMapped, UnchangedKeepsKeys, KeepsKeysIndex
        DEF DeliveryInv, storeVars

(* Steps that change neither the store nor the copies. *)
LEMMA IdleMapped ==
  ASSUME DeliveryInv, IndexInv, UNCHANGED <<storeVars, ptr, issued, canceled>>
  PROVE  IndexInv' /\ Mapped
<1>1. Claimed' = Claimed
  BY DEF Claimed, At
<1> QED BY <1>1, StutterMapped, UnchangedKeepsKeys, KeepsKeysIndex DEF DeliveryInv, storeVars

LEMMA StepMapped == DeliveryInv /\ IndexInv /\ [Next]_vars => IndexInv' /\ Mapped
<1> SUFFICES ASSUME DeliveryInv, IndexInv, [Next]_vars PROVE IndexInv' /\ Mapped
  OBVIOUS
<1>0. TypeOK'
  BY TypeStep DEF DeliveryInv
<1>1. CASE UNCHANGED vars
  BY <1>1, IdleMapped DEF vars, storeVars
<1>2. ASSUME NEW id \in Ids, NEW p \in Ptrs, Submit(id, p)
      PROVE  IndexInv' /\ Mapped
  BY <1>0, <1>2, CreateMapped, EnvironmentAssumption DEF Submit
<1>3. ASSUME NEW id \in Ids, NEW p \in Ptrs, NEW old \in Ids, Replay(old, id, p)
      PROVE  IndexInv' /\ Mapped
  <2>1. notifications[old] \in Notifications
    BY <1>3 DEF Replay, DeliveryInv, TypeOK, StoreTypeOK
  <2>2. \A k \in Keys : [key |-> k, scheduleAt |-> notifications[old].scheduleAt,
                         expiresAt |-> notifications[old].expiresAt]
          \in [key : Keys, scheduleAt : Nat, expiresAt : Nat]
    BY <2>1 DEF Notifications
  <2> QED BY <1>0, <1>3, <2>2, CreateMapped DEF Replay
<1>4. ASSUME NEW id \in Ids, NEW p \in Ptrs, Recover(id, p)
      PROVE  IndexInv' /\ Mapped
  BY <1>4, RecoverMapped
<1>5. ASSUME NEW p \in Ptrs, SubmitEnqueue(p) \/ Dequeue(p) \/ TimerFires(p) \/ Worker(p)
      PROVE  IndexInv' /\ Mapped
  BY <1>0, <1>5, QueueMapped, EndMapped, ClaimMapped, SendStepMapped, RetryMapped DEF Worker
<1>6. ASSUME NEW id \in Ids, Cancel(id) \/ Pause(id)
      PROVE  IndexInv' /\ Mapped
  BY <1>6, IdleMapped DEF Cancel, Pause, TransitionGet
<1>7. ASSUME NEW c \in calls, TransitionUpdate(c)
      PROVE  IndexInv' /\ Mapped
  BY <1>7, CallMapped
<1>8. ASSUME NEW id \in Ids, NEW e \in ReceiptEvents, RecordReceipt(id, e)
      PROVE  IndexInv' /\ Mapped
  BY <1>0, <1>8, ReceiptMapped
<1>9. CASE Refill \/ Tick
  BY <1>9, IdleMapped DEF Refill, Tick
<1>10. CASE Crash
  BY <1>0, <1>10, CrashMapped
<1> QED BY <1>1, <1>2, <1>3, <1>4, <1>5, <1>6, <1>7, <1>8, <1>9, <1>10 DEF Next

(* The delivery path implements Promise: whatever crashes, failing writes,  *)
(* races and retries do, a key names one notification from its first send   *)
(* or cancellation on, every call of a provider was claimed and is within   *)
(* the budget, and nothing is claimed after its cancellation was            *)
(* acknowledged.                                                            *)
THEOREM PromiseIsKept == Spec => KeepsPromise
<1>1. Init => P!Init /\ IndexInv
  <2> SUFFICES ASSUME Init PROVE P!Init /\ IndexInv
    OBVIOUS
  <2>1. Claimed = {}
    BY DEF Init, Claimed, At
  <2>2. P!Init
    BY <2>1 DEF Init, P!Init, Claimed
  <2>3. IndexInv
    BY DEF Init, IndexInv, IndexOK
  <2> QED BY <2>2, <2>3
<1>2. DeliveryInv /\ IndexInv /\ [Next]_vars => IndexInv' /\ [P!Next]_(P!vars)
  BY StepMapped DEF Mapped
<1> QED BY <1>1, <1>2, DeliveryInvariant, PTL DEF Spec, KeepsPromise, P!Spec
=============================================================================
