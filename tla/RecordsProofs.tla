---------------------------- MODULE RecordsProofs ---------------------------
(***************************************************************************)
(* Theorems about Records, for any number of notifications, keys, receipts *)
(* and addresses, with failing writes and crashes.                         *)
(***************************************************************************)
EXTENDS Records, TLAPS

Notifications == [status : Status, version : Nat]
Event         == [id : (Ids \cup Sources) \X Nat, status : Status]

(* What the proofs need of one snapshot: its shape, and a last event with   *)
(* the stored status in every timeline.                                     *)
Sound(s) ==
  /\ s \in Snapshots
  /\ \A id \in Ids :
       /\ s.events[id] = <<>> <=> s.notifications[id] = Nil
       /\ s.events[id] # <<>> => Last(s.events[id]).status = s.notifications[id].status

(* t has all that s has: keys with their owners, notifications, suppressions. *)
Keeps(s, t) ==
  /\ \A k \in Keys : s.idempotency[k] # Nil => t.idempotency[k] = s.idempotency[k]
  /\ \A id \in Ids : s.notifications[id] # Nil => t.notifications[id] # Nil
  /\ s.suppressions \subseteq t.suppressions

Answers == acked \in SUBSET (Ids \cup {hash(a) : a \in Addresses})

RecordsInv ==
  /\ Sound(data)
  /\ Sound(file)
  /\ Keeps(file, data)
  /\ Answers
  /\ AcknowledgedIsSaved

-----------------------------------------------------------------------------
(* A record with the fields of a snapshot. *)
HasShape(s) ==
  s = [notifications |-> s.notifications, idempotency |-> s.idempotency, events |-> s.events,
       receipts |-> s.receipts, suppressions |-> s.suppressions, outbox |-> s.outbox]

(* Storing n under id and appending e, with the other fields in shape, is a  *)
(* snapshot again.                                                          *)
LEMMA StoredShape ==
  ASSUME data \in Snapshots, NEW id \in Ids, NEW n \in Notifications, NEW e \in Event,
         HasShape(data'),
         data'.notifications = [data.notifications EXCEPT ![id] = n],
         data'.events = [data.events EXCEPT ![id] = Append(data.events[id], e)],
         data'.idempotency \in [Keys -> Ids \cup {Nil}],
         data'.receipts \subseteq Sources \X Nat,
         data'.suppressions = data.suppressions,
         data'.outbox \in Seq(Ids)
  PROVE  data' \in Snapshots
<1>1. data.events \in [Ids -> Seq(Event)]
  BY DEF Snapshots, Event
<1>2. Append(data.events[id], e) \in Seq(Event)
  BY <1>1
<1>3. data'.events \in [Ids -> Seq(Event)]
  BY <1>1, <1>2
<1>4. data'.notifications \in [Ids -> Notifications \cup {Nil}]
  BY DEF Snapshots, Notifications
<1>5. data'.suppressions \in SUBSET {hash(a) : a \in Addresses}
  BY DEF Snapshots
<1> QED BY <1>3, <1>4, <1>5 DEF Snapshots, Notifications, Event, HasShape

(* The last element of a sequence after Append. *)
LEMMA AppendLast ==
  ASSUME NEW S, NEW s \in Seq(S), NEW x \in S
  PROVE  Append(s, x) # <<>> /\ Append(s, x)[Len(Append(s, x))] = x
  OBVIOUS

(* A step that stores a notification n under id and appends an event with   *)
(* its status leaves a sound snapshot, whatever else it changes in shape.   *)
LEMMA StoredSound ==
  ASSUME Sound(data), data' \in Snapshots,
         NEW id \in Ids, NEW n \in Notifications, NEW e \in Event, e.status = n.status,
         data'.notifications = [data.notifications EXCEPT ![id] = n],
         data'.events = [data.events EXCEPT ![id] = Append(data.events[id], e)]
  PROVE  Sound(data')
<1>1. data.events \in [Ids -> Seq(Event)]
  BY DEF Sound, Snapshots, Event
<1>2. /\ data'.events[id] # <<>>
      /\ Last(data'.events[id]) = e
      /\ \A i \in Ids : i # id => data'.events[i] = data.events[i]
  <2>1. data.events[id] \in Seq(Event)
    BY <1>1
  <2>2. /\ data'.events[id] = Append(data.events[id], e)
        /\ \A i \in Ids : i # id => data'.events[i] = data.events[i]
    BY <1>1
  <2>3. /\ Append(data.events[id], e) # <<>>
        /\ Append(data.events[id], e)[Len(Append(data.events[id], e))] = e
    BY <2>1, AppendLast
  <2> QED BY <2>2, <2>3 DEF Last
<1>3. /\ data.notifications \in [Ids -> Notifications \cup {Nil}]
      /\ data'.notifications[id] = n
      /\ \A i \in Ids : i # id => data'.notifications[i] = data.notifications[i]
  BY DEF Sound, Snapshots, Notifications
<1>4. n # Nil
  BY RecordsAssumption DEF RecordsAssumption, Notifications
<1>5. ASSUME NEW i \in Ids
      PROVE  /\ data'.events[i] = <<>> <=> data'.notifications[i] = Nil
             /\ data'.events[i] # <<>> => Last(data'.events[i]).status = data'.notifications[i].status
  <2>1. CASE i = id
    BY <1>2, <1>3, <1>4, <2>1
  <2>2. CASE i # id
    BY <1>2, <1>3, <2>2 DEF Sound
  <2> QED BY <2>1, <2>2
<1> QED BY <1>5 DEF Sound

(* persistLocked, successful or not, after a change that keeps all there    *)
(* was: what is acknowledged is in the file.                                *)
LEMMA PersistKeeps ==
  ASSUME RecordsInv, NEW what, Persist(what), Sound(data'), Keeps(data, data'),
         what \subseteq Ids \cup {hash(a) : a \in Addresses},
         \A x \in what :
           IF x \in Ids THEN /\ data'.notifications[x] # Nil
                             /\ \E k \in Keys : data'.idempotency[k] = x
                        ELSE x \in data'.suppressions
  PROVE  RecordsInv'
<1>1. Keeps(file, data')
  BY DEF RecordsInv, Keeps
<1>2. CASE file' = data' /\ acked' = acked \cup what
  <2>1. Sound(file') /\ Keeps(file', data')
    BY <1>2 DEF Keeps
  <2>2. Answers'
    BY <1>2 DEF RecordsInv, Answers
  <2>3. ASSUME NEW x \in acked, x \in Ids
        PROVE  /\ data'.notifications[x] # Nil
               /\ \E k \in Keys : data'.idempotency[k] = x
    <3>1. file.notifications[x] # Nil
      BY <2>3 DEF RecordsInv, AcknowledgedIsSaved
    <3>2. PICK k \in Keys : file.idempotency[k] = x
      BY <2>3 DEF RecordsInv, AcknowledgedIsSaved
    <3>3. x # Nil
      BY <2>3, RecordsAssumption DEF RecordsAssumption
    <3> QED BY <1>1, <2>3, <3>1, <3>2, <3>3 DEF Keeps
  <2>4. ASSUME NEW x \in acked, x \notin Ids
        PROVE  x \in data'.suppressions
    BY <1>1, <2>4 DEF RecordsInv, AcknowledgedIsSaved, Keeps
  <2>5. AcknowledgedIsSaved'
    BY <1>2, <2>3, <2>4 DEF AcknowledgedIsSaved
  <2> QED BY <2>1, <2>2, <2>5 DEF RecordsInv
<1>3. CASE UNCHANGED <<file, acked>>
  BY <1>1, <1>3 DEF RecordsInv, Answers, AcknowledgedIsSaved
<1> QED BY <1>2, <1>3 DEF Persist

-----------------------------------------------------------------------------
(* Store.Create keeps the invariant: the key was free, so no owner changes. *)
LEMMA CreateStep ==
  ASSUME RecordsInv, NEW id \in Ids, NEW k \in Keys, NEW a \in Addresses, Create(id, k, a)
  PROVE  RecordsInv'
<1> DEFINE n == [status |-> "queued", version |-> 1]
           e == [id |-> <<id, Len(data.events[id]) + 1>>, status |-> "queued"]
<1>1. data \in Snapshots /\ data' = Created(id, k) /\ data.idempotency[k] = Nil
  BY DEF RecordsInv, Sound, Create
<1>2. data.events[id] \in Seq(Event)
  BY <1>1 DEF Snapshots, Event
<1>3. n \in Notifications /\ e \in Event /\ e.status = n.status
  BY <1>2 DEF Notifications, Event, Status
<1>4. /\ data'.notifications = [data.notifications EXCEPT ![id] = n]
      /\ data'.idempotency = [data.idempotency EXCEPT ![k] = id]
      /\ data'.events = [data.events EXCEPT ![id] = Append(data.events[id], e)]
      /\ data'.receipts = data.receipts
      /\ data'.suppressions = data.suppressions
      /\ data'.outbox = Append(data.outbox, id)
      /\ HasShape(data')
  BY <1>1 DEF Created, addEvent, Snapshots, HasShape
<1> HIDE DEF n, e
<1>5. /\ data'.idempotency \in [Keys -> Ids \cup {Nil}]
      /\ data'.receipts \subseteq Sources \X Nat
      /\ data'.outbox \in Seq(Ids)
  BY <1>1, <1>4 DEF Snapshots
<1>6. data' \in Snapshots
  <2>1. /\ data \in Snapshots /\ n \in Notifications /\ e \in Event
        /\ data'.notifications = [data.notifications EXCEPT ![id] = n]
        /\ data'.events = [data.events EXCEPT ![id] = Append(data.events[id], e)]
        /\ data'.suppressions = data.suppressions /\ HasShape(data')
    BY <1>1, <1>3, <1>4
  <2> QED BY <1>5, <2>1, StoredShape
<1>7. Sound(data')
  BY <1>3, <1>4, <1>6, StoredSound DEF RecordsInv
<1>8. n # Nil
  BY <1>3, RecordsAssumption DEF RecordsAssumption, Notifications
<1>9. /\ Keeps(data, data')
      /\ data'.notifications[id] # Nil
      /\ data'.idempotency[k] = id
  BY <1>1, <1>4, <1>8 DEF Keeps, Snapshots
<1> QED BY <1>7, <1>9, PersistKeeps DEF Create

(* Notification.Transition returns a notification with the status asked for. *)
LEMMA TransitionMoves ==
  ASSUME NEW c \in Notifications, NEW next \in Status
  PROVE  Transition(c, next) \in Notifications /\ Transition(c, next).status = next
<1>1. CASE c.status = next
  BY <1>1 DEF Transition
<1>2. CASE c.status # next
  <2>1. Transition(c, next) = [status |-> next, version |-> c.version + 1]
    BY <1>2 DEF Transition, Notifications
  <2> QED BY <2>1 DEF Notifications
<1> QED BY <1>1, <1>2

(* Store.Update keeps the invariant. *)
LEMMA UpdateStep ==
  ASSUME RecordsInv, NEW id \in Ids, NEW m \in Moves, Update(id, m[1], m[2])
  PROVE  RecordsInv'
<1> DEFINE copy == [data.notifications[id] EXCEPT !.status = m[1]]
           n == Transition(copy, m[2])
           e == [id |-> <<id, Len(data.events[id]) + 1>>, status |-> m[2]]
<1>1. /\ data \in Snapshots
      /\ data' = [data EXCEPT !.notifications[id] = n, !.events = addEvent(@, id, m[2])]
  BY DEF RecordsInv, Sound, Update
<1>2. data.events[id] \in Seq(Event)
  BY <1>1 DEF Snapshots, Event
<1>3. m[1] \in Status /\ m[2] \in Status
  BY RecordsAssumption DEF RecordsAssumption
<1>4. n \in Notifications /\ n.status = m[2]
  <2>1. data.notifications[id] \in Notifications
    BY <1>1 DEF Update, Snapshots, Notifications
  <2>2. copy \in Notifications /\ copy.status = m[1]
    BY <1>3, <2>1 DEF Notifications
  <2> QED BY <1>3, <2>2, TransitionMoves
<1>5. e \in Event /\ e.status = m[2]
  BY <1>2, <1>3 DEF Event
<1> HIDE DEF n
<1>6. /\ data'.notifications = [data.notifications EXCEPT ![id] = n]
      /\ data'.idempotency = data.idempotency
      /\ data'.events = [data.events EXCEPT ![id] = Append(data.events[id], e)]
      /\ data'.receipts = data.receipts
      /\ data'.suppressions = data.suppressions
      /\ data'.outbox = data.outbox
      /\ HasShape(data')
  BY <1>1 DEF addEvent, Snapshots, HasShape
<1> HIDE DEF e
<1>7. /\ data'.idempotency \in [Keys -> Ids \cup {Nil}]
      /\ data'.receipts \subseteq Sources \X Nat
      /\ data'.outbox \in Seq(Ids)
  BY <1>1, <1>6 DEF Snapshots
<1>8. data' \in Snapshots
  BY <1>1, <1>4, <1>5, <1>6, <1>7, StoredShape
<1>9. Sound(data')
  BY <1>4, <1>5, <1>6, <1>8, StoredSound DEF RecordsInv
<1>10. n # Nil
  BY <1>4, RecordsAssumption DEF RecordsAssumption, Notifications
<1>11. Keeps(data, data')
  BY <1>1, <1>6, <1>10 DEF Keeps, Snapshots
<1>12. Persist({})
  BY DEF Update
<1> QED BY <1>9, <1>11, <1>12, PersistKeeps

(* Store.RecordReceipt keeps the invariant, also without a saved file. *)
LEMMA ReceiptStep ==
  ASSUME RecordsInv, NEW id \in Ids, NEW r \in Reports, RecordReceipt(id, r)
  PROVE  RecordsInv'
<1> DEFINE key == <<r.source, r.sequence>>
           n == [status |-> r.status, version |-> data.notifications[id].version + 1]
           e == [id |-> key, status |-> r.status]
<1>1. data \in Snapshots /\ data' = Received(id, key, r.status)
  BY DEF RecordsInv, Sound, RecordReceipt
<1>2. key \in Sources \X Nat /\ r.status \in Status
  BY RecordsAssumption DEF RecordsAssumption
<1>3. n \in Notifications /\ e \in Event /\ e.status = n.status
  <2>1. data.notifications[id] \in Notifications
    BY <1>1 DEF RecordReceipt, Snapshots, Notifications
  <2> QED BY <1>2, <2>1 DEF Notifications, Event
<1> HIDE DEF key
<1>4. /\ data'.notifications = [data.notifications EXCEPT ![id] = n]
      /\ data'.idempotency = data.idempotency
      /\ data'.events = [data.events EXCEPT ![id] = Append(data.events[id], e)]
      /\ data'.suppressions = data.suppressions
      /\ data'.outbox = data.outbox
      /\ HasShape(data')
  BY <1>1 DEF Received, Snapshots, HasShape
<1>5. data'.receipts = data.receipts \cup {key}
  BY <1>1 DEF Received, Snapshots
<1> HIDE DEF n, e
<1>6. /\ data'.idempotency \in [Keys -> Ids \cup {Nil}]
      /\ data'.receipts \subseteq Sources \X Nat
      /\ data'.outbox \in Seq(Ids)
  BY <1>1, <1>2, <1>4, <1>5 DEF Snapshots
<1>7. data' \in Snapshots
  BY <1>1, <1>3, <1>4, <1>6, StoredShape
<1>8. Sound(data')
  BY <1>3, <1>4, <1>7, StoredSound DEF RecordsInv
<1>9. n # Nil
  BY <1>3, RecordsAssumption DEF RecordsAssumption, Notifications
<1>10. Keeps(data, data')
  BY <1>1, <1>4, <1>9 DEF Keeps, Snapshots
<1>11. Persist({})
  BY DEF RecordReceipt
<1> QED BY <1>8, <1>10, <1>11, PersistKeeps

(* Store.Suppress keeps the invariant. *)
LEMMA SuppressStep ==
  ASSUME RecordsInv, NEW a \in Addresses, Suppress(a)
  PROVE  RecordsInv'
<1> DEFINE h == hash(a)
<1>1. /\ Sound(data) /\ data \in Snapshots
      /\ data' = [data EXCEPT !.suppressions = data.suppressions \cup {h}]
      /\ Persist({h})
  BY DEF RecordsInv, Sound, Suppress
<1>2. h \notin Ids /\ h \in {hash(b) : b \in Addresses}
  BY HashAssumption DEF HashAssumption
<1> HIDE DEF h
<1>3. data' \in Snapshots
  BY <1>1, <1>2 DEF Snapshots
<1>4. /\ data'.notifications = data.notifications
      /\ data'.events = data.events
      /\ data'.idempotency = data.idempotency
      /\ data'.suppressions = data.suppressions \cup {h}
  BY <1>1 DEF Snapshots
<1>5. Sound(data') /\ Keeps(data, data')
  BY <1>1, <1>3, <1>4 DEF Sound, Keeps
<1> QED BY <1>1, <1>2, <1>4, <1>5, PersistKeeps

(* A store opened on a file that does not exist satisfies the invariant. *)
LEMMA RecordsInvInit == Init => RecordsInv
<1> SUFFICES ASSUME Init PROVE RecordsInv
  OBVIOUS
<1>1. Open \in Snapshots
  <2>1. [id \in Ids |-> <<>>] \in [Ids -> Seq([id : (Ids \cup Sources) \X Nat, status : Status])]
    OBVIOUS
  <2> QED BY <2>1 DEF Open, Snapshots
<1>2. Sound(Open)
  BY <1>1 DEF Sound, Open
<1> QED BY <1>2 DEF Init, RecordsInv, Keeps, Answers, AcknowledgedIsSaved

(* Every step keeps it; a crash, because the file is sound by itself. *)
LEMMA RecordsInvStep == RecordsInv /\ [Next]_vars => RecordsInv'
<1> SUFFICES ASSUME RecordsInv, [Next]_vars PROVE RecordsInv'
  OBVIOUS
<1>1. ASSUME NEW id \in Ids, NEW k \in Keys, NEW a \in Addresses, Create(id, k, a)
      PROVE  RecordsInv'
  BY <1>1, CreateStep
<1>2. ASSUME NEW id \in Ids, NEW m \in Moves, Update(id, m[1], m[2])
      PROVE  RecordsInv'
  BY <1>2, UpdateStep
<1>3. ASSUME NEW id \in Ids, NEW r \in Reports, RecordReceipt(id, r)
      PROVE  RecordsInv'
  BY <1>3, ReceiptStep
<1>4. ASSUME NEW a \in Addresses, Suppress(a)
      PROVE  RecordsInv'
  BY <1>4, SuppressStep
<1>5. CASE Crash
  BY <1>5 DEF Crash, RecordsInv, Sound, Keeps, Answers, AcknowledgedIsSaved
<1>6. CASE UNCHANGED vars
  BY <1>6 DEF vars, RecordsInv, Sound, Keeps, Answers, AcknowledgedIsSaved
<1> QED BY <1>1, <1>2, <1>3, <1>4, <1>5, <1>6 DEF Next

(* RecordsInv holds in every reachable state. *)
LEMMA RecordsInvariant == Spec => []RecordsInv
BY RecordsInvInit, RecordsInvStep, PTL DEF Spec

-----------------------------------------------------------------------------
(* The last event of a timeline has the stored status, in memory and in the *)
(* file, however often Store.persistLocked fails and the process restarts   *)
(* and whatever receipts Store.RecordReceipt lets in.                       *)
THEOREM TimelinesTellStatus == Spec => []StatusIsLastEvent
<1>1. RecordsInv => StatusIsLastEvent
  BY DEF RecordsInv, Sound, StatusIsLastEvent
<1> QED BY <1>1, RecordsInvariant, PTL

(* What Submit answered as created and the suppressions handler answered    *)
(* with success is in the file and stays there.                             *)
THEOREM AnswersAreDurable == Spec => []AcknowledgedIsSaved
<1>1. RecordsInv => AcknowledgedIsSaved
  BY DEF RecordsInv
<1> QED BY <1>1, RecordsInvariant, PTL
-----------------------------------------------------------------------------
(* How the store's history grows.  One more event for a notification, by    *)
(* Store.Create, Store.Update or Store.RecordReceipt: n is stored under id  *)
(* and e appended to the timeline, the event either named by its position   *)
(* or by a receipt that had not been seen.                                  *)
Grown(id, n, e) ==
  /\ n \in Notifications /\ e \in Event
  /\ Len(data.events[id]) < MaxEvents
  /\ data'.notifications = [data.notifications EXCEPT ![id] = n]
  /\ data'.events = [data.events EXCEPT ![id] = Append(data.events[id], e)]
  /\ data'.suppressions = data.suppressions
  /\ \/ /\ e.id = <<id, Len(data.events[id]) + 1>>
        /\ data'.receipts = data.receipts
     \/ /\ e.id \in (Sources \X Nat) \ data.receipts
        /\ data'.receipts = data.receipts \cup {e.id}
        /\ e.status \in ReceiptStatus

(* Moreover, if clients choose no ids: a stored notification's version does *)
(* not fall, and just a new one gets an outbox entry.                       *)
InOrder(id, n) ==
  /\ data.notifications[id] # Nil => n.version >= data.notifications[id].version
  /\ data'.outbox = IF data.notifications[id] = Nil THEN Append(data.outbox, id)
                                                     ELSE data.outbox

(* A suppression changes nothing else. *)
Widened ==
  /\ data' = [data EXCEPT !.suppressions = data'.suppressions]
  /\ data.suppressions \subseteq data'.suppressions

(* Store.Create grows the history. *)
LEMMA CreateGrows ==
  ASSUME RecordsInv, NEW id \in Ids, NEW k \in Keys, NEW a \in Addresses, Create(id, k, a)
  PROVE  \E n, e : Grown(id, n, e) /\ (ClientIds = {} => InOrder(id, n))
<1> DEFINE n == [status |-> "queued", version |-> 1]
           e == [id |-> <<id, Len(data.events[id]) + 1>>, status |-> "queued"]
<1>1. data \in Snapshots /\ data' = Created(id, k) /\ Len(data.events[id]) < MaxEvents
  BY DEF RecordsInv, Sound, Create
<1>2. data.events[id] \in Seq(Event)
  BY <1>1 DEF Snapshots, Event
<1>3. n \in Notifications /\ e \in Event
  BY <1>2 DEF Notifications, Event, Status
<1>4. /\ data'.notifications = [data.notifications EXCEPT ![id] = n]
      /\ data'.events = [data.events EXCEPT ![id] = Append(data.events[id], e)]
      /\ data'.receipts = data.receipts
      /\ data'.suppressions = data.suppressions
      /\ data'.outbox = Append(data.outbox, id)
  BY <1>1 DEF Created, addEvent, Snapshots
<1>5. e.id = <<id, Len(data.events[id]) + 1>>
  OBVIOUS
<1>6. ClientIds = {} => data.notifications[id] = Nil
  BY DEF Create
<1> HIDE DEF n, e
<1>7. Grown(id, n, e)
  BY <1>1, <1>3, <1>4, <1>5 DEF Grown
<1>8. ClientIds = {} => InOrder(id, n)
  BY <1>4, <1>6 DEF InOrder
<1> QED BY <1>7, <1>8

(* Store.Update grows the history. *)
LEMMA UpdateGrows ==
  ASSUME RecordsInv, NEW id \in Ids, NEW m \in Moves, Update(id, m[1], m[2])
  PROVE  \E n, e : Grown(id, n, e) /\ InOrder(id, n)
<1> DEFINE old == data.notifications[id]
           copy == [old EXCEPT !.status = m[1]]
           n == Transition(copy, m[2])
           e == [id |-> <<id, Len(data.events[id]) + 1>>, status |-> m[2]]
<1>1. /\ data \in Snapshots /\ Len(data.events[id]) < MaxEvents
      /\ data.notifications[id] # Nil
      /\ data' = [data EXCEPT !.notifications[id] = n, !.events = addEvent(@, id, m[2])]
  BY DEF RecordsInv, Sound, Update
<1>2. data.events[id] \in Seq(Event)
  BY <1>1 DEF Snapshots, Event
<1>3. m[1] \in Status /\ m[2] \in Status
  BY RecordsAssumption DEF RecordsAssumption
<1>4. n \in Notifications /\ n.version >= old.version
  <2>1. old \in Notifications
    BY <1>1 DEF Snapshots, Notifications
  <2>2. copy \in Notifications /\ copy.version = old.version /\ old.version \in Nat
    BY <1>3, <2>1 DEF Notifications
  <2> HIDE DEF copy
  <2>3. n \in Notifications
    BY <1>3, <2>2, TransitionMoves
  <2>4. n.version \in {copy.version, copy.version + 1}
    BY <2>2 DEF Transition, Notifications
  <2> HIDE DEF n, old
  <2> QED BY <2>2, <2>3, <2>4
<1>5. e \in Event
  BY <1>2, <1>3 DEF Event
<1> HIDE DEF n
<1>6. /\ data'.notifications = [data.notifications EXCEPT ![id] = n]
      /\ data'.events = [data.events EXCEPT ![id] = Append(data.events[id], e)]
      /\ data'.receipts = data.receipts
      /\ data'.suppressions = data.suppressions
      /\ data'.outbox = data.outbox
  BY <1>1 DEF addEvent, Snapshots
<1>7. e.id = <<id, Len(data.events[id]) + 1>>
  OBVIOUS
<1> HIDE DEF e
<1>8. Grown(id, n, e)
  BY <1>1, <1>4, <1>5, <1>6, <1>7 DEF Grown
<1>9. InOrder(id, n)
  BY <1>1, <1>4, <1>6 DEF InOrder
<1> QED BY <1>8, <1>9

(* Store.RecordReceipt grows the history by a receipt not seen before. *)
LEMMA ReceiptGrows ==
  ASSUME RecordsInv, NEW id \in Ids, NEW r \in Reports, RecordReceipt(id, r)
  PROVE  \E n, e : Grown(id, n, e) /\ InOrder(id, n)
<1> DEFINE key == <<r.source, r.sequence>>
           old == data.notifications[id]
           n == [status |-> r.status, version |-> old.version + 1]
           e == [id |-> key, status |-> r.status]
<1>1. /\ data \in Snapshots /\ data' = Received(id, key, r.status)
      /\ Len(data.events[id]) < MaxEvents /\ key \notin data.receipts
      /\ data.notifications[id] # Nil /\ r.status \in ReceiptStatus
  BY DEF RecordsInv, Sound, RecordReceipt
<1>2. key \in Sources \X Nat /\ r.status \in Status
  BY RecordsAssumption DEF RecordsAssumption
<1>3. n \in Notifications /\ e \in Event /\ n.version >= old.version
  <2>1. old \in Notifications
    BY <1>1 DEF Snapshots, Notifications
  <2> QED BY <1>2, <2>1 DEF Notifications, Event
<1> HIDE DEF key
<1>4. /\ data'.notifications = [data.notifications EXCEPT ![id] = n]
      /\ data'.events = [data.events EXCEPT ![id] = Append(data.events[id], e)]
      /\ data'.suppressions = data.suppressions
      /\ data'.outbox = data.outbox
  BY <1>1 DEF Received, Snapshots
<1>5. data'.receipts = data.receipts \cup {key}
  BY <1>1 DEF Received, Snapshots
<1>6. e.id = key /\ e.status = r.status
  OBVIOUS
<1> HIDE DEF n, e
<1>7. Grown(id, n, e)
  BY <1>1, <1>2, <1>3, <1>4, <1>5, <1>6 DEF Grown
<1>8. InOrder(id, n)
  BY <1>1, <1>3, <1>4 DEF InOrder
<1> QED BY <1>7, <1>8

(* Every step grows or widens the store, saving it or not, or returns to    *)
(* the file, or changes nothing.                                            *)
LEMMA Changes ==
  ASSUME RecordsInv, [Next]_vars
  PROVE  \/ /\ \E id \in Ids : \E n, e : Grown(id, n, e) /\ (ClientIds = {} => InOrder(id, n))
            /\ file' \in {file, data'}
         \/ Widened /\ file' \in {file, data'}
         \/ data' = file /\ file' = file /\ "crash" \in Faults
         \/ data' = data /\ file' = file
<1>1. ASSUME NEW id \in Ids, NEW k \in Keys, NEW a \in Addresses, Create(id, k, a)
      PROVE  /\ \E n, e : Grown(id, n, e) /\ (ClientIds = {} => InOrder(id, n))
             /\ file' \in {file, data'}
  BY <1>1, CreateGrows DEF Create, Persist
<1>2. ASSUME NEW id \in Ids, NEW m \in Moves, Update(id, m[1], m[2])
      PROVE  /\ \E n, e : Grown(id, n, e) /\ (ClientIds = {} => InOrder(id, n))
             /\ file' \in {file, data'}
  BY <1>2, UpdateGrows DEF Update, Persist
<1>3. ASSUME NEW id \in Ids, NEW r \in Reports, RecordReceipt(id, r)
      PROVE  /\ \E n, e : Grown(id, n, e) /\ (ClientIds = {} => InOrder(id, n))
             /\ file' \in {file, data'}
  BY <1>3, ReceiptGrows DEF RecordReceipt, Persist
<1>4. ASSUME NEW a \in Addresses, Suppress(a)
      PROVE  Widened /\ file' \in {file, data'}
  <2>1. data \in Snapshots /\ data' = [data EXCEPT !.suppressions = data.suppressions \cup {hash(a)}]
    BY <1>4 DEF RecordsInv, Sound, Suppress
  <2>2. data'.suppressions = data.suppressions \cup {hash(a)}
    BY <2>1 DEF Snapshots
  <2> QED BY <1>4, <2>1, <2>2 DEF Widened, Suppress, Persist
<1>5. CASE Crash
  BY <1>5 DEF Crash
<1>6. CASE UNCHANGED vars
  BY <1>6 DEF vars
<1> QED BY <1>1, <1>2, <1>3, <1>4, <1>5, <1>6 DEF Next

-----------------------------------------------------------------------------
(* The events of a snapshot: position i of the timeline of id. *)
At(s, id) == 1 .. Len(s.events[id])

(* Every event is named by its own position or by a receipt that was seen;  *)
(* no two events share a name; every receipt seen has an event.             *)
Identified(s) ==
  /\ \A id \in Ids : Len(s.events[id]) <= MaxEvents
  /\ \A id \in Ids : \A i \in At(s, id) :
       \/ s.events[id][i].id = <<id, i>>
       \/ s.events[id][i].id \in s.receipts /\ s.events[id][i].status \in ReceiptStatus
  /\ \A id, jd \in Ids : \A i \in At(s, id), j \in At(s, jd) :
       s.events[id][i].id = s.events[jd][j].id => id = jd /\ i = j
  /\ \A key \in s.receipts : \E id \in Ids : \E i \in At(s, id) : s.events[id][i].id = key

(* The outbox names every notification once. *)
Complete(s) ==
  /\ \A id \in Ids : s.notifications[id] # Nil <=> \E i \in 1 .. Len(s.outbox) : s.outbox[i] = id
  /\ \A i, j \in 1 .. Len(s.outbox) : s.outbox[i] = s.outbox[j] => i = j

(* s is t at an earlier time. *)
Past(s, t) ==
  /\ \A id \in Ids : IsPrefix(s.events[id], t.events[id])
  /\ IsPrefix(s.outbox, t.outbox)
  /\ s.receipts \subseteq t.receipts
  /\ \A id \in Ids : s.notifications[id] # Nil
       => s.notifications[id].version <= t.notifications[id].version

HistoryInv ==
  /\ Identified(data) /\ Identified(file)
  /\ ClientIds = {} => Complete(data) /\ Complete(file) /\ Past(file, data)

(* What Append does to a sequence. *)
LEMMA AppendFacts ==
  ASSUME NEW S, NEW s \in Seq(S), NEW e \in S
  PROVE  /\ Len(s) \in Nat
         /\ Append(s, e) \in Seq(S)
         /\ Len(Append(s, e)) = Len(s) + 1
         /\ Append(s, e)[Len(s) + 1] = e
         /\ \A i \in 1 .. Len(s) : Append(s, e)[i] = s[i]
OBVIOUS

(* An append keeps beginnings, and a sequence is one of itself. *)
LEMMA PrefixFacts ==
  ASSUME NEW S, NEW s \in Seq(S), NEW t \in Seq(S), NEW e \in S
  PROVE  /\ IsPrefix(s, s)
         /\ IsPrefix(s, t) => IsPrefix(s, Append(t, e))
<1>1. Len(s) \in Nat /\ Len(t) \in Nat
  OBVIOUS
<1>2. IsPrefix(s, s)
  BY <1>1 DEF IsPrefix
<1>3. ASSUME IsPrefix(s, t) PROVE IsPrefix(s, Append(t, e))
  <2>1. Len(s) <= Len(t) /\ Len(Append(t, e)) = Len(t) + 1
    BY <1>3, AppendFacts DEF IsPrefix
  <2>2. \A i \in 1 .. Len(s) : Append(t, e)[i] = t[i]
    BY <1>1, <2>1, AppendFacts
  <2>3. SubSeq(Append(t, e), 1, Len(s)) = SubSeq(t, 1, Len(s))
    BY <1>1, <2>1, <2>2
  <2> QED BY <1>1, <1>3, <2>1, <2>3 DEF IsPrefix
<1> QED BY <1>2, <1>3

(* One more event keeps the names of events apart. *)
LEMMA GrownIdentified ==
  ASSUME RecordsInv, Identified(data), NEW id \in Ids, NEW n, NEW e, Grown(id, n, e)
  PROVE  Identified(data')
<1> DEFINE ev == data.events
           w == data'.events
           L == Len(data.events[id])
<1>1. /\ ev \in [Ids -> Seq(Event)] /\ e \in Event /\ data.receipts \subseteq Sources \X Nat
      /\ w = [ev EXCEPT ![id] = Append(ev[id], e)] /\ L < MaxEvents
  BY DEF RecordsInv, Sound, Snapshots, Event, Grown
<1>2. /\ \A x \in Ids : x # id => w[x] = ev[x] /\ At(data', x) = At(data, x)
      /\ L \in Nat /\ MaxEvents \in Nat /\ Len(w[id]) = L + 1
      /\ w[id][L + 1] = e
      /\ \A i \in 1 .. L : w[id][i] = ev[id][i]
      /\ At(data, id) = 1 .. L
      /\ At(data', id) = 1 .. L + 1
  <2>1. w[id] = Append(ev[id], e) /\ ev[id] \in Seq(Event)
    BY <1>1
  <2>2. /\ L \in Nat /\ Len(w[id]) = L + 1 /\ w[id][L + 1] = e
        /\ \A i \in 1 .. L : w[id][i] = ev[id][i]
    BY <1>1, <2>1, AppendFacts
  <2>3. \A x \in Ids : x # id => w[x] = ev[x]
    BY <1>1
  <2> HIDE DEF w, ev, L
  <2>4. MaxEvents \in Nat
    BY RecordsAssumption DEF RecordsAssumption
  <2> QED BY <2>2, <2>3, <2>4 DEF At, w, ev, L
<1>3. \A x \in Ids : \A i \in At(data', x) :
        \/ i \in At(data, x) /\ w[x][i] = ev[x][i]
        \/ x = id /\ i = L + 1 /\ w[x][i] = e
  <2> SUFFICES ASSUME NEW x \in Ids, NEW i \in At(data', x)
               PROVE  \/ i \in At(data, x) /\ w[x][i] = ev[x][i]
                      \/ x = id /\ i = L + 1 /\ w[x][i] = e
    OBVIOUS
  <2> HIDE DEF w, ev, L
  <2>1. CASE x # id
    BY <1>2, <2>1
  <2>2. CASE x = id
    BY <1>2, <2>2
  <2> QED BY <2>1, <2>2
<1>4. \A x \in Ids : \A i \in At(data, x) :
        i \in At(data', x) /\ w[x][i] = ev[x][i] /\ (x = id => i # L + 1)
  <2> SUFFICES ASSUME NEW x \in Ids, NEW i \in At(data, x)
               PROVE  i \in At(data', x) /\ w[x][i] = ev[x][i] /\ (x = id => i # L + 1)
    OBVIOUS
  <2> HIDE DEF w, ev, L
  <2>1. CASE x # id
    BY <1>2, <2>1
  <2>2. CASE x = id
    BY <1>2, <2>2
  <2> QED BY <2>1, <2>2
<1>5. \A x \in Ids : \A i \in At(data, x) :
        /\ \/ ev[x][i].id = <<x, i>>
           \/ ev[x][i].id \in data.receipts /\ ev[x][i].status \in ReceiptStatus
        /\ ev[x][i].id # e.id
  <2> SUFFICES ASSUME NEW x \in Ids, NEW i \in At(data, x)
               PROVE  /\ \/ ev[x][i].id = <<x, i>>
                         \/ ev[x][i].id \in data.receipts /\ ev[x][i].status \in ReceiptStatus
                      /\ ev[x][i].id # e.id
    OBVIOUS
  <2>1. \/ ev[x][i].id = <<x, i>>
        \/ ev[x][i].id \in data.receipts /\ ev[x][i].status \in ReceiptStatus
    BY DEF Identified
  <2>2. Ids \cap Sources = {}
    BY RecordsAssumption DEF RecordsAssumption
  <2>3. e.id = <<id, L + 1>> \/ e.id \in (Sources \X Nat) \ data.receipts
    BY DEF Grown
  <2>4. x = id => i # L + 1
    BY <1>4
  <2> HIDE DEF ev, L
  <2>5. ASSUME e.id = <<id, L + 1>>, ev[x][i].id = <<x, i>> PROVE ev[x][i].id # e.id
    BY <2>4, <2>5
  <2>6. ASSUME e.id = <<id, L + 1>>, ev[x][i].id \in data.receipts PROVE ev[x][i].id # e.id
    BY <1>1, <2>2, <2>6
  <2>7. ASSUME e.id \in (Sources \X Nat) \ data.receipts, ev[x][i].id = <<x, i>>
        PROVE  ev[x][i].id # e.id
    BY <2>2, <2>7
  <2> QED BY <2>1, <2>3, <2>5, <2>6, <2>7
<1>6. /\ data.receipts \subseteq data'.receipts
      /\ \/ e.id = <<id, L + 1>>
         \/ e.id \in data'.receipts /\ e.status \in ReceiptStatus
      /\ \A key \in data'.receipts : key \in data.receipts \/ key = e.id
  BY DEF Grown
<1>7. \A x, y \in Ids : \A i \in At(data, x), j \in At(data, y) :
        ev[x][i].id = ev[y][j].id => x = y /\ i = j
  BY DEF Identified
<1>8. \A x \in Ids : Len(w[x]) <= MaxEvents
  <2>1. \A x \in Ids : Len(ev[x]) <= MaxEvents
    BY DEF Identified
  <2> HIDE DEF w, ev, L
  <2> QED BY <1>1, <1>2, <2>1
<1>9. \A key \in data.receipts : \E x \in Ids : \E i \in At(data, x) : ev[x][i].id = key
  BY DEF Identified
<1>10. L + 1 \in At(data', id) /\ w[id][L + 1] = e
  <2> HIDE DEF w, ev, L
  <2> QED BY <1>2
<1> HIDE DEF w, ev, L
<1>11. \A x \in Ids : \A i \in At(data', x) :
         \/ w[x][i].id = <<x, i>>
         \/ w[x][i].id \in data'.receipts /\ w[x][i].status \in ReceiptStatus
  BY <1>3, <1>5, <1>6
<1>12. ASSUME NEW x \in Ids, NEW y \in Ids, NEW i \in At(data', x), NEW j \in At(data', y),
              w[x][i].id = w[y][j].id
       PROVE  x = y /\ i = j
  BY <1>3, <1>5, <1>7, <1>12
<1>13. ASSUME NEW key \in data'.receipts
       PROVE  \E x \in Ids : \E i \in At(data', x) : w[x][i].id = key
  <2>1. CASE key \in data.receipts
    BY <1>4, <1>9, <2>1
  <2>2. CASE key = e.id
    BY <1>10, <2>2
  <2> QED BY <1>6, <2>1, <2>2
<1> QED BY <1>8, <1>11, <1>12, <1>13 DEF Identified, w

(* A new notification is the one with a new outbox entry. *)
LEMMA GrownComplete ==
  ASSUME RecordsInv, Complete(data), NEW id \in Ids, NEW n, NEW e, Grown(id, n, e), InOrder(id, n)
  PROVE  Complete(data')
<1> DEFINE box == data.outbox
           new == data'.outbox
           st == data.notifications
           st2 == data'.notifications
<1>1. /\ st \in [Ids -> Notifications \cup {Nil}] /\ box \in Seq(Ids)
      /\ st2 = [st EXCEPT ![id] = n] /\ n # Nil
      /\ new = IF st[id] = Nil THEN Append(box, id) ELSE box
  BY RecordsAssumption DEF RecordsInv, Sound, Snapshots, Notifications, Grown, InOrder, RecordsAssumption
<1>2. /\ \A x \in Ids : st[x] # Nil <=> \E i \in 1 .. Len(box) : box[i] = x
      /\ \A i, j \in 1 .. Len(box) : box[i] = box[j] => i = j
  BY DEF Complete
<1> HIDE DEF box, new, st, st2
<1>3. CASE st[id] # Nil
  <2>1. new = box /\ \A x \in Ids : st2[x] # Nil <=> st[x] # Nil
    BY <1>1, <1>3
  <2> QED BY <1>2, <2>1 DEF Complete, new, st2
<1>4. CASE st[id] = Nil
  <2>1. /\ Len(box) \in Nat /\ Len(new) = Len(box) + 1 /\ new[Len(box) + 1] = id
        /\ \A i \in 1 .. Len(box) : new[i] = box[i]
    BY <1>1, <1>4, AppendFacts
  <2>2. \A i \in 1 .. Len(new) : i \in 1 .. Len(box) \/ i = Len(box) + 1
    BY <2>1
  <2>3. 1 .. Len(box) \subseteq 1 .. Len(new) /\ Len(box) + 1 \in 1 .. Len(new)
    BY <2>1
  <2>4. \A i \in 1 .. Len(box) : box[i] # id
    BY <1>2, <1>4
  <2>5. \A x \in Ids : st2[x] # Nil <=> x = id \/ st[x] # Nil
    BY <1>1
  <2>6. ASSUME NEW x \in Ids PROVE st2[x] # Nil <=> \E i \in 1 .. Len(new) : new[i] = x
    BY <1>2, <2>1, <2>2, <2>3, <2>5
  <2>7. ASSUME NEW i \in 1 .. Len(new), NEW j \in 1 .. Len(new), new[i] = new[j] PROVE i = j
    BY <1>2, <2>1, <2>2, <2>4, <2>7
  <2> QED BY <2>6, <2>7 DEF Complete, new, st2
<1> QED BY <1>3, <1>4

(* The past of the store is the past of the store with one more event. *)
LEMMA GrownPast ==
  ASSUME RecordsInv, Past(file, data), NEW id \in Ids, NEW n, NEW e,
         Grown(id, n, e), InOrder(id, n)
  PROVE  Past(file, data')
<1>1. /\ data.events \in [Ids -> Seq(Event)] /\ file.events \in [Ids -> Seq(Event)]
      /\ data.outbox \in Seq(Ids) /\ file.outbox \in Seq(Ids)
      /\ data.notifications \in [Ids -> Notifications \cup {Nil}]
      /\ file.notifications \in [Ids -> Notifications \cup {Nil}]
  BY DEF RecordsInv, Sound, Snapshots, Event, Notifications
<1>2. /\ n \in Notifications /\ e \in Event
      /\ data'.notifications = [data.notifications EXCEPT ![id] = n]
      /\ data'.events = [data.events EXCEPT ![id] = Append(data.events[id], e)]
      /\ data.receipts \subseteq data'.receipts
      /\ data'.outbox \in {data.outbox, Append(data.outbox, id)}
      /\ data.notifications[id] # Nil => n.version >= data.notifications[id].version
  BY DEF Grown, InOrder
<1>3. ASSUME NEW x \in Ids PROVE IsPrefix(file.events[x], data'.events[x])
  <2>1. IsPrefix(file.events[x], data.events[x])
    BY DEF Past
  <2>2. data'.events[x] \in {data.events[x], Append(data.events[x], e)}
    BY <1>1, <1>2
  <2> QED BY <1>1, <1>2, <2>1, <2>2, PrefixFacts
<1>4. IsPrefix(file.outbox, data'.outbox)
  <2>1. IsPrefix(file.outbox, data.outbox)
    BY DEF Past
  <2>2. IsPrefix(file.outbox, Append(data.outbox, id))
    BY <1>1, <2>1, PrefixFacts
  <2> QED BY <1>2, <2>1, <2>2
<1>5. file.receipts \subseteq data'.receipts
  BY <1>2 DEF Past
<1>6. ASSUME NEW x \in Ids, file.notifications[x] # Nil
      PROVE  file.notifications[x].version <= data'.notifications[x].version
  <2>1. file.notifications[x].version <= data.notifications[x].version /\ data.notifications[x] # Nil
    BY <1>6 DEF Past, RecordsInv, Keeps
  <2>2. /\ file.notifications[x].version \in Nat /\ data.notifications[x].version \in Nat
        /\ n.version \in Nat
    BY <1>1, <1>2, <1>6, <2>1 DEF Notifications
  <2>3. CASE x # id
    BY <1>1, <1>2, <2>1, <2>3
  <2>4. CASE x = id
    <3>1. data'.notifications[x] = n
      BY <1>1, <1>2, <2>4
    <3> QED BY <1>2, <2>1, <2>2, <2>4, <3>1
  <2> QED BY <2>3, <2>4
<1> QED BY <1>3, <1>4, <1>5, <1>6 DEF Past

(* A sound snapshot is its own past. *)
LEMMA PastOfItself == ASSUME NEW s, Sound(s) PROVE Past(s, s)
<1>1. /\ s.events \in [Ids -> Seq(Event)] /\ s.outbox \in Seq(Ids)
      /\ s.notifications \in [Ids -> Notifications \cup {Nil}]
  BY DEF Sound, Snapshots, Event, Notifications
<1>2. \A id \in Ids : IsPrefix(s.events[id], s.events[id])
  BY <1>1 DEF IsPrefix
<1>3. IsPrefix(s.outbox, s.outbox)
  BY <1>1 DEF IsPrefix
<1>4. \A id \in Ids : s.notifications[id] # Nil => s.notifications[id].version \in Nat
  BY <1>1 DEF Notifications
<1> QED BY <1>2, <1>3, <1>4 DEF Past

(* Every step keeps HistoryInv. *)
LEMMA HistoryStep == RecordsInv /\ RecordsInv' /\ HistoryInv /\ [Next]_vars => HistoryInv'
<1> SUFFICES ASSUME RecordsInv, RecordsInv', HistoryInv, [Next]_vars PROVE HistoryInv'
  OBVIOUS
<1>1. Past(data', data')
  BY PastOfItself DEF RecordsInv
<1>2. ASSUME Identified(data'), ClientIds = {} => Complete(data') /\ Past(file, data'),
             file' \in {file, data'}
      PROVE  HistoryInv'
  <2>1. CASE file' = file
    BY <1>2, <2>1 DEF HistoryInv, Identified, Complete, Past, At
  <2>2. CASE file' = data'
    BY <1>1, <1>2, <2>2 DEF HistoryInv, Identified, Complete, Past, At
  <2> QED BY <1>2, <2>1, <2>2
<1>3. ASSUME NEW id \in Ids, NEW n, NEW e, Grown(id, n, e), ClientIds = {} => InOrder(id, n),
             file' \in {file, data'}
      PROVE  HistoryInv'
  <2>1. Identified(data')
    BY <1>3, GrownIdentified DEF HistoryInv
  <2>2. ClientIds = {} => Complete(data') /\ Past(file, data')
    BY <1>3, GrownComplete, GrownPast DEF HistoryInv
  <2> QED BY <1>2, <1>3, <2>1, <2>2
<1>4. ASSUME Widened, file' \in {file, data'} PROVE HistoryInv'
  <2>1. /\ data'.events = data.events /\ data'.receipts = data.receipts
        /\ data'.outbox = data.outbox /\ data'.notifications = data.notifications
    BY <1>4 DEF Widened, RecordsInv, Sound, Snapshots
  <2>2. Identified(data') /\ (ClientIds = {} => Complete(data') /\ Past(file, data'))
    BY <2>1 DEF HistoryInv, Identified, Complete, Past, At
  <2> QED BY <1>2, <1>4, <2>2
<1>5. ASSUME data' = file, file' = file PROVE HistoryInv'
  BY <1>1, <1>5 DEF HistoryInv, Identified, Complete, Past, At
<1>6. ASSUME data' = data, file' = file PROVE HistoryInv'
  BY <1>6 DEF HistoryInv, Identified, Complete, Past, At
<1> QED BY <1>3, <1>4, <1>5, <1>6, Changes

(* The empty store has an empty history. *)
LEMMA HistoryInit == Init => HistoryInv
<1> SUFFICES ASSUME Init PROVE HistoryInv
  OBVIOUS
<1>1. data = Open /\ file = Open
  BY DEF Init
<1>2. /\ Open.notifications = [id \in Ids |-> Nil] /\ Open.events = [id \in Ids |-> <<>>]
      /\ Open.receipts = {} /\ Open.outbox = <<>>
  BY DEF Open
<1>3. Identified(Open)
  BY <1>2, RecordsAssumption DEF Identified, At, RecordsAssumption
<1>4. Complete(Open)
  BY <1>2 DEF Complete
<1>5. Past(Open, Open)
  BY <1>1, RecordsInvInit, PastOfItself DEF RecordsInv
<1> QED BY <1>1, <1>3, <1>4, <1>5 DEF HistoryInv

(* HistoryInv holds in every reachable state. *)
LEMMA HistoryInvariant == Spec => [](RecordsInv /\ HistoryInv)
BY HistoryInit, HistoryStep, RecordsInvariant, PTL DEF Spec

-----------------------------------------------------------------------------
(* Memory and file always have the shape of a snapshot, and an event that   *)
(* came in as a receipt has a status Ingest lets through.                   *)
THEOREM RecordsTypeCorrect == Spec => []TypeOK
<1>1. RecordsInv /\ HistoryInv => TypeOK
  <2> SUFFICES ASSUME RecordsInv, HistoryInv PROVE TypeOK
    OBVIOUS
  <2>1. ASSUME NEW id \in Ids, NEW e \in Range(data.events[id]), e.id[1] \in Sources
        PROVE  e.status \in ReceiptStatus
    <3>1. data.events[id] \in Seq(Event)
      BY DEF RecordsInv, Sound, Snapshots, Event
    <3>2. PICK i \in 1 .. Len(data.events[id]) : e = data.events[id][i]
      BY <3>1 DEF Range
    <3>3. \/ e.id = <<id, i>>
          \/ e.id \in data.receipts /\ e.status \in ReceiptStatus
      BY <3>2 DEF HistoryInv, Identified, At
    <3> QED BY <2>1, <3>3, RecordsAssumption DEF RecordsAssumption
  <2> QED BY <2>1 DEF TypeOK, RecordsInv, Sound, Answers
<1> QED BY <1>1, HistoryInvariant, PTL

(* No two events share an id and the receipts seen are those with an event, *)
(* in memory and in the file: RecordReceipt counts a receipt once, however  *)
(* often it is repeated and whatever write fails in between.                *)
THEOREM ReceiptsCountOnce == Spec => []EventsAreIdentified
<1>1. ASSUME NEW s, Sound(s), Identified(s)
      PROVE  HasItsIds(s)
  <2> DEFINE Entries == {<<id, i>> : id \in Ids, i \in 1 .. MaxEvents}
             ev(x) == s.events[x[1]][x[2]]
             Real == {x \in Entries : x[2] <= Len(s.events[x[1]])}
  <2>1. /\ s.events \in [Ids -> Seq(Event)] /\ s.receipts \subseteq Sources \X Nat
        /\ MaxEvents \in Nat /\ Ids \cap Sources = {}
    BY <1>1, RecordsAssumption DEF Sound, Snapshots, Event, RecordsAssumption
  <2>2. ASSUME NEW id \in Ids PROVE Len(s.events[id]) \in Nat /\ Len(s.events[id]) <= MaxEvents
    <3>1. s.events[id] \in Seq(Event)
      BY <2>1
    <3> QED BY <1>1, <3>1 DEF Identified
  <2>3. ASSUME NEW x \in Real
        PROVE  x[1] \in Ids /\ x[2] \in At(s, x[1]) /\ x = <<x[1], x[2]>>
    <3>1. PICK id \in Ids, i \in 1 .. MaxEvents : x = <<id, i>>
      OBVIOUS
    <3>2. i <= Len(s.events[id])
      BY <3>1
    <3> QED BY <2>1, <2>2, <3>1, <3>2 DEF At
  <2>4. ASSUME NEW id \in Ids, NEW i \in At(s, id)
        PROVE  <<id, i>> \in Real /\ ev(<<id, i>>) = s.events[id][i]
    <3>1. i \in 1 .. MaxEvents /\ i <= Len(s.events[id])
      BY <2>1, <2>2 DEF At
    <3> QED BY <3>1
  <2> HIDE DEF Entries, Real
  <2>5. ASSUME NEW x \in Real, NEW y \in Real, ev(x).id = ev(y).id PROVE x = y
    BY <1>1, <2>3, <2>5 DEF Identified
  <2>6. ASSUME NEW key \in s.receipts PROVE \E x \in Real : ev(x).id = key
    <3>1. PICK id \in Ids : \E i \in At(s, id) : s.events[id][i].id = key
      BY <1>1 DEF Identified
    <3>2. PICK i \in At(s, id) : s.events[id][i].id = key
      BY <3>1
    <3> QED BY <2>4, <3>2
  <2>7. ASSUME NEW x \in Real, ev(x).id \in Sources \X Nat PROVE ev(x).id \in s.receipts
    <3>1. ev(x).id = <<x[1], x[2]>> \/ ev(x).id \in s.receipts
      BY <1>1, <2>3 DEF Identified
    <3> QED BY <2>1, <2>3, <2>7, <3>1
  <2>8. s.receipts = {ev(x).id : x \in Real} \cap (Sources \X Nat)
    BY <2>1, <2>6, <2>7
  <2> QED BY <2>5, <2>8 DEF Real, Entries, HasItsIds
<1>2. ASSUME RecordsInv, HistoryInv PROVE EventsAreIdentified
  <2>1. \A s \in {data, file} : Sound(s) /\ Identified(s)
    BY <1>2 DEF RecordsInv, HistoryInv
  <2> QED BY <1>1, <2>1 DEF EventsAreIdentified
<1> QED BY <1>2, HistoryInvariant, PTL

(* Where clients choose no ids, Store.Create gives every notification one   *)
(* outbox entry, saved with it.                                             *)
THEOREM OutboxesAreComplete ==
  ASSUME ClientIds = {}
  PROVE  Spec => []OutboxIsComplete
<1>1. ASSUME NEW s, Sound(s), Complete(s)
      PROVE  /\ Range(s.outbox) = {id \in Ids : s.notifications[id] # Nil}
             /\ IsInjective(s.outbox)
  <2>1. s.outbox \in Seq(Ids)
    BY <1>1 DEF Sound, Snapshots
  <2>2. DOMAIN s.outbox = 1 .. Len(s.outbox) /\ \A i \in 1 .. Len(s.outbox) : s.outbox[i] \in Ids
    BY <2>1
  <2>3. IsInjective(s.outbox)
    BY <1>1, <2>2 DEF IsInjective, Complete
  <2>4. Range(s.outbox) = {id \in Ids : s.notifications[id] # Nil}
    BY <1>1, <2>2 DEF Range, Complete
  <2> QED BY <2>3, <2>4
<1>2. RecordsInv /\ HistoryInv => OutboxIsComplete
  BY <1>1 DEF RecordsInv, HistoryInv, OutboxIsComplete
<1> QED BY <1>2, HistoryInvariant, PTL

(* Where clients choose no ids, what is in the file is the memory's own     *)
(* past: a restart loses unsaved changes and nothing else.                  *)
THEOREM RestartsGoBack ==
  ASSUME ClientIds = {}
  PROVE  Spec => []FileIsPast
<1>1. RecordsInv /\ HistoryInv => FileIsPast
  <2> SUFFICES ASSUME RecordsInv, HistoryInv PROVE FileIsPast
    OBVIOUS
  <2>1. Past(file, data) /\ Keeps(file, data)
    BY DEF HistoryInv, RecordsInv
  <2> QED BY <2>1 DEF FileIsPast, Past, Keeps
<1> QED BY <1>1, HistoryInvariant, PTL

(* Where clients choose no ids, the version of a stored notification never  *)
(* falls while the process runs.  (With such ids Store.Create starts a      *)
(* stored notification again from version 1.)                               *)
THEOREM VersionsAreMonotonic ==
  ASSUME ClientIds = {}, "crash" \notin Faults
  PROVE  Spec => VersionsNeverFall
<1> DEFINE NoFall == \A id \in Ids :
                       data.notifications[id] # Nil
                         => /\ data'.notifications[id] # Nil
                            /\ data'.notifications[id].version >= data.notifications[id].version
<1>1. ASSUME RecordsInv, [Next]_vars PROVE NoFall
  <2>1. /\ data.notifications \in [Ids -> Notifications \cup {Nil}]
        /\ Nil \notin Notifications
    BY <1>1, RecordsAssumption DEF RecordsInv, Sound, Snapshots, Notifications, RecordsAssumption
  <2>2. \A id \in Ids : data.notifications[id] # Nil => data.notifications[id].version \in Nat
    BY <2>1 DEF Notifications
  <2>3. ASSUME NEW id \in Ids, NEW n, NEW e, Grown(id, n, e), InOrder(id, n) PROVE NoFall
    <3>1. /\ n \in Notifications /\ data'.notifications = [data.notifications EXCEPT ![id] = n]
          /\ data.notifications[id] # Nil => n.version >= data.notifications[id].version
      BY <2>3 DEF Grown, InOrder
    <3> QED BY <2>1, <2>2, <3>1
  <2>4. ASSUME Widened PROVE NoFall
    <3>1. data'.notifications = data.notifications
      BY <1>1, <2>4 DEF Widened, RecordsInv, Sound, Snapshots
    <3> QED BY <2>2, <3>1
  <2>5. ASSUME data' = data PROVE NoFall
    BY <2>2, <2>5
  <2> QED BY <1>1, <2>3, <2>4, <2>5, Changes
<1>2. RecordsInv /\ [Next]_vars => [NoFall]_vars
  BY <1>1
<1> QED BY <1>2, RecordsInvariant, PTL DEF Spec, VersionsNeverFall
=============================================================================
