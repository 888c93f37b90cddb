------------------------------ MODULE Records -------------------------------
(***************************************************************************)
(* What repository.Store keeps beside the notifications themselves: the    *)
(* timelines, the outbox, the receipts seen and the suppressions, as they  *)
(* are in memory and in the file, with failing writes and restarts.        *)
(* Delivery says who calls the store and when; here anybody may, so a step *)
(* is one critical section of Store.mu with the checks its callers make.   *)
(***************************************************************************)
EXTENDS Notification, SequencesExt

CONSTANTS
  Ids, Keys, Addresses, Nil,
  ClientIds,   \* ids clients choose: Submit makes one up only if there is none
  Moves,       \* transitions callers of Update make, <<from, to>>
  Sources,     \* provider and external id of a receipt
  Reports,     \* the receipts that come in: source, sequence, status
  Faults,      \* "crash", "disk"
  MaxEvents    \* bound: length of a timeline

ASSUME RecordsAssumption ==
  /\ ClientIds \subseteq Ids
  /\ Moves \subseteq Status \X Status
  /\ Reports \subseteq [source : Sources, sequence : Nat, status : Status]
  /\ Ids \cap Sources = {}
  /\ Faults \subseteq {"crash", "disk"}
  /\ MaxEvents \in Nat
  /\ Nil \notin Ids /\ Nil \notin [status : Status, version : Nat]

VARIABLES
  data,    \* Store.data
  file,    \* the snapshot in the file
  acked    \* history: new ids and address hashes whose saving was answered

vars == <<data, file, acked>>

Open ==
  [notifications |-> [id \in Ids |-> Nil], idempotency |-> [k \in Keys |-> Nil],
   events |-> [id \in Ids |-> <<>>], receipts |-> {}, suppressions |-> {},
   outbox |-> <<>>]

Init == data = Open /\ file = Open /\ acked = {}

(* persistLocked, by a caller that answers "what" when it returns no error. *)
Persist(what) ==
  \/ file' = data' /\ acked' = acked \cup what
  \/ "disk" \in Faults /\ UNCHANGED <<file, acked>>

(* Mutant of addEvent: the new event takes the place of the old ones. *)
addEventOverLast(events, id, status) ==
  [events EXCEPT ![id] = <<[id |-> <<id, Len(@) + 1>>, status |-> status]>>]

(* addEventLocked: an event's id is the notification's and its position.    *)
addEvent(events, id, status) ==
  [events EXCEPT ![id] = Append(@, [id |-> <<id, Len(@) + 1>>, status |-> status])]

(* Two hashes of an address: the one Submit looks for (tenant, colon,       *)
(* address) and the one the suppressions handler stores (tenant, address).  *)
(* They differ for the same address.  (A suppression of an address that     *)
(* itself starts with a colon, which is none of Addresses, hashes like the  *)
(* address without it; no property depends on that.)                        *)
HashAddress(address) == <<"tenant:address", address>>
hash(address)        == <<"tenantaddress", address>>

ASSUME HashAssumption == \A a \in Addresses : hash(a) \notin Ids

(* Mutant of Created: no outbox entry. *)
CreatedUnarchived(id, key) ==
  [data EXCEPT !.notifications[id] = [status |-> "queued", version |-> 1],
               !.idempotency[key] = id,
               !.events = addEvent(@, id, "queued")]

Created(id, key) ==
  [data EXCEPT !.notifications[id] = [status |-> "queued", version |-> 1],
               !.idempotency[key] = id,
               !.events = addEvent(@, id, "queued"),
               !.outbox = Append(@, id)]

(* The notifications handler, Submit and Store.Create for a key not seen    *)
(* before (one seen before changes nothing).  The id is taken as it comes:  *)
(* a client's may be that of a notification already stored, one from newID  *)
(* never is.                                                                *)
Create(id, key, address) ==
  /\ id \in ClientIds \/ data.notifications[id] = Nil
  /\ HashAddress(address) \notin data.suppressions
  /\ data.idempotency[key] = Nil
  /\ Len(data.events[id]) < MaxEvents
  /\ data' = Created(id, key)
  /\ Persist({id})

(* Store.Update by a caller whose copy has the stored version, and nearly   *)
(* always the stored status (Delivery shows when it has not).  A move to    *)
(* the status the copy has leaves the version alone and adds an event.      *)
Update(id, from, next) ==
  /\ data.notifications[id] # Nil
  /\ Len(data.events[id]) < MaxEvents
  /\ LET copy == [data.notifications[id] EXCEPT !.status = from]
     IN /\ CanTransition(copy, next)
        /\ data' = [data EXCEPT !.notifications[id] = Transition(copy, next),
                                !.events = addEvent(@, id, next)]
  /\ Persist({})

(* Mutant of Received: the notification is left as it is. *)
ReceivedAside(id, key, status) ==
  [data EXCEPT !.receipts = @ \cup {key},
               !.events[id] = Append(@, [id |-> key, status |-> status])]

(* The store with one more receipt: the key that tells receipts apart, and  *)
(* is the id of the event, does not hold the notification's id.             *)
Received(id, key, status) ==
  [data EXCEPT !.receipts = @ \cup {key},
               !.events[id] = Append(@, [id |-> key, status |-> status]),
               !.notifications[id] = [status |-> status, version |-> @.version + 1]]

(* Mutants of RecordReceipt: any status passes; the key is not looked up. *)
RecordReceiptAnyStatus(id, r) ==
  /\ r.sequence > 0
  /\ data.notifications[id] # Nil
  /\ <<r.source, r.sequence>> \notin data.receipts
  /\ Len(data.events[id]) < MaxEvents
  /\ data' = Received(id, <<r.source, r.sequence>>, r.status)
  /\ Persist({})

RecordReceiptAgain(id, r) ==
  /\ r.sequence > 0 /\ r.status \in ReceiptStatus
  /\ data.notifications[id] # Nil
  /\ Len(data.events[id]) < MaxEvents
  /\ data' = Received(id, <<r.source, r.sequence>>, r.status)
  /\ Persist({})

(* receipt.Service.Ingest and Store.RecordReceipt.  The error of            *)
(* persistLocked is ignored.                                                *)
RecordReceipt(id, r) ==
  /\ r.sequence > 0 /\ r.status \in ReceiptStatus
  /\ data.notifications[id] # Nil
  /\ <<r.source, r.sequence>> \notin data.receipts
  /\ Len(data.events[id]) < MaxEvents
  /\ data' = Received(id, <<r.source, r.sequence>>, r.status)
  /\ Persist({})

(* Mutant of Suppress: an error of persistLocked is ignored. *)
SuppressUnsaved(address) ==
  /\ data' = [data EXCEPT !.suppressions = @ \cup {hash(address)}]
  /\ file' = data' \/ ("disk" \in Faults /\ UNCHANGED file)
  /\ acked' = acked \cup {hash(address)}

(* The suppressions handler and Store.Suppress. *)
Suppress(address) ==
  /\ data' = [data EXCEPT !.suppressions = @ \cup {hash(address)}]
  /\ Persist({hash(address)})

(* The process dies and opens its file again. *)
Crash == "crash" \in Faults /\ data' = file /\ UNCHANGED <<file, acked>>

Next ==
  \/ \E id \in Ids :
       \/ \E k \in Keys, a \in Addresses : Create(id, k, a)
       \/ \E m \in Moves : Update(id, m[1], m[2])
       \/ \E r \in Reports : RecordReceipt(id, r)
  \/ \E a \in Addresses : Suppress(a)
  \/ Crash

Spec == Init /\ [][Next]_vars

-----------------------------------------------------------------------------
(* Properties *)

Snapshots ==
  [notifications : [Ids -> [status : Status, version : Nat] \cup {Nil}],
   idempotency : [Keys -> Ids \cup {Nil}],
   events : [Ids -> Seq([id : (Ids \cup Sources) \X Nat, status : Status])],
   receipts : SUBSET (Sources \X Nat),
   suppressions : SUBSET {hash(a) : a \in Addresses},
   outbox : Seq(Ids)]

(* Memory and file have the shape of a snapshot, and what a timeline says   *)
(* came in as a receipt has a status receipts may have.                     *)
TypeOK ==
  /\ data \in Snapshots
  /\ file \in Snapshots
  /\ acked \in SUBSET (Ids \cup {hash(a) : a \in Addresses})
  /\ \A id \in Ids : \A e \in Range(data.events[id]) :
       e.id[1] \in Sources => e.status \in ReceiptStatus

(* The timeline tells where a notification stands: its last event has the   *)
(* stored status, in memory and in what a restart reads, whether a client,  *)
(* a worker or a provider moved it there and whether a write failed.        *)
StatusIsLastEvent ==
  \A s \in {data, file} : \A id \in Ids :
    /\ s.events[id] = <<>> <=> s.notifications[id] = Nil
    /\ s.events[id] # <<>> => Last(s.events[id]).status = s.notifications[id].status

(* The ids of the events of a snapshot: no two share one, and the receipts  *)
(* seen are the ids of those that came from a provider.                     *)
HasItsIds(s) ==
  LET Entries == {<<id, i>> : id \in Ids, i \in 1 .. MaxEvents}
      Event(x) == s.events[x[1]][x[2]]
      Real == {x \in Entries : x[2] <= Len(s.events[x[1]])}
  IN /\ \A x, y \in Real : Event(x).id = Event(y).id => x = y
     /\ s.receipts = {Event(x).id : x \in Real} \cap (Sources \X Nat)

(* README, "Delivery sequence": deduplicate and append.  An event id occurs *)
(* once among all timelines and the receipts seen are exactly those with an *)
(* event, so that a receipt repeated after a failed write or a restart is   *)
(* never counted twice and never refused without having been counted.       *)
EventsAreIdentified == \A s \in {data, file} : HasItsIds(s)

(* README, "Delivery sequence": notification and outbox are one transaction.*)
(* The outbox names every notification once, in memory and in the file.     *)
OutboxIsComplete ==
  \A s \in {data, file} :
    /\ Range(s.outbox) = {id \in Ids : s.notifications[id] # Nil}
    /\ IsInjective(s.outbox)

(* A restart goes back in time and never sideways: the file's timelines and *)
(* outbox are beginnings of those in memory, its keys and versions none     *)
(* that memory has given another meaning.  So an unsaved change is the only *)
(* thing a crash can cost, and the timelines are append-only.               *)
FileIsPast ==
  /\ \A id \in Ids : IsPrefix(file.events[id], data.events[id])
  /\ IsPrefix(file.outbox, data.outbox)
  /\ file.receipts \subseteq data.receipts
  /\ file.suppressions \subseteq data.suppressions
  /\ \A k \in Keys : file.idempotency[k] \in {Nil, data.idempotency[k]}
  /\ \A id \in Ids : file.notifications[id] # Nil
       => file.notifications[id].version <= data.notifications[id].version

(* A submission answered as created and a suppression answered with success *)
(* are in the file, whatever failed or crashed before and after: the caller *)
(* need not repeat them.  (The answer to a repeated submission says less:   *)
(* it is given for what is in memory, saved or not.)                        *)
AcknowledgedIsSaved ==
  \A x \in acked :
    IF x \in Ids THEN /\ file.notifications[x] # Nil
                      /\ \E k \in Keys : file.idempotency[k] = x
                 ELSE x \in file.suppressions

(* README: "a monotonic version used as an ETag, and an append-only         *)
(* timeline".                                                               *)
VersionsNeverFall ==
  [][\A id \in Ids :
       data.notifications[id] # Nil
         => /\ data'.notifications[id] # Nil
            /\ data'.notifications[id].version >= data.notifications[id].version]_vars
=============================================================================
