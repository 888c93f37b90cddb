# TLA+ models of the multichannel notification platform

TLA+ specifications, TLC configurations and TLAPS proofs for the Go program in
`src/`: a multi-tenant service that accepts notifications over HTTP, stores them
in a JSON file, queues them and hands them to provider adapters, and takes
delivery receipts back.

## 1. The system

### Components, their state and operations

| component | state | operations |
|---|---|---|
| `notification/domain` | the notification record, its status and version | `Validate`, `Normalize`, `Transition` |
| `repository.Store` | notifications, idempotency index, receipt keys, timelines, suppressions, outbox; one mutex; a file replaced on every change | `Create`, `Update` (compare and swap on the version), `RecordReceipt`, `Queued`, `Suppress`, reads |
| `application.Service` | none of its own | `Submit`, `Replay`, `Cancel`, `Pause`, `Recover` |
| `queue.Queue` | bounded heap by priority and age, wake-up channel | `Enqueue`, `Dequeue` |
| `queue.DelayQueue` | heap by due time, wake-up channel | `Add`, `Run` |
| `worker.Dispatcher` | a pool of workers; timers | `loop`, `deliver`, `retry` |
| `rate.Bucket` | tokens | `Allow`, `Wait` |
| `rate.Ledger` | quotas, usage per tenant, reservations | `Configure`, `Reserve`, `Commit`, `Rollback`, `Usage` |
| `receipt.Service` | none | `Ingest` |
| `routing.Router` | per channel a list of circuits | `Add`, `Choose`, `Record`, `Snapshot` |
| `routing.PolicySet`, `provider.Registry` | versioned rules and adapter configurations | put, update, delete, select |
| `provider.HTTP`, `provider.Mock` | none that matters | `Send`, `Health` |
| `template.Service` | definitions with versions | `Create`, `AddVersion`, `Publish`, `Render` |
| `transport/httpapi` | none | the handlers |
| `cmd/notification-api`, `cmd/notification-worker` | the process | start, recover, run, stop |
| `security`, `config`, `observability` | none that another part reads | pure functions, start-up values, counters |

### How they interact

A request goes handler -> `Service.Submit` -> `Store.Create` -> `Queue.Enqueue`.
The queue holds *pointers to private copies* of notifications; the store holds
values.  A worker dequeues a copy, marks it `processing` and saves that with a
version check (the claim), asks `Router.Choose` for an adapter, calls
`Provider.Send` without any lock, tells `Router.Record` the outcome, and saves
`accepted`, or `failed`, or `queued` and a timer that enqueues the same copy
again.  Clients cancel and pause through `Store.Update` and providers report
through `Store.RecordReceipt` while all that goes on.  At start,
`Service.Recover` enqueues what the file shows as `queued`.

### What is hard

Three writers (workers, clients, receipts) meet in the store, and each reads,
computes and writes in separate critical sections.  Copies outlive what they
were copied from.  Providers report on requests whose sender has given up.
Writes to the file can fail after memory has changed; the process can stop
anywhere.  Queues are bounded, and most callers ignore the error of `Enqueue`.
`PROJECT.json` lists these hazards line by line, with the properties that cover
each.

### What makes each part correct

* delivery path: one copy per notification; no more sends than the retry budget;
  a claim is on disk before the provider is called; a canceled notification
  stays out; one notification per idempotency key; versions usable as ETags;
  queued notifications get settled, of those only a full queue strands one, and
  without faults what is processing is with a worker; to a client all that is the
  abstract specification `Promise`;
* store: timelines, outbox and receipts agree with the notifications, in memory
  and in the file; the file is a past state of memory; what was acknowledged is
  in it;
* delay queue: no lost wake-up; what is due is released, and only a full target
  loses an item;
* ledger: books balance; limits hold across days and months; refusals are just;
  an overflow of one tenant's sums does not reach another;
* router: circuits open at the threshold, close again, and outages of one
  adapter do not touch another;
* templates, policies, registry: a version names one content; the current
  version of a template is published and goes away only with an error.

## 2. Modules

| module | models |
|---|---|
| `Notification` | statuses and `Transition` |
| `Delivery` | submission, store and file, queue, dispatcher, receipts, crashes |
| `Promise` | the abstract specification that `Delivery` implements |
| `DeliveryProofs`, `DeliverySafetyProofs`, `PromiseProofs` | theorems about `Delivery` |
| `SharedFile` | `notification-api` and `notification-worker` on one file: two instances of `Delivery` |
| `Records`, `RecordsProofs` | everything the store keeps, memory and file: timelines, outbox, receipts, suppressions; and theorems |
| `Registry`, `Policies`, `Templates` | `provider.Registry`, `routing.PolicySet`, `template.Service` |
| `Catalogs`, `CatalogProofs` | the three together, and theorems |
| `DelayQueue`, `DelayQueueProofs` | `queue.DelayQueue`, and theorems |
| `Ledger`, `LedgerProofs` | `rate.Ledger`, and theorems |
| `Router`, `RouterProofs` | `routing.Router` under the dispatcher's workers, and theorems |
| `MCDelivery`, `MCSharedFile`, `MCRecords`, `MCCatalogs`, `MCLedger`, `MCRouter` | constant values for TLC |

Operators whose comment says *Mutant of ...* are the source with one plausible
mistake each; no specification uses them.  `PROJECT.json` says which property
each of them breaks.

### Delivery

`notifications`, `idempotency` and `receipts` are the store's memory, `disk` the
snapshot in its file.  `ptr` is the heap of private copies with the place of
each: with `Submit` before its `Enqueue`, in the queue, in a timer, or with a
worker that has dequeued (`deliver`), claimed (`choose`) or is calling
(`sending`).  `calls` holds cancel and pause requests between their `Get` and
their `Update`.  `boot` is what `Recover` has still to enqueue; while it is not
empty neither workers nor API run, as in `main`.  `issued` and `canceled` are
history variables.  A call of `Provider.Send` may succeed or fail, whatever the
provider does with the request, and a receipt may come for any stored
notification at any time: `Ingest` does not ask whether the notification was
sent, and the handler checks no signature.

One action is one critical section with the local code around it: `Submit` is
split at the return of `Create`, `transition` between `Get` and `Update`,
`deliver` at the claim, at `Choose` and at `Send`.  What is abstracted, and why
it is safe:

* addresses, bodies, channels, errors, time stamps: no transition depends on them;
* timeline, outbox, suppressions: written along, never read by the delivery path
  (a suppressed target makes `Submit` refuse, which is a step not taken);
  `Records` has them;
* the order of the heap: `Dequeue` may return any item, more than the code does;
* backoff and throttle delays: a timer fires at any later time;
* repeated submissions and receipts change nothing and are stuttering steps;
* the handler's own `Get` before `Cancel` and `Pause` only adds a version check
  that can fail, so it is merged with the `Get` in `transition`;
* a graceful stop makes calls fail and then ends the process: `SendFails` and
  `Crash`;
* requests leave `id` and `attempts` empty, as in `api/openapi`: ids come from
  `newID`, and an id that no store and no file has seen is fresh.  The code does
  not insist on it: the run `reused_id` shows what a client's own id does, and a
  request with a negative `attempts` gets a larger budget;
* keys are opaque, idempotency keys with their tenant and receipt keys (provider,
  external id, sequence) alike.  The code joins the parts with colons, so that
  tenant `a:b` with key `c` meets tenant `a` with key `b:c`.

`persistLocked` may fail (`"disk" \in Faults`): memory keeps the change, the file
does not, the caller sees an error or ignores it as the code does.  A torn or
empty file is not modelled.

### Promise and its refinement

`Promise` knows keys, claims, sends and acknowledged cancellations, and nothing
of queues, workers, versions, timers or files: a key names one notification; a
notification is claimed only while known, not canceled and below the budget; a
send uses up a claim; a restart drops claims and may free a key only if nothing
was sent or canceled under it.  The mapping reads `owner` off the idempotency
index, `claimed` off the copies that are between the save of `processing` and
`Provider.Send`, `sent` off `issued`.  So one send may still follow an
acknowledged cancellation (its worker had claimed before), and no second one.

### SharedFile

`docker-compose.yml` starts both programs on one volume.  `SharedFile` extends
`Delivery` (the api) and instantiates it again with the worker's own memory; the
file, time and the history of sends are shared.  The
worker has no clients and no receipts; its start and restart are `W!Crash`, since
a new process reads the file as one that crashed does.

### Records

`data` is all of `Store.data`, `file` what the file holds, `acked` the history of
answers.  Each action is one critical section with its callers' checks.  Anybody
may call `Update` with a copy that has the stored version; that copy may have
another status, as `Delivery` shows.  An event's id is the notification's and a
position, or the key of a receipt; bodies, metadata and times are left out.
A SHA-256 hash is modelled as the string that is hashed: it has no collisions.
The two ways of putting tenant and address together differ for every address;
that a suppression of `:x` is stored under the hash of `x` is left out.

### Registry, Policies, Templates, Catalogs

Each call is one critical section of the component's lock and one action; a call
that returns an error changes nothing, with one exception: `Publish` of a missing
version has by then unpublished the others, because the copy of the definition
shares its slice of versions.  `read` and `chosen` are what some client holds from
an earlier `Get` or `Select`; one such copy is enough, since any read may replace
it.  Only the template service has handlers in the API; the registry and the
policies are libraries as yet, modelled by their methods.  What `Validate` tests is abstracted to a set of valid inputs, the patterns
of a rule to the set of attribute values they all match.  A rule's `Matches` are
not shared with the caller.  `Catalogs` interleaves the calls on all three.

### DelayQueue, Ledger, Router

`DelayQueue` splits `Run` at `Unlock`, at its two `select` statements and before
`target.Enqueue`.  The second emptiness test of `Run` is dead code and has no
action.  `dropped` records what a full target refuses: the code ignores that
error.  `Ledger` makes each operation one action (one critical section each);
counters are signed integers of `IntWidth` bits whose sums wrap around, as
`int64` does.  `wrapped` is the history of the tenants for whom the checks of
`Reserve` admitted an amount because a sum had wrapped.  The lapsed reservations
of a tenant are released in any order, as the map is iterated; the order matters
only for a counter that has wrapped, and then only which one comes first.  A `Reserve` under an id in use returns that
reservation and changes nothing, even if it has lapsed.  `Router` runs
`Choose`, `Send` and `Record` per worker; `failures` and the time since opening
are counted only up to the values that matter; a call is *shaky* when its
provider was down at some time during it, and only such calls may fail (a
rejected request counts as such a failure, as it does in `Record`).  `Health`
answers at once.

## 3. Model-checking runs

| run | result | states | shows |
|---|---|---|---|
| `delivery` | pass | 1,133,540 | two notifications against every actor and fault: uniqueness, durable claims, final cancellation, stranding, and the refinement of `Promise` |
| `settles` | pass | 573,956 | one notification, two attempts: retry budget, ETags, a holder for whatever is queued or processing, and liveness under receipts, client calls and outages, without crashes, queue large enough |
| `records` | pass | 195,471 | timelines, outbox, receipts and suppressions in memory and file, crashes, failing writes |
| `catalogs` | pass | 414,429 | registry, policies and templates under seven writes |
| `wakeup` | pass | 36,402 | delay queue: safety and liveness |
| `books` | pass | 852,516 | ledger, two tenants, three reservations, amounts up to the largest integer, two months |
| `circuits` | pass | 163,231 | router: safety and liveness, two workers, three adapters on two channels |
| `stale_copy` | violation | | a stale copy moves a paused or delivered notification back to processing |
| `crash` | violation | | after a crash a notification stays in processing for ever |
| `schedule` | violation | | a scheduled notification is never enqueued |
| `shared` | violation | | the worker program sends what the api program sends |
| `reused_id` | violation | | a request with the id of a stored notification replaces it |

The violations are disagreements between the code and what its README, tests or
comments say; `PROJECT.json` quotes the lines.

**Deviations without a run of their own**, seen while modelling:

* a submission refused by a full queue stays stored as queued, and repeating it
  enqueues nothing (`OnlyFullStrands` says that nothing else takes the last copy
  of a notification that is still queued);
* a claim whose save fails (`dispatcher.go:72-74`, `store.go:104-106`) leaves the
  notification processing in memory, with nobody who holds it, until a restart
  finds it queued in the file, or for good if another save has meanwhile written
  all of memory to the file: `OnlyFullStrands` does not speak of it, since it is
  no longer queued, and `ProcessingIsHeld` is about runs without failing writes;
* one whose save failed is answered with success when repeated, though the file
  does not have it (`AcknowledgedIsSaved` is about the first answer);
* a receipt takes a notification from processing straight to delivered, which
  `Transition` does not allow;
* suppressions made through the API are stored under a hash that `Submit` never
  looks for;
* the ledger adds before it compares: once a tenant has a unit reserved, an
  amount next to the largest integer passes all three checks (`quota.go:84-90`).
  The run `books` has such reservations.  The ledger's properties say that a
  tenant who never made one is safe from all that others do, and that refusals
  are never due to a wrapped sum; for the tenant itself no limit holds any more;
* receipts of two notifications under one provider, external id and sequence are
  taken for repetitions, as the documentation of the key says;
* the batch branch of the notifications handler cannot be reached.

**Bounds.**  `delivery` has every actor and fault with one attempt and retries
through outages: two copies compete for a queue with room for one, the workers
and recovery; one notification may be scheduled for later, and submitted before
or after that time.  `settles` has two attempts, an expiry and room for two
outages in a row, so that a retry, a stale copy and the end of the budget all
occur.  Its queue never fills: full queues are `delivery`'s.  Versions are bounded only where outages, which use
up no attempt, would raise them without end.  Notifications interact in nothing but the queue, the token bucket, the worker
pool and the file, so a third adds no new kind of step.  `records` has timelines
of three events: submission, a move or a receipt, and another after a failed
write or a restart.  `catalogs` has seven writes, enough to register or put,
change, delete and put again, or to create, add, publish and fail.  The ledger has days of
one instant, months of two and a limit of each kind that binds; `IntWidth = 8`
stands for 64, since the code only compares and adds, and of the amounts 1 and 127
the second is the largest integer, which wraps every sum with anything in it.  The router's threshold is 2 instead of 3: one
failure below it and one at it.  Symmetry is used only in runs without liveness
properties.

**Fairness.**  `Delivery`: workers, timers and `Recover` are goroutines of a
running process and get scheduled; `Provider.Send` returns because its context
has a deadline; the bucket refills and time passes.  Nothing is assumed of
clients, providers and receipts.  Outages of the router end: `MaxVersion` bounds
them, because the code counts no attempt for a failing `Choose` and would retry
for ever.  `DelayQueue`: `Run` is scheduled and
time passes.  `Router`: sends return, time passes, and *every channel keeps
having notifications to send* (strong fairness of `Choose`), because circuits
are only probed by traffic.

**Deadlock** is checked for the router.  The other systems may stop: all work
done and the bounded clock at its end.

## 4. Proofs

All theorems hold for every value of the constants that satisfies the named
assumptions (`ConfigAssumption`, `EnvironmentAssumption`, `NilAssumption`;
`LimitAssumption`; `RouterAssumption`, `DistinctNames`; `RegistryAssumption`,
`PolicyAssumption`, `TemplateAssumption`; `RecordsAssumption`, `HashAssumption`;
`ArgumentAssumption`, `WidthAssumption`, `CalendarAssumption`,
`QuotaAssumption`).  The ledger's say that amounts are positive and quotas valid,
as `Reserve` and `Configure` check, that both are `IntWidth`-bit integers, as
their Go type says, and that months consist of whole days.  Nothing is assumed
about the size of sums: where they wrap around, the properties say so.

* `TypeCorrect`: `Spec => []TypeOK` for `Delivery`.
* `DeliveryInvariant`: `Spec => []DeliveryInv`, and from it `CopiesAreUnique`,
  `BudgetHolds`, `ClaimsAreDurable`, `CancellationIsFinal`, `KeysAreUnique`.
* `NothingIsStranded`: `Spec => OnlyFullStrands`, whatever faults there are.
* `QueuedNotificationsAreHeld`: `Spec /\ []~Full => []QueuedIsHeld` if writes do
  not fail; crashes, outages, receipts and client calls are allowed.
* `ProcessingNotificationsAreHeld`: `Spec => []ProcessingIsHeld` if neither writes
  fail nor the process crashes.  The run `crash` shows why the crash must be
  excluded.
* `AloneFollowsStateMachine`: `Spec => ProcessingOnlyFromQueued` if there are no
  client calls, no receipts and no failing writes.  This is the property that
  `stale_copy` violates: crashes, retries and outages alone do not break it, a
  second writer does.
* `PromiseIsKept`: `Spec => KeepsPromise`, that is `Delivery` implements
  `Promise`.
* `ConfigVersionsAreSafe`, `RuleVersionsAreSafe`: `CatalogSpec` keeps
  `ConfigVersionNamesContent` and `RuleVersionNamesContent`, for any number of
  calls.  `CatalogTypeCorrect`: `CatalogTypeOK`.
* `CurrentVersionsArePublished`, `VersionsNeverChange`, `WithdrawalsAreReported`:
  `CatalogSpec` keeps `CurrentIsPublished`, `VersionsAreImmutable` and
  `OnlyFailureWithdraws`, for templates with any number of versions.
* `VersionsAreETags`: if writes do not fail, `Spec => ETagIdentifiesContent`.
* `DelayQueueTypeCorrect`, `WakeupsAreKept`, `ItemsAreHandedOn`: `TypeOK`,
  `NoOversleep` and `OnlyFullDrops` for `DelayQueue`.
* `RouterInvariant`, `RouterTypeCorrect`, `CircuitsOpenAtThreshold`,
  `OutagesAreContained`.
* `RecordsTypeCorrect`, `TimelinesTellStatus`, `AnswersAreDurable`,
  `ReceiptsCountOnce`: `TypeOK`, `StatusIsLastEvent`, `AcknowledgedIsSaved` and
  `EventsAreIdentified` for `Records`, also when clients reuse ids.
* `OutboxesAreComplete`, `RestartsGoBack`: `OutboxIsComplete` and `FileIsPast`, if
  `ClientIds = {}`: a reused id enters the outbox twice and starts its version
  again.
* `VersionsAreMonotonic`: `VersionsNeverFall` if `ClientIds = {}` and the process
  does not restart.  This is the property that `reused_id` violates: the theorem
  shows that reused ids are the only reason in a running process.  A restart after
  a failed write goes back to the file's version.
* `BooksBalance`, `BurstIsLimited`, `PeriodsAreLimited`, `RefusalsAreJust`,
  `LedgerTypeCorrect`: `Balanced`, `WithinBurst`, `WithinPeriods`,
  `RefusalIsJust` and `TypeOK` for `Ledger`, for any number of tenants,
  reservations, days and months and any `int64` amounts.  They are about the
  tenants outside `wrapped`: those none of whose reservations was admitted by a
  sum that wrapped around (`TypeOK` and the committed half of `Balanced` have a
  part for all of them).

**The invariant of `Delivery`.**  None of the five properties is inductive.
`CopyInv` says what a copy may be at each place: of a saved notification, never
ahead of the store, with `attempts` equal to the sends so far, `queued` while
waiting and `processing` while working, in which case neither memory nor file
shows `queued`.  `QueuedInv` says the same of what a restart would enqueue: this
is why a crash cannot reset the retry budget.  `CancelInv` is the argument for
cancellation: the code's retry adds one to the version of a stale copy whose
save was refused, so it is not enough that the copy is behind the store; a
working copy of a canceled notification is behind by at least two.  It holds
because `canceled` is reached only from `queued` or `paused`, never straight
from `processing`.  `CallInv` says that a pending cancel or pause that can still
succeed holds the transition of what is stored.  `BootInv` separates recovery
from the rest, `DiskInv` relates memory and file.  The proof has one lemma per
action; actions that write to the store share the lemmas about `Update` and
`persistLocked`, with and without a failing write.

**Nothing is stranded.**  `OnlyFullStrands` needs one more invariant,
`CurrentInv`: a copy that waits for its delivery has the version of the stored
record as long as that is queued.  So when the `Update` of an expiry or a claim is
refused, the stored record is no longer queued and the copy may go.  It holds
because nothing but a `retry` stores `queued`, and a retry starts from a record
that is not.

**The safety half of settling.**  `Settles` is liveness and stays with TLC, but its
two safety parts are proved.  `QueuedIsHeld` follows from the lemmas of
`OnlyFullStrands`: each action not only keeps what was held but, if the queue has
room, gives a copy to whatever it makes queued (`QueuesHeld`), and a crash leaves
in `boot` everything that the file, which is then also the memory, shows as queued.  `ProcessingIsHeld` goes action by action: the
claim stores the version of its own copy, a client call or a receipt that changes
the record leaves it in a status other than processing, and the
worker's last step is, by the invariant, an `Update` at the stored version, which
succeeds.  For `AloneFollowsStateMachine` the invariant `AloneInv` says that,
without a second writer, every copy has the stored version and one that waits for its
claim is of a queued record; with calls or receipts this is false, as the stale copy shows.

**The refinement.**  To `DeliveryInv` it adds `IndexInv`: every entry of the
idempotency index, in memory and in the file, names a notification stored there
under that key, and the file's entries are memory's.  With it, each
action is shown to be one step of `Promise` or a stutter: `Create` accepts, `Claim`
claims (the copy is below the budget by `CopyInv`, not canceled by `CancelInv`, the
only one by `OneCopy`), `Send` sends, a failing `Choose` releases, the `Update` of a
cancel cancels, and a crash is a `Restart` because the file holds everything that
was sent (`DiskInv`) or canceled (`CanceledStaysOut`).

**The invariant of `Router`.**  A circuit's counter equals the history of its
provider and decides whether it is closed; only calls to providers that have
failed may fail.  Distinct names are needed: `Record` looks adapters up by name.

**The invariant of `Records`.**  `Sound` holds of memory and of the file, each by
itself, so that a crash, which makes the file the memory, keeps it.  `Keeps` says
that memory still has every key, notification and suppression of the file: the
next successful write then cannot drop one that was answered.  Updates, receipts
and creations share two lemmas about storing a notification together with an
event of its status.  `HistoryInv` adds the rest: `Identified` (an event's id is
its place, or a receipt's key that is recorded, and no two are the same),
`Complete` (the outbox names each notification once) and `Past` (the file is a
prefix of memory).  Each write appends at the end of one timeline, so the places
in use stay in use, and a receipt is recorded only if its key is new.

**The invariant of `Templates`.**  `TemplateInv` says that the versions of a
template created without any are numbered by their positions.  Then the loop of
`Get` that looks for a number finds the one at that position, and the number that
the loop over the flags returns is that of a published version.

**The invariant of `Ledger`.**  `LedgerInv` relates the counters of a tenant that
is not in `wrapped` to its reservations (`Books`), to what was committed per day
and month (`Follows`), and to the highest limits it had (`Room`, `Ceiling`).
`Room` is the core: what is reserved can still be committed, in whatever period
that will be, without passing a limit.  It holds because a change of the day or
month only lowers a counter, and a commit moves an amount from `reserved` to the
others.  It is also why no sum but that of `Reserve`'s checks can wrap: every
other one is bounded by a limit, which is an `int64`.  `Usage.Committed` never
starts again and may wrap after many commits; it is proved to be the sum as an
`int64` (`Int64Adds`).  Of a tenant in `wrapped` only the types of its counters
and `Usage.Committed` remain, and no action of one tenant touches the counters of
another beyond releasing what has lapsed.

**Sums and induction.**  The ledger's counters are sums over sets of reservations,
and `Get` searches lists of any length.  The library's induction theorems are out
of reach of the provers (they take a predicate as a parameter), but the same
arguments go through with least counterexamples: the well-foundedness of strict
inclusion on the subsets of a finite set, or of `<` on the naturals, gives a
minimal element of the set of counterexamples (`MinimalSubset`, `HasLeast`).  From
that follow the laws of `Sum` (adding an element, changing a term, splitting a
set, monotonicity) on which the ledger's proof rests.

**Only model-checked.**  `Settles`, `DueIsReleased`, `ComesBack`: liveness under
fairness is beyond the prover.  The five violations: each is one behaviour of a
small instance.

## 5. Not modelled

* Rendering, redaction and validation of texts, signing and verification:
  pure functions without state; no handler calls `Verify`.
* Configuration (read once, the CONSTANTS of the models), metrics and logs
  (nothing reads them), the web console.
* Torn or empty files: `Rename` replaces the file in one step unless the machine
  itself fails.
* A `Health` that hangs under the router's lock: only the HTTP adapter could, and
  neither program constructs one.
* The client's ETag: no handler reads one from a request.
* The order of the priority queue: `Dequeue` may return any item.

## 6. What could follow

1. *`SharedFile`*: which of the delivery path's properties survive two programs on
   one file (what is per process, such as one copy per notification), as theorems.
   At present the module only serves the run `shared`.
2. *Router*: that an open circuit's provider becomes a candidate after the
   cooldown, the safety half of `ComesBack`; and `Health` as a step of its own
   under the lock, once an HTTP adapter is in use.
3. *Stale copies*: the versions that a stale copy can still meet, which would bound
   what `stale_copy` shows beyond cancellations.
