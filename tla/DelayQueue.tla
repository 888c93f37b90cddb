----------------------------- MODULE DelayQueue -----------------------------
(***************************************************************************)
(* queue.DelayQueue: Add puts an item in a heap by due time, one goroutine  *)
(* in Run moves the items that are due to a bounded queue.Queue.  Run       *)
(* sleeps without the lock, on a timer for the earliest item it saw, and    *)
(* Add wakes it through a channel of capacity one.                          *)
(***************************************************************************)
EXTENDS Naturals, FiniteSets

CONSTANTS
  Items,     \* notifications given to Add, each at most once
  Nil,       \* no item
  Limit,     \* NewDelayQueue(limit)
  Capacity,  \* capacity of the target queue.Queue
  MaxTime    \* bound: the last instant

ASSUME LimitAssumption == Limit \in Nat /\ Capacity \in Nat \ {0} /\ MaxTime \in Nat
ASSUME NilAssumption == Nil \notin Items

VARIABLES
  due,     \* the heap: due time of every item in it, as a set of pairs
  notify,  \* DelayQueue.notify holds its one token
  pc,      \* where Run is: "top", "idle", "sleep", "push" or "returned"
  until,   \* when Run's timer fires
  hand,    \* the item popped and not yet given to the target
  target,  \* the target queue
  gone,    \* items taken from the target queue by a worker
  dropped, \* items the target queue refused
  done,    \* ctx is canceled
  now

vars == <<due, notify, pc, until, hand, target, gone, dropped, done, now>>

Init ==
  /\ due = {}
  /\ notify = FALSE
  /\ pc = "top"
  /\ until = 0
  /\ hand = Nil
  /\ target = {} /\ gone = {} /\ dropped = {}
  /\ done = FALSE
  /\ now = 0

New(i) ==
  /\ \A e \in due : e[1] # i
  /\ i # hand
  /\ i \notin target \cup gone \cup dropped

(* Mutant of Add: Run is not woken. *)
AddQuietly(i, t) ==
  /\ New(i)
  /\ Cardinality(due) < Limit
  /\ due' = due \cup {<<i, t>>}
  /\ UNCHANGED <<notify, pc, until, hand, target, gone, dropped, done, now>>

(* Add that returns true; one that finds the heap at its limit changes      *)
(* nothing.  The send to notify never blocks.                               *)
Add(i, t) ==
  /\ New(i)
  /\ Cardinality(due) < Limit
  /\ due' = due \cup {<<i, t>>}
  /\ notify' = TRUE
  /\ UNCHANGED <<pc, until, hand, target, gone, dropped, done, now>>

(* heap[0]: an entry with the least due time. *)
Earliest(e) == e \in due /\ \A f \in due : e[2] <= f[2]

(* Mutant of RunIdle: Run returns when the heap is empty. *)
RunIdleReturns ==
  /\ pc = "top"
  /\ due = {}
  /\ pc' = "returned"
  /\ UNCHANGED <<due, notify, until, hand, target, gone, dropped, done, now>>

(* Run, from Lock to Unlock: the heap is empty. *)
RunIdle ==
  /\ pc = "top"
  /\ due = {}
  /\ pc' = "idle"
  /\ UNCHANGED <<due, notify, until, hand, target, gone, dropped, done, now>>

(* Mutant of RunSleep: the timer is set an instant late. *)
RunSleepLate(e) ==
  /\ pc = "top"
  /\ Earliest(e)
  /\ e[2] > now
  /\ pc' = "sleep"
  /\ until' = e[2] + 1
  /\ UNCHANGED <<due, notify, hand, target, gone, dropped, done, now>>

(* Run, from Lock to Unlock: nothing is due yet. *)
RunSleep(e) ==
  /\ pc = "top"
  /\ Earliest(e)
  /\ e[2] > now
  /\ pc' = "sleep"
  /\ until' = e[2]
  /\ UNCHANGED <<due, notify, hand, target, gone, dropped, done, now>>

(* Run, from Lock to Unlock: an item is due and leaves the heap. *)
RunPop(e) ==
  /\ pc = "top"
  /\ Earliest(e)
  /\ e[2] <= now
  /\ due' = due \ {e}
  /\ pc' = "push"
  /\ hand' = e[1]
  /\ UNCHANGED <<notify, until, target, gone, dropped, done, now>>

(* Queue.Enqueue refuses the item. *)
TargetFull == Cardinality(target) >= Capacity

(* Mutant of RunPush: Run looks at the context before it hands the item on. *)
RunPushCanceled ==
  /\ pc = "push"
  /\ pc' = IF done THEN "returned" ELSE "top"
  /\ hand' = Nil
  /\ target' = IF done \/ TargetFull THEN target ELSE target \cup {hand}
  /\ UNCHANGED <<due, notify, until, gone, dropped, done, now>>

(* The Enqueue after the Unlock.  Its error is ignored. *)
RunPush ==
  /\ pc = "push"
  /\ pc' = "top"
  /\ hand' = Nil
  /\ \/ /\ ~TargetFull
        /\ target' = target \cup {hand}
        /\ UNCHANGED dropped
     \/ /\ TargetFull
        /\ dropped' = dropped \cup {hand}
        /\ UNCHANGED target
  /\ UNCHANGED <<due, notify, until, gone, done, now>>

(* The select statements: notify, the timer, or ctx.Done. *)
RunNotified ==
  /\ pc \in {"idle", "sleep"}
  /\ notify
  /\ notify' = FALSE
  /\ pc' = "top"
  /\ UNCHANGED <<due, until, hand, target, gone, dropped, done, now>>

RunTimer ==
  /\ pc = "sleep"
  /\ now >= until
  /\ pc' = "top"
  /\ UNCHANGED <<due, notify, until, hand, target, gone, dropped, done, now>>

RunReturn ==
  /\ pc \in {"idle", "sleep"}
  /\ done
  /\ pc' = "returned"
  /\ UNCHANGED <<due, notify, until, hand, target, gone, dropped, done, now>>

(* A worker dequeues from the target. *)
Take(i) ==
  /\ i \in target
  /\ target' = target \ {i}
  /\ gone' = gone \cup {i}
  /\ UNCHANGED <<due, notify, pc, until, hand, dropped, done, now>>

Shutdown ==
  /\ ~done
  /\ done' = TRUE
  /\ UNCHANGED <<due, notify, pc, until, hand, target, gone, dropped, now>>

Tick ==
  /\ now < MaxTime
  /\ now' = now + 1
  /\ UNCHANGED <<due, notify, pc, until, hand, target, gone, dropped, done>>

Run ==
  \/ RunIdle \/ RunPush \/ RunNotified \/ RunTimer \/ RunReturn
  \/ \E e \in due : RunSleep(e) \/ RunPop(e)

Next ==
  \/ \E i \in Items, t \in 0 .. MaxTime : Add(i, t)
  \/ Run
  \/ \E i \in Items : Take(i)
  \/ Shutdown
  \/ Tick

Spec == Init /\ [][Next]_vars

(* The goroutine runs and time passes; nobody has to call Add, dequeue or   *)
(* cancel.                                                                  *)
FairSpec == Spec /\ WF_vars(Run) /\ WF_vars(Tick)

-----------------------------------------------------------------------------
(* Properties *)

TypeOK ==
  /\ due \in SUBSET (Items \X (0 .. MaxTime))
  /\ notify \in BOOLEAN
  /\ pc \in {"top", "idle", "sleep", "push", "returned"}
  /\ until \in 0 .. MaxTime
  /\ hand \in Items \cup {Nil}
  /\ hand # Nil <=> pc = "push"
  /\ target \in SUBSET Items
  /\ gone \in SUBSET Items
  /\ dropped \in SUBSET Items
  /\ done \in BOOLEAN
  /\ now \in 0 .. MaxTime

(* No lost wake-up: when Run sleeps and no token waits in notify, no item   *)
(* is due before its timer; when it waits without a timer, there is none.   *)
NoOversleep ==
  /\ pc = "sleep" /\ ~notify => \A e \in due : until <= e[2]
  /\ pc = "idle" /\ ~notify => due = {}

Held(i) == (\E e \in due : e[1] = i) \/ i = hand

(* Every item in the heap or in Run's hand stays there or is in the target. *)
HandsOn == \A i \in Items : Held(i) => Held(i)' \/ i \in target'

(* Nothing but a full target loses an item Add took: popped without the     *)
(* lock of the target, it is in Run's hand until it is in the target,       *)
(* whoever adds, dequeues or cancels the context in between.  (The Enqueue  *)
(* of Run ignores its error: at a full target the item is gone.)            *)
OnlyFullDrops == [][~TargetFull => HandsOn]_vars

(* Unless the context is canceled, every item Add took leaves the heap and  *)
(* Run's hand once it is due, whatever was added before and after it.       *)
DueIsReleased == \A i \in Items : Held(i) ~> ~Held(i) \/ done
=============================================================================
