-------------------------- MODULE DelayQueueProofs --------------------------
(* No wake-up and no item of DelayQueue.Run is lost, for any items, limits  *)
(* and times.                                                               *)
EXTENDS DelayQueue, TLAPS

(* Every step keeps the types. *)
LEMMA TypeStep == TypeOK /\ [Next]_vars => TypeOK'
<1> SUFFICES ASSUME TypeOK, [Next]_vars
             PROVE  TypeOK'
  OBVIOUS
<1> USE LimitAssumption, NilAssumption
<1>1. CASE UNCHANGED vars
  BY <1>1 DEF vars, TypeOK
<1>2. ASSUME NEW i \in Items, NEW t \in 0 .. MaxTime, Add(i, t)
      PROVE  TypeOK'
  BY <1>2 DEF Add, TypeOK
<1>3. CASE RunIdle \/ RunNotified \/ RunTimer \/ RunReturn
  BY <1>3 DEF RunIdle, RunNotified, RunTimer, RunReturn, TypeOK
<1>4. CASE RunPush
  BY <1>4 DEF RunPush, TypeOK
<1>5. ASSUME NEW e \in due, RunSleep(e) \/ RunPop(e)
      PROVE  TypeOK'
  <2>1. e[1] \in Items /\ e[2] \in 0 .. MaxTime
    BY DEF TypeOK
  <2> QED BY <1>5, <2>1 DEF RunSleep, RunPop, TypeOK
<1>6. ASSUME NEW i \in Items, Take(i)
      PROVE  TypeOK'
  BY <1>6 DEF Take, TypeOK
<1>7. CASE Shutdown
  BY <1>7 DEF Shutdown, TypeOK
<1>8. CASE Tick
  BY <1>8 DEF Tick, TypeOK
<1> QED BY <1>1, <1>2, <1>3, <1>4, <1>5, <1>6, <1>7, <1>8 DEF Next, Run

(* An Add leaves a token; only Run takes it, and looks at the heap again.   *)
LEMMA OversleepStep == TypeOK /\ NoOversleep /\ [Next]_vars => NoOversleep'
<1> SUFFICES ASSUME TypeOK, NoOversleep, [Next]_vars
             PROVE  NoOversleep'
  OBVIOUS
<1>1. CASE UNCHANGED vars
  BY <1>1 DEF vars, NoOversleep
<1>2. ASSUME NEW i \in Items, NEW t \in 0 .. MaxTime, Add(i, t)
      PROVE  NoOversleep'
  BY <1>2 DEF Add, NoOversleep
<1>3. CASE RunIdle
  BY <1>3 DEF RunIdle, NoOversleep
<1>4. CASE RunPush \/ RunNotified \/ RunTimer \/ RunReturn
  BY <1>4 DEF RunPush, RunNotified, RunTimer, RunReturn, NoOversleep
<1>5. ASSUME NEW e \in due, RunSleep(e)
      PROVE  NoOversleep'
  BY <1>5 DEF RunSleep, Earliest, NoOversleep
<1>6. ASSUME NEW e \in due, RunPop(e)
      PROVE  NoOversleep'
  BY <1>6 DEF RunPop, NoOversleep
<1>7. CASE (\E i \in Items : Take(i)) \/ Shutdown \/ Tick
  BY <1>7 DEF Take, Shutdown, Tick, NoOversleep
<1> QED BY <1>1, <1>2, <1>3, <1>4, <1>5, <1>6, <1>7 DEF Next, Run

(* The queue starts empty, its goroutine about to look at the heap. *)
LEMMA InitFacts == Init => TypeOK /\ NoOversleep
<1> SUFFICES ASSUME Init PROVE TypeOK /\ NoOversleep
  OBVIOUS
<1>1. notify \in BOOLEAN /\ done \in BOOLEAN
  BY DEF Init
<1>2. hand # Nil <=> pc = "push"
  BY DEF Init
<1>3. until \in 0 .. MaxTime /\ now \in 0 .. MaxTime
  BY LimitAssumption DEF Init
<1> QED BY <1>1, <1>2, <1>3 DEF Init, TypeOK, NoOversleep

(* Heap, hand, target and timer keep their shape; Run has an item in its    *)
(* hand exactly while it is about to hand one on.                           *)
THEOREM DelayQueueTypeCorrect == Spec => []TypeOK
  BY InitFacts, TypeStep, PTL DEF Spec

(* While Run waits without a token pending, nothing in the heap is due      *)
(* before its timer.                                                        *)
THEOREM WakeupsAreKept == Spec => []NoOversleep
<1>1. TypeOK /\ NoOversleep /\ [Next]_vars => TypeOK' /\ NoOversleep'
  BY TypeStep, OversleepStep
<1> QED BY <1>1, InitFacts, PTL DEF Spec

(* An item leaves the heap for Run's hand and the hand for the target. *)
LEMMA HandStep ==
  ASSUME TypeOK, [Next]_vars, ~TargetFull
  PROVE  HandsOn
<1> SUFFICES ASSUME NEW i \in Items, Held(i)
             PROVE  Held(i)' \/ i \in target'
  BY DEF HandsOn
<1> USE DEF Held
<1>1. CASE UNCHANGED vars
  BY <1>1 DEF vars
<1>2. ASSUME NEW j \in Items, NEW t \in 0 .. MaxTime, Add(j, t)
      PROVE  Held(i)'
  BY <1>2 DEF Add
<1>3. CASE RunIdle \/ RunNotified \/ RunTimer \/ RunReturn
  BY <1>3 DEF RunIdle, RunNotified, RunTimer, RunReturn
<1>4. CASE RunPush
  <2>1. due' = due /\ target' = target \cup {hand}
    BY <1>4 DEF RunPush
  <2> QED BY <2>1
<1>5. ASSUME NEW e \in due, RunSleep(e)
      PROVE  Held(i)'
  BY <1>5 DEF RunSleep
<1>6. ASSUME NEW e \in due, RunPop(e)
      PROVE  Held(i)'
  <2>1. hand = Nil /\ i # Nil
    BY <1>6, NilAssumption DEF RunPop, TypeOK
  <2>2. due' = due \ {e} /\ hand' = e[1]
    BY <1>6 DEF RunPop
  <2> QED BY <2>1, <2>2
<1>7. CASE (\E j \in Items : Take(j)) \/ Shutdown \/ Tick
  BY <1>7 DEF Take, Shutdown, Tick
<1> QED BY <1>1, <1>2, <1>3, <1>4, <1>5, <1>6, <1>7 DEF Next, Run

(* While the target has room no item is lost between the heap and the       *)
(* target, whatever the other goroutines and the context do.                *)
THEOREM ItemsAreHandedOn == Spec => OnlyFullDrops
<1>1. TypeOK /\ [Next]_vars => [~TargetFull => HandsOn]_vars
  BY HandStep
<1> QED BY <1>1, DelayQueueTypeCorrect, PTL DEF Spec, OnlyFullDrops
=============================================================================
