---------------------------- MODULE RouterProofs ----------------------------
(* The circuits of Router, for any adapters, workers, threshold, cooldown. *)
EXTENDS Router, TLAPS

(* Candidates have names. *)
LEMMA CandidateFacts ==
  /\ \A c \in Candidates : Name(c) \in Names
  /\ \A ch \in Channels : \A i \in 1 .. Len(providers[ch]) : <<ch, i>> \in Candidates
<1>1. ASSUME NEW c \in Candidates PROVE Name(c) \in Names
  <2>1. PICK ch \in Channels : c \in {ch} \X (1 .. Len(providers[ch]))
    BY DEF Candidates
  <2>2. providers[ch] \in Seq(Names) /\ c[1] = ch /\ c[2] \in 1 .. Len(providers[ch])
    BY <2>1, RouterAssumption
  <2> QED BY <2>2 DEF Name
<1>2. ASSUME NEW ch \in Channels, NEW i \in 1 .. Len(providers[ch])
      PROVE  <<ch, i>> \in Candidates
  BY DEF Candidates
<1> QED BY <1>1, <1>2

(* Choose changes the state of circuits that are not closed, to half-open. *)
LEMMA VisitFacts ==
  ASSUME TypeOK, NEW ch, NEW n, Visit(ch, n)
  PROVE  /\ state' \in [Candidates -> {"closed", "open", "half_open"}]
         /\ \A c \in Candidates : state'[c] = "closed" <=> state[c] = "closed"
  BY DEF Visit, Probed, TypeOK

(* Every step keeps the invariant. *)
LEMMA InvStep == RouterInv /\ [Next]_vars => RouterInv'
<1> SUFFICES ASSUME RouterInv, [Next]_vars
             PROVE  RouterInv'
  OBVIOUS
<1> USE RouterAssumption, CandidateFacts DEF RouterInv
<1>1. CASE UNCHANGED vars
  BY <1>1 DEF vars, TypeOK, CountersAgree, CallsAgree, OutageIsContained
<1>2. ASSUME NEW w \in Workers, NEW ch \in Channels, Choose(w, ch)
      PROVE  RouterInv'
  <2>1. PICK i \in 1 .. Len(providers[ch]) :
          /\ Visit(ch, i)
          /\ call' = [call EXCEPT ![w] = [name |-> Name(<<ch, i>>),
                                          shaky |-> Name(<<ch, i>>) \notin up]]
    BY <1>2 DEF Choose
  <2>2. UNCHANGED <<failures, age, up, streak, faultless>>
    BY <1>2 DEF Choose
  <2> DEFINE k == [name |-> Name(<<ch, i>>), shaky |-> Name(<<ch, i>>) \notin up]
  <2>3. k \in [name : Names, shaky : BOOLEAN] /\ (k.shaky => k.name \notin faultless)
    BY DEF CallsAgree
  <2>4. TypeOK'
    BY <2>1, <2>2, <2>3, VisitFacts DEF TypeOK
  <2>5. CountersAgree' /\ OutageIsContained'
    BY <2>1, <2>2, VisitFacts DEF CountersAgree, OutageIsContained
  <2>6. CallsAgree'
    <3> HIDE DEF k
    <3>1. call' = [call EXCEPT ![w] = k]
      BY <2>1 DEF k
    <3> QED BY <2>2, <2>3, <3>1 DEF CallsAgree, TypeOK
  <2> QED BY <2>4, <2>5, <2>6
<1>3. ASSUME NEW w \in Workers, NEW ch \in Channels, ChooseFails(w, ch)
      PROVE  RouterInv'
  BY <1>3, VisitFacts DEF ChooseFails, TypeOK, CountersAgree, CallsAgree, OutageIsContained
<1>4. ASSUME NEW w \in Workers, RecordSuccess(w)
      PROVE  RouterInv'
  <2> DEFINE n == call[w].name
  <2>1. PICK c \in Candidates : /\ Name(c) = n
                                /\ failures' = [failures EXCEPT ![c] = 0]
                                /\ state' = [state EXCEPT ![c] = "closed"]
    BY <1>4 DEF RecordSuccess
  <2>2. /\ n \in Names
        /\ streak' = [streak EXCEPT ![n] = 0] /\ call' = [call EXCEPT ![w] = Nil]
        /\ UNCHANGED <<age, up, faultless>>
    BY <1>4 DEF RecordSuccess, TypeOK
  <2>3. \A d \in Candidates : d # c => Name(d) # n
    BY <2>1, DistinctNames
  <2>4. TypeOK'
    BY <2>1, <2>2 DEF TypeOK
  <2>5. CountersAgree'
    BY <2>1, <2>2, <2>3 DEF CountersAgree, TypeOK
  <2>6. OutageIsContained'
    BY <2>1, <2>2 DEF OutageIsContained, TypeOK
  <2>7. CallsAgree'
    BY <2>2 DEF CallsAgree, TypeOK
  <2> QED BY <2>4, <2>5, <2>6, <2>7
<1>5. ASSUME NEW w \in Workers, RecordFailure(w)
      PROVE  RouterInv'
  <2> DEFINE n == call[w].name
             Trips(c) == Name(c) = n /\ failures'[c] >= Threshold
  <2>1. /\ n \in Names /\ n \notin faultless
        /\ streak' = [streak EXCEPT ![n] = Counted(@)] /\ call' = [call EXCEPT ![w] = Nil]
        /\ UNCHANGED <<up, faultless>>
    BY <1>5 DEF RecordFailure, TypeOK, CallsAgree
  <2>2. /\ failures' = [c \in Candidates |->
             IF Name(c) = n THEN Counted(failures[c]) ELSE failures[c]]
        /\ state' = [c \in Candidates |-> IF Trips(c) THEN "open" ELSE state[c]]
        /\ age' = [c \in Candidates |-> IF Trips(c) THEN 0 ELSE age[c]]
    BY <1>5 DEF RecordFailure
  <2>3. \A k \in 0 .. Threshold : Counted(k) \in 0 .. Threshold
    BY DEF Counted
  <2>4. TypeOK'
    <3>1. streak' \in [Names -> 0 .. Threshold] /\ call' \in [Workers -> [name : Names, shaky : BOOLEAN] \cup {Nil}]
      BY <2>1, <2>3 DEF TypeOK
    <3>2. failures' \in [Candidates -> 0 .. Threshold]
      BY <2>2, <2>3 DEF TypeOK
    <3> HIDE DEF Trips
    <3>3. state' \in [Candidates -> {"closed", "open", "half_open"}]
          /\ age' \in [Candidates -> 0 .. Cooldown]
      BY <2>2 DEF TypeOK
    <3> QED BY <2>1, <3>1, <3>2, <3>3 DEF TypeOK
  <2>5. CountersAgree'
    <3> SUFFICES ASSUME NEW c \in Candidates
                 PROVE  /\ failures'[c] = streak'[Name(c)]
                        /\ state'[c] = "closed" <=> failures'[c] < Threshold
      BY DEF CountersAgree
    <3>1. /\ failures[c] = streak[Name(c)] /\ failures[c] \in 0 .. Threshold
          /\ state[c] = "closed" <=> failures[c] < Threshold
      BY DEF CountersAgree, TypeOK
    <3>2. CASE Name(c) = n
      <4>1. failures'[c] = Counted(failures[c]) /\ streak'[n] = Counted(streak[n])
        BY <2>1, <2>2, <3>2 DEF TypeOK
      <4>2. state'[c] = IF failures'[c] >= Threshold THEN "open" ELSE state[c]
        BY <2>2, <3>2
      <4> QED BY <3>1, <3>2, <4>1, <4>2 DEF Counted
    <3>3. CASE Name(c) # n
      BY <2>1, <2>2, <3>1, <3>3 DEF TypeOK
    <3> QED BY <3>2, <3>3
  <2>6. OutageIsContained'
    BY <2>1, <2>2 DEF OutageIsContained
  <2>7. CallsAgree'
    BY <2>1 DEF CallsAgree, TypeOK
  <2> QED BY <2>4, <2>5, <2>6, <2>7
<1>6. ASSUME NEW n \in Names, Outage(n)
      PROVE  RouterInv'
  <2>1. ASSUME NEW w \in Workers
        PROVE  \/ call'[w] = call[w] /\ (call[w] # Nil => call[w].name # n)
               \/ call[w] # Nil /\ call'[w] = [call[w] EXCEPT !.shaky = TRUE] /\ call[w].name = n
    BY <1>6 DEF Outage
  <2>2. TypeOK'
    BY <1>6 DEF Outage, TypeOK
  <2>3. CallsAgree'
    <3>1. faultless' = faultless \ {n} /\ up' = up \ {n}
      BY <1>6 DEF Outage
    <3>2. ASSUME NEW w \in Workers, call'[w] # Nil, call'[w].shaky
          PROVE  call'[w].name \notin faultless'
      <4>1. CASE call'[w] = call[w]
        BY <3>1, <3>2, <4>1 DEF CallsAgree
      <4>2. CASE call[w] # Nil /\ call'[w] = [call[w] EXCEPT !.shaky = TRUE] /\ call[w].name = n
        <5>1. call'[w].name = n
          BY <4>2 DEF TypeOK
        <5> QED BY <3>1, <5>1
      <4> QED BY <2>1, <4>1, <4>2
    <3> QED BY <3>1, <3>2 DEF CallsAgree
  <2>4. CountersAgree' /\ OutageIsContained'
    BY <1>6 DEF Outage, CountersAgree, OutageIsContained
  <2> QED BY <2>2, <2>3, <2>4
<1>7. ASSUME NEW n \in Names, Repair(n)
      PROVE  RouterInv'
  BY <1>7 DEF Repair, TypeOK, CountersAgree, CallsAgree, OutageIsContained
<1>8. CASE Tick
  <2>1. age' \in [Candidates -> 0 .. Cooldown]
    <3>1. ASSUME NEW c \in Candidates
          PROVE  (IF age[c] < Cooldown THEN age[c] + 1 ELSE age[c]) \in 0 .. Cooldown
      <4>1. age[c] \in 0 .. Cooldown
        BY DEF TypeOK
      <4> QED BY <4>1, RouterAssumption DEF RouterAssumption
    <3> QED BY <1>8, <3>1 DEF Tick
  <2>2. TypeOK'
    BY <1>8, <2>1 DEF Tick, TypeOK
  <2> QED BY <1>8, <2>2 DEF Tick, CountersAgree, CallsAgree, OutageIsContained
<1> QED BY <1>1, <1>2, <1>3, <1>4, <1>5, <1>6, <1>7, <1>8 DEF Next

(* The circuits keep their invariant. *)
THEOREM RouterInvariant == Spec => []RouterInv
<1>1. Init => RouterInv
  BY RouterAssumption, CandidateFacts
     DEF Init, RouterInv, TypeOK, CountersAgree, CallsAgree, OutageIsContained
<1> QED BY <1>1, InvStep, PTL DEF Spec

(* The router's records keep their shape: a failure count never passes the  *)
(* threshold, a cooldown never its length.                                  *)
THEOREM RouterTypeCorrect == Spec => []TypeOK
  BY RouterInvariant, PTL DEF RouterInv

(* A circuit is closed just when its provider failed fewer than Threshold   *)
(* times since the last success, in whatever order workers report.          *)
THEOREM CircuitsOpenAtThreshold == Spec => []OpensAtThreshold
<1>1. RouterInv => OpensAtThreshold
  BY DEF RouterInv, CountersAgree, OpensAtThreshold
<1> QED BY <1>1, RouterInvariant, PTL

(* A provider that never failed has a closed circuit, whatever happens to   *)
(* the others.                                                              *)
THEOREM OutagesAreContained == Spec => []OutageIsContained
  BY RouterInvariant, PTL DEF RouterInv
=============================================================================
