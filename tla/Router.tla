------------------------------- MODULE Router -------------------------------
(***************************************************************************)
(* routing.Router as the dispatcher uses it: a worker asks Choose for a     *)
(* provider, calls Provider.Send without the lock, and tells Record how it  *)
(* went, perhaps long after the circuit has changed.  Names are those of    *)
(* provider adapters; an adapter's circuit is kept per channel.             *)
(***************************************************************************)
EXTENDS Naturals, Sequences

CONSTANTS
  Workers,    \* dispatcher workers
  Names,      \* Provider.Name() of the adapters
  Channels,
  providers,  \* [Channels -> Seq(Names)]: the order of Router.Add
  Prober,     \* adapters whose Health asks the provider; a Mock's is always nil
  Nil,        \* the worker has no call in progress
  Threshold,  \* Router.threshold
  Cooldown    \* Router.cooldown, in ticks

Candidates == UNION {{ch} \X (1 .. Len(providers[ch])) : ch \in Channels}

Name(c) == providers[c[1]][c[2]]

ASSUME RouterAssumption ==
  /\ providers \in [Channels -> Seq(Names)]
  /\ Prober \subseteq Names
  /\ Threshold \in Nat \ {0}
  /\ Cooldown \in Nat \ {0}
  /\ Nil \notin [name : Names, shaky : BOOLEAN]

(* No two adapters share a name, as in both main programs. *)
ASSUME DistinctNames == \A c, d \in Candidates : Name(c) = Name(d) => c = d

VARIABLES
  state,     \* candidate.state
  failures,  \* candidate.failures, counted up to Threshold
  age,       \* time.Since(candidate.opened), counted up to Cooldown
  call,      \* the Send each worker waits for; shaky if it met an outage and
             \* may fail
  up,        \* the providers that work now
  streak,    \* history: failures recorded since the last recorded success
  faultless  \* history: the providers that always worked

vars == <<state, failures, age, call, up, streak, faultless>>

(* Mutant of Init: Add leaves the state at its zero value. *)
InitZeroState ==
  /\ state = [c \in Candidates |-> ""]
  /\ failures = [c \in Candidates |-> 0]
  /\ age = [c \in Candidates |-> Cooldown]
  /\ call = [w \in Workers |-> Nil]
  /\ up = Names
  /\ streak = [n \in Names |-> 0]
  /\ faultless = Names

Init ==
  /\ state = [c \in Candidates |-> "closed"]
  /\ failures = [c \in Candidates |-> 0]
  /\ age = [c \in Candidates |-> Cooldown]
  /\ call = [w \in Workers |-> Nil]
  /\ up = Names
  /\ streak = [n \in Names |-> 0]
  /\ faultless = Names

-----------------------------------------------------------------------------
(* The loop of Choose *)

Resting(c) == state[c] = "open" /\ age[c] < Cooldown

(* The circuit lets c be tried, after a probe unless it is closed. *)
Probed(c) == state[c] # "closed" /\ ~Resting(c)

Usable(c) ==
  \/ state[c] = "closed"
  \/ Probed(c) /\ (Name(c) \in Prober => Name(c) \in up)

(* Choose looks at the candidates of ch up to number n. *)
Visit(ch, n) ==
  state' = [c \in Candidates |->
              IF c[1] = ch /\ c[2] <= n /\ Probed(c) THEN "half_open" ELSE state[c]]

Choose(w, ch) ==
  /\ call[w] = Nil
  /\ \E i \in 1 .. Len(providers[ch]) :
       /\ Usable(<<ch, i>>)
       /\ \A j \in 1 .. (i - 1) : ~Usable(<<ch, j>>)
       /\ Visit(ch, i)
       /\ call' = [call EXCEPT ![w] = [name |-> Name(<<ch, i>>),
                                       shaky |-> Name(<<ch, i>>) \notin up]]
  /\ UNCHANGED <<failures, age, up, streak, faultless>>

(* "no healthy provider" *)
ChooseFails(w, ch) ==
  /\ call[w] = Nil
  /\ \A i \in 1 .. Len(providers[ch]) : ~Usable(<<ch, i>>)
  /\ Visit(ch, Len(providers[ch]))
  /\ UNCHANGED <<failures, age, call, up, streak, faultless>>

-----------------------------------------------------------------------------
(* Record *)

(* Mutants of RecordSuccess: the failure count, or the state, is not reset. *)
RecordSuccessCounting(w) ==
  /\ call[w] # Nil
  /\ state' = [c \in Candidates |-> IF Name(c) = call[w].name THEN "closed" ELSE state[c]]
  /\ streak' = [streak EXCEPT ![call[w].name] = 0]
  /\ call' = [call EXCEPT ![w] = Nil]
  /\ UNCHANGED <<failures, age, up, faultless>>

RecordSuccessStaying(w) ==
  /\ call[w] # Nil
  /\ failures' = [c \in Candidates |-> IF Name(c) = call[w].name THEN 0 ELSE failures[c]]
  /\ streak' = [streak EXCEPT ![call[w].name] = 0]
  /\ call' = [call EXCEPT ![w] = Nil]
  /\ UNCHANGED <<state, age, up, faultless>>

(* Provider.Send returned nil: the first candidate of that name, in the     *)
(* order of the list and an arbitrary order of the channels, is reset.      *)
RecordSuccess(w) ==
  /\ call[w] # Nil
  /\ \E c \in Candidates :
       /\ Name(c) = call[w].name
       /\ \A j \in 1 .. (c[2] - 1) : Name(<<c[1], j>>) # Name(c)
       /\ failures' = [failures EXCEPT ![c] = 0]
       /\ state' = [state EXCEPT ![c] = "closed"]
  /\ streak' = [streak EXCEPT ![call[w].name] = 0]
  /\ call' = [call EXCEPT ![w] = Nil]
  /\ UNCHANGED <<age, up, faultless>>

Counted(n) == IF n < Threshold THEN n + 1 ELSE n

(* Mutant of RecordFailure: the name is not compared. *)
RecordFailureForAll(w) ==
  /\ call[w] # Nil
  /\ call[w].shaky
  /\ failures' = [c \in Candidates |-> Counted(failures[c])]
  /\ LET Trips(c) == failures'[c] >= Threshold
     IN /\ state' = [c \in Candidates |-> IF Trips(c) THEN "open" ELSE state[c]]
        /\ age' = [c \in Candidates |-> IF Trips(c) THEN 0 ELSE age[c]]
  /\ streak' = [streak EXCEPT ![call[w].name] = Counted(@)]
  /\ call' = [call EXCEPT ![w] = Nil]
  /\ UNCHANGED <<up, faultless>>

(* Provider.Send returned an error: every candidate of that name counts it. *)
RecordFailure(w) ==
  /\ call[w] # Nil
  /\ call[w].shaky
  /\ failures' = [c \in Candidates |->
       IF Name(c) = call[w].name THEN Counted(failures[c]) ELSE failures[c]]
  /\ LET Trips(c) == Name(c) = call[w].name /\ failures'[c] >= Threshold
     IN /\ state' = [c \in Candidates |-> IF Trips(c) THEN "open" ELSE state[c]]
        /\ age' = [c \in Candidates |-> IF Trips(c) THEN 0 ELSE age[c]]
  /\ streak' = [streak EXCEPT ![call[w].name] = Counted(@)]
  /\ call' = [call EXCEPT ![w] = Nil]
  /\ UNCHANGED <<up, faultless>>

-----------------------------------------------------------------------------
(* The environment: outages begin and end, time passes. *)

Outage(n) ==
  /\ n \in up
  /\ up' = up \ {n}
  /\ faultless' = faultless \ {n}
  /\ call' = [w \in Workers |-> IF call[w] # Nil /\ call[w].name = n
                                  THEN [call[w] EXCEPT !.shaky = TRUE] ELSE call[w]]
  /\ UNCHANGED <<state, failures, age, streak>>

Repair(n) ==
  /\ n \notin up
  /\ up' = up \cup {n}
  /\ UNCHANGED <<state, failures, age, call, streak, faultless>>

Tick ==
  /\ \E c \in Candidates : age[c] < Cooldown
  /\ age' = [c \in Candidates |-> IF age[c] < Cooldown THEN age[c] + 1 ELSE age[c]]
  /\ UNCHANGED <<state, failures, call, up, streak, faultless>>

Next ==
  \/ \E w \in Workers, ch \in Channels : Choose(w, ch) \/ ChooseFails(w, ch)
  \/ \E w \in Workers : RecordSuccess(w) \/ RecordFailure(w)
  \/ \E n \in Names : Outage(n) \/ Repair(n)
  \/ Tick

Spec == Init /\ [][Next]_vars

(* Send returns, at the latest when its context expires; time passes; and   *)
(* every channel keeps having notifications to send.                        *)
FairSpec ==
  /\ Spec
  /\ \A w \in Workers : WF_vars(RecordSuccess(w) \/ RecordFailure(w))
  /\ \A ch \in Channels : SF_vars(\E w \in Workers : Choose(w, ch))
  /\ WF_vars(Tick)

-----------------------------------------------------------------------------
(* Properties *)

TypeOK ==
  /\ state \in [Candidates -> {"closed", "open", "half_open"}]
  /\ failures \in [Candidates -> 0 .. Threshold]
  /\ age \in [Candidates -> 0 .. Cooldown]
  /\ call \in [Workers -> [name : Names, shaky : BOOLEAN] \cup {Nil}]
  /\ up \in SUBSET Names
  /\ streak \in [Names -> 0 .. Threshold]
  /\ faultless \in SUBSET Names

(* README, "opens a circuit after three failures": a circuit is closed just *)
(* when fewer than Threshold failures of its provider have been recorded    *)
(* since the last success.  In particular a half-open one, which has let    *)
(* calls through, is opened again by a single failure.                      *)
OpensAtThreshold ==
  \A c \in Candidates : state[c] = "closed" <=> streak[Name(c)] < Threshold

(* An outage of one provider never takes another one away: the circuit of a *)
(* provider that always worked is closed, whatever the others do, so its    *)
(* channel is never without a provider.                                     *)
OutageIsContained ==
  \A c \in Candidates : Name(c) \in faultless => state[c] = "closed" /\ failures[c] = 0

(* README, "probes after a cooldown": a provider that works from some time  *)
(* on and is the first of its channel gets its circuit closed for good.     *)
ComesBack ==
  \A ch \in Channels :
    Len(providers[ch]) > 0 =>
      (<>[](Name(<<ch, 1>>) \in up) => <>[](state[<<ch, 1>>] = "closed"))

-----------------------------------------------------------------------------
(* The inductive invariant behind OpensAtThreshold and OutageIsContained *)

(* A circuit counts what is recorded of its provider, and is closed while   *)
(* that is below the threshold.                                             *)
CountersAgree ==
  \A c \in Candidates :
    /\ failures[c] = streak[Name(c)]
    /\ state[c] = "closed" <=> failures[c] < Threshold

(* Only calls to a provider that has failed may fail. *)
CallsAgree ==
  /\ faultless \subseteq up
  /\ \A w \in Workers : call[w] # Nil /\ call[w].shaky => call[w].name \notin faultless

RouterInv == TypeOK /\ CountersAgree /\ CallsAgree /\ OutageIsContained
=============================================================================
