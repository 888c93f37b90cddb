------------------------------ MODULE Policies ------------------------------
(***************************************************************************)
(* routing.PolicySet: routing rules that are put and deleted under a       *)
(* version check, and chosen by priority for a tenant, a channel and the   *)
(* attributes of a message.  The patterns of a rule are abstracted to the  *)
(* set of attribute values they all match.  Calls that return an error     *)
(* change nothing and are left out.  A rule's Matches slice is taken as    *)
(* not shared with the caller, as it is when rules are decoded from JSON.  *)
(***************************************************************************)
EXTENDS Naturals

CONSTANTS
  RuleIds,      \* numbers: Select breaks ties by the order of ids
  RuleTenants, RuleChannels, Attributes,
  Drafts,       \* what clients put: tenant, channel, priority, accepts, enabled
  ValidDrafts,  \* the drafts Validate lets pass
  NoRule,
  MaxRuleVersion    \* bound: the highest version written

DraftRules ==
  [tenant : RuleTenants, channel : RuleChannels, priority : Nat,
   accepts : SUBSET Attributes, enabled : BOOLEAN]

Rules == [id : RuleIds, draft : Drafts, version : Nat]

ASSUME PolicyAssumption ==
  /\ RuleIds \subseteq Nat
  /\ Drafts \subseteq DraftRules
  /\ ValidDrafts \subseteq Drafts
  /\ NoRule \notin Rules

VARIABLES
  rules,    \* PolicySet.rules
  chosen,   \* the rule a client got from List or Select, or NoRule
  renewed   \* history: that rule has been deleted since

PolicyInit ==
  /\ rules = [id \in RuleIds |-> NoRule]
  /\ chosen = NoRule
  /\ renewed = FALSE

ValidateRule(d) == d \in ValidDrafts

(* Mutant of PutRule: the version of a known rule stays. *)
PutRuleSameVersion(id, d, version) ==
  /\ ValidateRule(d)
  /\ \/ /\ rules[id] = NoRule
        /\ rules' = [rules EXCEPT ![id] = [id |-> id, draft |-> d, version |-> 1]]
     \/ /\ rules[id] # NoRule
        /\ rules[id].version = version
        /\ rules' = [rules EXCEPT ![id].draft = d]
  /\ UNCHANGED <<chosen, renewed>>

(* Put of a rule that carries a version: an unknown id starts at 1 whatever *)
(* that version is.                                                         *)
PutRule(id, d, version) ==
  /\ ValidateRule(d)
  /\ \/ /\ rules[id] = NoRule
        /\ rules' = [rules EXCEPT ![id] = [id |-> id, draft |-> d, version |-> 1]]
     \/ /\ rules[id] # NoRule
        /\ rules[id].version = version
        /\ version < MaxRuleVersion
        /\ rules' = [rules EXCEPT ![id] =
                       [id |-> id, draft |-> d, version |-> version + 1]]
  /\ UNCHANGED <<chosen, renewed>>

(* Mutant of DeleteRule: an empty rule stays behind. *)
DeleteRuleEmptied(id, version) ==
  /\ rules[id] # NoRule
  /\ rules[id].version = version
  /\ rules' = [rules EXCEPT ![id].id = 0, ![id].version = 0]
  /\ UNCHANGED <<chosen, renewed>>

DeleteRule(id, version) ==
  /\ rules[id] # NoRule
  /\ rules[id].version = version
  /\ rules' = [rules EXCEPT ![id] = NoRule]
  /\ renewed' = (renewed \/ (chosen # NoRule /\ chosen.id = id))
  /\ UNCHANGED chosen

(* The rules Select returns; the empty tenant selects those of every one. *)
Matching(tenant, ch, a) ==
  {id \in RuleIds :
     /\ rules[id] # NoRule
     /\ tenant = "" \/ rules[id].draft.tenant = tenant
     /\ rules[id].draft.enabled
     /\ rules[id].draft.channel = ch
     /\ a \in rules[id].draft.accepts}

(* The order of List: priority, then id. *)
Before(i, j) ==
  \/ rules[i].draft.priority < rules[j].draft.priority
  \/ rules[i].draft.priority = rules[j].draft.priority /\ i <= j

(* Select, and Explain of its result: the first matching rule is the one    *)
(* the decision names by id and version.                                    *)
Select(tenant, ch, a) ==
  \E id \in Matching(tenant, ch, a) :
    /\ \A j \in Matching(tenant, ch, a) : Before(id, j)
    /\ chosen' = rules[id]
    /\ renewed' = FALSE
    /\ UNCHANGED rules

PolicyWrite ==
  \E id \in RuleIds, v \in 1 .. MaxRuleVersion :
    (\E d \in Drafts : PutRule(id, d, v)) \/ DeleteRule(id, v)

PolicyRead ==
  \E t \in RuleTenants \cup {""}, ch \in RuleChannels, a \in Attributes :
    Select(t, ch, a)

PolicySpec ==
  PolicyInit /\ [][PolicyWrite \/ PolicyRead]_<<rules, chosen, renewed>>

PolicyTypeOK ==
  /\ rules \in [RuleIds -> Rules \cup {NoRule}]
  /\ \A id \in RuleIds : rules[id] # NoRule => rules[id].id = id
  /\ chosen \in Rules \cup {NoRule}
  /\ renewed \in BOOLEAN

(* A decision's policy_id and policy_version name the rule it was made by:  *)
(* as long as the rule has that version, it is the rule that was chosen,    *)
(* and a Put with that version undoes nobody's change.  The one exception   *)
(* is a rule deleted since, whose id may be in use again from version 1.    *)
RuleVersionNamesContent ==
  chosen # NoRule /\ ~renewed =>
    /\ rules[chosen.id] # NoRule
    /\ chosen.version <= rules[chosen.id].version
    /\ chosen.version = rules[chosen.id].version => chosen = rules[chosen.id]
=============================================================================
