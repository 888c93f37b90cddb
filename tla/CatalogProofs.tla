---------------------------- MODULE CatalogProofs ---------------------------
(***************************************************************************)
(* What module Catalogs promises of versions, for every set of ids,        *)
(* settings and rules and without any bound on the number of calls.        *)
(***************************************************************************)
EXTENDS Catalogs, Integers, WellFoundedInduction, TLAPS

(* The part of each catalog in a step of all three. *)
RegistryStep == RegistryWrite \/ RegistryRead \/ UNCHANGED <<configs, read>>
PolicyStep   == PolicyWrite \/ PolicyRead \/ UNCHANGED <<rules, chosen, renewed>>
TemplateStep == TemplateWrite \/ UNCHANGED templateVars

(* Whatever the step, each catalog sees one of its own calls or none. *)
LEMMA StepsOfParts ==
  ASSUME [CatalogWrite \/ CatalogRead]_catalogVars
  PROVE  RegistryStep /\ PolicyStep /\ TemplateStep
BY DEF CatalogWrite, CatalogRead, catalogVars, registryVars, policyVars, templateVars,
       RegistryStep, PolicyStep, TemplateStep

RegistryInv == RegistryTypeOK /\ ConfigVersionNamesContent

(* Every call on the registry keeps its types and its versions' meaning. *)
LEMMA RegistryInvStep ==
  ASSUME RegistryInv, RegistryStep, RegistryAssumption
  PROVE  RegistryInv'
<1> USE DEF RegistryInv, RegistryTypeOK, ConfigVersionNamesContent, Configurations
<1>1. ASSUME NEW id \in ConfigIds, NEW s \in Settings, NEW e \in BOOLEAN,
             Register(id, s, e)
      PROVE  RegistryInv'
  BY <1>1, RegistryAssumption DEF Register, Validate
<1>2. ASSUME NEW id \in ConfigIds, NEW s \in Settings, NEW e \in BOOLEAN,
             NEW v \in 1 .. MaxConfigVersion, UpdateConfig(id, s, e, v)
      PROVE  RegistryInv'
  BY <1>2, RegistryAssumption DEF UpdateConfig, Validate
<1>3. ASSUME NEW id \in ConfigIds, NEW e \in BOOLEAN,
             NEW v \in 1 .. MaxConfigVersion, SetEnabled(id, e, v)
      PROVE  RegistryInv'
  BY <1>3, RegistryAssumption DEF SetEnabled
<1>4. ASSUME NEW id \in ConfigIds, GetConfig(id)
      PROVE  RegistryInv'
  BY <1>4, RegistryAssumption DEF GetConfig
<1>5. CASE UNCHANGED <<configs, read>>
  BY <1>5
<1> QED BY <1>1, <1>2, <1>3, <1>4, <1>5 DEF RegistryStep, RegistryWrite, RegistryRead

PolicyInv == PolicyTypeOK /\ RuleVersionNamesContent

(* Every call on the policy set keeps its types and its versions' meaning. *)
LEMMA PolicyInvStep ==
  ASSUME PolicyInv, PolicyStep, PolicyAssumption
  PROVE  PolicyInv'
<1> USE DEF PolicyInv, PolicyTypeOK, RuleVersionNamesContent, Rules
<1>1. ASSUME NEW id \in RuleIds, NEW d \in Drafts, NEW v \in 1 .. MaxRuleVersion,
             PutRule(id, d, v)
      PROVE  PolicyInv'
  <2>1. /\ rules' \in [RuleIds -> Rules \cup {NoRule}]
        /\ \A i \in RuleIds : rules'[i] # NoRule => rules'[i].id = i
        /\ \A i \in RuleIds : rules[i] # NoRule =>
             /\ rules'[i] # NoRule
             /\ rules'[i] = rules[i] \/ rules'[i].version = rules[i].version + 1
    BY <1>1, PolicyAssumption DEF PutRule, ValidateRule
  <2>2. chosen' = chosen /\ renewed' = renewed
    BY <1>1 DEF PutRule
  <2>3. CASE chosen = NoRule \/ renewed
    BY <2>1, <2>2, <2>3
  <2>4. CASE chosen # NoRule /\ ~renewed
    <3>1. chosen \in Rules /\ chosen.id \in RuleIds
      BY <2>4
    <3>2. /\ rules[chosen.id] # NoRule
          /\ chosen.version <= rules[chosen.id].version
          /\ chosen.version = rules[chosen.id].version => chosen = rules[chosen.id]
      BY <2>4
    <3>3. chosen.version \in Nat /\ rules[chosen.id].version \in Nat
      BY <3>1, <3>2
    <3>4. /\ rules'[chosen.id] # NoRule
          /\ \/ rules'[chosen.id] = rules[chosen.id]
             \/ rules'[chosen.id].version = rules[chosen.id].version + 1
      BY <2>1, <3>1, <3>2
    <3>5. RuleVersionNamesContent'
      BY <2>2, <3>2, <3>3, <3>4
    <3> QED BY <2>1, <2>2, <3>5
  <2> QED BY <2>3, <2>4
<1>2. ASSUME NEW id \in RuleIds, NEW v \in 1 .. MaxRuleVersion, DeleteRule(id, v)
      PROVE  PolicyInv'
  <2>1. /\ rules' = [rules EXCEPT ![id] = NoRule]
        /\ chosen' = chosen
        /\ renewed' = (renewed \/ (chosen # NoRule /\ chosen.id = id))
    BY <1>2 DEF DeleteRule
  <2>2. CASE renewed \/ chosen = NoRule
    BY <2>1, <2>2
  <2>3. CASE ~renewed /\ chosen # NoRule /\ chosen.id = id
    BY <2>1, <2>3
  <2>4. CASE ~renewed /\ chosen # NoRule /\ chosen.id # id
    BY <2>1, <2>4
  <2> QED BY <2>2, <2>3, <2>4
<1>3. ASSUME NEW t, NEW ch, NEW a, Select(t, ch, a)
      PROVE  PolicyInv'
  <2>1. PICK id \in RuleIds : /\ rules[id] # NoRule
                             /\ chosen' = rules[id]
                             /\ renewed' = FALSE
                             /\ rules' = rules
    BY <1>3 DEF Select, Matching
  <2>2. rules[id] \in Rules /\ rules[id].id = id /\ rules[id].version \in Nat
    BY <2>1
  <2>3. PolicyTypeOK'
    BY <2>1, <2>2
  <2>4. RuleVersionNamesContent'
    BY <2>1, <2>2
  <2> QED BY <2>3, <2>4
<1>4. CASE UNCHANGED <<rules, chosen, renewed>>
  BY <1>4
<1> QED BY <1>1, <1>2, <1>3, <1>4 DEF PolicyStep, PolicyWrite, PolicyRead

-----------------------------------------------------------------------------
(* The least-number principle, and its counterpart for bounded sets: what   *)
(* the loops of Get find, first and last hits, exists.                      *)
LEMMA HasLeast ==
  ASSUME NEW S \in SUBSET Nat, S # {}
  PROVE  \E i \in S : \A j \in S : i <= j
<1> DEFINE R == OpToRel(<, Nat)
<1>1. \A i, j \in Nat : i < j => <<i, j>> \in R
  BY DEF OpToRel
<1>2. IsWellFoundedOn(R, Nat)
  BY NatLessThanWellFounded
<1> HIDE DEF R
<1>3. PICK i \in S : \A j \in S : ~ (<<j, i>> \in R)
  BY <1>2, WFMin
<1>4. ASSUME NEW j \in S PROVE i <= j
  <2>1. i \in Nat /\ j \in Nat /\ ~ (j < i)
    BY <1>1, <1>3
  <2> QED BY <2>1
<1> QED BY <1>4

(* A nonempty set of positions has a last one. *)
LEMMA HasGreatest ==
  ASSUME NEW n \in Nat, NEW S \in SUBSET (1 .. n), S # {}
  PROVE  \E i \in S : \A j \in S : j <= i
<1> DEFINE T == {n - i : i \in S}
<1>1. \A i \in S : n - i \in Nat
  OBVIOUS
<1>2. T \in SUBSET Nat /\ T # {}
  BY <1>1
<1> HIDE DEF T
<1>3. PICK k \in T : \A m \in T : k <= m
  BY <1>2, HasLeast
<1>4. PICK i \in S : k = n - i
  BY DEF T
<1>5. \A j \in S : n - j \in T
  BY DEF T
<1>6. \A j \in S : n - i <= n - j
  BY <1>3, <1>4, <1>5
<1> QED BY <1>6

(* Get and Current of a list of versions. *)
Marks(vs)      == {i \in DOMAIN vs : vs[i].published}
Hits(vs, n)    == {i \in DOMAIN vs : vs[i].number = n}
CurrentIn(vs)  == IF Marks(vs) = {} THEN 0
                  ELSE vs[CHOOSE i \in Marks(vs) : \A j \in Marks(vs) : j <= i].number
GetIn(vs, v)   == LET n == IF v = 0 THEN CurrentIn(vs) ELSE v
                  IN IF Hits(vs, n) = {} THEN 0
                     ELSE CHOOSE i \in Hits(vs, n) : \A j \in Hits(vs, n) : i <= j

(* Template service's Get, before and after a step, in those terms. *)
LEMMA GetIsGetIn ==
  /\ \A id, v : Get(id, v) = GetIn(defs[id], v)
  /\ \A id, v : Get(id, v)' = GetIn(defs'[id], v)
<1>1. ASSUME NEW id, NEW v PROVE Get(id, v) = GetIn(defs[id], v)
  BY DEF Get, GetIn, Current, CurrentIn, Marks, Hits
<1>2. ASSUME NEW id, NEW v PROVE Get(id, v)' = GetIn(defs'[id], v)
  BY DEF Get, GetIn, Current, CurrentIn, Marks, Hits
<1> QED BY <1>1, <1>2

(* The first loop of Get ends at the last published version. *)
LEMMA CurrentFacts ==
  ASSUME NEW vs \in Seq(Versions)
  PROVE  /\ Marks(vs) = {} => CurrentIn(vs) = 0
         /\ Marks(vs) # {} =>
              \E c \in Marks(vs) : CurrentIn(vs) = vs[c].number /\ \A j \in Marks(vs) : j <= c
<1>1. CASE Marks(vs) = {}
  BY <1>1 DEF CurrentIn
<1>2. CASE Marks(vs) # {}
  <2>1. Len(vs) \in Nat /\ Marks(vs) \in SUBSET (1 .. Len(vs))
    BY DEF Marks
  <2>2. \E i \in Marks(vs) : \A j \in Marks(vs) : j <= i
    BY <1>2, <2>1, HasGreatest
  <2> DEFINE c == CHOOSE i \in Marks(vs) : \A j \in Marks(vs) : j <= i
  <2>3. c \in Marks(vs) /\ \A j \in Marks(vs) : j <= c
    BY <2>2
  <2>4. CurrentIn(vs) = vs[c].number
    BY <1>2 DEF CurrentIn
  <2> HIDE DEF c
  <2> QED BY <1>2, <2>3, <2>4
<1> QED BY <1>1, <1>2

(* The second loop ends at a version of the number, if there is one. *)
LEMMA GetFacts ==
  ASSUME NEW vs \in Seq(Versions), NEW v
  PROVE  LET n == IF v = 0 THEN CurrentIn(vs) ELSE v
         IN  /\ Hits(vs, n) = {} => GetIn(vs, v) = 0
             /\ Hits(vs, n) # {} => GetIn(vs, v) \in Hits(vs, n) /\ GetIn(vs, v) # 0
<1> DEFINE n == IF v = 0 THEN CurrentIn(vs) ELSE v
           g == CHOOSE i \in Hits(vs, n) : \A j \in Hits(vs, n) : i <= j
<1>1. GetIn(vs, v) = IF Hits(vs, n) = {} THEN 0 ELSE g
  BY DEF GetIn
<1>2. Hits(vs, n) \in SUBSET (1 .. Len(vs)) /\ Len(vs) \in Nat
  BY DEF Hits
<1> HIDE DEF n
<1>3. ASSUME Hits(vs, n) # {} PROVE g \in Hits(vs, n) /\ g # 0
  <2>1. Hits(vs, n) \in SUBSET Nat
    BY <1>2
  <2>2. \E i \in Hits(vs, n) : \A j \in Hits(vs, n) : i <= j
    BY <1>3, <2>1, HasLeast
  <2>3. g \in Hits(vs, n)
    BY <2>2
  <2> HIDE DEF g
  <2> QED BY <1>2, <2>3
<1> HIDE DEF g
<1>4. /\ Hits(vs, n) = {} => GetIn(vs, v) = 0
      /\ Hits(vs, n) # {} => GetIn(vs, v) \in Hits(vs, n) /\ GetIn(vs, v) # 0
  BY <1>1, <1>3
<1> QED BY <1>4 DEF n

(* Versions that AddVersion numbered: a version's number is its position.   *)
Numbered(vs) == \A i \in DOMAIN vs : vs[i].number = i

TemplateInv ==
  /\ TemplateTypeOK
  /\ \A id \in plain : defs[id] # NoTemplate /\ Numbered(defs[id])

(* What Get returns of them. *)
LEMMA NumberedGet ==
  ASSUME NEW vs \in Seq(Versions), Numbered(vs)
  PROVE  /\ \A v \in 1 .. Len(vs) : GetIn(vs, v) = v
         /\ GetIn(vs, 0) # 0 => GetIn(vs, 0) \in Marks(vs)
<1>1. Len(vs) \in Nat /\ DOMAIN vs = 1 .. Len(vs)
  OBVIOUS
<1>2. ASSUME NEW v \in 1 .. Len(vs) PROVE GetIn(vs, v) = v
  <2>1. v # 0 /\ Hits(vs, v) = {v}
    BY <1>1 DEF Hits, Numbered
  <2>2. GetIn(vs, v) \in Hits(vs, v)
    BY <2>1, GetFacts
  <2> QED BY <2>1, <2>2
<1>3. ASSUME GetIn(vs, 0) # 0 PROVE GetIn(vs, 0) \in Marks(vs)
  <2>1. GetIn(vs, 0) \in Hits(vs, CurrentIn(vs))
    BY <1>3, GetFacts
  <2>2. Marks(vs) # {}
    <3> SUFFICES ASSUME Marks(vs) = {} PROVE FALSE
      OBVIOUS
    <3>1. CurrentIn(vs) = 0
      BY CurrentFacts
    <3>2. Hits(vs, 0) = {}
      BY <1>1 DEF Hits, Numbered
    <3> QED BY <2>1, <3>1, <3>2
  <2>3. PICK c \in Marks(vs) : CurrentIn(vs) = vs[c].number
    BY <2>2, CurrentFacts
  <2>4. Hits(vs, CurrentIn(vs)) = {c}
    BY <2>3 DEF Hits, Marks, Numbered
  <2> QED BY <2>1, <2>3, <2>4
<1> QED BY <1>2, <1>3

(* Publish changes flags only. *)
LEMMA MarkedFacts ==
  ASSUME NEW vs \in Seq(Versions), NEW v
  PROVE  /\ Marked(vs, v) \in Seq(Versions) /\ DOMAIN Marked(vs, v) = DOMAIN vs
         /\ Len(Marked(vs, v)) = Len(vs)
         /\ \A i \in DOMAIN vs : /\ Marked(vs, v)[i].number = vs[i].number
                                 /\ Marked(vs, v)[i].text = vs[i].text
                                 /\ Marked(vs, v)[i].published = (vs[i].number = v)
<1>1. Len(vs) \in Nat /\ DOMAIN vs = 1 .. Len(vs) /\ \A i \in 1 .. Len(vs) : vs[i] \in Versions
  OBVIOUS
<1>2. ASSUME NEW i \in DOMAIN vs
      PROVE  /\ Marked(vs, v)[i] = [vs[i] EXCEPT !.published = (vs[i].number = v)]
             /\ Marked(vs, v)[i] \in Versions
             /\ Marked(vs, v)[i].number = vs[i].number
             /\ Marked(vs, v)[i].text = vs[i].text
             /\ Marked(vs, v)[i].published = (vs[i].number = v)
  <2>1. vs[i] \in Versions
    BY <1>1
  <2>2. Marked(vs, v)[i] = [vs[i] EXCEPT !.published = (vs[i].number = v)]
    BY DEF Marked
  <2> DEFINE b == (vs[i].number = v)
  <2>3. b \in BOOLEAN
    OBVIOUS
  <2> HIDE DEF b
  <2>4. Marked(vs, v)[i] = [vs[i] EXCEPT !.published = b]
    BY <2>2 DEF b
  <2>5. /\ Marked(vs, v)[i] \in Versions
        /\ Marked(vs, v)[i].number = vs[i].number
        /\ Marked(vs, v)[i].text = vs[i].text
        /\ Marked(vs, v)[i].published = b
    BY <2>1, <2>3, <2>4 DEF Versions
  <2> QED BY <2>2, <2>5 DEF b
<1>3. Marked(vs, v) = [i \in 1 .. Len(vs) |-> Marked(vs, v)[i]]
  BY <1>1 DEF Marked
<1>4. Marked(vs, v) \in [1 .. Len(vs) -> Versions]
  BY <1>1, <1>2, <1>3
<1>5. Marked(vs, v) \in Seq(Versions)
  BY <1>1, <1>4
<1>6. DOMAIN Marked(vs, v) = DOMAIN vs
  BY <1>1, <1>4
<1>7. Len(Marked(vs, v)) = Len(vs)
  BY <1>1, <1>5, <1>6
<1> QED BY <1>2, <1>5, <1>6, <1>7

(* AddVersion leaves the versions there are alone. *)
LEMMA AddedFacts ==
  ASSUME NEW vs \in Seq(Versions), NEW x \in Versions
  PROVE  /\ Append(vs, x) \in Seq(Versions) /\ Len(vs) \in Nat
         /\ Len(Append(vs, x)) = Len(vs) + 1
         /\ DOMAIN Append(vs, x) = DOMAIN vs \cup {Len(vs) + 1}
         /\ Append(vs, x)[Len(vs) + 1] = x
         /\ Len(vs) + 1 \notin DOMAIN vs
         /\ \A i \in DOMAIN vs : Append(vs, x)[i] = vs[i]
<1>1. Len(vs) \in Nat /\ DOMAIN vs = 1 .. Len(vs)
  OBVIOUS
<1>2. Append(vs, x) \in Seq(Versions) /\ Len(Append(vs, x)) = Len(vs) + 1
  OBVIOUS
<1>3. Append(vs, x)[Len(vs) + 1] = x /\ \A i \in 1 .. Len(vs) : Append(vs, x)[i] = vs[i]
  BY <1>1
<1>4. DOMAIN Append(vs, x) = 1 .. Len(vs) + 1
  BY <1>2
<1>5. 1 .. Len(vs) + 1 = (1 .. Len(vs)) \cup {Len(vs) + 1}
  BY <1>1
<1> QED BY <1>1, <1>2, <1>3, <1>4, <1>5

(* The steps of the template service on one template: create, append, mark. *)
LEMMA TemplateChange ==
  ASSUME TemplateInv, TemplateStep
  PROVE  \/ UNCHANGED templateVars
         \/ \E id \in TemplateIds :
              \/ \E vs \in Uploads : CreateTemplate(id, vs)
              \/ /\ defs[id] \in Seq(Versions) /\ plain' = plain
                 /\ \E x \in Versions : /\ x.number = Len(defs[id]) + 1
                                        /\ defs' = [defs EXCEPT ![id] = Append(defs[id], x)]
              \/ /\ defs[id] \in Seq(Versions) /\ plain' = plain
                 /\ \E v :
                      /\ defs' = [defs EXCEPT ![id] = Marked(defs[id], v)]
                      /\ \/ \E i \in DOMAIN defs[id] : defs[id][i].number = v
                         \/ answer' = "version not found"
<1>1. ASSUME NEW id \in TemplateIds, NEW t \in Texts, NEW b \in BOOLEAN, AddVersion(id, t, b)
      PROVE  /\ defs[id] \in Seq(Versions) /\ plain' = plain
             /\ \E x \in Versions : /\ x.number = Len(defs[id]) + 1
                                    /\ defs' = [defs EXCEPT ![id] = Append(defs[id], x)]
  <2> DEFINE x == [number |-> Len(defs[id]) + 1, published |-> b, text |-> t]
  <2>1. /\ defs[id] \in Seq(Versions) /\ plain' = plain
        /\ defs' = [defs EXCEPT ![id] = Append(defs[id], x)]
    BY <1>1 DEF AddVersion, TemplateInv, TemplateTypeOK
  <2>2. x \in Versions /\ x.number = Len(defs[id]) + 1
    BY <2>1 DEF Versions
  <2> HIDE DEF x
  <2> QED BY <2>1, <2>2
<1>2. ASSUME NEW id \in TemplateIds, NEW v \in 0 .. MaxVersions, Publish(id, v)
      PROVE  /\ defs[id] \in Seq(Versions) /\ plain' = plain
             /\ \E u :
                  /\ defs' = [defs EXCEPT ![id] = Marked(defs[id], u)]
                  /\ \/ \E i \in DOMAIN defs[id] : defs[id][i].number = u
                     \/ answer' = "version not found"
  <2>1. /\ defs[id] \in Seq(Versions) /\ plain' = plain
        /\ defs' = [defs EXCEPT ![id] = Marked(defs[id], v)]
        /\ \/ \E i \in DOMAIN defs[id] : defs[id][i].number = v
           \/ answer' = "version not found"
    BY <1>2 DEF Publish, TemplateInv, TemplateTypeOK
  <2> QED BY <2>1
<1>3. CASE UNCHANGED templateVars
  BY <1>3
<1>4. CASE TemplateWrite
  <2>1. PICK id \in TemplateIds :
          \/ \E vs \in Uploads : CreateTemplate(id, vs)
          \/ \E t \in Texts, b \in BOOLEAN : AddVersion(id, t, b)
          \/ \E v \in 0 .. MaxVersions : Publish(id, v)
    BY <1>4 DEF TemplateWrite
  <2>2. CASE \E vs \in Uploads : CreateTemplate(id, vs)
    BY <2>2
  <2>3. CASE \E t \in Texts, b \in BOOLEAN : AddVersion(id, t, b)
    <3>1. PICK t \in Texts, b \in BOOLEAN : AddVersion(id, t, b)
      BY <2>3, Zenon
    <3>2. /\ defs[id] \in Seq(Versions) /\ plain' = plain
          /\ \E x \in Versions : /\ x.number = Len(defs[id]) + 1
                                 /\ defs' = [defs EXCEPT ![id] = Append(defs[id], x)]
      BY <1>1, <3>1
    <3> QED BY <3>2, Zenon
  <2>4. CASE \E v \in 0 .. MaxVersions : Publish(id, v)
    BY <1>2, <2>4
  <2> QED BY <2>1, <2>2, <2>3, <2>4
<1> QED BY <1>3, <1>4 DEF TemplateStep

(* The types, and the numbers of added versions, are kept. *)
LEMMA TemplateInvStep ==
  ASSUME TemplateInv, TemplateStep
  PROVE  TemplateInv'
<1>1. /\ defs \in [TemplateIds -> Seq(Versions) \cup {NoTemplate}]
      /\ plain \in SUBSET TemplateIds
      /\ \A id \in plain : defs[id] # NoTemplate /\ Numbered(defs[id])
      /\ Uploads \subseteq Seq(Versions) /\ NoTemplate \notin Seq(Versions)
  BY TemplateAssumption DEF TemplateInv, TemplateTypeOK, TemplateAssumption
<1>2. answer' \in {"ok", "version not found"}
  BY DEF TemplateStep, TemplateWrite, CreateTemplate, AddVersion, Publish, TemplateInv,
         TemplateTypeOK, templateVars
<1>3. CASE UNCHANGED templateVars
  BY <1>3 DEF TemplateInv, TemplateTypeOK, templateVars
<1>4. ASSUME NEW id \in TemplateIds, NEW vs \in Seq(Versions), plain' \in SUBSET TemplateIds,
             defs' = [defs EXCEPT ![id] = vs],
             \A i \in plain' : IF i = id THEN Numbered(vs) ELSE i \in plain
      PROVE  TemplateInv'
  <2>1. defs' \in [TemplateIds -> Seq(Versions) \cup {NoTemplate}]
    BY <1>1, <1>4
  <2>2. ASSUME NEW i \in plain' PROVE defs'[i] # NoTemplate /\ Numbered(defs'[i])
    BY <1>1, <1>4
  <2> QED BY <1>2, <1>4, <2>1, <2>2 DEF TemplateInv, TemplateTypeOK
<1>5. ASSUME NEW id \in TemplateIds, NEW vs \in Uploads, CreateTemplate(id, vs)
      PROVE  TemplateInv'
  <2>1. vs = <<>> => Numbered(vs)
    BY DEF Numbered
  <2>2. /\ plain' = IF vs = <<>> THEN plain \cup {id} ELSE plain
        /\ defs' = [defs EXCEPT ![id] = vs] /\ id \notin plain
    BY <1>1, <1>5 DEF CreateTemplate
  <2>3. vs \in Seq(Versions) /\ plain' \in SUBSET TemplateIds
    BY <1>1, <2>2
  <2>4. ASSUME NEW i \in plain'
        PROVE  IF i = id THEN Numbered(vs) ELSE i \in plain
    BY <2>1, <2>2, <2>4
  <2> QED BY <1>4, <2>2, <2>3, <2>4
<1>6. ASSUME NEW id \in TemplateIds, NEW vs \in Seq(Versions), plain' = plain,
             id \in plain => Numbered(vs), defs' = [defs EXCEPT ![id] = vs]
      PROVE  TemplateInv'
  <2>1. plain' \in SUBSET TemplateIds
    BY <1>1, <1>6
  <2>2. ASSUME NEW i \in plain'
        PROVE  IF i = id THEN Numbered(vs) ELSE i \in plain
    BY <1>6, <2>2
  <2> QED BY <1>4, <1>6, <2>1, <2>2
<1>7. ASSUME NEW id \in TemplateIds, defs[id] \in Seq(Versions), plain' = plain,
             NEW x \in Versions, x.number = Len(defs[id]) + 1,
             defs' = [defs EXCEPT ![id] = Append(defs[id], x)]
      PROVE  TemplateInv'
  <2>1. Append(defs[id], x) \in Seq(Versions)
    BY <1>7, AddedFacts
  <2>2. id \in plain => Numbered(Append(defs[id], x))
    BY <1>1, <1>7, AddedFacts DEF Numbered
  <2> QED BY <1>6, <1>7, <2>1, <2>2
<1>8. ASSUME NEW id \in TemplateIds, defs[id] \in Seq(Versions), plain' = plain,
             NEW v, defs' = [defs EXCEPT ![id] = Marked(defs[id], v)]
      PROVE  TemplateInv'
  <2>1. Marked(defs[id], v) \in Seq(Versions)
    BY <1>8, MarkedFacts
  <2>2. id \in plain => Numbered(Marked(defs[id], v))
    BY <1>1, <1>8, MarkedFacts DEF Numbered
  <2> QED BY <1>6, <1>8, <2>1, <2>2
<1> QED BY <1>3, <1>5, <1>7, <1>8, TemplateChange

(* Get of a version that was added does not change. *)
LEMMA ImmutableStep ==
  ASSUME TemplateInv, TemplateStep, NEW id \in plain, NEW v \in 1 .. Len(defs[id])
  PROVE  Get(id, v)' # 0 /\ defs'[id][Get(id, v)'].text = defs[id][Get(id, v)].text
<1>1. /\ defs \in [TemplateIds -> Seq(Versions) \cup {NoTemplate}]
      /\ id \in TemplateIds /\ defs[id] # NoTemplate /\ Numbered(defs[id])
      /\ defs[id] \in Seq(Versions)
  BY DEF TemplateInv, TemplateTypeOK
<1>2. Get(id, v) = v /\ Len(defs[id]) \in Nat /\ v \in DOMAIN defs[id]
  BY <1>1, GetIsGetIn, NumberedGet
<1>3. /\ defs'[id] \in Seq(Versions) /\ Numbered(defs'[id])
      /\ v \in 1 .. Len(defs'[id]) /\ defs'[id][v].text = defs[id][v].text
  <2>1. id \in plain' /\ defs'[id] # NoTemplate => defs'[id] \in Seq(Versions) /\ Numbered(defs'[id])
    BY <1>1, TemplateInvStep DEF TemplateInv, TemplateTypeOK
  <2>2. CASE UNCHANGED templateVars
    BY <1>1, <1>2, <2>2 DEF templateVars
  <2>3. ASSUME NEW j \in TemplateIds, NEW vs \in Uploads, CreateTemplate(j, vs)
        PROVE  defs'[id] = defs[id]
    BY <1>1, <2>3 DEF CreateTemplate
  <2>4. ASSUME NEW j \in TemplateIds, defs[j] \in Seq(Versions), plain' = plain,
               NEW x \in Versions, x.number = Len(defs[j]) + 1,
               defs' = [defs EXCEPT ![j] = Append(defs[j], x)]
        PROVE  /\ defs'[id] \in Seq(Versions) /\ Numbered(defs'[id])
               /\ v \in 1 .. Len(defs'[id]) /\ defs'[id][v].text = defs[id][v].text
    <3>1. CASE j # id
      BY <1>1, <1>2, <2>4, <3>1
    <3>2. CASE j = id
      <4>1. defs'[id] = Append(defs[id], x)
        BY <1>1, <2>4, <3>2
      <4>2. Append(defs[id], x) \in Seq(Versions) /\ Len(Append(defs[id], x)) = Len(defs[id]) + 1
            /\ Append(defs[id], x)[v] = defs[id][v]
        BY <1>1, <1>2, AddedFacts
      <4>3. Numbered(Append(defs[id], x))
        BY <1>1, <2>4, <3>2, AddedFacts DEF Numbered
      <4> QED BY <1>2, <4>1, <4>2, <4>3
    <3> QED BY <3>1, <3>2
  <2>5. ASSUME NEW j \in TemplateIds, defs[j] \in Seq(Versions), plain' = plain,
               NEW u, defs' = [defs EXCEPT ![j] = Marked(defs[j], u)]
        PROVE  /\ defs'[id] \in Seq(Versions) /\ Numbered(defs'[id])
               /\ v \in 1 .. Len(defs'[id]) /\ defs'[id][v].text = defs[id][v].text
    <3>1. CASE j # id
      BY <1>1, <1>2, <2>5, <3>1
    <3>2. CASE j = id
      <4>1. defs'[id] = Marked(defs[id], u)
        BY <1>1, <2>5, <3>2
      <4>2. /\ Marked(defs[id], u) \in Seq(Versions) /\ Len(Marked(defs[id], u)) = Len(defs[id])
            /\ Marked(defs[id], u)[v].text = defs[id][v].text
        BY <1>1, <1>2, MarkedFacts
      <4>3. Numbered(Marked(defs[id], u))
        BY <1>1, MarkedFacts DEF Numbered
      <4> QED BY <1>2, <4>1, <4>2, <4>3
    <3> QED BY <3>1, <3>2
  <2> QED BY <1>1, <1>2, <2>2, <2>3, <2>4, <2>5, TemplateChange
<1>4. Get(id, v)' = v
  BY <1>3, GetIsGetIn, NumberedGet
<1>5. v # 0
  BY <1>2
<1> QED BY <1>2, <1>3, <1>4, <1>5

(* Appending a version leaves a template a current one, the new or the old. *)
LEMMA AddKeepsCurrent ==
  ASSUME NEW vs \in Seq(Versions), NEW x \in Versions, x.number = Len(vs) + 1, GetIn(vs, 0) # 0
  PROVE  GetIn(Append(vs, x), 0) # 0
<1> DEFINE ws == Append(vs, x)
           L == Len(vs) + 1
<1>1. /\ ws \in Seq(Versions) /\ DOMAIN ws = DOMAIN vs \cup {L} /\ ws[L] = x
      /\ L \notin DOMAIN vs /\ \A i \in DOMAIN vs : ws[i] = vs[i]
      /\ L \in Nat /\ \A i \in DOMAIN vs : i \in Nat /\ i < L
  BY AddedFacts
<1>2. x.number = L
  OBVIOUS
<1>3. PICK h \in DOMAIN vs : vs[h].number = CurrentIn(vs)
  BY GetFacts DEF Hits
<1> HIDE DEF ws, L
<1>4. SUFFICES Hits(ws, CurrentIn(ws)) # {}
  BY <1>1, GetFacts DEF ws
<1>5. CASE x.published
  <2>1. L \in Marks(ws) /\ \A j \in Marks(ws) : j <= L
    BY <1>1, <1>5 DEF Marks
  <2>2. PICK c \in Marks(ws) : CurrentIn(ws) = ws[c].number /\ \A j \in Marks(ws) : j <= c
    BY <1>1, <2>1, CurrentFacts
  <2>3. c \in DOMAIN ws
    BY DEF Marks
  <2> QED BY <2>2, <2>3 DEF Hits
<1>6. CASE ~x.published
  <2>1. Marks(ws) = Marks(vs)
    BY <1>1, <1>6 DEF Marks
  <2>2. CASE Marks(vs) = {}
    <3>1. CurrentIn(ws) = CurrentIn(vs)
      BY <1>1, <2>1, <2>2, CurrentFacts
    <3> QED BY <1>1, <1>3, <3>1 DEF Hits
  <2>3. CASE Marks(vs) # {}
    <3>1. PICK c \in Marks(ws) : CurrentIn(ws) = ws[c].number
      BY <1>1, <2>1, <2>3, CurrentFacts
    <3>2. c \in DOMAIN ws
      BY DEF Marks
    <3> QED BY <3>1, <3>2 DEF Hits
  <2> QED BY <2>2, <2>3
<1> QED BY <1>5, <1>6

(* Publish of a number that exists leaves one with that number. *)
LEMMA MarkSetsCurrent ==
  ASSUME NEW vs \in Seq(Versions), NEW v, NEW i \in DOMAIN vs, vs[i].number = v
  PROVE  GetIn(Marked(vs, v), 0) # 0
<1> DEFINE ws == Marked(vs, v)
<1>1. /\ ws \in Seq(Versions) /\ DOMAIN ws = DOMAIN vs
      /\ \A j \in DOMAIN vs : ws[j].published = (vs[j].number = v)
  BY MarkedFacts
<1> HIDE DEF ws
<1>2. i \in Marks(ws)
  BY <1>1 DEF Marks
<1>3. PICK c \in Marks(ws) : CurrentIn(ws) = ws[c].number
  BY <1>1, <1>2, CurrentFacts
<1>4. c \in Hits(ws, CurrentIn(ws))
  BY <1>3 DEF Hits, Marks
<1> QED BY <1>1, <1>4, GetFacts DEF ws

(* Only a Publish that fails takes the current version away. *)
LEMMA WithdrawStep ==
  ASSUME TemplateInv, TemplateStep, NEW id \in TemplateIds,
         defs[id] # NoTemplate, Get(id, 0) # 0, Get(id, 0)' = 0
  PROVE  answer' = "version not found"
<1>1. /\ defs \in [TemplateIds -> Seq(Versions) \cup {NoTemplate}]
      /\ defs[id] \in Seq(Versions)
  BY DEF TemplateInv, TemplateTypeOK
<1>2. GetIn(defs[id], 0) # 0 /\ GetIn(defs'[id], 0) = 0
  BY GetIsGetIn
<1>3. defs'[id] # defs[id]
  BY <1>2
<1>4. ~ UNCHANGED templateVars
  BY <1>3 DEF templateVars
<1>5. PICK j \in TemplateIds :
        \/ \E vs \in Uploads : CreateTemplate(j, vs)
        \/ /\ defs[j] \in Seq(Versions) /\ plain' = plain
           /\ \E x \in Versions : /\ x.number = Len(defs[j]) + 1
                                  /\ defs' = [defs EXCEPT ![j] = Append(defs[j], x)]
        \/ /\ defs[j] \in Seq(Versions) /\ plain' = plain
           /\ \E v :
                /\ defs' = [defs EXCEPT ![j] = Marked(defs[j], v)]
                /\ \/ \E i \in DOMAIN defs[j] : defs[j][i].number = v
                   \/ answer' = "version not found"
  BY <1>4, TemplateChange
<1>6. j = id /\ ~ \E vs \in Uploads : CreateTemplate(j, vs)
  BY <1>1, <1>3, <1>5 DEF CreateTemplate
<1>7. ASSUME NEW x \in Versions, x.number = Len(defs[id]) + 1,
             defs' = [defs EXCEPT ![id] = Append(defs[id], x)]
      PROVE  FALSE
  <2>1. defs'[id] = Append(defs[id], x)
    BY <1>1, <1>7
  <2> QED BY <1>1, <1>2, <1>7, <2>1, AddKeepsCurrent
<1>8. ASSUME NEW v, defs' = [defs EXCEPT ![id] = Marked(defs[id], v)],
             NEW i \in DOMAIN defs[id], defs[id][i].number = v
      PROVE  FALSE
  <2>1. defs'[id] = Marked(defs[id], v)
    BY <1>1, <1>8
  <2> QED BY <1>1, <1>2, <1>8, <2>1, MarkSetsCurrent
<1> QED BY <1>5, <1>6, <1>7, <1>8

-----------------------------------------------------------------------------
(* A client's copy of a provider configuration that has the stored version  *)
(* is the stored configuration (provider.Registry).                         *)
THEOREM ConfigVersionsAreSafe == CatalogSpec => []ConfigVersionNamesContent
<1>1. CatalogInit => RegistryInv
  BY DEF CatalogInit, RegistryInit, RegistryInv, RegistryTypeOK, ConfigVersionNamesContent
<1>2. RegistryInv /\ [CatalogWrite \/ CatalogRead]_catalogVars => RegistryInv'
  BY StepsOfParts, RegistryInvStep, RegistryAssumption
<1> QED BY <1>1, <1>2, PTL DEF CatalogSpec, RegistryInv

(* A rule a decision names by id and version is the rule it was made by,    *)
(* unless it was deleted in between (routing.PolicySet).                    *)
THEOREM RuleVersionsAreSafe == CatalogSpec => []RuleVersionNamesContent
<1>1. CatalogInit => PolicyInv
  BY DEF CatalogInit, PolicyInit, PolicyInv, PolicyTypeOK, RuleVersionNamesContent
<1>2. PolicyInv /\ [CatalogWrite \/ CatalogRead]_catalogVars => PolicyInv'
  BY StepsOfParts, PolicyInvStep, PolicyAssumption
<1> QED BY <1>1, <1>2, PTL DEF CatalogSpec, PolicyInv

(* The three catalogs keep their types, whatever calls are made. *)
THEOREM CatalogTypeCorrect == CatalogSpec => []CatalogTypeOK
<1>1. CatalogInit => RegistryInv /\ PolicyInv /\ TemplateInv /\ calls \in Nat
  <2>1. CatalogInit => RegistryInv
    BY DEF CatalogInit, RegistryInit, RegistryInv, RegistryTypeOK, ConfigVersionNamesContent
  <2>2. CatalogInit => PolicyInv
    BY DEF CatalogInit, PolicyInit, PolicyInv, PolicyTypeOK, RuleVersionNamesContent
  <2>3. CatalogInit => TemplateInv /\ calls \in Nat
    BY DEF CatalogInit, TemplateInit, TemplateInv, TemplateTypeOK
  <2> QED BY <2>1, <2>2, <2>3
<1>2. /\ RegistryInv /\ PolicyInv /\ TemplateInv /\ calls \in Nat
      /\ [CatalogWrite \/ CatalogRead]_catalogVars
      => (RegistryInv /\ PolicyInv /\ TemplateInv /\ calls \in Nat)'
  <2> SUFFICES ASSUME RegistryInv, PolicyInv, TemplateInv, calls \in Nat,
                      [CatalogWrite \/ CatalogRead]_catalogVars
               PROVE  (RegistryInv /\ PolicyInv /\ TemplateInv /\ calls \in Nat)'
    OBVIOUS
  <2>1. calls' \in Nat
    BY DEF CatalogWrite, CatalogRead, catalogVars
  <2> QED BY <2>1, StepsOfParts, RegistryInvStep, PolicyInvStep, TemplateInvStep,
             RegistryAssumption, PolicyAssumption
<1>3. RegistryInv /\ PolicyInv /\ TemplateInv /\ calls \in Nat => CatalogTypeOK
  BY DEF RegistryInv, PolicyInv, TemplateInv, CatalogTypeOK
<1> QED BY <1>1, <1>2, <1>3, PTL DEF CatalogSpec

(* TemplateInv holds in every reachable state of the catalogs. *)
LEMMA TemplateInvariant == CatalogSpec => []TemplateInv
<1>1. CatalogInit => TemplateInv
  BY DEF CatalogInit, TemplateInit, TemplateInv, TemplateTypeOK
<1>2. TemplateInv /\ [CatalogWrite \/ CatalogRead]_catalogVars => TemplateInv'
  BY StepsOfParts, TemplateInvStep
<1> QED BY <1>1, <1>2, PTL DEF CatalogSpec

(* What Get returns for "the current version" of a template whose versions  *)
(* were all added is a published one: its two loops meet.                   *)
THEOREM CurrentVersionsArePublished == CatalogSpec => []CurrentIsPublished
<1>1. TemplateInv => CurrentIsPublished
  <2> SUFFICES ASSUME TemplateInv, NEW id \in plain, Get(id, 0) # 0
               PROVE  defs[id][Get(id, 0)].published
    BY DEF CurrentIsPublished
  <2>1. defs[id] \in Seq(Versions) /\ Numbered(defs[id])
    BY DEF TemplateInv, TemplateTypeOK
  <2>2. Get(id, 0) \in Marks(defs[id])
    BY <2>1, GetIsGetIn, NumberedGet
  <2> QED BY <2>2 DEF Marks
<1> QED BY <1>1, TemplateInvariant, PTL

(* What a version's number renders to never changes, whatever is added or   *)
(* published (template.Service).                                            *)
THEOREM VersionsNeverChange == CatalogSpec => VersionsAreImmutable
<1> DEFINE Same == \A id \in plain : \A v \in 1 .. Len(defs[id]) :
                     LET i == Get(id, v) IN
                     i # 0 => /\ Get(id, v)' # 0
                              /\ defs'[id][Get(id, v)'].text = defs[id][i].text
<1>1. TemplateInv /\ [CatalogWrite \/ CatalogRead]_catalogVars => [Same]_templateVars
  <2> SUFFICES ASSUME TemplateInv, [CatalogWrite \/ CatalogRead]_catalogVars PROVE Same
    OBVIOUS
  <2> QED BY StepsOfParts, ImmutableStep
<1> QED BY <1>1, TemplateInvariant, PTL DEF CatalogSpec, VersionsAreImmutable

(* A template loses its current version only to a Publish that answered     *)
(* with an error, for definitions with uploaded numbers too.                *)
THEOREM WithdrawalsAreReported == CatalogSpec => OnlyFailureWithdraws
<1> DEFINE Told == \A id \in TemplateIds :
                     defs[id] # NoTemplate /\ Get(id, 0) # 0 /\ Get(id, 0)' = 0
                       => answer' = "version not found"
<1>1. TemplateInv /\ [CatalogWrite \/ CatalogRead]_catalogVars => [Told]_templateVars
  <2> SUFFICES ASSUME TemplateInv, [CatalogWrite \/ CatalogRead]_catalogVars PROVE Told
    OBVIOUS
  <2> QED BY StepsOfParts, WithdrawStep
<1> QED BY <1>1, TemplateInvariant, PTL DEF CatalogSpec, OnlyFailureWithdraws
=============================================================================
