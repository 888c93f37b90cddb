----------------------------- MODULE Templates ------------------------------
(***************************************************************************)
(* template.Service behind the template handlers: definitions with a list  *)
(* of versions, of which clients publish one by its number and Render uses *)
(* one by its number, or the published one.  A version's texts are one of  *)
(* Texts; rendering itself has no state.                                   *)
(***************************************************************************)
EXTENDS Naturals, Sequences

CONSTANTS
  TemplateIds, Texts,
  ValidTexts,   \* the texts validateVersion lets pass
  Uploads,      \* the Versions lists clients send with a new definition
  NoTemplate,
  MaxVersions   \* bound: versions of a template

Versions == [number : Nat, published : BOOLEAN, text : Texts]

ASSUME TemplateAssumption ==
  /\ ValidTexts \subseteq Texts
  /\ Uploads \subseteq Seq(Versions)
  /\ <<>> \in Uploads
  /\ NoTemplate \notin Seq(Versions)

VARIABLES
  defs,     \* Service.defs, the Versions of each
  plain,    \* history: templates created without versions of their own
  answer    \* what the last call on templates returned

templateVars == <<defs, plain, answer>>

TemplateInit ==
  /\ defs = [id \in TemplateIds |-> NoTemplate]
  /\ plain = {}
  /\ answer = "ok"

(* The uploaded versions are stored as they come, numbers and all. *)
CreateTemplate(id, vs) ==
  /\ defs[id] = NoTemplate
  /\ defs' = [defs EXCEPT ![id] = vs]
  /\ plain' = IF vs = <<>> THEN plain \cup {id} ELSE plain
  /\ answer' = "ok"

validateVersion(text) == text \in ValidTexts

(* Mutants of AddVersion: numbers from 0; the last version is replaced. *)
AddVersionFromZero(id, text, published) ==
  /\ validateVersion(text)
  /\ defs[id] # NoTemplate
  /\ Len(defs[id]) < MaxVersions
  /\ defs' = [defs EXCEPT ![id] =
       Append(@, [number |-> Len(@), published |-> published, text |-> text])]
  /\ answer' = "ok"
  /\ UNCHANGED plain

AddVersionOverLast(id, text, published) ==
  /\ validateVersion(text)
  /\ defs[id] # NoTemplate
  /\ LET n == IF defs[id] = <<>> THEN 1 ELSE Len(defs[id]) IN
       defs' = [defs EXCEPT ![id] =
         Append(SubSeq(@, 1, n - 1), [number |-> n, published |-> published, text |-> text])]
  /\ answer' = "ok"
  /\ UNCHANGED plain

(* The client's number is replaced, its published flag is kept. *)
AddVersion(id, text, published) ==
  /\ validateVersion(text)
  /\ defs[id] # NoTemplate
  /\ Len(defs[id]) < MaxVersions
  /\ defs' = [defs EXCEPT ![id] =
       Append(@, [number |-> Len(@) + 1, published |-> published, text |-> text])]
  /\ answer' = "ok"
  /\ UNCHANGED plain

Marked(vs, version) ==
  [i \in DOMAIN vs |-> [vs[i] EXCEPT !.published = vs[i].number = version]]

(* Mutant of Publish: "found" is not looked at. *)
PublishUnfound(id, version) ==
  /\ defs[id] # NoTemplate
  /\ defs' = [defs EXCEPT ![id] = Marked(@, version)]
  /\ answer' = "ok"
  /\ UNCHANGED plain

(* The loop writes to the slice that defs holds, so the flags have changed  *)
(* even when no version has the number and the call fails.                  *)
Publish(id, version) ==
  /\ defs[id] # NoTemplate
  /\ defs' = [defs EXCEPT ![id] = Marked(@, version)]
  /\ answer' = IF \E i \in DOMAIN defs[id] : defs[id][i].number = version
                 THEN "ok" ELSE "version not found"
  /\ UNCHANGED plain

(* The number Get(id, 0) looks for: that of the last published version.     *)
Current(id) ==
  LET pub == {i \in DOMAIN defs[id] : defs[id][i].published}
  IN IF pub = {} THEN 0
     ELSE defs[id][CHOOSE i \in pub : \A j \in pub : j <= i].number

(* The position of the version Get(id, version) returns, 0 for an error:    *)
(* the first of that number.                                                *)
Get(id, version) ==
  LET n == IF version = 0 THEN Current(id) ELSE version
      hits == {i \in DOMAIN defs[id] : defs[id][i].number = n}
  IN IF hits = {} THEN 0 ELSE CHOOSE i \in hits : \A j \in hits : i <= j

TemplateWrite ==
  \E id \in TemplateIds :
    \/ \E vs \in Uploads : CreateTemplate(id, vs)
    \/ \E t \in Texts, b \in BOOLEAN : AddVersion(id, t, b)
    \/ \E v \in 0 .. MaxVersions : Publish(id, v)

TemplateSpec == TemplateInit /\ [][TemplateWrite]_templateVars

TemplateTypeOK ==
  /\ defs \in [TemplateIds -> Seq(Versions) \cup {NoTemplate}]
  /\ plain \in SUBSET TemplateIds
  /\ answer \in {"ok", "version not found"}

(* What is rendered for "the current version" is a published one, whatever  *)
(* was added or published before: the two loops of Get, by flag and then by *)
(* number, meet.  (For templates whose versions were all added: numbers a   *)
(* client uploads with a definition may repeat, and Get then returns the    *)
(* first of the number, published or not.)                                  *)
CurrentIsPublished ==
  \A id \in plain : Get(id, 0) # 0 => defs[id][Get(id, 0)].published

(* A version once added keeps its number and its text: what a number        *)
(* renders to never changes.                                                *)
VersionsAreImmutable ==
  [][\A id \in plain : \A v \in 1 .. Len(defs[id]) :
       LET i == Get(id, v) IN
       i # 0 => /\ Get(id, v)' # 0
                /\ defs'[id][Get(id, v)'].text = defs[id][i].text]_templateVars

(* A template that has a current version is left without one only by a      *)
(* Publish that answers with an error: no call that succeeds takes the      *)
(* current version away.                                                    *)
OnlyFailureWithdraws ==
  [][\A id \in TemplateIds :
       defs[id] # NoTemplate /\ Get(id, 0) # 0 /\ Get(id, 0)' = 0
         => answer' = "version not found"]_templateVars
=============================================================================
