------------------------------ MODULE Catalogs ------------------------------
(***************************************************************************)
(* The three catalogs an operator maintains through calls in any order:    *)
(* routing policies, provider configurations and templates.  Each is       *)
(* guarded by its own lock, so a call is one step and the calls of any     *)
(* number of clients interleave.                                           *)
(***************************************************************************)
EXTENDS Registry, Policies, Templates

CONSTANT MaxCalls   \* bound: calls that change a catalog

VARIABLE calls      \* how many there have been

registryVars == <<configs, read>>
policyVars   == <<rules, chosen, renewed>>
catalogVars  == <<configs, read, rules, chosen, renewed, defs, plain, answer, calls>>

CatalogInit == RegistryInit /\ PolicyInit /\ TemplateInit /\ calls = 0

CatalogWrite ==
  /\ calls < MaxCalls
  /\ calls' = calls + 1
  /\ \/ RegistryWrite /\ UNCHANGED <<policyVars, templateVars>>
     \/ PolicyWrite /\ UNCHANGED <<registryVars, templateVars>>
     \/ TemplateWrite /\ UNCHANGED <<registryVars, policyVars>>

CatalogRead ==
  /\ UNCHANGED calls
  /\ \/ RegistryRead /\ UNCHANGED <<policyVars, templateVars>>
     \/ PolicyRead /\ UNCHANGED <<registryVars, templateVars>>

CatalogSpec == CatalogInit /\ [][CatalogWrite \/ CatalogRead]_catalogVars

(* Every catalog holds what its type allows, filed under its own id. *)
CatalogTypeOK == RegistryTypeOK /\ PolicyTypeOK /\ TemplateTypeOK /\ calls \in Nat
=============================================================================
