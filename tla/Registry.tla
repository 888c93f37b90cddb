------------------------------ MODULE Registry ------------------------------
(***************************************************************************)
(* provider.Registry: provider configurations that are registered once and *)
(* then changed under a version check.  A configuration is what its owner  *)
(* chose (one of Settings; Validate refuses those outside ValidSettings),  *)
(* whether it is enabled, and its version.  Calls that return an error     *)
(* change nothing and are left out.                                        *)
(***************************************************************************)
EXTENDS Naturals

CONSTANTS
  ConfigIds, Settings, ValidSettings, NoConfig,
  MaxConfigVersion   \* bound: the highest version written

Configurations ==
  [id : ConfigIds, settings : Settings, enabled : BOOLEAN, version : Nat]

ASSUME RegistryAssumption ==
  ValidSettings \subseteq Settings /\ NoConfig \notin Configurations

VARIABLES
  configs,   \* Registry.configs
  read       \* a copy some client has got from Get or List, or NoConfig

RegistryInit ==
  /\ configs = [id \in ConfigIds |-> NoConfig]
  /\ read = NoConfig

Validate(s) == s \in ValidSettings

Register(id, s, e) ==
  /\ Validate(s)
  /\ configs[id] = NoConfig
  /\ configs' = [configs EXCEPT ![id] =
        [id |-> id, settings |-> s, enabled |-> e, version |-> 1]]
  /\ UNCHANGED read

(* Update with the version the caller expects. *)
UpdateConfig(id, s, e, expected) ==
  /\ Validate(s)
  /\ configs[id] # NoConfig
  /\ configs[id].version = expected
  /\ expected < MaxConfigVersion
  /\ configs' = [configs EXCEPT ![id] =
        [id |-> id, settings |-> s, enabled |-> e, version |-> expected + 1]]
  /\ UNCHANGED read

(* Mutant of SetEnabled: the version stays. *)
SetEnabledSilently(id, e, expected) ==
  /\ configs[id] # NoConfig
  /\ configs[id].version = expected
  /\ configs' = [configs EXCEPT ![id].enabled = e]
  /\ UNCHANGED read

SetEnabled(id, e, expected) ==
  /\ configs[id] # NoConfig
  /\ configs[id].version = expected
  /\ expected < MaxConfigVersion
  /\ configs' = [configs EXCEPT ![id].enabled = e, ![id].version = @ + 1]
  /\ UNCHANGED read

(* Get, or one element of List: the client keeps the copy for any time. *)
GetConfig(id) ==
  /\ configs[id] # NoConfig
  /\ read' = configs[id]
  /\ UNCHANGED configs

RegistryWrite ==
  \E id \in ConfigIds, e \in BOOLEAN :
    \/ \E s \in Settings : Register(id, s, e)
    \/ \E s \in Settings, v \in 1 .. MaxConfigVersion : UpdateConfig(id, s, e, v)
    \/ \E v \in 1 .. MaxConfigVersion : SetEnabled(id, e, v)

RegistryRead == \E id \in ConfigIds : GetConfig(id)

RegistrySpec ==
  RegistryInit /\ [][RegistryWrite \/ RegistryRead]_<<configs, read>>

RegistryTypeOK ==
  /\ configs \in [ConfigIds -> Configurations \cup {NoConfig}]
  /\ \A id \in ConfigIds : configs[id] # NoConfig => configs[id].id = id
  /\ read \in Configurations \cup {NoConfig}

(* The version check of Update and SetEnabled is enough: a client whose     *)
(* copy has the stored version holds the stored configuration, however many *)
(* others changed it in between, so no write that passes the check undoes   *)
(* one its author has not seen.                                             *)
ConfigVersionNamesContent ==
  read # NoConfig =>
    /\ configs[read.id] # NoConfig
    /\ read.version <= configs[read.id].version
    /\ read.version = configs[read.id].version => read = configs[read.id]
=============================================================================
