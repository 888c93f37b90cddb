\* A client submits under a new key with the id of a stored notification.
SPECIFICATION Spec
CONSTANTS
  Ids = {n1}
  Keys = {k1, k2}
  Addresses = {"a"}
  Nil = Nil
  ClientIds = {n1}
  Moves <- SomeMoves
  Sources = {x}
  Reports <- SomeReports
  Faults = {}
  MaxEvents = 3
CHECK_DEADLOCK FALSE
PROPERTY VersionsNeverFall
