\* Two notifications with timelines of up to three events, one source of receipts, failing writes and crashes.
SPECIFICATION Spec
CONSTANTS
  Ids = {n1, n2}
  Keys = {k1, k2}
  Addresses = {"a"}
  Nil = Nil
  ClientIds = {}
  Moves <- SomeMoves
  Sources = {x}
  Reports <- SomeReports
  Faults = {"crash", "disk"}
  MaxEvents = 3
SYMMETRY Symmetry
CHECK_DEADLOCK FALSE
INVARIANTS
  TypeOK
  StatusIsLastEvent
  EventsAreIdentified
  OutboxIsComplete
  FileIsPast
  AcknowledgedIsSaved
