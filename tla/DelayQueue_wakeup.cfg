\* Three items, a heap of two, times 0 to 3.
SPECIFICATION FairSpec
CONSTANTS
  Items = {i1, i2, i3}
  Nil = Nil
  Limit = 2
  Capacity = 1
  MaxTime = 3
CHECK_DEADLOCK FALSE
INVARIANTS
  TypeOK
  NoOversleep
PROPERTIES
  OnlyFullDrops
  DueIsReleased
