\* Up to two notifications, one a replay, that wait, retry and share the queue, the workers and the file, against every fault.
SPECIFICATION Spec
CONSTANTS
  k1 = k1
  k2 = k2
  Nil = Nil
  Ids = {n1, n2}
  Keys = {k1, k2}
  Ptrs = {p1, p2}
  Requests <- ScheduledRequest
  ReceiptEvents <- OneReceipt
  QueueCapacity = 1
  Concurrency = 2
  MaxAttempts = 1
  BucketCapacity = 1
  Faults = {"crash", "disk", "outage"}
  MaxClock = 1
  MaxVersion = 3
  MaxCalls = 1
SYMMETRY Symmetry
CHECK_DEADLOCK FALSE
INVARIANTS
  TypeOK
  OneCopy
  ClaimIsDurable
  CanceledStaysOut
  OneNotificationPerKey
PROPERTIES
  OnlyFullStrands
  KeepsPromise
