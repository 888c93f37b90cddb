\* Liveness with receipts and client calls, without crashes and failing writes.
SPECIFICATION FairSpec
CONSTANTS
  k1 = k1
  k2 = k2
  Nil = Nil
  Ids = {n1}
  Keys = {k1}
  Ptrs = {p1, p2}
  Requests <- EitherRequest
  ReceiptEvents <- TwoReceipts
  QueueCapacity = 2
  Concurrency = 2
  MaxAttempts = 2
  BucketCapacity = 1
  Faults = {"outage"}
  MaxClock = 1
  MaxVersion = 5
  MaxCalls = 2
CHECK_DEADLOCK FALSE
INVARIANTS
  SendBudget
  QueuedIsHeld
  ProcessingIsHeld
PROPERTIES
  ETagIdentifiesContent
  Settles
