\* A crash while a provider call is in progress.
SPECIFICATION FairSpec
CONSTANTS
  k1 = k1
  k2 = k2
  Nil = Nil
  Ids = {n1}
  Keys = {k1}
  Ptrs = {p1, p2}
  Requests <- OneRequest
  ReceiptEvents <- NoReceipts
  QueueCapacity = 1
  Concurrency = 2
  MaxAttempts = 2
  BucketCapacity = 1
  Faults = {"crash"}
  MaxClock = 1
  MaxVersion = 4
  MaxCalls = 0
CHECK_DEADLOCK FALSE
PROPERTY ProcessingEnds
