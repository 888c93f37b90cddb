\* A pause or a receipt during Provider.Send is overwritten by the retry.
SPECIFICATION Spec
CONSTANTS
  k1 = k1
  k2 = k2
  Nil = Nil
  Ids = {n1}
  Keys = {k1}
  Ptrs = {p1, p2}
  Requests <- OneRequest
  ReceiptEvents <- TwoReceipts
  QueueCapacity = 1
  Concurrency = 2
  MaxAttempts = 2
  BucketCapacity = 1
  Faults = {}
  MaxClock = 1
  MaxVersion = 4
  MaxCalls = 1
CHECK_DEADLOCK FALSE
PROPERTY ProcessingOnlyFromQueued
