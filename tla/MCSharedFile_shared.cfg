\* One notification, submitted to the api; the worker starts meanwhile.
SPECIFICATION SharedSpec
CONSTANTS
  k1 = k1
  Nil = Nil
  Ids = {n1}
  Keys = {k1}
  Ptrs = {p1}
  Requests <- OneRequest
  ReceiptEvents = {}
  QueueCapacity = 1
  Concurrency = 1
  MaxAttempts = 1
  BucketCapacity = 1
  Faults = {"crash"}
  MaxClock = 0
  MaxVersion = 3
  MaxCalls = 0
CHECK_DEADLOCK FALSE
INVARIANT SendBudget
