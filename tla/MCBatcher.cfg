CONSTANTS
  HttpStatuses = {400, 503}
  ItemStatuses = {201, 400, 409, 429}
  MaxQueueSize = 2
  MaxBatchSize = 2
  MaxEventsPerRequest = 2
  MaxRetries = 1
  MaxEvents = 3
SPECIFICATION FairSpec
INVARIANTS NothingVanishes ArrivalOrder VerdictFinal CountersExact StoredOnce IndexedIsStored WakeupNotLost
PROPERTIES EventuallySettled CancelReturns
CHECK_DEADLOCK FALSE
