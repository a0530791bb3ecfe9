CONSTANTS
  HttpStatuses = {503}
  ItemStatuses = {201, 429}
  MaxQueueSize = 2
  MaxBatchSize = 2
  MaxEventsPerRequest = 2
  MaxRetries = 1
  MaxEvents = 2
SPECIFICATION Spec
INVARIANT OnlyPendingRestored
CHECK_DEADLOCK FALSE
