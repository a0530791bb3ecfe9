CONSTANTS
  HttpStatuses = {400, 503}
  ItemStatuses = {201, 429}
  MaxQueueSize = 1
  MaxBatchSize = 1
  MaxEventsPerRequest = 1
  MaxRetries = 1
  MaxEvents = 3
  MaxHandlers = 1
SPECIFICATION CollectorFairSpec
INVARIANTS GracefulExit QueueBounded
PROPERTIES BatcherSpec StopLeadsToExit
CHECK_DEADLOCK FALSE
