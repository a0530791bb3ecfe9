CONSTANTS
  Handler = {h1, h2}
  Request <- MCRequest
  MaxRequests = 2
  MaxQueueSize = 3
  MaxBatchSize = 2
  MaxEventsPerRequest = 2
  RequireOrigin = TRUE
  SiteOrigins = TRUE
  RequireURLHostMatch = TRUE
SPECIFICATION FairSpec
INVARIANTS TypeOK WholeRequests CountersBalance
PROPERTY GaugeCatchesUp
CHECK_DEADLOCK FALSE
