CONSTANTS
  MaxInt = 9
  Duration <- MCDuration
  Attempt <- MCAttempt
  RetryMinBackoff = 3
  RetryMaxBackoff = 8
  MaxRetries = 3
  MaxBatchSize = 2
  BatchBounds <- MCBatchBounds
  LatencyBounds <- MCLatencyBounds
  Milli = 8
  MaxSend = 1
  MaxFlushes = 2
SPECIFICATION FairSpec
INVARIANTS DelayBounded ConsistentPage ExactAtRest WaitsAddUp
PROPERTY FlushEnds
