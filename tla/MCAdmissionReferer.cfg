SPECIFICATION Spec
CONSTANTS
  Environment <- OneEnvironment
  Request <- MCRequest
  Event <- MCEvent
  Zone = {"z"}
INVARIANT QueriesStripped
CHECK_DEADLOCK FALSE
