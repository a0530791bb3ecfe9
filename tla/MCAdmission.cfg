SPECIFICATION Spec
CONSTANTS
  Environment <- MCEnvironment
  Request <- MCRequest
  Event <- MCEvent
  Zone = {"z"}
INVARIANTS ConfigSound DomainDecision SiteBinding UrlStillMatches UrlsSanitized  PayloadVerdict ZoneVerdict BodyVerdict
CHECK_DEADLOCK FALSE
