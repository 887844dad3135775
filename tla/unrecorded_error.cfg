\* A citation too long for a challenge, no exception of record_event.
SPECIFICATION Spec
CONSTANTS
  d1 = d1
  d2 = d2
  Policies <- DefaultOnly
  RiskSets <- OneRisk
  Claims <- EveryClaim
  Answers <- Singles
  MaxFaults = 0
INVARIANT OrchestrationErrorsAreRecorded
CHECK_DEADLOCK FALSE
