\* Three runs and one summary command, two faults, one removal of the report.
SPECIFICATION Spec
CONSTANTS
  r1 = r1
  r2 = r2
  r3 = r3
  reader = reader
  NoRun = NoRun
  Runs <- ThreeRuns
  Readers <- OneReader
  PlainPayload <- PlainOnly
  MaxEvents = 3
  MaxFaults = 2
  MaxEdits = 1
INVARIANTS TypeOK AtMostOneExecution VerdictIsBacked ReturnedIsClosed SummaryIsFaithful
PROPERTIES ClosedIsFinal ImplementsRecord
SYMMETRY RunSymmetry
CHECK_DEADLOCK FALSE
