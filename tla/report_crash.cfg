\* One crash: a resumed run extends a report that misses a line.
SPECIFICATION Spec
CONSTANTS
  r1 = r1
  r2 = r2
  r3 = r3
  reader = reader
  NoRun = NoRun
  Runs <- TwoRuns
  Readers = {}
  PlainPayload <- PlainOnly
  MaxEvents = 3
  MaxFaults = 1
  MaxEdits = 0
INVARIANT ReturnedIsReported
CHECK_DEADLOCK FALSE
