\* Two runs, one fault, one removal, fair scheduling.
SPECIFICATION FairSpec
CONSTANTS
  r1 = r1
  r2 = r2
  r3 = r3
  reader = reader
  NoRun = NoRun
  Runs <- TwoRuns
  Readers = {}
  PlainPayload <- AnyPayload
  MaxEvents = 3
  MaxFaults = 1
  MaxEdits = 1
PROPERTIES WaitersGetThrough AbandonedIsClosed
CHECK_DEADLOCK FALSE
