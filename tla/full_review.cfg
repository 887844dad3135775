\* Two invocations, up to three files, one fault, fair scheduling.
SPECIFICATION FairSpec
CONSTANTS
  f1 = f1
  f2 = f2
  Nobody = Nobody
  NotGiven = NotGiven
  Runs <- TwoRuns
  Outcomes <- TwoOutcomes
  Requested = 3
  Default = 2
  MaxFiles = 3
  MaxSize = 4
  MaxFaults = 1
INVARIANTS TypeOK ChunksAreThePatch EveryFileIsAccounted
PROPERTIES ChunksAreRecords EveryRunEnds
CHECK_DEADLOCK FALSE
