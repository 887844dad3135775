\* Up to three reviewers, one exception, fair scheduling.
SPECIFICATION FairSpec
CONSTANTS
  d1 = d1
  d2 = d2
  Policies <- TwoPolicies
  RiskSets <- SomeRisks
  Claims <- EveryClaim
  Answers <- UpToTwo
  MaxFaults = 1
INVARIANTS TypeOK VerdictIsWarranted FailuresAreRecorded EveryGroupIsDecided ChallengesAreBounded RisksAreReviewed
PROPERTIES ThreadsAreCalls ImplementsRecord Concludes
CHECK_DEADLOCK FALSE
