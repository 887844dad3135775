\* Two invocations, two changes by others, one fault.
SPECIFICATION Spec
CONSTANTS
  r1 = r1
  r2 = r2
  b0 = b0
  b1 = b1
  h0 = h0
  h1 = h1
  x = x
  K1 = K1
  K2 = K2
  n1 = n1
  Absent = Absent
  Literal = Literal
  NoConfiguration = NoConfiguration
  Runs <- TwoRuns
  Commits <- AllCommits
  Ancestors <- History
  Tips <- BothTips
  First <- Range1
  Touched <- Paths
  References <- TwoReferences
  Files <- SomeFiles
  Credentials <- SomeCredentials
  Notes <- SomeNotes
  Commands <- SomeCommands
  MaxChanges = 2
  MaxFaults = 1
SYMMETRY RunSymmetry
INVARIANTS TypeOK ComparedIsNamed BoundCanAsk ReturnedIsOwn
CHECK_DEADLOCK FALSE
