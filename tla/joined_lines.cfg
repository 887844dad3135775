\* A line ends in "token:", and redaction takes the next line in.
SPECIFICATION Spec
CONSTANTS
  a = a
  b = b
  tabbed = tabbed
  w1 = w1
  w2 = w2
  Blank = Blank
  Mask = Mask
  Stray = Stray
  DevNull = DevNull
  NoPath = NoPath
  Paths = {a}
  Label <- AsIs
  Texts <- WithJoined
  Added <- WithJoined
  MaxLine = 3
  MaxMatches = 1
  MaxSpan = 2
INVARIANT NumberedExactly
CHECK_DEADLOCK FALSE
