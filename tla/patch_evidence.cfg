\* Two files of up to three lines; texts that redact() leaves, joins or blocks out.
SPECIFICATION Spec
CONSTANTS
  a = a
  b = b
  tabbed = tabbed
  w1 = w1
  w2 = w2
  Blank = Blank
  Mask = Mask
  Stray = Stray
  DevNull = DevNull
  NoPath = NoPath
  Paths = {a, b}
  Label <- AsIs
  Texts <- Signed
  Added <- Redacted
  MaxLine = 3
  MaxMatches = 1
  MaxSpan = 2
INVARIANTS TypeOK 
PROPERTY NumbersAreFinal
CHECK_DEADLOCK FALSE
