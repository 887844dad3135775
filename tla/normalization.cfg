\* Up to four findings with two titles, over three lines.
SPECIFICATION Spec
CONSTANTS
  t1 = t1
  t2 = t2
  p1 = p1
  Titles <- TwoTitles
  Paths <- OnePath
  MaxLine = 3
  MaxFindings = 4
INVARIANTS TypeOK IdsAreDistinct SpanIsCited GroupsAreDefects
CHECK_DEADLOCK FALSE
