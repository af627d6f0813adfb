SPECIFICATION Spec
CONSTANTS
  e1 = e1
  e2 = e2
  b1 = b1
  b2 = b2
  t1 = t1
  imported = imported
  s1 = s1
  s2 = s2
  r1 = r1
  None = None
  Entries = {e1, e2}
  Bodies <- TwoBodies
  Titles <- TwoTitles
  TitleOf <- OneTitle
  Sweepers = {s1, s2}
  Readers = {r1}
  BatchSize = 1
INVARIANT ComparedWithinScheme
INVARIANT CutoverIsComplete
INVARIANT VectorDescribesText
SYMMETRY Symmetry
CHECK_DEADLOCK FALSE
