SPECIFICATION Spec
CONSTANTS
  d1 = d1
  d2 = d2
  c1 = c1
  c2 = c2
  p1 = p1
  p2 = p2
  None = None
  Other = Other
  Docs = {d1, d2}
  Contents = {c1, c2}
  Names = {n1}
  Existing = {x1}
  Bodies = {b1}
  Proposed = {p1, p2}
  Synths = {s1}
  Desks = {r1}
  MaxBundles = 1
  MaxEdits = 1
CHECK_DEADLOCK FALSE
INVARIANT MarkIsWhatWasRead
