SPECIFICATION Spec
CONSTANTS
  p1 = p1
  p2 = p2
  a = a
  b = b
  i1 = i1
  i2 = i2
  i3 = i3
  Procs = {p1, p2}
  NoProc = NoProc
  Marks = {a, b}
  Inodes = {i1, i2, i3}
  NoInode = NoInode
  Chunks = 2
  PowerCuts = TRUE
SYMMETRY Symmetric
INVARIANTS SavedSurvives
PROPERTIES ImplementsDurableState
