SPECIFICATION MCSpec
CONSTANTS
  Proc = {p1, p2, p3}
  NoProc = NoProc
  Inum = {1, 2}
  Name = {a, b}
  NINODE = 3
  Walker = {w1, w2}
  NINODES = 3
  StrayWalks = TRUE
SYMMETRY Symmetry
CHECK_DEADLOCK FALSE
INVARIANTS
  NamesAllocated
