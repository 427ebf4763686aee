SPECIFICATION Spec
CONSTANTS
  Proc = {p1, p2}
  initproc = p1
  NoProc = NoProc
  NBUF = 2
  Block = {b1, b2, b3}
  NoBlock = NoBlock
  Value = {0, 1}
  Zero = 0
  Recovered = {}
  MAXLOG = 1
  REFMOD = 8
SYMMETRY Symmetry
CHECK_DEADLOCK FALSE
INVARIANTS
  OneUser
  ReadsLatest
