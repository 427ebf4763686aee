SPECIFICATION Spec
CONSTANTS
  Proc = {p1, p2}
  initproc = p1
  NoProc = NoProc
  NBUF = 3
  Block = {b1, b2, b3}
  NoBlock = NoBlock
  Value = {0, 1}
  Zero = 0
  Recovered = {b1}
  MAXLOG = 1
  REFMOD = 8
INVARIANTS OneUser
