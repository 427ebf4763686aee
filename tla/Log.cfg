SPECIFICATION FairSpec
CONSTANTS
  NotCached = NotCached
  Proc = {p1, p2}
  initproc = p1
  Block = {b1, b2, b3}
  Value = {0, 1}
  Zero = 0
  LOGSIZE = 4
  MAXOPBLOCKS = 2
  NLOG = 4
  OPBLOCKS = 1
  OPWRITES = 2
INVARIANTS
  NoPanic
PROPERTIES
  CrashAtomic
  SleeperIsWoken
