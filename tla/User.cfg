SPECIFICATION MCFairSpec
CONSTANTS
  Reader = {p2}
  Writer = {p1, p2}
  NoProc = NoProc
  Byte = {b0, b1}
  NoByte = NoByte
  PIPESIZE = 2
  Width = 2
  ReadSizes = {2}
  WriteSizes = {3}
  limit = 13
  SieveFiles = 11
  SievePipe = 2
  NSTAGE = 7
  NUNITS = 9
  CORE = 4
  HDR = 2
  Requests = {0, 1, 3, 9}
  Gaps = {1}
  MAXARGS = 3
  NOFILE = 6
  MaxLine = 4
CHECK_DEADLOCK FALSE
INVARIANTS
  NoLostWakeup
  Tiled
  ParsesBack
  Plumbed
PROPERTIES
  IsFifo
  EofSeen
  Sieved
