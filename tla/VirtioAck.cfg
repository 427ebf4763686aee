SPECIFICATION FairSpec
CONSTANTS
  Proc = {p1, p2}
  NoProc = NoProc
  NUM = 8
  IdxMod = 8
CHECK_DEADLOCK FALSE
PROPERTIES
  RequestFinishes
