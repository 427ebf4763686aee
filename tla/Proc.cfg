SPECIFICATION FairSpec
CONSTANTS
  NPROC = 4
  MAXPID = 5
  KillPids = {3}
VIEW View
CHECK_DEADLOCK FALSE
INVARIANTS
  NoLostExit
  ReapedOffCpu
PROPERTIES
  KilledExits
