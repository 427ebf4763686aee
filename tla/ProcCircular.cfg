SPECIFICATION Spec
CONSTANTS
  NPROC = 4
  MAXPID = 5
  KillPids = {}
INVARIANTS
  NoCircularWait
CHECK_DEADLOCK FALSE
