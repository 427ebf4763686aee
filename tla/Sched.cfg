SPECIFICATION FairSpec
CONSTANTS
  Cpu = {c1, c2}
  NoCpu = NoCpu
  NPROC = 2
  NoProc = NoProc
  Chan = {ch1}
  MAXCOND = 1
INVARIANTS
  SwitchedOut
  NoLostWakeup
  IntrOfThread
PROPERTIES
  RunnableRuns
