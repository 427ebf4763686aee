SPECIFICATION MCSpec
CONSTANTS
  Cpu = {c1, c2}
  NoCpu = NoCpu
  NLOCK = 2
  NoProc = NoProc
  Nobody = Nobody
  NoSleeper = NoSleeper
  Sleeper = {s1, s2, s3, s4}
  Proc = {p1, p2, p3}
  NUM = 8
  IdxMod = 16
  ConsReader = {r1, r2}
  INPUT_BUF = 3
  ConsMod = 6
  ConsWriter = {w1, w2}
  Printer = Printer
  Handler = Handler
  UART_TX_BUF_SIZE = 3
  FIFO = 3
  Tags = 7
  MaxN = 2
VIEW View
CHECK_DEADLOCK FALSE
INVARIANTS
  MutualExclusion
  IntrRestored
  NoForgottenWaiter
  DescOwned
  DoneWhenServed
  NoLostLine
  InOrder
  SomeoneSends
PROPERTIES
  IsTty
  IsMutex
