SPECIFICATION MCSpec
CONSTANTS
  NPROC = 2
  NFILE = 2
  NOFILE = 2
  Inode = {1}
  NPIPE = 1
  Writer = {1, 2}
  Ino = {1, 2}
  Files = {1, 2}
  BSIZE = 2
  NDIRECT = 1
  NINDIRECT = 3
  NBLOCK = 6
  BPB = 10
  MAXOPBLOCKS = 6
  Lengths = {3, 7}
  VmNPROC = 3
  NPAGE = 17
  PGSIZE = 2
  R2 = 2
  R1 = 2
  R0 = 4
  UINT = 128
  ULONG = 256
  MaxArgs = 1
VIEW View
INVARIANTS
  ClosedOnce
  BlocksOwnedOnce
  LogBudget
  PagesOwnedOnce
  MappedToSize
PROPERTIES
  IsByteFile
CHECK_DEADLOCK FALSE
