---------------------------- MODULE MCResources ----------------------------
(***************************************************************************)
(* What processes hold, for TLC: open files, the blocks of files, and the  *)
(* pages of memory.  The three share no state here (an inode of Ftable is  *)
(* only counted, the files of Fsdata stay open), so that one moves in a    *)
(* behaviour and the others stay in their initial states.                  *)
(***************************************************************************)
EXTENDS Ftable, TLC

CONSTANTS
  Writer, Ino, Files,
  BSIZE, NDIRECT, NINDIRECT, NBLOCK, BPB, MAXOPBLOCKS, Lengths,
  VmNPROC, NPAGE, PGSIZE, R2, R1, R0, UINT, ULONG, MaxArgs

VARIABLES
  layer,
  used, addrs, indirect, size, data, off, wpc, file, left, logged, panicked,
  free, fault, state, sz, trapframe, pagetable, vpc, a, old, new, child, npt, nsz, seg, argv

dataVars == <<used, addrs, indirect, size, data, off, wpc, file, left, logged, panicked>>
vmVars == <<free, fault, state, sz, trapframe, pagetable, vpc, a, old, new, child,
            npt, nsz, seg, argv>>

(* Writers 1 and 2 share a struct file, and 2 has a second file open.      *)
MCipOf == [f \in Files |-> f]
MCopen == [p \in Writer |-> IF p = 1 THEN {1} ELSE Files]

D == INSTANCE Fsdata WITH Proc <- Writer, ipOf <- MCipOf, ofile <- MCopen, pc <- wpc

(* Less than a page, several pages, more than there is, and below 0.       *)
MCSbrkArgs == {-(UINT \div 2), -3, 3, (UINT \div 2) - 1}

(* A segment that ends inside a page, one above it, one that overlaps, one *)
(* that is not aligned, one with more bytes in the file, and one whose end *)
(* wraps around.                                                           *)
MCSegments ==
  {<<0, 3, 2>>, <<4, 2, 1>>, <<0, 1, 1>>, <<1, 4, 0>>, <<2, 0, 1>>, <<4, ULONG - 2, 1>>}

V == INSTANCE Vm WITH
  NPROC <- VmNPROC, SbrkArgs <- MCSbrkArgs, Segments <- MCSegments, pc <- vpc

ASSUME FtableAssumption == FtableConstants
ASSUME FsdataAssumption == D!FsdataConstants
ASSUME VmAssumption == V!VmConstants

MCInit == Init /\ D!Init /\ V!Init /\ layer \in {"table", "data", "memory"}

MCNext ==
  /\ UNCHANGED layer
  /\ \/ layer = "table"  /\ Next   /\ UNCHANGED <<dataVars, vmVars>>
     \/ layer = "data"   /\ D!Next /\ UNCHANGED <<vars, vmVars>>
     \/ layer = "memory" /\ V!Next /\ UNCHANGED <<vars, dataVars>>

MCSpec == MCInit /\ [][MCNext]_<<layer, vars, dataVars, vmVars>>

(* Nothing reads f->ip of a free struct file; the numbers of blocks matter *)
(* only in that no two places have the same; and pages are interchangeable *)
(* as long as each has one holder.                                         *)
View ==
  << layer,
     IF layer = "table"
     THEN << ref, type, [f \in File |-> IF type[f] = NoType THEN NoObject ELSE obj[f]],
             ofile, iref, ends, alive, pc, rf, wf, ip, todo, fd, np >>
     ELSE <<>>,
     IF layer = "data"
     THEN << [x \in D!Places |-> LET b == D!BlockAt(x) IN IF b = 0 THEN <<>> ELSE data[b]],
             size, off, wpc, left, [p \in Writer |-> IF wpc[p] = "user" THEN 1 ELSE file[p]],
             D!LogBudget, panicked, D!BlocksOwnedOnce >>
     ELSE <<>>,
     IF layer = "memory"
     THEN << V!PagesOwnedOnce, Cardinality(free), fault, state, sz,
             [p \in V!Proc |-> DOMAIN pagetable[p]], vpc, a, old, new, child,
             [p \in V!Proc |-> DOMAIN npt[p]], nsz, seg,
             [p \in V!Proc |-> Cardinality(argv[p])] >>
     ELSE <<>> >>

-----------------------------------------------------------------------------
(* balloc() and bfree() keep the bitmap exact: every used block is in one  *)
(* place of one file.                                                      *)
BlocksOwnedOnce == D!BlocksOwnedOnce

(* Every transaction of filewrite() or itrunc() logs less than MAXOPBLOCKS. *)
LogBudget == D!LogBudget

(* readi(), writei() and itrunc() implement the byte sequences of ByteFile. *)
IsByteFile == D!IsByteFile

(* kalloc(), kfree() and the page tables share out memory: every page is   *)
(* free or in one place.                                                   *)
PagesOwnedOnce == V!PagesOwnedOnce

(* A process has exactly the pages below p->sz, and no cleanup panics.     *)
MappedToSize == V!MappedToSize
=============================================================================
