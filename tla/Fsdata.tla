------------------------------- MODULE Fsdata -------------------------------
(***************************************************************************)
(* The contents of files: balloc, bfree, bmap, itrunc, readi and writei of *)
(* kernel/fs.c under fileread(), filewrite() and open(O_TRUNC), by         *)
(* processes that may share a struct file.                                 *)
(*                                                                         *)
(* readi(), writei() and itrunc() are one step: ip->lock is held, and the  *)
(* bitmap is the only thing they share with the same calls for another     *)
(* inode, where which block is free first does not matter.  A filewrite()  *)
(* is a step for each of its transactions.                                 *)
(***************************************************************************)
EXTENDS Integers, Sequences, SequencesExt, FiniteSets, FiniteSetsExt

CONSTANTS
  Proc,                 \* the byte a process writes is its own number
  Ino,                  \* inodes
  Files,                \* open struct files ...
  ipOf,                 \* ... their inodes ...
  ofile,                \* ... and which of them each process has
  BSIZE, NDIRECT, NINDIRECT, NBLOCK, BPB, MAXOPBLOCKS,
  Lengths               \* bound: bytes of one read() or write()

Block == 1..NBLOCK
MAXFILE == NDIRECT + NINDIRECT

FsdataConstants ==
  /\ ipOf \in [Files -> Ino] /\ ofile \in [Proc -> SUBSET Files] /\ Proc \subseteq Nat \ {0}
  /\ BSIZE \in Nat \ {0} /\ NDIRECT \in Nat \ {0} /\ NINDIRECT \in Nat \ {0}
  /\ NBLOCK \in Nat /\ BPB \in Nat \ {0} /\ MAXOPBLOCKS \in Nat /\ MAXOPBLOCKS > 5

VARIABLES
  used,                 \* the bitmap
  addrs, indirect, size,        \* of each inode; the contents of its indirect block
  data,                 \* the contents of the blocks
  off,                  \* f->off
  pc, file, left,       \* filewrite(): f, n - i
  logged,               \* blocks of the last transaction
  panicked

vars == <<used, addrs, indirect, size, data, off, pc, file, left, logged, panicked>>
callVars == <<pc, file, left>>

Zero == [k \in 0..BSIZE - 1 |-> 0]
NoAddrs == [k \in 0..NDIRECT |-> 0]
NoIndirect == [k \in 0..NINDIRECT - 1 |-> 0]

(* mkfs, and files open at their start.                                    *)
Init ==
  /\ used = {}
  /\ addrs = [i \in Ino |-> NoAddrs] /\ indirect = [i \in Ino |-> NoIndirect]
  /\ size = [i \in Ino |-> 0]
  /\ data = [b \in Block |-> Zero]
  /\ off = [f \in Files |-> 0]
  /\ pc = [p \in Proc |-> "user"]
  /\ file = [p \in Proc |-> CHOOSE f \in Files : TRUE]
  /\ left = [p \in Proc |-> 0]
  /\ logged = {} /\ panicked = FALSE

-----------------------------------------------------------------------------
(* The functions of fs.c on st, the state of the disk; at is how far a     *)
(* writei() has come, stop that it goes no further, and panic that the     *)
(* kernel does not either.                                                 *)
Disk(a) ==
  [used |-> used, addrs |-> addrs, indirect |-> indirect, data |-> data,
   log |-> {}, at |-> a, stop |-> FALSE, panic |-> FALSE]

SetDisk(st) ==
  /\ used' = st.used /\ addrs' = st.addrs /\ indirect' = st.indirect
  /\ data' = st.data
  /\ logged' = st.log

Bitmap(b) == <<"bitmap", b \div BPB>>
IsFull(st) == st.used = Block
NextFree(st) == Min(Block \ st.used)

(* balloc(), with bzero(); "balloc: out of blocks" is a panic.             *)
balloc(st) ==
  IF IsFull(st) THEN [st EXCEPT !.stop = TRUE, !.panic = TRUE]
  ELSE LET b == NextFree(st) IN
       [st EXCEPT !.used = @ \union {b}, !.data[b] = Zero,
                  !.log = @ \union {<<"block", b>>, Bitmap(b)}]

bmap_direct(st, i, bn) ==
  IF st.addrs[i][bn] # 0 THEN st
  ELSE [balloc(st) EXCEPT !.addrs[i][bn] = IF IsFull(st) THEN 0 ELSE NextFree(st)]

(* "Load indirect block, allocating if necessary".                         *)
bmap_load(st, i) ==
  IF st.addrs[i][NDIRECT] # 0 THEN st
  ELSE [balloc(st) EXCEPT !.addrs[i][NDIRECT] = IF IsFull(st) THEN 0 ELSE NextFree(st),
                          !.indirect[i] = NoIndirect]

bmap_indirect(st, i, k) ==
  LET s == bmap_load(st, i)
  IN  IF s.stop \/ s.indirect[i][k] # 0 THEN s
      ELSE [balloc(s) EXCEPT !.indirect[i][k] = IF IsFull(s) THEN 0 ELSE NextFree(s),
                             !.log = @ \union {<<"block", s.addrs[i][NDIRECT]>>}]

(* "bmap: out of range" is a panic.                                        *)
bmap(st, i, bn) ==
  IF bn < NDIRECT THEN bmap_direct(st, i, bn)
  ELSE IF bn < MAXFILE THEN bmap_indirect(st, i, bn - NDIRECT)
  ELSE [st EXCEPT !.stop = TRUE, !.panic = TRUE]

AddrOf(st, i, bn) ==
  IF bn < NDIRECT THEN st.addrs[i][bn] ELSE st.indirect[i][bn - NDIRECT]

(* The bytes from..to - 1 of the file, which are in block bn, become d.    *)
Fill(block, bn, from, to, d) ==
  [k \in 0..BSIZE - 1 |-> IF from <= bn * BSIZE + k /\ bn * BSIZE + k < to THEN d ELSE block[k]]

(* A round of writei()'s loop, for the bytes off..end - 1 of a file; the   *)
(* byte fault cannot be read.  log_write() is only called without a fault. *)
write_block(st, i, bn, end, d, fault) ==
  IF st.stop THEN st
  ELSE LET s  == bmap(st, i, bn)
           b  == AddrOf(s, i, bn)
           to == Min({end, (bn + 1) * BSIZE})
       IN  IF s.stop THEN s
           ELSE IF st.at <= fault /\ fault < to
           THEN [s EXCEPT !.stop = TRUE]
           ELSE [s EXCEPT !.data[b] = Fill(@, bn, st.at, to, d),
                          !.log = @ \union {<<"block", b>>}, !.at = to]

(* The loop.                                                               *)
write_blocks(i, o, n, d, fault) ==
  FoldLeft(LAMBDA st, bn : write_block(st, i, bn, o + n, d, fault), Disk(o),
           [k \in 1..((o + n - 1) \div BSIZE - o \div BSIZE + 1) |-> o \div BSIZE + k - 1])

(* When writei() returns -1.                                               *)
Refused(f, n) == off[f] > size[ipOf[f]] \/ off[f] + n > MAXFILE * BSIZE

-----------------------------------------------------------------------------
(* filewrite(): n bytes, some at a time.                                   *)
filewrite(p, f, n) ==
  /\ pc[p] = "user" /\ ~panicked
  /\ pc' = [pc EXCEPT ![p] = "write"]
  /\ file' = [file EXCEPT ![p] = f]
  /\ left' = [left EXCEPT ![p] = n]
  /\ UNCHANGED <<used, addrs, indirect, size, data, off, logged, panicked>>

(* Mutant: nothing is set aside for the bitmap and for unaligned writes.   *)
max_more == (MAXOPBLOCKS - 1 - 1) * BSIZE

(* "write a few blocks at a time to avoid exceeding the maximum log        *)
(* transaction size".                                                      *)
max == ((MAXOPBLOCKS - 1 - 1 - 2) \div 2) * BSIZE

Return(p) ==
  /\ pc' = [pc EXCEPT ![p] = "user"]
  /\ left' = [left EXCEPT ![p] = 0]
  /\ UNCHANGED file

(* Where a copyin() or copyout() of the bytes o..o + n - 1 of a file fails: *)
(* nowhere, or at the first byte for a block.                              *)
Faults(o, n) == {o, o + n} \union {x \in o..o + n - 1 : x % BSIZE = 0}

(* Mutant: the size goes to where the write should have ended.             *)
NewSize_all(i, st, end) == Max({size[i], end})

(* "if(off > ip->size) ip->size = off".                                    *)
NewSize(i, st, end) == Max({size[i], st.at})

(* A transaction of filewrite(): writei() returns -1, or n whatever        *)
(* copyin() does.                                                          *)
write_some(p, fault) ==
  /\ pc[p] = "write" /\ left[p] > 0 /\ ~panicked
  /\ LET f  == file[p]
         i  == ipOf[f]
         n1 == Min({left[p], max})
         st == write_blocks(i, off[f], n1, p, fault)
     IN  /\ fault \in Faults(off[f], n1)
         /\ IF Refused(f, n1)
            THEN /\ Return(p)
                 /\ logged' = {}
                 /\ UNCHANGED <<used, addrs, indirect, size, data, off, panicked>>
            ELSE /\ SetDisk([st EXCEPT !.log = @ \union {<<"inode", i>>}])
                 /\ panicked' = st.panic
                 /\ size' = [size EXCEPT ![i] = NewSize(i, st, off[f] + n1)]
                 /\ off' = [off EXCEPT ![f] = @ + n1]
                 /\ left' = [left EXCEPT ![p] = @ - n1]
                 /\ UNCHANGED <<pc, file>>

write_done(p) ==
  /\ pc[p] = "write" /\ left[p] = 0 /\ ~panicked
  /\ Return(p)
  /\ UNCHANGED <<used, addrs, indirect, size, data, off, logged, panicked>>

(* The bytes readi() reads: none if the offset is behind the end.          *)
ReadCount(f, n) ==
  IF off[f] > size[ipOf[f]] THEN 0 ELSE Min({n, size[ipOf[f]] - off[f]})

(* fileread() is not in a transaction: bmap() must find every block.  When *)
(* a copyout() fails, readi() returns the bytes tot of the blocks before,  *)
(* and the offset goes on by these.                                        *)
fileread(p, f, n, tot) ==
  /\ pc[p] = "user" /\ ~panicked
  /\ tot <= ReadCount(f, n) /\ off[f] + tot \in Faults(off[f], ReadCount(f, n))
  /\ panicked' = \E k \in off[f]..off[f] + Min({tot, ReadCount(f, n) - 1}) :
                   AddrOf(Disk(0), ipOf[f], k \div BSIZE) = 0
  /\ off' = [off EXCEPT ![f] = @ + tot]
  /\ UNCHANGED <<used, addrs, indirect, size, data, callVars, logged>>

(* Mutant: the blocks behind the indirect block are not freed.             *)
BlocksOf_direct(i) == {addrs[i][k] : k \in 0..NDIRECT} \ {0}

(* What itrunc() frees.                                                    *)
BlocksOf(i) ==
  ({addrs[i][k] : k \in 0..NDIRECT}
    \union {indirect[i][k] : k \in IF addrs[i][NDIRECT] = 0 THEN {} ELSE 0..NINDIRECT - 1}) \ {0}

(* open(O_TRUNC), or the iput() of the last link: itrunc(); "freeing free  *)
(* block" is a panic.                                                      *)
itrunc(i) ==
  /\ ~panicked
  /\ used' = used \ BlocksOf(i)
  /\ addrs' = [addrs EXCEPT ![i] = NoAddrs]
  /\ indirect' = [indirect EXCEPT ![i] = NoIndirect]
  /\ size' = [size EXCEPT ![i] = 0]
  /\ logged' = {Bitmap(b) : b \in BlocksOf(i)} \union {<<"inode", i>>}
  /\ panicked' = ~(BlocksOf(i) \subseteq used)
  /\ UNCHANGED <<data, off, callVars>>

-----------------------------------------------------------------------------
Next ==
  \/ \E p \in Proc : \E f \in ofile[p], n \in Lengths :
       filewrite(p, f, n) \/ \E tot \in 0..n : fileread(p, f, n, tot)
  \/ \E p \in Proc, x \in 0..2 * MAXFILE * BSIZE : write_some(p, x)
  \/ \E p \in Proc : write_done(p)
  \/ \E i \in Ino : itrunc(i)

Spec == Init /\ [][Next]_vars

-----------------------------------------------------------------------------
TypeOK ==
  /\ used \subseteq Block
  /\ addrs \in [Ino -> [0..NDIRECT -> Block \union {0}]]
  /\ indirect \in [Ino -> [0..NINDIRECT - 1 -> Block \union {0}]]
  /\ size \in [Ino -> 0..MAXFILE * BSIZE]
  /\ data \in [Block -> [0..BSIZE - 1 -> Proc \union {0}]]
  /\ off \in [Files -> 0..MAXFILE * BSIZE]
  /\ pc \in [Proc -> {"user", "write"}] /\ file \in [Proc -> Files] /\ left \in [Proc -> Nat]
  /\ panicked \in BOOLEAN

(* Every block in the bitmap is a block of exactly one file, in one place, *)
(* and no other block is.                                                  *)
Places == (Ino \X {"direct"} \X (0..NDIRECT)) \union (Ino \X {"indirect"} \X (0..NINDIRECT - 1))
BlockAt(x) == IF x[2] = "direct" THEN addrs[x[1]][x[3]] ELSE indirect[x[1]][x[3]]
BlocksOwnedOnce ==
  LET in == {x \in Places : BlockAt(x) # 0}
  IN  {BlockAt(x) : x \in in} = used /\ Cardinality(in) = Cardinality(used)

(* A transaction of write() or open() needs fewer than the MAXOPBLOCKS     *)
(* blocks of the log that begin_op() reserves for it, as module Log        *)
(* assumes: the blocks of the log are one fewer, for its header.           *)
LogBudget == Cardinality(logged) < MAXOPBLOCKS

Content(i) ==
  [k \in 1..size[i] |->
     LET bn == (k - 1) \div BSIZE
         b  == IF bn < NDIRECT THEN addrs[i][bn] ELSE indirect[i][bn - NDIRECT]
     IN  IF b = 0 THEN 0 ELSE data[b][(k - 1) % BSIZE]]

Abstract == INSTANCE ByteFile WITH
  Byte <- Proc, MaxLen <- MAXFILE * BSIZE, content <- [i \in Ino |-> Content(i)]

(* Files are sequences of bytes: a write changes the bytes it is for and   *)
(* no others, in no other file, and bytes that were not written are not    *)
(* seen.                                                                   *)
IsByteFile == Abstract!Spec
=============================================================================
