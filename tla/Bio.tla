-------------------------------- MODULE Bio --------------------------------
(***************************************************************************)
(* kernel/bio.c: the buffer cache.  Buffers are found by block number,     *)
(* counted (refcnt), locked (b->lock) and recycled in LRU order; the log   *)
(* pins a buffer that must not be recycled before it is installed.         *)
(*                                                                         *)
(* A critical section of bcache.lock is one step.  The use of a buffer     *)
(* between bget() and brelse() is what log.c does with it: a read, a write *)
(* with log_write(), or an install with install_trans().  At boot initproc *)
(* installs the blocks that the on-disk log header names.                  *)
(***************************************************************************)
EXTENDS Integers, FiniteSets

CONSTANTS
  Proc,
  initproc,    \* the process that recovers the log at boot
  NoProc,      \* owner of a free sleep lock
  NBUF,
  Block,
  NoBlock,     \* block number of a buffer that was never used
  Value,
  Zero,        \* contents of a buffer that was never used
  Recovered,   \* blocks named by the on-disk log header at boot
  MAXLOG,      \* bound: blocks in the log at once
  REFMOD       \* 2^32, the range of the uint refcnt

Buf == 1..NBUF

ASSUME BioConstants ==
  /\ IsFiniteSet(Proc) /\ initproc \in Proc /\ NoProc \notin Proc
  /\ NBUF \in Nat \ {0} /\ NoBlock \notin Block /\ Recovered \subseteq Block
  /\ Zero \in Value /\ MAXLOG \in Nat /\ REFMOD \in Nat /\ REFMOD > 1

VARIABLES
  blockno, valid, refcnt, data,   \* the fields of each buffer
  lock,        \* who holds each buffer's sleep lock
  pos,         \* its place in the LRU list; bcache.head.next is at 1
  disk,
  logged,      \* blocks in the log: log_write() calls not yet installed
  dlog,        \* what the log holds for them
  recovering,  \* blocks the recovery at boot has still to finish
  pc,
  want,        \* the block each process asked bread() for
  buf          \* the buffer bget() gave it

bufVars  == <<blockno, valid, refcnt, data, lock, pos>>
diskVars == <<disk, logged, dlog, recovering>>
vars     == <<blockno, valid, refcnt, data, lock, pos, disk, logged, dlog,
              recovering, pc, want, buf>>

(* binit() puts each buffer in front of the ones before it.                *)
Init ==
  /\ blockno = [i \in Buf |-> NoBlock]
  /\ valid = [i \in Buf |-> 0]
  /\ refcnt = [i \in Buf |-> 0]
  /\ data = [i \in Buf |-> Zero]
  /\ lock = [i \in Buf |-> NoProc]
  /\ pos = [i \in Buf |-> NBUF + 1 - i]
  /\ disk \in [Block -> Value]
  /\ logged = Recovered
  /\ dlog \in [Block -> Value]
  /\ recovering = Recovered
  /\ pc = [p \in Proc |-> "idle"]
  /\ want = [p \in Proc |-> NoBlock]
  /\ buf = [p \in Proc |-> 1]

Goto(p, l) == pc' = [pc EXCEPT ![p] = l]

(* Until recovery is over initproc is alone and reads what it recovers.    *)
MayRead(p, b) == recovering = {} \/ (p = initproc /\ b \in recovering)

Cached(b) == \E i \in Buf : blockno[i] = b

-----------------------------------------------------------------------------
(* bget() of a cached block: the first buffer of the list that holds it.   *)
bget_cached(p, b, i) ==
  /\ pc[p] = "idle"
  /\ MayRead(p, b)
  /\ blockno[i] = b
  /\ \A j \in Buf : blockno[j] = b => pos[i] <= pos[j]
  /\ refcnt' = [refcnt EXCEPT ![i] = (@ + 1) % REFMOD]
  /\ want' = [want EXCEPT ![p] = b]
  /\ buf' = [buf EXCEPT ![p] = i]
  /\ Goto(p, "want")
  /\ UNCHANGED <<blockno, valid, data, lock, pos, diskVars>>

(* Mutant: the search for an unused buffer ignores the reference count of  *)
(* buffers that are not locked.                                            *)
bget_recycle_unlocked(p, b, i) ==
  /\ pc[p] = "idle"
  /\ MayRead(p, b)
  /\ ~Cached(b)
  /\ lock[i] = NoProc
  /\ \A j \in Buf : lock[j] = NoProc => pos[j] <= pos[i]
  /\ blockno' = [blockno EXCEPT ![i] = b]
  /\ valid' = [valid EXCEPT ![i] = 0]
  /\ refcnt' = [refcnt EXCEPT ![i] = 1]
  /\ want' = [want EXCEPT ![p] = b]
  /\ buf' = [buf EXCEPT ![p] = i]
  /\ Goto(p, "want")
  /\ UNCHANGED <<data, lock, pos, diskVars>>

(* bget() of a block that is not cached: the unused buffer that is last.   *)
bget_recycle(p, b, i) ==
  /\ pc[p] = "idle"
  /\ MayRead(p, b)
  /\ ~Cached(b)
  /\ refcnt[i] = 0
  /\ \A j \in Buf : refcnt[j] = 0 => pos[j] <= pos[i]
  /\ blockno' = [blockno EXCEPT ![i] = b]
  /\ valid' = [valid EXCEPT ![i] = 0]
  /\ refcnt' = [refcnt EXCEPT ![i] = 1]
  /\ want' = [want EXCEPT ![p] = b]
  /\ buf' = [buf EXCEPT ![p] = i]
  /\ Goto(p, "want")
  /\ UNCHANGED <<data, lock, pos, diskVars>>

bget_panic(p, b) ==
  /\ pc[p] = "idle"
  /\ MayRead(p, b)
  /\ ~Cached(b)
  /\ \A i \in Buf : refcnt[i] # 0
  /\ Goto(p, "panic")
  /\ UNCHANGED <<bufVars, diskVars, want, buf>>

acquiresleep(p) ==
  /\ pc[p] = "want"
  /\ lock[buf[p]] = NoProc
  /\ lock' = [lock EXCEPT ![buf[p]] = p]
  /\ Goto(p, "locked")
  /\ UNCHANGED <<blockno, valid, refcnt, data, pos, diskVars, want, buf>>

(* The rest of bread(): virtio_disk_rw() of the block b->blockno.          *)
bread(p) ==
  /\ pc[p] = "locked"
  /\ LET i == buf[p] IN
       /\ data' = [data EXCEPT ![i] = IF valid[i] = 1 THEN @ ELSE disk[blockno[i]]]
       /\ valid' = [valid EXCEPT ![i] = 1]
  /\ Goto(p, "held")
  /\ UNCHANGED <<blockno, refcnt, lock, pos, diskVars, want, buf>>

(* Mutant: a block that enters the log is not pinned.                      *)
log_write_unpinned(p, v) ==
  /\ pc[p] = "held"
  /\ recovering = {}
  /\ LET i == buf[p] IN
       /\ blockno[i] \notin logged
       /\ Cardinality(logged) < MAXLOG
       /\ data' = [data EXCEPT ![i] = v]
       /\ logged' = logged \union {blockno[i]}
       /\ dlog' = [dlog EXCEPT ![blockno[i]] = v]
  /\ UNCHANGED <<blockno, valid, refcnt, lock, pos, disk, recovering, pc, want, buf>>

(* The caller changes the buffer and calls log_write(): the block enters   *)
(* the log and is pinned, or is there already.                             *)
log_write(p, v) ==
  /\ pc[p] = "held"
  /\ recovering = {}
  /\ LET i == buf[p] IN
       /\ blockno[i] \notin logged
       /\ Cardinality(logged) < MAXLOG
       /\ data' = [data EXCEPT ![i] = v]
       /\ refcnt' = [refcnt EXCEPT ![i] = (@ + 1) % REFMOD]
       /\ logged' = logged \union {blockno[i]}
       /\ dlog' = [dlog EXCEPT ![blockno[i]] = v]
  /\ UNCHANGED <<blockno, valid, lock, pos, disk, recovering, pc, want, buf>>

log_write_absorb(p, v) ==
  /\ pc[p] = "held"
  /\ recovering = {}
  /\ LET i == buf[p] IN
       /\ blockno[i] \in logged
       /\ data' = [data EXCEPT ![i] = v]
       /\ dlog' = [dlog EXCEPT ![blockno[i]] = v]
  /\ UNCHANGED <<blockno, valid, refcnt, lock, pos, disk, logged, recovering, pc, want, buf>>

(* One round of the loop of install_trans(), in a commit or at recovery:   *)
(* the log's copy goes into the buffer and to disk (bwrite), then bunpin().*)
install_trans(p) ==
  /\ pc[p] = "held"
  /\ LET i == buf[p] IN
       /\ blockno[i] \in logged
       /\ data' = [data EXCEPT ![i] = dlog[blockno[i]]]
       /\ disk' = [disk EXCEPT ![blockno[i]] = dlog[blockno[i]]]
       /\ refcnt' = [refcnt EXCEPT ![i] = (@ - 1) % REFMOD]
       /\ logged' = logged \ {blockno[i]}
  /\ UNCHANGED <<blockno, valid, lock, pos, dlog, recovering, pc, want, buf>>

(* brelse(): releasesleep() first, then the reference under bcache.lock.   *)
(* A buffer nobody refers to any more moves to the front of the list.      *)
releasesleep(p) ==
  /\ pc[p] = "held"
  /\ want[p] \notin recovering \intersect logged
  /\ lock' = [lock EXCEPT ![buf[p]] = NoProc]
  /\ Goto(p, "rel")
  /\ UNCHANGED <<blockno, valid, refcnt, data, pos, diskVars, want, buf>>

ToFront(i) == [j \in Buf |-> IF j = i THEN 1 ELSE
                             IF pos[j] < pos[i] THEN pos[j] + 1 ELSE pos[j]]

brelse(p) ==
  /\ pc[p] = "rel"
  /\ LET i == buf[p] IN
       /\ refcnt' = [refcnt EXCEPT ![i] = (@ - 1) % REFMOD]
       /\ pos' = IF refcnt'[i] = 0 THEN ToFront(i) ELSE pos
  /\ recovering' = recovering \ {want[p]}
  /\ Goto(p, "idle")
  /\ UNCHANGED <<blockno, valid, data, lock, disk, logged, dlog, want, buf>>

-----------------------------------------------------------------------------
Next ==
  \/ \E p \in Proc, b \in Block, i \in Buf : bget_cached(p, b, i) \/ bget_recycle(p, b, i)
  \/ \E p \in Proc, b \in Block : bget_panic(p, b)
  \/ \E p \in Proc, v \in Value : log_write(p, v) \/ log_write_absorb(p, v)
  \/ \E p \in Proc : \/ acquiresleep(p) \/ bread(p) \/ install_trans(p)
                     \/ releasesleep(p) \/ brelse(p)

Spec == Init /\ [][Next]_vars

-----------------------------------------------------------------------------
TypeOK ==
  /\ blockno \in [Buf -> Block \union {NoBlock}]
  /\ valid \in [Buf -> {0, 1}]
  /\ refcnt \in [Buf -> 0..(REFMOD - 1)]
  /\ data \in [Buf -> Value]
  /\ lock \in [Buf -> Proc \union {NoProc}]
  /\ pos \in [Buf -> Buf]
  /\ disk \in [Block -> Value]
  /\ logged \subseteq Block
  /\ dlog \in [Block -> Value]
  /\ recovering \subseteq Block
  /\ pc \in [Proc -> {"idle", "want", "locked", "held", "rel", "panic"}]
  /\ want \in [Proc -> Block \union {NoBlock}]
  /\ buf \in [Proc -> Buf]

Using(p)  == pc[p] \in {"want", "locked", "held", "rel"}
Locked(p) == pc[p] \in {"locked", "held"}

(* A buffer that bget() returned, or is about to return after              *)
(* acquiresleep(), stays the buffer of the block that was asked for until  *)
(* brelse(): it is not recycled under its user.                            *)
BufferNotStolen == \A p \in Proc : Using(p) => blockno[buf[p]] = want[p]

(* No block is ever cached in two buffers, so all users of a block see the *)
(* same copy.                                                              *)
OneCopy == \A i, j \in Buf : blockno[i] = blockno[j] /\ blockno[i] # NoBlock => i = j

(* "Only one process at a time can use a buffer": two processes that are   *)
(* between bread() and brelse() of one block are the same process.         *)
OneUser == \A p, q \in Proc : Locked(p) /\ Locked(q) /\ want[p] = want[q] => p = q

(* What bread() returns is the last contents written: log_write()'s if the *)
(* block is still in the log, otherwise the disk's.                        *)
Latest(b) == IF b \in logged THEN dlog[b] ELSE disk[b]
ReadsLatest == \A p \in Proc : pc[p] = "held" => data[buf[p]] = Latest(want[p])
=============================================================================
