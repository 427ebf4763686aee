-------------------------------- MODULE Log --------------------------------
(***************************************************************************)
(* kernel/log.c: the write-ahead log that groups file system calls into    *)
(* transactions, with the disk below it, the cached copies of the blocks   *)
(* (kernel/bio.c, seen from the log) and crashes at any point.             *)
(*                                                                         *)
(* A critical section of log.lock is one step; every disk write is a step  *)
(* of its own, because virtio_disk_rw() sleeps and a crash may come        *)
(* between two of them.  The log area is read and written through the      *)
(* cache too, but always written through before its buffer is released,    *)
(* so only its disk copy is kept.  Reference counts are modelled in Bio.   *)
(***************************************************************************)
EXTENDS Integers, Sequences, FiniteSets

CONSTANTS
  Proc,          \* processes that make file system calls
  initproc,      \* the process that runs fsinit(), hence initlog()
  Block,         \* home blocks, outside the log
  Value,         \* contents of a block
  Zero,          \* contents of a block mkfs wrote as zeroes
  NotCached,     \* marks a block that has no buffer
  LOGSIZE,       \* length of logheader.block[]
  MAXOPBLOCKS,   \* what begin_op() reserves for a system call
  NLOG,          \* blocks of the on-disk log, the header included (log.size)
  OPBLOCKS,      \* distinct blocks a system call really writes
  OPWRITES       \* bound: calls of log_write() by one system call

ASSUME LogConstants ==
  /\ IsFiniteSet(Proc) /\ initproc \in Proc /\ Zero \in Value /\ NotCached \notin Value
  /\ LOGSIZE \in Nat /\ MAXOPBLOCKS \in Nat /\ NLOG \in Nat
  /\ OPBLOCKS \in Nat /\ OPWRITES \in Nat

VARIABLES
  disk,         \* home blocks on disk
  dhead,        \* the on-disk log header, as the sequence of its block numbers
  dlog,         \* the on-disk log blocks after the header
  cache,        \* contents of each home block's buffer, or NotCached
  pinned,       \* home blocks whose buffer log_write() has pinned
  lh,           \* log.lh, as the sequence of its block numbers
  outstanding,  \* log.outstanding
  committing,   \* log.committing
  pc,           \* where each process is
  tail,         \* its local variable of write_log() and install_trans()
  held,         \* the block whose buffer it has locked and modified, as a set
  wset,         \* blocks its current system call has logged
  writes        \* calls of log_write() by its current system call

diskVars == <<disk, dhead, dlog>>
logVars  == <<lh, outstanding, committing>>
opVars   == <<held, wset, writes>>
vars     == <<disk, dhead, dlog, cache, pinned, lh, outstanding, committing,
              pc, tail, held, wset, writes>>

InOp(p)  == pc[p] \in {"op", "check", "append"}
Free(b)  == \A p \in Proc : b \notin held[p]
Logged   == {lh[i] : i \in 1..Len(lh)}
Up       == \A p \in Proc : pc[p] \notin {"unborn", "rhead", "rinst"}

(* What bread(b) returns: the buffer when cached, the disk otherwise.      *)
Contents(b) == IF cache[b] = NotCached THEN disk[b] ELSE cache[b]

-----------------------------------------------------------------------------
(* Memory as it is at boot: bss is zero, and forkret() of the first        *)
(* process is about to call initlog().                                     *)
BootPc == [p \in Proc |-> IF p = initproc THEN "rhead" ELSE "unborn"]

Init ==
  /\ disk \in [Block -> Value]
  /\ dhead = <<>>
  /\ dlog = [i \in 1..(NLOG - 1) |-> Zero]
  /\ cache = [b \in Block |-> NotCached]
  /\ pinned = {}
  /\ lh = <<>>
  /\ outstanding = 0
  /\ committing = 0
  /\ pc = BootPc
  /\ tail = [p \in Proc |-> 1]
  /\ held = [p \in Proc |-> {}]
  /\ wset = [p \in Proc |-> {}]
  /\ writes = [p \in Proc |-> 0]

(* Power fails: the disk stays, memory goes.                               *)
Crash ==
  /\ cache' = [b \in Block |-> NotCached]
  /\ pinned' = {}
  /\ lh' = <<>>
  /\ outstanding' = 0
  /\ committing' = 0
  /\ pc' = BootPc
  /\ tail' = [p \in Proc |-> 1]
  /\ held' = [p \in Proc |-> {}]
  /\ wset' = [p \in Proc |-> {}]
  /\ writes' = [p \in Proc |-> 0]
  /\ UNCHANGED diskVars

-----------------------------------------------------------------------------
(* The buffer cache under the log: a reader brings a block in, and bget()  *)
(* recycles a buffer that nobody holds or has pinned.                      *)
Bread(b) ==
  /\ Up
  /\ cache[b] = NotCached
  /\ cache' = [cache EXCEPT ![b] = disk[b]]
  /\ UNCHANGED <<diskVars, pinned, logVars, pc, tail, opVars>>

Evict(b) ==
  /\ cache[b] # NotCached
  /\ b \notin pinned
  /\ Free(b)
  /\ cache' = [cache EXCEPT ![b] = NotCached]
  /\ UNCHANGED <<diskVars, pinned, logVars, pc, tail, opVars>>

-----------------------------------------------------------------------------
Goto(p, l) == pc' = [pc EXCEPT ![p] = l]

(* wakeup(&log), with p itself going on at l.                              *)
WakeupAndGoto(p, l) ==
  pc' = [q \in Proc |-> IF q = p THEN l
                        ELSE IF pc[q] = "sleep" THEN "begin" ELSE pc[q]]

(* Mutant: system calls may start while a commit is running.               *)
MayBegin_committing ==
  Len(lh) + (outstanding + 1) * MAXOPBLOCKS <= LOGSIZE

MayBegin ==
  /\ committing = 0
  /\ Len(lh) + (outstanding + 1) * MAXOPBLOCKS <= LOGSIZE

begin_op(p) ==
  /\ pc[p] \in {"idle", "begin"}
  /\ MayBegin
  /\ outstanding' = outstanding + 1
  /\ Goto(p, "op")
  /\ UNCHANGED <<diskVars, cache, pinned, lh, committing, tail, opVars>>

begin_op_sleep(p) ==
  /\ pc[p] \in {"idle", "begin"}
  /\ ~MayBegin
  /\ Goto(p, "sleep")
  /\ UNCHANGED <<diskVars, cache, pinned, logVars, tail, opVars>>

(* A system call locks the buffer of a block (bread) and modifies it.      *)
Modify(p, b, v) ==
  /\ pc[p] = "op"
  /\ writes[p] < OPWRITES
  /\ b \in wset[p] \/ Cardinality(wset[p]) < OPBLOCKS
  /\ Free(b)
  /\ cache' = [cache EXCEPT ![b] = v]
  /\ held' = [held EXCEPT ![p] = {b}]
  /\ writes' = [writes EXCEPT ![p] = @ + 1]
  /\ Goto(p, "check")
  /\ UNCHANGED <<diskVars, pinned, logVars, tail, wset>>

(* The sanity checks at the top of log_write(), made without log.lock.     *)
log_write_check(p) ==
  /\ pc[p] = "check"
  /\ Goto(p, IF Len(lh) >= LOGSIZE \/ Len(lh) >= NLOG - 1 \/ outstanding < 1
             THEN "panic" ELSE "append")
  /\ UNCHANGED <<diskVars, cache, pinned, logVars, tail, opVars>>

(* The critical section of log_write(), and the caller's brelse(): the     *)
(* block is already in the log (absorption), or is added and pinned.       *)
log_write_absorb(p) ==
  /\ pc[p] = "append"
  /\ held[p] \subseteq Logged
  /\ wset' = [wset EXCEPT ![p] = @ \union held[p]]
  /\ held' = [held EXCEPT ![p] = {}]
  /\ Goto(p, "op")
  /\ UNCHANGED <<diskVars, cache, pinned, logVars, tail, writes>>

log_write(p, b) ==
  /\ pc[p] = "append"
  /\ b \in held[p] \ Logged
  /\ lh' = Append(lh, b)
  /\ pinned' = pinned \union {b}
  /\ wset' = [wset EXCEPT ![p] = @ \union {b}]
  /\ held' = [held EXCEPT ![p] = {}]
  /\ Goto(p, "op")
  /\ UNCHANGED <<diskVars, cache, outstanding, committing, tail, writes>>

(* end_op() of the last outstanding system call, which will commit, and    *)
(* of any other, which frees its reservation.                              *)
end_op_last(p) ==
  /\ pc[p] = "op"
  /\ outstanding = 1
  /\ outstanding' = 0
  /\ committing' = 1
  /\ Goto(p, IF committing = 1 THEN "panic" ELSE "commit")
  /\ wset' = [wset EXCEPT ![p] = {}]
  /\ writes' = [writes EXCEPT ![p] = 0]
  /\ UNCHANGED <<diskVars, cache, pinned, lh, tail, held>>

end_op(p) ==
  /\ pc[p] = "op"
  /\ outstanding # 1
  /\ outstanding' = outstanding - 1
  /\ IF committing = 1 THEN Goto(p, "panic") ELSE WakeupAndGoto(p, "idle")
  /\ wset' = [wset EXCEPT ![p] = {}]
  /\ writes' = [writes EXCEPT ![p] = 0]
  /\ UNCHANGED <<diskVars, cache, pinned, lh, committing, tail, held>>

-----------------------------------------------------------------------------

(* commit() and the functions it calls, one step per disk write.           *)
commit(p) ==
  /\ pc[p] = "commit"
  /\ Goto(p, IF Len(lh) > 0 THEN "wlog" ELSE "endc")
  /\ tail' = [tail EXCEPT ![p] = 1]
  /\ UNCHANGED <<diskVars, cache, pinned, logVars, opVars>>

write_log(p) ==
  /\ pc[p] = "wlog"
  /\ tail[p] <= Len(lh)
  /\ LET b == lh[tail[p]] IN
       /\ Free(b)
       /\ dlog' = [dlog EXCEPT ![tail[p]] = Contents(b)]
       /\ cache' = [cache EXCEPT ![b] = Contents(b)]
  /\ tail' = [tail EXCEPT ![p] = @ + 1]
  /\ UNCHANGED <<disk, dhead, pinned, logVars, pc, opVars>>

(* Mutant: the header may reach the disk before the blocks it names.       *)
write_head_early(p) ==
  /\ pc[p] = "wlog"
  /\ dhead' = lh
  /\ tail' = [tail EXCEPT ![p] = 1]
  /\ Goto(p, "inst")
  /\ UNCHANGED <<disk, dlog, cache, pinned, logVars, opVars>>

write_head(p) ==
  /\ pc[p] = "wlog"
  /\ tail[p] > Len(lh)
  /\ dhead' = lh
  /\ tail' = [tail EXCEPT ![p] = 1]
  /\ Goto(p, "inst")
  /\ UNCHANGED <<disk, dlog, cache, pinned, logVars, opVars>>

install_trans(p) ==
  /\ pc[p] \in {"inst", "rinst"}
  /\ tail[p] <= Len(lh)
  /\ LET b == lh[tail[p]] IN
       /\ Free(b)
       /\ disk' = [disk EXCEPT ![b] = dlog[tail[p]]]
       /\ cache' = [cache EXCEPT ![b] = dlog[tail[p]]]
       /\ pinned' = pinned \ {b}
  /\ tail' = [tail EXCEPT ![p] = @ + 1]
  /\ UNCHANGED <<dhead, dlog, logVars, pc, opVars>>

erase_head(p) ==
  /\ pc[p] = "inst"
  /\ tail[p] > Len(lh)
  /\ lh' = <<>>
  /\ dhead' = <<>>
  /\ tail' = [tail EXCEPT ![p] = 1]
  /\ Goto(p, "endc")
  /\ UNCHANGED <<disk, dlog, cache, pinned, outstanding, committing, opVars>>

end_commit_silent(p) ==
  /\ pc[p] = "endc"
  /\ committing' = 0
  /\ Goto(p, "idle")
  /\ UNCHANGED <<diskVars, cache, pinned, lh, outstanding, tail, opVars>>

(* The second half of end_op(), after commit() returns.                    *)
end_commit(p) ==
  /\ pc[p] = "endc"
  /\ committing' = 0
  /\ WakeupAndGoto(p, "idle")
  /\ UNCHANGED <<diskVars, cache, pinned, lh, outstanding, tail, opVars>>

-----------------------------------------------------------------------------
(* initlog() and recover_from_log(); only after them can other processes   *)
(* be forked.                                                              *)
read_head(p) ==
  /\ pc[p] = "rhead"
  /\ lh' = dhead
  /\ tail' = [tail EXCEPT ![p] = 1]
  /\ Goto(p, "rinst")
  /\ UNCHANGED <<diskVars, cache, pinned, outstanding, committing, opVars>>

recover_from_log(p) ==
  /\ pc[p] = "rinst"
  /\ tail[p] > Len(lh)
  /\ lh' = <<>>
  /\ dhead' = <<>>
  /\ tail' = [tail EXCEPT ![p] = 1]
  /\ pc' = [q \in Proc |-> "idle"]
  /\ UNCHANGED <<disk, dlog, cache, pinned, outstanding, committing, opVars>>

-----------------------------------------------------------------------------
CommitStep(p) ==
  \/ commit(p) \/ write_log(p) \/ write_head(p) \/ install_trans(p)
  \/ erase_head(p) \/ end_commit(p) \/ read_head(p) \/ recover_from_log(p)

OpStep(p) ==
  \/ log_write_check(p) \/ log_write_absorb(p) \/ \E b \in Block : log_write(p, b)
  \/ end_op_last(p) \/ end_op(p)

Next ==
  \/ \E p \in Proc : begin_op(p) \/ begin_op_sleep(p) \/ OpStep(p) \/ CommitStep(p)
  \/ \E p \in Proc, b \in Block, v \in Value : Modify(p, b, v)
  \/ \E b \in Block : Bread(b) \/ Evict(b)
  \/ Crash

Spec == Init /\ [][Next]_vars

(* A process that is runnable is scheduled again and its disk requests     *)
(* complete; it need not start a system call.  The power fails only        *)
(* finitely often.                                                         *)
Progress(p) ==
  \/ pc[p] = "begin" /\ (begin_op(p) \/ begin_op_sleep(p))
  \/ OpStep(p)
  \/ CommitStep(p)

FairSpec ==
  /\ Spec
  /\ \A p \in Proc : WF_vars(Progress(p))
  /\ <>[][~Crash]_vars

-----------------------------------------------------------------------------
Label == {"unborn", "rhead", "rinst", "idle", "begin", "sleep", "op", "check",
          "append", "commit", "wlog", "inst", "endc", "panic"}

TypeOK ==
  /\ disk \in [Block -> Value]
  /\ dhead \in Seq(Block)
  /\ dlog \in [1..(NLOG - 1) -> Value]
  /\ cache \in [Block -> Value \union {NotCached}]
  /\ pinned \subseteq Block
  /\ lh \in Seq(Block)
  /\ outstanding \in Int
  /\ committing \in {0, 1}
  /\ pc \in [Proc -> Label]
  /\ tail \in [Proc -> Nat \ {0}]
  /\ held \in [Proc -> SUBSET Block]
  /\ wset \in [Proc -> SUBSET Block]
  /\ writes \in [Proc -> Nat]

(* None of the panics of log.c is reached: no transaction outgrows the     *)
(* log ("too big a transaction"), nobody logs outside a transaction, and   *)
(* no system call ends while a commit runs.                                *)
NoPanic == \A p \in Proc : pc[p] # "panic"

(* begin_op() sleeps only while somebody will call wakeup(&log): a system  *)
(* call that has still to end, or a commit that has still to finish.       *)
SleeperHasWaker ==
  (\E p \in Proc : pc[p] = "sleep") => outstanding > 0 \/ committing = 1

(* The refinement: durable is what recover_from_log() would restore.       *)
Recovered(b) ==
  IF \E i \in 1..Len(dhead) : dhead[i] = b
  THEN dlog[CHOOSE i \in 1..Len(dhead) : dhead[i] = b]
  ELSE disk[b]

Durable == [b \in Block |-> Recovered(b)]
Current == IF Up THEN [b \in Block |-> Contents(b)] ELSE Durable
Active  == {p \in Proc : InOp(p)}

(* The log implements AtomicDisk: whatever the moment of a crash, what     *)
(* recovery restores is the state after a whole number of system calls.    *)
Abstract == INSTANCE AtomicDisk WITH durable <- Durable, current <- Current, active <- Active
CrashAtomic == Abstract!Spec

(* A process put to sleep by begin_op() is woken again.                    *)
SleeperIsWoken == \A p \in Proc : pc[p] = "sleep" ~> pc[p] # "sleep"
=============================================================================
