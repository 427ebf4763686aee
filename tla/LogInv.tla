------------------------------- MODULE LogInv -------------------------------
(***************************************************************************)
(* The inductive invariant of Log: why no transaction outgrows the log,    *)
(* and why a crash loses whole system calls only.  LogProofs proves it for *)
(* every value of the constants.                                           *)
(***************************************************************************)
EXTENDS Log

(* The sizes that make the log large enough.  As configured LOGSIZE and    *)
(* NLOG are 30 and MAXOPBLOCKS is 10 (param.h, mkfs.c), so a system call   *)
(* may write 9 distinct blocks; filewrite() keeps its calls within 7.      *)
ASSUME LargeEnough ==
  /\ OPBLOCKS < MAXOPBLOCKS
  /\ MAXOPBLOCKS < LOGSIZE
  /\ LOGSIZE <= NLOG

Committer(p) == pc[p] \in {"commit", "wlog", "inst", "endc"}
Recoverer(p) == pc[p] \in {"rhead", "rinst"}

(* Who may run: initproc alone until recovery is over; then any number of  *)
(* system calls or one committer.                                          *)
Control ==
  /\ Up \/ /\ Recoverer(initproc)
           /\ \A p \in Proc \ {initproc} : pc[p] = "unborn"
           /\ committing = 0
  /\ \A p \in Proc : Committer(p) => committing = 1
  /\ \A p, q \in Proc : Committer(p) /\ Committer(q) => p = q
  /\ committing = 1 => \E p \in Proc : Committer(p)
  /\ committing = 1 => \A p \in Proc : ~InOp(p)
  /\ (Up /\ committing = 0 /\ lh # <<>>) => \E p \in Proc : InOp(p)

Counting == outstanding = Cardinality(Active)

(* Buffers: a system call between bread() and brelse() holds one buffer,   *)
(* no two hold the same; what a system call has logged is in the log.      *)
Buffers ==
  /\ \A p \in Proc : pc[p] \in {"check", "append"} => \E b \in Block : held[p] = {b}
  /\ \A p \in Proc : pc[p] \notin {"check", "append"} => held[p] = {}
  /\ \A p, q \in Proc : \A b \in Block : b \in held[p] /\ b \in held[q] => p = q
  /\ \A p \in Proc : wset[p] \subseteq Logged
  /\ \A p \in Proc : ~InOp(p) => wset[p] = {}

(* A system call never logs more than OPBLOCKS distinct blocks.            *)
OpBound ==
  \A p \in Proc :
    /\ IsFiniteSet(wset[p])
    /\ Cardinality(wset[p]) <= OPBLOCKS
    /\ held[p] \subseteq wset[p] \/ Cardinality(wset[p]) < OPBLOCKS

(* Reservations not yet used by the running system calls.                  *)
Unused == {t \in Active \X (1..OPBLOCKS) : t[2] > Cardinality(wset[t[1]])}

Capacity ==
  outstanding > 0 =>
    \/ Len(lh) + Cardinality(Unused) <= OPBLOCKS
    \/ Len(lh) + Cardinality(Unused) + 2 * (MAXOPBLOCKS - OPBLOCKS) <= LOGSIZE

Injective(s) == \A i, j \in 1..Len(s) : s[i] = s[j] => i = j

(* Both headers name each block once and fit the log.                      *)
Shape ==
  /\ Injective(lh) /\ Injective(dhead)
  /\ Len(lh) <= NLOG - 1 /\ Len(dhead) <= NLOG - 1

(* What the two headers hold at each stage of a commit or a recovery.      *)
Phases ==
  /\ Up /\ (\A p \in Proc : pc[p] # "inst") => dhead = <<>>
  /\ \A p \in Proc :
       /\ pc[p] \in {"rhead", "endc"} => lh = <<>>
       /\ pc[p] \in {"inst", "rinst"} => dhead = lh
       /\ pc[p] \in {"wlog", "inst", "rinst"} => tail[p] <= Len(lh) + 1

(* Pinned are the logged blocks that are still to be installed.            *)
Pins ==
  /\ ~Up => pinned = {}
  /\ \A b \in pinned : \E i \in 1..Len(lh) :
       lh[i] = b /\ \A p \in Proc : pc[p] = "inst" => i >= tail[p]
  /\ Up /\ (\A p \in Proc : pc[p] # "inst") => \A i \in 1..Len(lh) : lh[i] \in pinned

(* A block that is neither pinned nor held is the same in cache and on     *)
(* disk; how far the copies of write_log() and install_trans() have got.   *)
Copies ==
  /\ \A b \in Block : Contents(b) = disk[b] \/ b \in pinned \/ ~Free(b)
  /\ \A p \in Proc :
       /\ pc[p] = "wlog" => \A i \in 1..(tail[p] - 1) : dlog[i] = Contents(lh[i])
       /\ pc[p] = "inst" => \A i \in 1..Len(lh) : dlog[i] = Contents(lh[i])
       /\ pc[p] \in {"inst", "rinst"} =>
            \A i \in 1..(tail[p] - 1) : disk[lh[i]] = dlog[i]

LogInvariant ==
  /\ TypeOK /\ Control /\ Counting /\ Buffers /\ OpBound /\ Capacity
  /\ Shape /\ Phases /\ Pins /\ Copies /\ NoPanic /\ SleeperHasWaker
=============================================================================
