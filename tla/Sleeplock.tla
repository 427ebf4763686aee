----------------------------- MODULE Sleeplock -----------------------------
(***************************************************************************)
(* kernel/sleeplock.c: a lock whose waiters sleep.  The spin lock lk->lk   *)
(* is held through the wakeup() of releasesleep(), which visits one        *)
(* process at a time.  sleep() releases lk->lk and sleeps in one step, as  *)
(* module Sched shows it does; kill() may wake a waiter at any time.       *)
(***************************************************************************)
EXTENDS Integers, FiniteSets

CONSTANTS Proc, NoProc

SleepConstants == NoProc \notin Proc

VARIABLES
  lk,          \* who holds lk->lk
  locked, pid, \* the fields of the lock; processes stand for their pids
  pc,
  scan         \* the processes the wakeup() of the holder of lk has to visit

vars == <<lk, locked, pid, pc, scan>>

(* initsleeplock().                                                        *)
Init ==
  /\ lk = NoProc
  /\ locked = 0
  /\ pid = NoProc
  /\ pc = [p \in Proc |-> "idle"]
  /\ scan = {}

Goto(p, l) == pc' = [pc EXCEPT ![p] = l]

(* acquire(&lk->lk) in acquiresleep() or, back from sleep(), in sleep().   *)
acquire_lk(p) ==
  /\ pc[p] \in {"idle", "woken"}
  /\ lk = NoProc
  /\ lk' = p
  /\ Goto(p, "test")
  /\ UNCHANGED <<locked, pid, scan>>

(* Mutant: a waiter that wakes up takes the lock without looking again.    *)
acquiresleep_if(p) ==
  /\ pc[p] = "test" \/ (pc[p] = "woken" /\ lk = NoProc)
  /\ locked = 0 \/ pc[p] = "woken"
  /\ locked' = 1
  /\ pid' = p
  /\ lk' = NoProc
  /\ Goto(p, "in")
  /\ UNCHANGED scan

acquiresleep(p) ==
  /\ pc[p] = "test"
  /\ locked = 0
  /\ locked' = 1
  /\ pid' = p
  /\ lk' = NoProc
  /\ Goto(p, "in")
  /\ UNCHANGED scan

acquiresleep_sleep(p) ==
  /\ pc[p] = "test"
  /\ locked = 1
  /\ lk' = NoProc
  /\ Goto(p, "asleep")
  /\ UNCHANGED <<locked, pid, scan>>

(* Mutant: releasesleep() wakes one waiter only.                           *)
releasesleep_one(p) ==
  /\ pc[p] = "in"
  /\ lk = NoProc
  /\ lk' = p
  /\ locked' = 0
  /\ pid' = NoProc
  /\ scan' \in {{q} : q \in Proc}
  /\ Goto(p, "wake")

(* releasesleep(), up to its wakeup().                                     *)
releasesleep(p) ==
  /\ pc[p] = "in"
  /\ lk = NoProc
  /\ lk' = p
  /\ locked' = 0
  /\ pid' = NoProc
  /\ scan' = Proc
  /\ Goto(p, "wake")

(* One round of wakeup(lk).                                                *)
wakeup(p, q) ==
  /\ pc[p] = "wake"
  /\ q \in scan
  /\ scan' = scan \ {q}
  /\ pc' = [pc EXCEPT ![q] = IF @ = "asleep" THEN "woken" ELSE @]
  /\ UNCHANGED <<lk, locked, pid>>

release_lk(p) ==
  /\ pc[p] = "wake"
  /\ scan = {}
  /\ lk' = NoProc
  /\ Goto(p, "idle")
  /\ UNCHANGED <<locked, pid, scan>>

(* kill() of a waiter.                                                     *)
kill(p) ==
  /\ pc[p] = "asleep"
  /\ Goto(p, "woken")
  /\ UNCHANGED <<lk, locked, pid, scan>>

-----------------------------------------------------------------------------
Next ==
  \/ \E p \in Proc :
       \/ acquire_lk(p) \/ acquiresleep(p) \/ acquiresleep_sleep(p)
       \/ releasesleep(p) \/ release_lk(p) \/ kill(p)
  \/ \E p, q \in Proc : wakeup(p, q)

Spec == Init /\ [][Next]_vars

-----------------------------------------------------------------------------
TypeOK ==
  /\ lk \in Proc \union {NoProc}
  /\ locked \in {0, 1}
  /\ pid \in Proc \union {NoProc}
  /\ pc \in [Proc -> {"idle", "test", "asleep", "woken", "in", "wake"}]
  /\ scan \subseteq Proc

(* holdingsleep() answers for the caller: the lock is locked with the      *)
(* caller's pid exactly while it is between acquiresleep() and             *)
(* releasesleep(), so bwrite(), brelse() and iunlock() do not panic.       *)
holdingsleep(p) == locked = 1 /\ pid = p
HoldingIsExact == \A p \in Proc : holdingsleep(p) <=> pc[p] = "in"

(* No waiter is forgotten: who sleeps, sleeps for a lock that is held or   *)
(* that is being released by a process that will still wake it.            *)
NoForgottenWaiter ==
  \A p \in Proc : pc[p] = "asleep" => locked = 1 \/ p \in scan

(* The lock is the mutex of module Mutex, whoever wakes up when.           *)
MutexSpec == INSTANCE Mutex WITH owner <- IF locked = 1 THEN pid ELSE NoProc
IsMutex == MutexSpec!Spec
=============================================================================
