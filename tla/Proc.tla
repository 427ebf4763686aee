-------------------------------- MODULE Proc --------------------------------
(***************************************************************************)
(* The life of processes in kernel/proc.c: fork(), exit(), wait(), kill(), *)
(* reparent(), and the p->lock each of them takes and waits for.           *)
(*                                                                         *)
(* RUNNABLE stands for RUNNABLE and RUNNING (module Sched tells them       *)
(* apart), SLEEPING for a sleep in wait().  A critical section that waits  *)
(* for no other lock is one step; wherever the code waits for a lock while *)
(* it holds another one, the step ends.                                    *)
(***************************************************************************)
EXTENDS Integers

CONSTANTS
  NPROC,
  MAXPID,      \* bound: pids given out
  KillPids     \* bound: the pids that kill() is called with

Slot     == 1..NPROC
initproc == 1
None     == 0  \* no process: parent = 0, and the holder of a free lock

procstate == {"UNUSED", "RUNNABLE", "SLEEPING", "ZOMBIE"}
Label == {"none", "user", "init", "copy", "lockparent", "lockself", "reparent",
          "zombie", "scan", "asleep"}

ASSUME ProcConstants ==
  /\ NPROC \in Nat \ {0}
  /\ MAXPID \in Nat \ {0}
  /\ KillPids \subseteq 0..MAXPID

VARIABLES
  state, pid, parent, killed,   \* the fields of struct proc
  lock,                         \* the process that holds each p->lock
  nextpid,
  pc, orig, i, kids             \* labels and locals of exit(), reparent(), wait()

procVars == <<state, pid, parent, killed>>
vars     == <<state, pid, parent, killed, lock, nextpid, pc, orig, i, kids>>

(* userinit() has made the first process.                                  *)
Init ==
  /\ state = [s \in Slot |-> IF s = initproc THEN "RUNNABLE" ELSE "UNUSED"]
  /\ pid = [s \in Slot |-> IF s = initproc THEN 1 ELSE 0]
  /\ parent = [s \in Slot |-> None]
  /\ killed = [s \in Slot |-> 0]
  /\ lock = [s \in Slot |-> None]
  /\ nextpid = 2
  /\ pc = [s \in Slot |-> IF s = initproc THEN "user" ELSE "none"]
  /\ orig = [s \in Slot |-> None]
  /\ i = [s \in Slot |-> 1]
  /\ kids = [s \in Slot |-> 0]

Goto(p, l) == pc' = [pc EXCEPT ![p] = l]

(* usertrap() lets a killed process do nothing but exit.                   *)
InUser(p) == pc[p] = "user" /\ killed[p] = 0

-----------------------------------------------------------------------------

(* allocproc() found slot np: the first that is UNUSED.                    *)
allocproc(p, np) ==
  /\ InUser(p)
  /\ state[np] = "UNUSED" /\ lock[np] = None
  /\ \A s \in Slot : s < np => state[s] # "UNUSED"
  /\ nextpid <= MAXPID
  /\ nextpid' = nextpid + 1

(* fork() holds np->lock and waits for no other lock of the table.         *)
fork(p, np) ==
  /\ allocproc(p, np)
  /\ pid' = [pid EXCEPT ![np] = nextpid]
  /\ parent' = [parent EXCEPT ![np] = p]
  /\ state' = [state EXCEPT ![np] = "RUNNABLE"]
  /\ Goto(np, "user")
  /\ UNCHANGED <<killed, lock, orig, i, kids>>

(* kalloc() of the trapframe fails: the slot stays UNUSED and keeps the    *)
(* pid.                                                                    *)
fork_no_trapframe(p, np) ==
  /\ allocproc(p, np)
  /\ pid' = [pid EXCEPT ![np] = nextpid]
  /\ UNCHANGED <<state, parent, killed, lock, pc, orig, i, kids>>

(* The page table or the copy of memory fails: freeproc().                 *)
fork_no_pages(p, np) ==
  /\ allocproc(p, np)
  /\ pid' = [pid EXCEPT ![np] = 0]
  /\ parent' = [parent EXCEPT ![np] = None]
  /\ killed' = [killed EXCEPT ![np] = 0]
  /\ UNCHANGED <<state, lock, pc, orig, i, kids>>

-----------------------------------------------------------------------------
(* wakeup1(q), with q->lock held.                                          *)
wakeup1(q, st) == [st EXCEPT ![q] = IF @ = "SLEEPING" THEN "RUNNABLE" ELSE @]

exit(p) ==
  /\ pc[p] = "user" /\ p # initproc
  /\ Goto(p, "init")
  /\ UNCHANGED <<procVars, lock, nextpid, orig, i, kids>>

(* exit(): wake init "whether that's necessary or not".                    *)
exit_wake_init(p) ==
  /\ pc[p] = "init"
  /\ lock[initproc] = None
  /\ state' = wakeup1(initproc, state)
  /\ Goto(p, "copy")
  /\ UNCHANGED <<pid, parent, killed, lock, nextpid, orig, i, kids>>

(* exit(): "grab a copy of p->parent".                                     *)
exit_parent(p) ==
  /\ pc[p] = "copy"
  /\ lock[p] = None
  /\ orig' = [orig EXCEPT ![p] = parent[p]]
  /\ Goto(p, "lockparent")
  /\ UNCHANGED <<procVars, lock, nextpid, i, kids>>

exit_lock_parent(p) ==
  /\ pc[p] = "lockparent"
  /\ lock[orig[p]] = None
  /\ lock' = [lock EXCEPT ![orig[p]] = p]
  /\ Goto(p, "lockself")
  /\ UNCHANGED <<procVars, nextpid, orig, i, kids>>

exit_lock_self(p) ==
  /\ pc[p] = "lockself"
  /\ lock[p] = None
  /\ lock' = [lock EXCEPT ![p] = p]
  /\ i' = [i EXCEPT ![p] = 1]
  /\ Goto(p, "reparent")
  /\ UNCHANGED <<procVars, nextpid, orig, kids>>

(* The children that a loop over the table has still to come to.           *)
Ahead(p) == {s \in Slot : s >= i[p] /\ parent[s] = p}
Child(p, np) == np \in Ahead(p) /\ \A s \in Ahead(p) : np <= s

(* One child of reparent().                                                *)
reparent(p, pp) ==
  /\ pc[p] = "reparent"
  /\ Child(p, pp)
  /\ lock[pp] = None
  /\ parent' = [parent EXCEPT ![pp] = initproc]
  /\ i' = [i EXCEPT ![p] = pp + 1]
  /\ UNCHANGED <<state, pid, killed, lock, nextpid, pc, orig, kids>>

(* Mutant: the zombie leaves its own lock before it leaves its CPU.        *)
exit_zombie_unlocked(p) ==
  /\ pc[p] = "reparent"
  /\ Ahead(p) = {}
  /\ state' = [wakeup1(orig[p], state) EXCEPT ![p] = "ZOMBIE"]
  /\ lock' = [lock EXCEPT ![orig[p]] = None, ![p] = None]
  /\ Goto(p, "zombie")
  /\ UNCHANGED <<pid, parent, killed, nextpid, orig, i, kids>>

(* Mutant: exit() does not wake the parent.                                *)
exit_zombie_silent(p) ==
  /\ pc[p] = "reparent"
  /\ Ahead(p) = {}
  /\ state' = [state EXCEPT ![p] = "ZOMBIE"]
  /\ lock' = [lock EXCEPT ![orig[p]] = None]
  /\ Goto(p, "zombie")
  /\ UNCHANGED <<pid, parent, killed, nextpid, orig, i, kids>>

(* exit(): wake the parent, become a zombie, release the parent's lock.    *)
exit_zombie(p) ==
  /\ pc[p] = "reparent"
  /\ Ahead(p) = {}
  /\ state' = [wakeup1(orig[p], state) EXCEPT ![p] = "ZOMBIE"]
  /\ lock' = [lock EXCEPT ![orig[p]] = None]
  /\ Goto(p, "zombie")
  /\ UNCHANGED <<pid, parent, killed, nextpid, orig, i, kids>>

(* sched(): the scheduler, on its own stack, releases p->lock.             *)
exit_sched(p) ==
  /\ pc[p] = "zombie"
  /\ lock' = [lock EXCEPT ![p] = None]
  /\ Goto(p, "none")
  /\ UNCHANGED <<procVars, nextpid, orig, i, kids>>

-----------------------------------------------------------------------------
(* wait() takes p->lock, at its start or back from sleep().                *)
wait(p) ==
  /\ InUser(p) \/ (pc[p] = "asleep" /\ state[p] = "RUNNABLE")
  /\ lock[p] = None
  /\ lock' = [lock EXCEPT ![p] = p]
  /\ i' = [i EXCEPT ![p] = 1]
  /\ kids' = [kids EXCEPT ![p] = 0]
  /\ Goto(p, "scan")
  /\ UNCHANGED <<procVars, nextpid, orig>>

(* A child that has not exited.                                            *)
wait_alive(p, np) ==
  /\ pc[p] = "scan"
  /\ Child(p, np)
  /\ lock[np] = None
  /\ state[np] # "ZOMBIE"
  /\ i' = [i EXCEPT ![p] = np + 1]
  /\ kids' = [kids EXCEPT ![p] = 1]
  /\ UNCHANGED <<procVars, lock, nextpid, pc, orig>>

(* A zombie: freeproc(np).                                                 *)
wait_reap(p, np) ==
  /\ pc[p] = "scan"
  /\ Child(p, np)
  /\ lock[np] = None
  /\ state[np] = "ZOMBIE"
  /\ state' = [state EXCEPT ![np] = "UNUSED"]
  /\ pid' = [pid EXCEPT ![np] = 0]
  /\ parent' = [parent EXCEPT ![np] = None]
  /\ killed' = [killed EXCEPT ![np] = 0]
  /\ lock' = [lock EXCEPT ![p] = None]
  /\ Goto(p, "user")
  /\ UNCHANGED <<nextpid, orig, i, kids>>

(* A zombie whose status cannot be copied out: wait() returns -1.  init    *)
(* calls wait(0), which copies nothing.                                    *)
wait_copyout_fails(p, np) ==
  /\ pc[p] = "scan" /\ p # initproc
  /\ Child(p, np)
  /\ lock[np] = None
  /\ state[np] = "ZOMBIE"
  /\ lock' = [lock EXCEPT ![p] = None]
  /\ Goto(p, "user")
  /\ UNCHANGED <<procVars, nextpid, orig, i, kids>>

wait_nobody(p) ==
  /\ pc[p] = "scan"
  /\ Ahead(p) = {}
  /\ kids[p] = 0 \/ killed[p] = 1
  /\ lock' = [lock EXCEPT ![p] = None]
  /\ Goto(p, "user")
  /\ UNCHANGED <<procVars, nextpid, orig, i, kids>>

(* sleep(p, &p->lock): p->lock is held until the process is off its CPU.   *)
wait_sleep(p) ==
  /\ pc[p] = "scan"
  /\ Ahead(p) = {}
  /\ kids[p] = 1 /\ killed[p] = 0
  /\ state' = [state EXCEPT ![p] = "SLEEPING"]
  /\ lock' = [lock EXCEPT ![p] = None]
  /\ Goto(p, "asleep")
  /\ UNCHANGED <<pid, parent, killed, nextpid, orig, i, kids>>

-----------------------------------------------------------------------------
(* Mutant: kill() does not wake its victim.                                *)
kill_asleep(p, n, s) ==
  /\ InUser(p)
  /\ pid[s] = n /\ lock[s] = None
  /\ \A r \in Slot : r < s => pid[r] # n
  /\ s # initproc
  /\ killed' = [killed EXCEPT ![s] = 1]
  /\ UNCHANGED <<state, pid, parent, lock, nextpid, pc, orig, i, kids>>

(* kill(n) by process p: s is the first slot of the table with that pid.   *)
(* init is not killed: the kernel panics if it exits.                      *)
kill(p, n, s) ==
  /\ InUser(p)
  /\ pid[s] = n /\ lock[s] = None
  /\ \A r \in Slot : r < s => pid[r] # n
  /\ s # initproc
  /\ killed' = [killed EXCEPT ![s] = 1]
  /\ state' = wakeup1(s, state)
  /\ UNCHANGED <<pid, parent, lock, nextpid, pc, orig, i, kids>>

-----------------------------------------------------------------------------
ExitStep(p) ==
  \/ exit_wake_init(p) \/ exit_parent(p) \/ exit_lock_parent(p) \/ exit_lock_self(p)
  \/ \E pp \in Slot : reparent(p, pp)
  \/ exit_zombie(p) \/ exit_sched(p)

ScanStep(p) ==
  \/ \E np \in Slot : wait_alive(p, np) \/ wait_reap(p, np)
  \/ wait_nobody(p) \/ wait_sleep(p)

Next ==
  \/ \E p \in Slot : ExitStep(p) \/ ScanStep(p) \/ exit(p) \/ wait(p)
  \/ \E p, np \in Slot : wait_copyout_fails(p, np)
  \/ \E p, np \in Slot : fork(p, np) \/ fork_no_trapframe(p, np) \/ fork_no_pages(p, np)
  \/ \E p, s \in Slot, n \in KillPids : kill(p, n, s)

Spec == Init /\ [][Next]_vars

(* A process that is in the kernel goes on and gets the locks that keep    *)
(* becoming free; a killed one exits at its next trap; init waits forever  *)
(* (user/init.c).                                                          *)
KernelStep(p) ==
  \/ ExitStep(p) \/ ScanStep(p)
  \/ wait(p) /\ (pc[p] = "asleep" \/ p = initproc)
  \/ exit(p) /\ killed[p] = 1

Fairness == \A p \in Slot : SF_vars(KernelStep(p))

FairSpec == Spec /\ Fairness

-----------------------------------------------------------------------------
TypeOK ==
  /\ state \in [Slot -> procstate]
  /\ pid \in [Slot -> 0..MAXPID]
  /\ parent \in [Slot -> Slot \union {None}]
  /\ killed \in [Slot -> {0, 1}]
  /\ lock \in [Slot -> Slot \union {None}]
  /\ nextpid \in 2..(MAXPID + 1)
  /\ pc \in [Slot -> Label]
  /\ orig \in [Slot -> Slot \union {None}]
  /\ i \in [Slot -> 1..(NPROC + 1)]
  /\ kids \in [Slot -> {0, 1}]

Live(s) == state[s] \in {"RUNNABLE", "SLEEPING"}

(* Every process but init has a parent that is alive, so every zombie has  *)
(* somebody who can reap it.                                               *)
NoOrphan ==
  \A s \in Slot : state[s] # "UNUSED" /\ s # initproc =>
    parent[s] # None /\ Live(parent[s])

(* wait() frees a process only when it has left its kernel stack.          *)
ReapedOffCpu == \A s \in Slot : state[s] = "UNUSED" => pc[s] = "none"

(* Processes, zombies included, have different pids.                       *)
PidsUnique ==
  \A s, r \in Slot :
    state[s] # "UNUSED" /\ state[r] # "UNUSED" /\ pid[s] = pid[r] => s = r

NoMissedZombie ==
  \A p, s \in Slot :
    p # initproc /\ state[p] = "SLEEPING" /\ parent[s] = p => state[s] # "ZOMBIE"

(* "hold p->lock for the whole time to avoid lost wakeups from a child's   *)
(* exit()": no process is an orphan, and none but init sleeps in wait()    *)
(* while a child of it is a zombie.                                        *)
NoLostExit == NoOrphan /\ NoMissedZombie

(* The lock a process in exit() or wait() waits for.                       *)
Wanted(p) ==
  CASE pc[p] = "init" -> {initproc}
    [] pc[p] = "lockparent" -> {orig[p]}
    [] pc[p] \in {"copy", "lockself"} \/ (pc[p] = "asleep" /\ state[p] = "RUNNABLE") -> {p}
    [] pc[p] \in {"reparent", "scan"} -> {s \in Slot : Child(p, s)}
    [] OTHER -> {}

(* s waits for a lock whose holder waits for a lock whose holder waits ... *)
(* and none of them can go on: s is in a circle or waits for one.          *)
Caught(s) ==
  LET Holders == [p \in Slot |-> {lock[l] : l \in Wanted(p)}]
  IN  \E S \in SUBSET Slot : s \in S /\ \A p \in S : Holders[p] \intersect S # {}

(* "the parent-then-child rule": processes in exit() and wait() never wait *)
(* for each other's locks in a circle.                                     *)
NoCircularWait == \A s \in Slot : ~Caught(s)

Exiting(s) == pc[s] \in {"init", "copy", "lockparent", "lockself", "reparent"}

(* Whoever is killed, in wait() or elsewhere, or has called exit(), is a   *)
(* zombie in the end, unless it is caught in the circle of locks that      *)
(* breaks NoCircularWait.  (Nobody has pid 0, the pid of unused slots.)    *)
KilledExits ==
  \A n \in KillPids \ {0} :
    (\E s \in Slot : pid[s] = n /\ Live(s) /\ (killed[s] = 1 \/ Exiting(s)))
      ~> (\A s \in Slot : pid[s] = n /\ Live(s) => Caught(s))
=============================================================================
