------------------------------ MODULE ProcInv ------------------------------
(***************************************************************************)
(* The inductive invariant of Proc.  ProcProofs proves it.                 *)
(***************************************************************************)
EXTENDS Proc

(* Where a process is in the code, and its state.                          *)
Placed(s) ==
  /\ pc[s] = "none" => state[s] \in {"UNUSED", "ZOMBIE"}
  /\ pc[s] = "zombie" => state[s] = "ZOMBIE"
  /\ pc[s] = "asleep" => state[s] \in {"RUNNABLE", "SLEEPING"}
  /\ pc[s] \notin {"none", "zombie", "asleep"} => state[s] = "RUNNABLE"

(* init lives forever.                                                     *)
InitLives == pc[initproc] \in {"user", "scan", "asleep"}

(* Nobody but init is without a parent, or its own.                        *)
Family(s) ==
  /\ parent[s] = None <=> state[s] = "UNUSED" \/ s = initproc
  /\ parent[s] # s

(* The locks that exit() and wait() hold at each label.                    *)
Locked(s) ==
  /\ pc[s] \in {"reparent", "zombie", "scan"} => lock[s] = s
  /\ pc[s] \in {"lockself", "reparent"} => lock[orig[s]] = s
  /\ pc[s] \in {"lockparent", "lockself", "reparent"} => orig[s] \in Slot \ {s}

(* A process p that is gone has no children, and reparent() leaves none    *)
(* behind it.                                                              *)
Childless(p, s) ==
  /\ state[p] \in {"UNUSED", "ZOMBIE"} => parent[s] # p
  /\ pc[p] = "reparent" /\ s < i[p] => parent[s] # p

(* The copy of p->parent is the parent, unless that one gave s to init.    *)
CopyOfParent(s) ==
  pc[s] \in {"lockparent", "lockself", "reparent"} =>
    parent[s] = orig[s] \/ parent[s] = initproc

(* wait() of a process p other than init has seen no zombie so far.        *)
NoZombieBehind(p, s) ==
  p # initproc /\ pc[p] = "scan" /\ s < i[p] /\ parent[s] = p => state[s] # "ZOMBIE"

(* A pid is given out once, and a process has one.                         *)
OwnPid(s, r) ==
  /\ pid[s] < nextpid
  /\ state[s] # "UNUSED" => pid[s] # 0
  /\ pid[s] = pid[r] /\ pid[s] # 0 => s = r

(* The process table is a tree of live processes with zombies as leaves,   *)
(* and what exit() and wait() have done to it fits the locks they hold.    *)
ProcInvariant ==
  /\ TypeOK /\ InitLives /\ NoMissedZombie
  /\ \A s \in Slot : Placed(s) /\ Family(s) /\ Locked(s) /\ CopyOfParent(s)
  /\ \A s, r \in Slot : Childless(s, r) /\ NoZombieBehind(s, r) /\ OwnPid(s, r)
=============================================================================
