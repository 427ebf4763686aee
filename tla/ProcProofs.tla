----------------------------- MODULE ProcProofs -----------------------------
(***************************************************************************)
(* Proofs about Proc, for a table of any size and any number of forks: the *)
(* tree of processes, the pids, and the exits that wait() learns of.       *)
(***************************************************************************)
EXTENDS ProcInv, TLAPS

(* Leaves go to the SMT solver, unless they name another prover.           *)
USE SMTT(60)

(* What the provers need to know of the slots.                             *)
LEMMA SlotFacts ==
  /\ Slot \subseteq Int /\ initproc \in Slot /\ None \notin Slot
  /\ 1 \in 1..(NPROC + 1)
  /\ \A s \in Slot : 1 <= s /\ s + 1 \in 1..(NPROC + 1)
  BY ProcConstants DEF Slot, initproc, None

(* allocpid() stays in its bounds.                                         *)
LEMMA PidFacts ==
  /\ 0 \in 0..MAXPID
  /\ \A n \in 2..(MAXPID + 1) : n <= MAXPID => n \in 0..MAXPID /\ n + 1 \in 2..(MAXPID + 1)
  BY ProcConstants, SMTT(30)

(* The types.                                                              *)
LEMMA TypeStep == ProcInvariant /\ [Next]_vars => TypeOK'
<1> SUFFICES ASSUME ProcInvariant, [Next]_vars
             PROVE  TypeOK'
  OBVIOUS
<1> USE ProcConstants, PidFacts, SlotFacts DEF ProcInvariant, TypeOK, Label, procstate
<1>1. ASSUME NEW p \in Slot, NEW s \in Slot, fork(p, s) PROVE TypeOK'
  BY <1>1 DEF fork, allocproc, InUser, Goto, procVars
<1>2. ASSUME NEW p \in Slot, NEW s \in Slot, fork_no_trapframe(p, s) PROVE TypeOK'
  BY <1>2 DEF fork_no_trapframe, allocproc, InUser, procVars
<1>3. ASSUME NEW p \in Slot, NEW s \in Slot, fork_no_pages(p, s) PROVE TypeOK'
  BY <1>3 DEF fork_no_pages, allocproc, InUser, procVars
<1>4. ASSUME NEW p \in Slot, NEW s \in Slot, reparent(p, s) PROVE TypeOK'
  BY <1>4 DEF reparent, Child, Ahead, procVars
<1>5. ASSUME NEW p \in Slot, NEW s \in Slot, wait_alive(p, s) PROVE TypeOK'
  BY <1>5 DEF wait_alive, Child, Ahead, procVars
<1>6. ASSUME NEW p \in Slot, NEW s \in Slot, wait_reap(p, s) PROVE TypeOK'
  BY <1>6 DEF wait_reap, Child, Ahead, Goto, procVars
<1>7. ASSUME NEW p \in Slot, NEW s \in Slot, wait_copyout_fails(p, s) PROVE TypeOK'
  BY <1>7 DEF wait_copyout_fails, Child, Ahead, Goto, procVars
<1>8. ASSUME NEW p \in Slot, exit(p) PROVE TypeOK'
  BY <1>8 DEF exit, Goto, procVars
<1>9. ASSUME NEW p \in Slot, exit_wake_init(p) PROVE TypeOK'
  BY <1>9 DEF exit_wake_init, wakeup1, Goto, procVars
<1>10. ASSUME NEW p \in Slot, exit_parent(p) PROVE TypeOK'
  BY <1>10 DEF exit_parent, Goto, procVars
<1>11. ASSUME NEW p \in Slot, exit_lock_parent(p) PROVE TypeOK'
  BY <1>11, Zenon DEF exit_lock_parent, Goto, procVars
<1>12. ASSUME NEW p \in Slot, exit_lock_self(p) PROVE TypeOK'
  BY <1>12 DEF exit_lock_self, Goto, procVars
<1>13. ASSUME NEW p \in Slot, exit_zombie(p) PROVE TypeOK'
  BY <1>13, Zenon DEF exit_zombie, wakeup1, Ahead, Goto, procVars
<1>14. ASSUME NEW p \in Slot, exit_sched(p) PROVE TypeOK'
  BY <1>14 DEF exit_sched, Goto, procVars
<1>15. ASSUME NEW p \in Slot, wait(p) PROVE TypeOK'
  BY <1>15 DEF wait, InUser, Goto, procVars
<1>16. ASSUME NEW p \in Slot, wait_nobody(p) PROVE TypeOK'
  BY <1>16 DEF wait_nobody, Ahead, Goto, procVars
<1>17. ASSUME NEW p \in Slot, wait_sleep(p) PROVE TypeOK'
  BY <1>17 DEF wait_sleep, Ahead, Goto, procVars
<1>18. ASSUME NEW p \in Slot, NEW s \in Slot, NEW n \in KillPids, kill(p, n, s)
      PROVE  TypeOK'
  BY <1>18 DEF kill, InUser, wakeup1, procVars
<1>19. ASSUME UNCHANGED vars PROVE TypeOK'
  BY <1>19 DEF vars, procVars
<1> HIDE ProcConstants, PidFacts, SlotFacts DEF ProcInvariant, TypeOK, Label, procstate
<1> QED
  BY <1>1, <1>2, <1>3, <1>4, <1>5, <1>6, <1>7, <1>8, <1>9, <1>10, <1>11,
      <1>12, <1>13, <1>14, <1>15, <1>16, <1>17, <1>18, <1>19, Zenon
     DEF Next, ExitStep, ScanStep

(* Processes move through the code as their state says.                    *)
LEMMA PlacedStep == ProcInvariant /\ [Next]_vars => \A a \in Slot : Placed(a)'
<1> SUFFICES ASSUME ProcInvariant, [Next]_vars, NEW a \in Slot
             PROVE  Placed(a)'
  OBVIOUS
<1> USE SlotFacts DEF ProcInvariant, Placed, Locked
<1>t. /\ state \in [Slot -> procstate]
      /\ pc \in [Slot -> Label]
      /\ lock \in [Slot -> Slot \union {None}]
  BY DEF TypeOK
<1>1. ASSUME NEW p \in Slot, NEW s \in Slot, fork(p, s) PROVE Placed(a)'
  BY <1>t, <1>1 DEF fork, allocproc, InUser, Goto, procVars
<1>2. ASSUME NEW p \in Slot, NEW s \in Slot, fork_no_trapframe(p, s) PROVE Placed(a)'
  BY <1>t, <1>2 DEF fork_no_trapframe, allocproc, InUser, procVars
<1>3. ASSUME NEW p \in Slot, NEW s \in Slot, fork_no_pages(p, s) PROVE Placed(a)'
  BY <1>t, <1>3 DEF fork_no_pages, allocproc, InUser, procVars
<1>4. ASSUME NEW p \in Slot, NEW s \in Slot, reparent(p, s) PROVE Placed(a)'
  BY <1>t, <1>4 DEF reparent, Child, Ahead, procVars
<1>5. ASSUME NEW p \in Slot, NEW s \in Slot, wait_alive(p, s) PROVE Placed(a)'
  BY <1>t, <1>5 DEF wait_alive, Child, Ahead, procVars
<1>6. ASSUME NEW p \in Slot, NEW s \in Slot, wait_reap(p, s) PROVE Placed(a)'
  BY <1>t, <1>6 DEF wait_reap, Child, Ahead, Goto, procVars
<1>7. ASSUME NEW p \in Slot, NEW s \in Slot, wait_copyout_fails(p, s) PROVE Placed(a)'
  BY <1>t, <1>7 DEF wait_copyout_fails, Child, Ahead, Goto, procVars
<1>8. ASSUME NEW p \in Slot, exit(p) PROVE Placed(a)'
  BY <1>t, <1>8 DEF exit, Goto, procVars
<1>9. ASSUME NEW p \in Slot, exit_wake_init(p) PROVE Placed(a)'
  BY <1>t, <1>9 DEF exit_wake_init, wakeup1, Goto, procVars
<1>10. ASSUME NEW p \in Slot, exit_parent(p) PROVE Placed(a)'
  BY <1>t, <1>10 DEF exit_parent, Goto, procVars
<1>11. ASSUME NEW p \in Slot, exit_lock_parent(p) PROVE Placed(a)'
  BY <1>t, <1>11 DEF exit_lock_parent, Goto, procVars
<1>12. ASSUME NEW p \in Slot, exit_lock_self(p) PROVE Placed(a)'
  BY <1>t, <1>12 DEF exit_lock_self, Goto, procVars
<1>13. ASSUME NEW p \in Slot, exit_zombie(p) PROVE Placed(a)'
  BY <1>t, <1>13 DEF exit_zombie, wakeup1, Ahead, Goto, procVars
<1>14. ASSUME NEW p \in Slot, exit_sched(p) PROVE Placed(a)'
  BY <1>t, <1>14 DEF exit_sched, Goto, procVars
<1>15. ASSUME NEW p \in Slot, wait(p) PROVE Placed(a)'
  BY <1>t, <1>15 DEF wait, InUser, Goto, procVars
<1>16. ASSUME NEW p \in Slot, wait_nobody(p) PROVE Placed(a)'
  BY <1>t, <1>16 DEF wait_nobody, Ahead, Goto, procVars
<1>17. ASSUME NEW p \in Slot, wait_sleep(p) PROVE Placed(a)'
  BY <1>t, <1>17 DEF wait_sleep, Ahead, Goto, procVars
<1>18. ASSUME NEW p \in Slot, NEW s \in Slot, NEW n \in KillPids, kill(p, n, s)
      PROVE  Placed(a)'
  BY <1>t, <1>18 DEF kill, InUser, wakeup1, procVars
<1>19. ASSUME UNCHANGED vars PROVE Placed(a)'
  BY <1>19 DEF vars, procVars
<1> HIDE SlotFacts DEF ProcInvariant, Placed, Locked
<1> QED
  BY <1>1, <1>2, <1>3, <1>4, <1>5, <1>6, <1>7, <1>8, <1>9, <1>10, <1>11,
      <1>12, <1>13, <1>14, <1>15, <1>16, <1>17, <1>18, <1>19, Zenon
     DEF Next, ExitStep, ScanStep

(* init never exits.                                                       *)
LEMMA InitStep == ProcInvariant /\ [Next]_vars => InitLives'
<1> SUFFICES ASSUME ProcInvariant, [Next]_vars
             PROVE  InitLives'
  OBVIOUS
<1> USE SlotFacts DEF ProcInvariant, InitLives
<1>t. /\ pc \in [Slot -> Label]
  BY DEF TypeOK
<1>1. ASSUME NEW p \in Slot, NEW s \in Slot, fork(p, s) PROVE InitLives'
  BY <1>t, <1>1 DEF fork, allocproc, InUser, Goto, procVars
<1>2. ASSUME NEW p \in Slot, NEW s \in Slot, fork_no_trapframe(p, s) PROVE InitLives'
  BY <1>t, <1>2 DEF fork_no_trapframe, allocproc, InUser, procVars
<1>3. ASSUME NEW p \in Slot, NEW s \in Slot, fork_no_pages(p, s) PROVE InitLives'
  BY <1>t, <1>3 DEF fork_no_pages, allocproc, InUser, procVars
<1>4. ASSUME NEW p \in Slot, NEW s \in Slot, reparent(p, s) PROVE InitLives'
  BY <1>t, <1>4 DEF reparent, Child, Ahead, procVars
<1>5. ASSUME NEW p \in Slot, NEW s \in Slot, wait_alive(p, s) PROVE InitLives'
  BY <1>t, <1>5 DEF wait_alive, Child, Ahead, procVars
<1>6. ASSUME NEW p \in Slot, NEW s \in Slot, wait_reap(p, s) PROVE InitLives'
  BY <1>t, <1>6 DEF wait_reap, Child, Ahead, Goto, procVars
<1>7. ASSUME NEW p \in Slot, NEW s \in Slot, wait_copyout_fails(p, s) PROVE InitLives'
  BY <1>t, <1>7 DEF wait_copyout_fails, Child, Ahead, Goto, procVars
<1>8. ASSUME NEW p \in Slot, exit(p) PROVE InitLives'
  BY <1>t, <1>8 DEF exit, Goto, procVars
<1>9. ASSUME NEW p \in Slot, exit_wake_init(p) PROVE InitLives'
  BY <1>t, <1>9 DEF exit_wake_init, wakeup1, Goto, procVars
<1>10. ASSUME NEW p \in Slot, exit_parent(p) PROVE InitLives'
  BY <1>t, <1>10 DEF exit_parent, Goto, procVars
<1>11. ASSUME NEW p \in Slot, exit_lock_parent(p) PROVE InitLives'
  BY <1>t, <1>11 DEF exit_lock_parent, Goto, procVars
<1>12. ASSUME NEW p \in Slot, exit_lock_self(p) PROVE InitLives'
  BY <1>t, <1>12 DEF exit_lock_self, Goto, procVars
<1>13. ASSUME NEW p \in Slot, exit_zombie(p) PROVE InitLives'
  BY <1>t, <1>13 DEF exit_zombie, wakeup1, Ahead, Goto, procVars
<1>14. ASSUME NEW p \in Slot, exit_sched(p) PROVE InitLives'
  BY <1>t, <1>14 DEF exit_sched, Goto, procVars
<1>15. ASSUME NEW p \in Slot, wait(p) PROVE InitLives'
  BY <1>t, <1>15 DEF wait, InUser, Goto, procVars
<1>16. ASSUME NEW p \in Slot, wait_nobody(p) PROVE InitLives'
  BY <1>t, <1>16 DEF wait_nobody, Ahead, Goto, procVars
<1>17. ASSUME NEW p \in Slot, wait_sleep(p) PROVE InitLives'
  BY <1>t, <1>17 DEF wait_sleep, Ahead, Goto, procVars
<1>18. ASSUME NEW p \in Slot, NEW s \in Slot, NEW n \in KillPids, kill(p, n, s)
      PROVE  InitLives'
  BY <1>t, <1>18 DEF kill, InUser, wakeup1, procVars
<1>19. ASSUME UNCHANGED vars PROVE InitLives'
  BY <1>19 DEF vars, procVars
<1> HIDE SlotFacts DEF ProcInvariant, InitLives
<1> QED
  BY <1>1, <1>2, <1>3, <1>4, <1>5, <1>6, <1>7, <1>8, <1>9, <1>10, <1>11,
      <1>12, <1>13, <1>14, <1>15, <1>16, <1>17, <1>18, <1>19, Zenon
     DEF Next, ExitStep, ScanStep

(* Nobody loses a parent.                                                  *)
LEMMA FamilyStep == ProcInvariant /\ [Next]_vars => \A a \in Slot : Family(a)'
<1> SUFFICES ASSUME ProcInvariant, [Next]_vars, NEW a \in Slot
             PROVE  Family(a)'
  OBVIOUS
<1> USE SlotFacts DEF ProcInvariant, Placed, Family, InitLives
<1>t. /\ state \in [Slot -> procstate]
      /\ pc \in [Slot -> Label]
      /\ parent \in [Slot -> Slot \union {None}]
  BY DEF TypeOK
<1>1. ASSUME NEW p \in Slot, NEW s \in Slot, fork(p, s) PROVE Family(a)'
  BY <1>t, <1>1 DEF fork, allocproc, InUser, Goto, procVars
<1>2. ASSUME NEW p \in Slot, NEW s \in Slot, fork_no_trapframe(p, s) PROVE Family(a)'
  BY <1>t, <1>2 DEF fork_no_trapframe, allocproc, InUser, procVars
<1>3. ASSUME NEW p \in Slot, NEW s \in Slot, fork_no_pages(p, s) PROVE Family(a)'
  BY <1>t, <1>3 DEF fork_no_pages, allocproc, InUser, procVars
<1>4. ASSUME NEW p \in Slot, NEW s \in Slot, reparent(p, s) PROVE Family(a)'
  BY <1>t, <1>4 DEF reparent, Child, Ahead, procVars
<1>5. ASSUME NEW p \in Slot, NEW s \in Slot, wait_alive(p, s) PROVE Family(a)'
  BY <1>t, <1>5 DEF wait_alive, Child, Ahead, procVars
<1>6. ASSUME NEW p \in Slot, NEW s \in Slot, wait_reap(p, s) PROVE Family(a)'
  BY <1>t, <1>6 DEF wait_reap, Child, Ahead, Goto, procVars
<1>7. ASSUME NEW p \in Slot, NEW s \in Slot, wait_copyout_fails(p, s) PROVE Family(a)'
  BY <1>t, <1>7 DEF wait_copyout_fails, Child, Ahead, Goto, procVars
<1>8. ASSUME NEW p \in Slot, exit(p) PROVE Family(a)'
  BY <1>t, <1>8 DEF exit, Goto, procVars
<1>9. ASSUME NEW p \in Slot, exit_wake_init(p) PROVE Family(a)'
  BY <1>t, <1>9 DEF exit_wake_init, wakeup1, Goto, procVars
<1>10. ASSUME NEW p \in Slot, exit_parent(p) PROVE Family(a)'
  BY <1>t, <1>10 DEF exit_parent, Goto, procVars
<1>11. ASSUME NEW p \in Slot, exit_lock_parent(p) PROVE Family(a)'
  BY <1>t, <1>11 DEF exit_lock_parent, Goto, procVars
<1>12. ASSUME NEW p \in Slot, exit_lock_self(p) PROVE Family(a)'
  BY <1>t, <1>12 DEF exit_lock_self, Goto, procVars
<1>13. ASSUME NEW p \in Slot, exit_zombie(p) PROVE Family(a)'
  BY <1>t, <1>13 DEF exit_zombie, wakeup1, Ahead, Goto, procVars
<1>14. ASSUME NEW p \in Slot, exit_sched(p) PROVE Family(a)'
  BY <1>t, <1>14 DEF exit_sched, Goto, procVars
<1>15. ASSUME NEW p \in Slot, wait(p) PROVE Family(a)'
  BY <1>t, <1>15 DEF wait, InUser, Goto, procVars
<1>16. ASSUME NEW p \in Slot, wait_nobody(p) PROVE Family(a)'
  BY <1>t, <1>16 DEF wait_nobody, Ahead, Goto, procVars
<1>17. ASSUME NEW p \in Slot, wait_sleep(p) PROVE Family(a)'
  BY <1>t, <1>17 DEF wait_sleep, Ahead, Goto, procVars
<1>18. ASSUME NEW p \in Slot, NEW s \in Slot, NEW n \in KillPids, kill(p, n, s)
      PROVE  Family(a)'
  BY <1>t, <1>18 DEF kill, InUser, wakeup1, procVars
<1>19. ASSUME UNCHANGED vars PROVE Family(a)'
  BY <1>19 DEF vars, procVars
<1> HIDE SlotFacts DEF ProcInvariant, Placed, Family, InitLives
<1> QED
  BY <1>1, <1>2, <1>3, <1>4, <1>5, <1>6, <1>7, <1>8, <1>9, <1>10, <1>11,
      <1>12, <1>13, <1>14, <1>15, <1>16, <1>17, <1>18, <1>19, Zenon
     DEF Next, ExitStep, ScanStep

(* Nobody but the holder of a lock releases it.                            *)
LEMMA LockedStep == ProcInvariant /\ [Next]_vars => \A a \in Slot : Locked(a)'
<1> SUFFICES ASSUME ProcInvariant, [Next]_vars, NEW a \in Slot
             PROVE  Locked(a)'
  OBVIOUS
<1> USE SlotFacts DEF ProcInvariant, Placed, Family, InitLives, Locked
<1>t. /\ pc \in [Slot -> Label]
      /\ lock \in [Slot -> Slot \union {None}]
      /\ orig \in [Slot -> Slot \union {None}]
      /\ parent \in [Slot -> Slot \union {None}]
  BY DEF TypeOK
<1>1. ASSUME NEW p \in Slot, NEW s \in Slot, fork(p, s) PROVE Locked(a)'
  BY <1>t, <1>1 DEF fork, allocproc, InUser, Goto, procVars
<1>2. ASSUME NEW p \in Slot, NEW s \in Slot, fork_no_trapframe(p, s) PROVE Locked(a)'
  BY <1>t, <1>2 DEF fork_no_trapframe, allocproc, InUser, procVars
<1>3. ASSUME NEW p \in Slot, NEW s \in Slot, fork_no_pages(p, s) PROVE Locked(a)'
  BY <1>t, <1>3 DEF fork_no_pages, allocproc, InUser, procVars
<1>4. ASSUME NEW p \in Slot, NEW s \in Slot, reparent(p, s) PROVE Locked(a)'
  BY <1>t, <1>4 DEF reparent, Child, Ahead, procVars
<1>5. ASSUME NEW p \in Slot, NEW s \in Slot, wait_alive(p, s) PROVE Locked(a)'
  BY <1>t, <1>5 DEF wait_alive, Child, Ahead, procVars
<1>6. ASSUME NEW p \in Slot, NEW s \in Slot, wait_reap(p, s) PROVE Locked(a)'
  BY <1>t, <1>6 DEF wait_reap, Child, Ahead, Goto, procVars
<1>7. ASSUME NEW p \in Slot, NEW s \in Slot, wait_copyout_fails(p, s) PROVE Locked(a)'
  BY <1>t, <1>7 DEF wait_copyout_fails, Child, Ahead, Goto, procVars
<1>8. ASSUME NEW p \in Slot, exit(p) PROVE Locked(a)'
  BY <1>t, <1>8 DEF exit, Goto, procVars
<1>9. ASSUME NEW p \in Slot, exit_wake_init(p) PROVE Locked(a)'
  BY <1>t, <1>9 DEF exit_wake_init, wakeup1, Goto, procVars
<1>10. ASSUME NEW p \in Slot, exit_parent(p) PROVE Locked(a)'
  BY <1>t, <1>10 DEF exit_parent, Goto, procVars
<1>11. ASSUME NEW p \in Slot, exit_lock_parent(p) PROVE Locked(a)'
  BY <1>t, <1>11 DEF exit_lock_parent, Goto, procVars
<1>12. ASSUME NEW p \in Slot, exit_lock_self(p) PROVE Locked(a)'
  BY <1>t, <1>12 DEF exit_lock_self, Goto, procVars
<1>13. ASSUME NEW p \in Slot, exit_zombie(p) PROVE Locked(a)'
  BY <1>t, <1>13 DEF exit_zombie, wakeup1, Ahead, Goto, procVars
<1>14. ASSUME NEW p \in Slot, exit_sched(p) PROVE Locked(a)'
  BY <1>t, <1>14 DEF exit_sched, Goto, procVars
<1>15. ASSUME NEW p \in Slot, wait(p) PROVE Locked(a)'
  BY <1>t, <1>15 DEF wait, InUser, Goto, procVars
<1>16. ASSUME NEW p \in Slot, wait_nobody(p) PROVE Locked(a)'
  BY <1>t, <1>16 DEF wait_nobody, Ahead, Goto, procVars
<1>17. ASSUME NEW p \in Slot, wait_sleep(p) PROVE Locked(a)'
  BY <1>t, <1>17 DEF wait_sleep, Ahead, Goto, procVars
<1>18. ASSUME NEW p \in Slot, NEW s \in Slot, NEW n \in KillPids, kill(p, n, s)
      PROVE  Locked(a)'
  BY <1>t, <1>18 DEF kill, InUser, wakeup1, procVars
<1>19. ASSUME UNCHANGED vars PROVE Locked(a)'
  BY <1>19 DEF vars, procVars
<1> HIDE SlotFacts DEF ProcInvariant, Placed, Family, InitLives, Locked
<1> QED
  BY <1>1, <1>2, <1>3, <1>4, <1>5, <1>6, <1>7, <1>8, <1>9, <1>10, <1>11,
      <1>12, <1>13, <1>14, <1>15, <1>16, <1>17, <1>18, <1>19, Zenon
     DEF Next, ExitStep, ScanStep

(* exit() leaves no children behind.                                       *)
LEMMA ChildlessStep == ProcInvariant /\ [Next]_vars => \A a, b \in Slot : Childless(a, b)'
<1> SUFFICES ASSUME ProcInvariant, [Next]_vars, NEW a \in Slot, NEW b \in Slot
             PROVE  Childless(a, b)'
  OBVIOUS
<1> USE SlotFacts DEF ProcInvariant, Placed, Family, InitLives, Childless
<1>t. /\ state \in [Slot -> procstate]
      /\ pc \in [Slot -> Label]
      /\ parent \in [Slot -> Slot \union {None}]
      /\ i \in [Slot -> Int]
  BY DEF TypeOK
<1>1. ASSUME NEW p \in Slot, NEW s \in Slot, fork(p, s) PROVE Childless(a, b)'
  BY <1>t, <1>1 DEF fork, allocproc, InUser, Goto, procVars
<1>2. ASSUME NEW p \in Slot, NEW s \in Slot, fork_no_trapframe(p, s) PROVE Childless(a, b)'
  BY <1>t, <1>2 DEF fork_no_trapframe, allocproc, InUser, procVars
<1>3. ASSUME NEW p \in Slot, NEW s \in Slot, fork_no_pages(p, s) PROVE Childless(a, b)'
  BY <1>t, <1>3 DEF fork_no_pages, allocproc, InUser, procVars
<1>4. ASSUME NEW p \in Slot, NEW s \in Slot, reparent(p, s) PROVE Childless(a, b)'
  BY <1>t, <1>4 DEF reparent, Child, Ahead, procVars
<1>5. ASSUME NEW p \in Slot, NEW s \in Slot, wait_alive(p, s) PROVE Childless(a, b)'
  BY <1>t, <1>5 DEF wait_alive, Child, Ahead, procVars
<1>6. ASSUME NEW p \in Slot, NEW s \in Slot, wait_reap(p, s) PROVE Childless(a, b)'
  BY <1>t, <1>6 DEF wait_reap, Child, Ahead, Goto, procVars
<1>7. ASSUME NEW p \in Slot, NEW s \in Slot, wait_copyout_fails(p, s) PROVE Childless(a, b)'
  BY <1>t, <1>7 DEF wait_copyout_fails, Child, Ahead, Goto, procVars
<1>8. ASSUME NEW p \in Slot, exit(p) PROVE Childless(a, b)'
  BY <1>t, <1>8 DEF exit, Goto, procVars
<1>9. ASSUME NEW p \in Slot, exit_wake_init(p) PROVE Childless(a, b)'
  BY <1>t, <1>9 DEF exit_wake_init, wakeup1, Goto, procVars
<1>10. ASSUME NEW p \in Slot, exit_parent(p) PROVE Childless(a, b)'
  BY <1>t, <1>10 DEF exit_parent, Goto, procVars
<1>11. ASSUME NEW p \in Slot, exit_lock_parent(p) PROVE Childless(a, b)'
  BY <1>t, <1>11 DEF exit_lock_parent, Goto, procVars
<1>12. ASSUME NEW p \in Slot, exit_lock_self(p) PROVE Childless(a, b)'
  BY <1>t, <1>12 DEF exit_lock_self, Goto, procVars
<1>13. ASSUME NEW p \in Slot, exit_zombie(p) PROVE Childless(a, b)'
  BY <1>t, <1>13 DEF exit_zombie, wakeup1, Ahead, Goto, procVars
<1>14. ASSUME NEW p \in Slot, exit_sched(p) PROVE Childless(a, b)'
  BY <1>t, <1>14 DEF exit_sched, Goto, procVars
<1>15. ASSUME NEW p \in Slot, wait(p) PROVE Childless(a, b)'
  BY <1>t, <1>15 DEF wait, InUser, Goto, procVars
<1>16. ASSUME NEW p \in Slot, wait_nobody(p) PROVE Childless(a, b)'
  BY <1>t, <1>16 DEF wait_nobody, Ahead, Goto, procVars
<1>17. ASSUME NEW p \in Slot, wait_sleep(p) PROVE Childless(a, b)'
  BY <1>t, <1>17 DEF wait_sleep, Ahead, Goto, procVars
<1>18. ASSUME NEW p \in Slot, NEW s \in Slot, NEW n \in KillPids, kill(p, n, s)
      PROVE  Childless(a, b)'
  BY <1>t, <1>18 DEF kill, InUser, wakeup1, procVars
<1>19. ASSUME UNCHANGED vars PROVE Childless(a, b)'
  BY <1>19 DEF vars, procVars
<1> HIDE SlotFacts DEF ProcInvariant, Placed, Family, InitLives, Childless
<1> QED
  BY <1>1, <1>2, <1>3, <1>4, <1>5, <1>6, <1>7, <1>8, <1>9, <1>10, <1>11,
      <1>12, <1>13, <1>14, <1>15, <1>16, <1>17, <1>18, <1>19, Zenon
     DEF Next, ExitStep, ScanStep

(* Only a parent that exits changes p->parent, and it makes it init.       *)
LEMMA CopyStep == ProcInvariant /\ [Next]_vars => \A a \in Slot : CopyOfParent(a)'
<1> SUFFICES ASSUME ProcInvariant, [Next]_vars, NEW a \in Slot
             PROVE  CopyOfParent(a)'
  OBVIOUS
<1> USE SlotFacts DEF ProcInvariant, Placed, Family, Locked, CopyOfParent
<1>t. /\ pc \in [Slot -> Label]
      /\ parent \in [Slot -> Slot \union {None}]
      /\ orig \in [Slot -> Slot \union {None}]
      /\ lock \in [Slot -> Slot \union {None}]
  BY DEF TypeOK
<1>1. ASSUME NEW p \in Slot, NEW s \in Slot, fork(p, s) PROVE CopyOfParent(a)'
  BY <1>t, <1>1 DEF fork, allocproc, InUser, Goto, procVars
<1>2. ASSUME NEW p \in Slot, NEW s \in Slot, fork_no_trapframe(p, s) PROVE CopyOfParent(a)'
  BY <1>t, <1>2 DEF fork_no_trapframe, allocproc, InUser, procVars
<1>3. ASSUME NEW p \in Slot, NEW s \in Slot, fork_no_pages(p, s) PROVE CopyOfParent(a)'
  BY <1>t, <1>3 DEF fork_no_pages, allocproc, InUser, procVars
<1>4. ASSUME NEW p \in Slot, NEW s \in Slot, reparent(p, s) PROVE CopyOfParent(a)'
  BY <1>t, <1>4 DEF reparent, Child, Ahead, procVars
<1>5. ASSUME NEW p \in Slot, NEW s \in Slot, wait_alive(p, s) PROVE CopyOfParent(a)'
  BY <1>t, <1>5 DEF wait_alive, Child, Ahead, procVars
<1>6. ASSUME NEW p \in Slot, NEW s \in Slot, wait_reap(p, s) PROVE CopyOfParent(a)'
  BY <1>t, <1>6 DEF wait_reap, Child, Ahead, Goto, procVars
<1>7. ASSUME NEW p \in Slot, NEW s \in Slot, wait_copyout_fails(p, s) PROVE CopyOfParent(a)'
  BY <1>t, <1>7 DEF wait_copyout_fails, Child, Ahead, Goto, procVars
<1>8. ASSUME NEW p \in Slot, exit(p) PROVE CopyOfParent(a)'
  BY <1>t, <1>8 DEF exit, Goto, procVars
<1>9. ASSUME NEW p \in Slot, exit_wake_init(p) PROVE CopyOfParent(a)'
  BY <1>t, <1>9 DEF exit_wake_init, wakeup1, Goto, procVars
<1>10. ASSUME NEW p \in Slot, exit_parent(p) PROVE CopyOfParent(a)'
  BY <1>t, <1>10 DEF exit_parent, Goto, procVars
<1>11. ASSUME NEW p \in Slot, exit_lock_parent(p) PROVE CopyOfParent(a)'
  BY <1>t, <1>11 DEF exit_lock_parent, Goto, procVars
<1>12. ASSUME NEW p \in Slot, exit_lock_self(p) PROVE CopyOfParent(a)'
  BY <1>t, <1>12 DEF exit_lock_self, Goto, procVars
<1>13. ASSUME NEW p \in Slot, exit_zombie(p) PROVE CopyOfParent(a)'
  BY <1>t, <1>13 DEF exit_zombie, wakeup1, Ahead, Goto, procVars
<1>14. ASSUME NEW p \in Slot, exit_sched(p) PROVE CopyOfParent(a)'
  BY <1>t, <1>14 DEF exit_sched, Goto, procVars
<1>15. ASSUME NEW p \in Slot, wait(p) PROVE CopyOfParent(a)'
  BY <1>t, <1>15 DEF wait, InUser, Goto, procVars
<1>16. ASSUME NEW p \in Slot, wait_nobody(p) PROVE CopyOfParent(a)'
  BY <1>t, <1>16 DEF wait_nobody, Ahead, Goto, procVars
<1>17. ASSUME NEW p \in Slot, wait_sleep(p) PROVE CopyOfParent(a)'
  BY <1>t, <1>17 DEF wait_sleep, Ahead, Goto, procVars
<1>18. ASSUME NEW p \in Slot, NEW s \in Slot, NEW n \in KillPids, kill(p, n, s)
      PROVE  CopyOfParent(a)'
  BY <1>t, <1>18 DEF kill, InUser, wakeup1, procVars
<1>19. ASSUME UNCHANGED vars PROVE CopyOfParent(a)'
  BY <1>19 DEF vars, procVars
<1> HIDE SlotFacts DEF ProcInvariant, Placed, Family, Locked, CopyOfParent
<1> QED
  BY <1>1, <1>2, <1>3, <1>4, <1>5, <1>6, <1>7, <1>8, <1>9, <1>10, <1>11,
      <1>12, <1>13, <1>14, <1>15, <1>16, <1>17, <1>18, <1>19, Zenon
     DEF Next, ExitStep, ScanStep

(* A child needs its parent's lock to become a zombie.                     *)
LEMMA BehindStep == ProcInvariant /\ [Next]_vars => \A a, b \in Slot : NoZombieBehind(a, b)'
<1> SUFFICES ASSUME ProcInvariant, [Next]_vars, NEW a \in Slot, NEW b \in Slot
             PROVE  NoZombieBehind(a, b)'
  OBVIOUS
<1> USE SlotFacts DEF ProcInvariant, Placed, Family, Locked, CopyOfParent, NoZombieBehind
<1>t. /\ state \in [Slot -> procstate]
      /\ pc \in [Slot -> Label]
      /\ parent \in [Slot -> Slot \union {None}]
      /\ orig \in [Slot -> Slot \union {None}]
      /\ lock \in [Slot -> Slot \union {None}]
      /\ i \in [Slot -> Int]
  BY DEF TypeOK
<1>1. ASSUME NEW p \in Slot, NEW s \in Slot, fork(p, s) PROVE NoZombieBehind(a, b)'
  BY <1>t, <1>1 DEF fork, allocproc, InUser, Goto, procVars
<1>2. ASSUME NEW p \in Slot, NEW s \in Slot, fork_no_trapframe(p, s) PROVE NoZombieBehind(a, b)'
  BY <1>t, <1>2 DEF fork_no_trapframe, allocproc, InUser, procVars
<1>3. ASSUME NEW p \in Slot, NEW s \in Slot, fork_no_pages(p, s) PROVE NoZombieBehind(a, b)'
  BY <1>t, <1>3 DEF fork_no_pages, allocproc, InUser, procVars
<1>4. ASSUME NEW p \in Slot, NEW s \in Slot, reparent(p, s) PROVE NoZombieBehind(a, b)'
  BY <1>t, <1>4 DEF reparent, Child, Ahead, procVars
<1>5. ASSUME NEW p \in Slot, NEW s \in Slot, wait_alive(p, s) PROVE NoZombieBehind(a, b)'
  BY <1>t, <1>5 DEF wait_alive, Child, Ahead, procVars
<1>6. ASSUME NEW p \in Slot, NEW s \in Slot, wait_reap(p, s) PROVE NoZombieBehind(a, b)'
  BY <1>t, <1>6 DEF wait_reap, Child, Ahead, Goto, procVars
<1>7. ASSUME NEW p \in Slot, NEW s \in Slot, wait_copyout_fails(p, s) PROVE NoZombieBehind(a, b)'
  BY <1>t, <1>7 DEF wait_copyout_fails, Child, Ahead, Goto, procVars
<1>8. ASSUME NEW p \in Slot, exit(p) PROVE NoZombieBehind(a, b)'
  BY <1>t, <1>8 DEF exit, Goto, procVars
<1>9. ASSUME NEW p \in Slot, exit_wake_init(p) PROVE NoZombieBehind(a, b)'
  BY <1>t, <1>9 DEF exit_wake_init, wakeup1, Goto, procVars
<1>10. ASSUME NEW p \in Slot, exit_parent(p) PROVE NoZombieBehind(a, b)'
  BY <1>t, <1>10 DEF exit_parent, Goto, procVars
<1>11. ASSUME NEW p \in Slot, exit_lock_parent(p) PROVE NoZombieBehind(a, b)'
  BY <1>t, <1>11 DEF exit_lock_parent, Goto, procVars
<1>12. ASSUME NEW p \in Slot, exit_lock_self(p) PROVE NoZombieBehind(a, b)'
  BY <1>t, <1>12 DEF exit_lock_self, Goto, procVars
<1>13. ASSUME NEW p \in Slot, exit_zombie(p) PROVE NoZombieBehind(a, b)'
  BY <1>t, <1>13 DEF exit_zombie, wakeup1, Ahead, Goto, procVars
<1>14. ASSUME NEW p \in Slot, exit_sched(p) PROVE NoZombieBehind(a, b)'
  BY <1>t, <1>14 DEF exit_sched, Goto, procVars
<1>15. ASSUME NEW p \in Slot, wait(p) PROVE NoZombieBehind(a, b)'
  BY <1>t, <1>15 DEF wait, InUser, Goto, procVars
<1>16. ASSUME NEW p \in Slot, wait_nobody(p) PROVE NoZombieBehind(a, b)'
  BY <1>t, <1>16 DEF wait_nobody, Ahead, Goto, procVars
<1>17. ASSUME NEW p \in Slot, wait_sleep(p) PROVE NoZombieBehind(a, b)'
  BY <1>t, <1>17 DEF wait_sleep, Ahead, Goto, procVars
<1>18. ASSUME NEW p \in Slot, NEW s \in Slot, NEW n \in KillPids, kill(p, n, s)
      PROVE  NoZombieBehind(a, b)'
  BY <1>t, <1>18 DEF kill, InUser, wakeup1, procVars
<1>19. ASSUME UNCHANGED vars PROVE NoZombieBehind(a, b)'
  BY <1>19 DEF vars, procVars
<1> HIDE SlotFacts DEF ProcInvariant, Placed, Family, Locked, CopyOfParent, NoZombieBehind
<1> QED
  BY <1>1, <1>2, <1>3, <1>4, <1>5, <1>6, <1>7, <1>8, <1>9, <1>10, <1>11,
      <1>12, <1>13, <1>14, <1>15, <1>16, <1>17, <1>18, <1>19, Zenon
     DEF Next, ExitStep, ScanStep

(* exit() wakes the parent it turns into a zombie for.                     *)
LEMMA LostExitStep == ProcInvariant /\ [Next]_vars => NoMissedZombie'
<1> SUFFICES ASSUME ProcInvariant, [Next]_vars,
                    NEW a \in Slot, NEW b \in Slot, a # initproc, (state[a] = "SLEEPING")', (parent[b] = a)'
             PROVE  (state[b] # "ZOMBIE")'
  BY DEF NoMissedZombie
<1> USE SlotFacts DEF ProcInvariant, Placed, Family, Locked, CopyOfParent, NoZombieBehind, NoMissedZombie
<1>t. /\ state \in [Slot -> procstate]
      /\ pc \in [Slot -> Label]
      /\ parent \in [Slot -> Slot \union {None}]
      /\ orig \in [Slot -> Slot \union {None}]
      /\ lock \in [Slot -> Slot \union {None}]
      /\ i \in [Slot -> Int]
  BY DEF TypeOK
<1>1. ASSUME NEW p \in Slot, NEW s \in Slot, fork(p, s) PROVE (state[b] # "ZOMBIE")'
  BY <1>t, <1>1 DEF fork, allocproc, InUser, Goto, procVars
<1>2. ASSUME NEW p \in Slot, NEW s \in Slot, fork_no_trapframe(p, s) PROVE (state[b] # "ZOMBIE")'
  BY <1>t, <1>2 DEF fork_no_trapframe, allocproc, InUser, procVars
<1>3. ASSUME NEW p \in Slot, NEW s \in Slot, fork_no_pages(p, s) PROVE (state[b] # "ZOMBIE")'
  BY <1>t, <1>3 DEF fork_no_pages, allocproc, InUser, procVars
<1>4. ASSUME NEW p \in Slot, NEW s \in Slot, reparent(p, s) PROVE (state[b] # "ZOMBIE")'
  BY <1>t, <1>4 DEF reparent, Child, Ahead, procVars
<1>5. ASSUME NEW p \in Slot, NEW s \in Slot, wait_alive(p, s) PROVE (state[b] # "ZOMBIE")'
  BY <1>t, <1>5 DEF wait_alive, Child, Ahead, procVars
<1>6. ASSUME NEW p \in Slot, NEW s \in Slot, wait_reap(p, s) PROVE (state[b] # "ZOMBIE")'
  BY <1>t, <1>6 DEF wait_reap, Child, Ahead, Goto, procVars
<1>7. ASSUME NEW p \in Slot, NEW s \in Slot, wait_copyout_fails(p, s) PROVE (state[b] # "ZOMBIE")'
  BY <1>t, <1>7 DEF wait_copyout_fails, Child, Ahead, Goto, procVars
<1>8. ASSUME NEW p \in Slot, exit(p) PROVE (state[b] # "ZOMBIE")'
  BY <1>t, <1>8 DEF exit, Goto, procVars
<1>9. ASSUME NEW p \in Slot, exit_wake_init(p) PROVE (state[b] # "ZOMBIE")'
  BY <1>t, <1>9 DEF exit_wake_init, wakeup1, Goto, procVars
<1>10. ASSUME NEW p \in Slot, exit_parent(p) PROVE (state[b] # "ZOMBIE")'
  BY <1>t, <1>10 DEF exit_parent, Goto, procVars
<1>11. ASSUME NEW p \in Slot, exit_lock_parent(p) PROVE (state[b] # "ZOMBIE")'
  BY <1>t, <1>11 DEF exit_lock_parent, Goto, procVars
<1>12. ASSUME NEW p \in Slot, exit_lock_self(p) PROVE (state[b] # "ZOMBIE")'
  BY <1>t, <1>12 DEF exit_lock_self, Goto, procVars
<1>13. ASSUME NEW p \in Slot, exit_zombie(p) PROVE (state[b] # "ZOMBIE")'
  BY <1>t, <1>13 DEF exit_zombie, wakeup1, Ahead, Goto, procVars
<1>14. ASSUME NEW p \in Slot, exit_sched(p) PROVE (state[b] # "ZOMBIE")'
  BY <1>t, <1>14 DEF exit_sched, Goto, procVars
<1>15. ASSUME NEW p \in Slot, wait(p) PROVE (state[b] # "ZOMBIE")'
  BY <1>t, <1>15 DEF wait, InUser, Goto, procVars
<1>16. ASSUME NEW p \in Slot, wait_nobody(p) PROVE (state[b] # "ZOMBIE")'
  BY <1>t, <1>16 DEF wait_nobody, Ahead, Goto, procVars
<1>17. ASSUME NEW p \in Slot, wait_sleep(p) PROVE (state[b] # "ZOMBIE")'
  BY <1>t, <1>17 DEF wait_sleep, Ahead, Goto, procVars
<1>18. ASSUME NEW p \in Slot, NEW s \in Slot, NEW n \in KillPids, kill(p, n, s)
      PROVE  (state[b] # "ZOMBIE")'
  BY <1>t, <1>18 DEF kill, InUser, wakeup1, procVars
<1>19. ASSUME UNCHANGED vars PROVE (state[b] # "ZOMBIE")'
  BY <1>19, SMTT(30) DEF vars, procVars
<1> HIDE SlotFacts DEF ProcInvariant, Placed, Family, Locked, CopyOfParent, NoZombieBehind, NoMissedZombie
<1> QED
  BY <1>1, <1>2, <1>3, <1>4, <1>5, <1>6, <1>7, <1>8, <1>9, <1>10, <1>11,
      <1>12, <1>13, <1>14, <1>15, <1>16, <1>17, <1>18, <1>19, Zenon
     DEF Next, ExitStep, ScanStep

(* allocpid() gives out new pids.                                          *)
LEMMA PidsStep == ProcInvariant /\ [Next]_vars => \A a, b \in Slot : OwnPid(a, b)'
<1> SUFFICES ASSUME ProcInvariant, [Next]_vars, NEW a \in Slot, NEW b \in Slot
             PROVE  OwnPid(a, b)'
  OBVIOUS
<1> USE SlotFacts DEF ProcInvariant, Placed, Locked, OwnPid
<1>t. /\ state \in [Slot -> procstate]
      /\ pid \in [Slot -> Nat] /\ nextpid \in Nat \ {0}
  BY DEF TypeOK
<1>1. ASSUME NEW p \in Slot, NEW s \in Slot, fork(p, s) PROVE OwnPid(a, b)'
  BY <1>t, <1>1 DEF fork, allocproc, InUser, Goto, procVars
<1>2. ASSUME NEW p \in Slot, NEW s \in Slot, fork_no_trapframe(p, s) PROVE OwnPid(a, b)'
  BY <1>t, <1>2 DEF fork_no_trapframe, allocproc, InUser, procVars
<1>3. ASSUME NEW p \in Slot, NEW s \in Slot, fork_no_pages(p, s) PROVE OwnPid(a, b)'
  BY <1>t, <1>3 DEF fork_no_pages, allocproc, InUser, procVars
<1>4. ASSUME NEW p \in Slot, NEW s \in Slot, reparent(p, s) PROVE OwnPid(a, b)'
  BY <1>t, <1>4 DEF reparent, Child, Ahead, procVars
<1>5. ASSUME NEW p \in Slot, NEW s \in Slot, wait_alive(p, s) PROVE OwnPid(a, b)'
  BY <1>t, <1>5 DEF wait_alive, Child, Ahead, procVars
<1>6. ASSUME NEW p \in Slot, NEW s \in Slot, wait_reap(p, s) PROVE OwnPid(a, b)'
  BY <1>t, <1>6 DEF wait_reap, Child, Ahead, Goto, procVars
<1>7. ASSUME NEW p \in Slot, NEW s \in Slot, wait_copyout_fails(p, s) PROVE OwnPid(a, b)'
  BY <1>t, <1>7 DEF wait_copyout_fails, Child, Ahead, Goto, procVars
<1>8. ASSUME NEW p \in Slot, exit(p) PROVE OwnPid(a, b)'
  BY <1>t, <1>8 DEF exit, Goto, procVars
<1>9. ASSUME NEW p \in Slot, exit_wake_init(p) PROVE OwnPid(a, b)'
  BY <1>t, <1>9 DEF exit_wake_init, wakeup1, Goto, procVars
<1>10. ASSUME NEW p \in Slot, exit_parent(p) PROVE OwnPid(a, b)'
  BY <1>t, <1>10 DEF exit_parent, Goto, procVars
<1>11. ASSUME NEW p \in Slot, exit_lock_parent(p) PROVE OwnPid(a, b)'
  BY <1>t, <1>11 DEF exit_lock_parent, Goto, procVars
<1>12. ASSUME NEW p \in Slot, exit_lock_self(p) PROVE OwnPid(a, b)'
  BY <1>t, <1>12 DEF exit_lock_self, Goto, procVars
<1>13. ASSUME NEW p \in Slot, exit_zombie(p) PROVE OwnPid(a, b)'
  BY <1>t, <1>13 DEF exit_zombie, wakeup1, Ahead, Goto, procVars
<1>14. ASSUME NEW p \in Slot, exit_sched(p) PROVE OwnPid(a, b)'
  BY <1>t, <1>14 DEF exit_sched, Goto, procVars
<1>15. ASSUME NEW p \in Slot, wait(p) PROVE OwnPid(a, b)'
  BY <1>t, <1>15 DEF wait, InUser, Goto, procVars
<1>16. ASSUME NEW p \in Slot, wait_nobody(p) PROVE OwnPid(a, b)'
  BY <1>t, <1>16 DEF wait_nobody, Ahead, Goto, procVars
<1>17. ASSUME NEW p \in Slot, wait_sleep(p) PROVE OwnPid(a, b)'
  BY <1>t, <1>17 DEF wait_sleep, Ahead, Goto, procVars
<1>18. ASSUME NEW p \in Slot, NEW s \in Slot, NEW n \in KillPids, kill(p, n, s)
      PROVE  OwnPid(a, b)'
  BY <1>t, <1>18 DEF kill, InUser, wakeup1, procVars
<1>19. ASSUME UNCHANGED vars PROVE OwnPid(a, b)'
  BY <1>19 DEF vars, procVars
<1> HIDE SlotFacts DEF ProcInvariant, Placed, Locked, OwnPid
<1> QED
  BY <1>1, <1>2, <1>3, <1>4, <1>5, <1>6, <1>7, <1>8, <1>9, <1>10, <1>11,
      <1>12, <1>13, <1>14, <1>15, <1>16, <1>17, <1>18, <1>19, Zenon
     DEF Next, ExitStep, ScanStep

(* The invariant of fork(), exit(), wait() and kill().                     *)
THEOREM ProcInvariance == Spec => []ProcInvariant
<1>1. Init => ProcInvariant
  BY ProcConstants
     DEF Init, ProcInvariant, TypeOK, Placed, InitLives, Family, Locked, Childless,
         CopyOfParent, NoZombieBehind, NoMissedZombie, OwnPid, Slot, initproc, None, Label, procstate
<1>2. ProcInvariant /\ [Next]_vars => ProcInvariant'
  BY TypeStep, PlacedStep, InitStep, FamilyStep, LockedStep, ChildlessStep, CopyStep,
     BehindStep, LostExitStep, PidsStep, Zenon DEF ProcInvariant
<1> QED  BY <1>1, <1>2, PTL DEF Spec

(* Every process but init has a live parent, in whatever order processes   *)
(* exit: reparent() runs before the parent is a zombie.                    *)
THEOREM ParentsLive == Spec => []NoOrphan
<1>1. ASSUME ProcInvariant PROVE NoOrphan
  <2> SUFFICES ASSUME NEW s \in Slot, s # initproc, state[s] # "UNUSED"
               PROVE  parent[s] # None /\ Live(parent[s])
    BY DEF NoOrphan
  <2>1. parent[s] \in Slot /\ parent[s] # None
    BY <1>1 DEF ProcInvariant, TypeOK, Family
  <2>2. state[parent[s]] \notin {"UNUSED", "ZOMBIE"}
    BY <1>1, <2>1 DEF ProcInvariant, Childless
  <2>3. state[parent[s]] \in procstate
    BY <1>1, <2>1 DEF ProcInvariant, TypeOK
  <2> QED  BY <2>1, <2>2, <2>3 DEF Live, procstate
<1> QED  BY <1>1, ProcInvariance, PTL

(* wait() frees a process only after the scheduler left its stack.         *)
THEOREM ReapedLate == Spec => []ReapedOffCpu
<1>1. ProcInvariant => ReapedOffCpu
  BY DEF ProcInvariant, TypeOK, Placed, ReapedOffCpu, Label
<1> QED  BY <1>1, ProcInvariance, PTL

(* wait() of a process other than init misses no exit() of a child, and    *)
(* every child has a parent that can wait() for it.                        *)
THEOREM ExitsNoticed == Spec => []NoLostExit
<1>1. ProcInvariant => NoMissedZombie
  BY DEF ProcInvariant
<1> QED  BY <1>1, ProcInvariance, ParentsLive, PTL DEF NoLostExit

(* No two processes have the same pid.                                     *)
THEOREM PidsDiffer == Spec => []PidsUnique
<1>1. ProcInvariant => PidsUnique
  BY DEF ProcInvariant, OwnPid, PidsUnique
<1> QED  BY <1>1, ProcInvariance, PTL
=============================================================================
