----------------------------- MODULE LogProofs -----------------------------
(***************************************************************************)
(* Proofs about Log, for every set of processes, blocks and values and     *)
(* every size of the log.  First a step whose sanity checks pass keeps the *)
(* types, the control, the buffers and the headers; then the copies of the *)
(* blocks are followed up to AtomicDisk; then the blocks are counted, and  *)
(* the checks do pass.  So the inductive invariant holds, log.c does not   *)
(* panic and loses no wakeup, and it implements AtomicDisk.                *)
(***************************************************************************)
EXTENDS LogInv, TLAPS

USE DEF diskVars, logVars, opVars

(* Leaves go to the SMT solver, unless they name another prover.           *)
USE SMTT(60)

(* What the counts below say: a system call finds room in the log,         *)
(* and knows whether it is the last one.                                   *)
Room ==
  \A p \in Proc : InOp(p) => Len(lh) < LOGSIZE /\ Len(lh) < NLOG - 1 /\ outstanding >= 1

Counted ==
  /\ outstanding \in Nat
  /\ outstanding = 0 => \A p \in Proc : ~InOp(p)
  /\ outstanding = 1 => \A p, q \in Proc : InOp(p) /\ InOp(q) => p = q
  /\ outstanding # 1 => \A p \in Proc : InOp(p) => \E q \in Proc : InOp(q) /\ q # p

(* A step that finds room in the log and does not panic.                   *)
CheckedStep == [Next]_vars /\ Room /\ Counted /\ NoPanic'

(* end_op() never finds log.committing set.                                *)
LEMMA EndOpCalm ==
  ASSUME TypeOK, Control, NEW p \in Proc, pc[p] = "op"
  PROVE  committing = 0
  BY Zenon DEF TypeOK, Control, InOp

(* Until recovery is over nobody else runs.                                *)
LEMMA BootFacts ==
  ASSUME TypeOK, Control, NEW p \in Proc, Recoverer(p) \/ pc[p] = "unborn"
  PROVE  /\ ~Up
         /\ committing = 0
         /\ Recoverer(p) => p = initproc
         /\ \A q \in Proc : Recoverer(q) \/ pc[q] = "unborn"
         /\ \A q \in Proc : ~InOp(q) /\ ~Committer(q)
<1>1. ~Up
  BY Zenon DEF Up, Recoverer
<1>2. \A q \in Proc : Recoverer(q) \/ pc[q] = "unborn"
  BY <1>1, Zenon DEF Control
<1>3. \A q \in Proc : ~InOp(q) /\ ~Committer(q)
  BY <1>2, Zenon DEF Recoverer, InOp, Committer
<1>4. Recoverer(p) => p = initproc
  BY <1>1 DEF Control, Recoverer
<1> QED  BY <1>1, <1>2, <1>3, <1>4, Zenon DEF Control

(* While a system call runs there is no commit and no recovery.            *)
LEMMA OpFacts ==
  ASSUME TypeOK, Control, NEW p \in Proc, InOp(p)
  PROVE  /\ Up
         /\ committing = 0
         /\ \A q \in Proc : ~Committer(q) /\ ~Recoverer(q) /\ pc[q] # "unborn"
<1>1. committing = 0
  BY Zenon DEF TypeOK, Control
<1>2. \A q \in Proc : ~Recoverer(q) /\ pc[q] # "unborn"
  BY BootFacts, Zenon
<1>3. Up
  BY <1>2, Zenon DEF Up, Recoverer
<1> QED  BY <1>1, <1>2, <1>3, Zenon DEF Control

(* While a commit runs there is no system call and no recovery.            *)
LEMMA CommitterFacts ==
  ASSUME TypeOK, Control, NEW p \in Proc, Committer(p)
  PROVE  /\ Up
         /\ \A q \in Proc : ~InOp(q) /\ ~Recoverer(q) /\ pc[q] # "unborn"
         /\ \A q \in Proc : Committer(q) => q = p
<1>1. \A q \in Proc : ~Recoverer(q) /\ pc[q] # "unborn"
  BY BootFacts
<1>2. Up
  BY <1>1, Zenon DEF Up, Recoverer
<1> QED  BY <1>1, <1>2, Zenon DEF Control

(* Every step of the kernel, and a crash, keep the state well typed.       *)
LEMMA TypeStep == LogInvariant /\ [Next]_vars => TypeOK'
<1>0. SUFFICES ASSUME LogInvariant, [Next]_vars PROVE TypeOK'
  OBVIOUS
<1> USE LogConstants DEF TypeOK, Label
<1>t. TypeOK /\ Len(lh) <= NLOG - 1
  BY <1>0, Zenon DEF LogInvariant, Shape
<1>1. ASSUME NEW p \in Proc, begin_op(p) PROVE TypeOK'
  BY <1>t, <1>1 DEF begin_op, Goto
<1>2. ASSUME NEW p \in Proc, begin_op_sleep(p) PROVE TypeOK'
  BY <1>t, <1>2, Zenon DEF begin_op_sleep, Goto
<1>3. ASSUME NEW p \in Proc, NEW b \in Block, NEW v \in Value, Modify(p, b, v) PROVE TypeOK'
  BY <1>t, <1>3 DEF Modify, Goto
<1>4. ASSUME NEW p \in Proc, log_write_check(p) PROVE TypeOK'
  BY <1>t, <1>4, Zenon DEF log_write_check, Goto
<1>5. ASSUME NEW p \in Proc, log_write_absorb(p) PROVE TypeOK'
  BY <1>t, <1>5, Zenon DEF log_write_absorb, Goto
<1>6. ASSUME NEW p \in Proc, NEW b \in Block, log_write(p, b) PROVE TypeOK'
  BY <1>t, <1>6 DEF log_write, Goto
<1>7. ASSUME NEW p \in Proc, end_op_last(p) PROVE TypeOK'
  BY <1>t, <1>7 DEF end_op_last, Goto
<1>8. ASSUME NEW p \in Proc, end_op(p) PROVE TypeOK'
  <2>1. WakeupAndGoto(p, "idle")
    BY <1>0, <1>8, EndOpCalm DEF end_op, LogInvariant
  <2> QED  BY <1>t, <1>8, <2>1 DEF end_op, WakeupAndGoto
<1>9. ASSUME NEW p \in Proc, commit(p) PROVE TypeOK'
  BY <1>t, <1>9 DEF commit, Goto
<1>10. ASSUME NEW p \in Proc, write_log(p) PROVE TypeOK'
  BY <1>t, <1>10 DEF write_log, Contents
<1>11. ASSUME NEW p \in Proc, write_head(p) PROVE TypeOK'
  BY <1>t, <1>11 DEF write_head, Goto
<1>12. ASSUME NEW p \in Proc, install_trans(p) PROVE TypeOK'
  BY <1>t, <1>12 DEF install_trans
<1>13. ASSUME NEW p \in Proc, erase_head(p) PROVE TypeOK'
  BY <1>t, <1>13 DEF erase_head, Goto
<1>14. ASSUME NEW p \in Proc, end_commit(p) PROVE TypeOK'
  BY <1>t, <1>14, Zenon DEF end_commit, WakeupAndGoto
<1>15. ASSUME NEW p \in Proc, read_head(p) PROVE TypeOK'
  BY <1>t, <1>15 DEF read_head, Goto
<1>16. ASSUME NEW p \in Proc, recover_from_log(p) PROVE TypeOK'
  BY <1>t, <1>16 DEF recover_from_log
<1>17. ASSUME NEW b \in Block, Bread(b) PROVE TypeOK'
  BY <1>t, <1>17, Zenon DEF Bread
<1>18. ASSUME NEW b \in Block, Evict(b) PROVE TypeOK'
  BY <1>t, <1>18, Zenon DEF Evict
<1>19. CASE Crash
  BY <1>t, <1>19 DEF Crash, BootPc
<1>20. CASE UNCHANGED vars
  BY <1>t, <1>20, Zenon DEF vars
<1> QED
  BY <1>0, <1>1, <1>2, <1>3, <1>4, <1>5, <1>6, <1>7, <1>8, <1>9, <1>10, <1>11, <1>12,
     <1>13, <1>14, <1>15, <1>16, <1>17, <1>18, <1>19, <1>20, Zenon DEF Next, CommitStep, OpStep

(* No step panics.                                                         *)
LEMMA NoPanicStep == LogInvariant /\ [Next]_vars /\ Room => NoPanic'
<1>0. SUFFICES ASSUME LogInvariant, [Next]_vars, Room PROVE NoPanic'
  OBVIOUS
<1> USE DEF NoPanic
<1>t. pc \in [Proc -> Label] /\ NoPanic
  BY <1>0, Zenon DEF LogInvariant, TypeOK
<1>1. ASSUME NEW p \in Proc, begin_op(p) PROVE NoPanic'
  BY <1>t, <1>1, Zenon DEF begin_op, Goto
<1>2. ASSUME NEW p \in Proc, begin_op_sleep(p) PROVE NoPanic'
  BY <1>t, <1>2, Zenon DEF begin_op_sleep, Goto
<1>3. ASSUME NEW p \in Proc, NEW b \in Block, NEW v \in Value, Modify(p, b, v) PROVE NoPanic'
  BY <1>t, <1>3, Zenon DEF Modify, Goto
<1>4. ASSUME NEW p \in Proc, log_write_check(p) PROVE NoPanic'
  <2>1. InOp(p)
    BY <1>4, Zenon DEF log_write_check, InOp
  <2>2. Len(lh) < LOGSIZE /\ Len(lh) < NLOG - 1 /\ outstanding >= 1
    BY <1>0, <2>1, Zenon DEF Room
  <2>3. Len(lh) \in Nat /\ outstanding \in Int /\ LOGSIZE \in Nat /\ NLOG \in Nat
    BY <1>0, LogConstants DEF LogInvariant, TypeOK
  <2>4. Goto(p, "append")
    BY <2>2, <2>3, <1>4 DEF log_write_check
  <2> QED  BY <1>t, <2>4, Zenon DEF Goto
<1>5. ASSUME NEW p \in Proc, log_write_absorb(p) PROVE NoPanic'
  BY <1>t, <1>5, Zenon DEF log_write_absorb, Goto
<1>6. ASSUME NEW p \in Proc, NEW b \in Block, log_write(p, b) PROVE NoPanic'
  BY <1>t, <1>6, Zenon DEF log_write, Goto
<1>7. ASSUME NEW p \in Proc, end_op_last(p) PROVE NoPanic'
  <2>1. Goto(p, "commit")
    BY <1>0, <1>7, EndOpCalm DEF end_op_last, LogInvariant
  <2> QED  BY <1>t, <1>7, <2>1, Zenon DEF end_op_last, Goto
<1>8. ASSUME NEW p \in Proc, end_op(p) PROVE NoPanic'
  <2>1. WakeupAndGoto(p, "idle")
    BY <1>0, <1>8, EndOpCalm DEF end_op, LogInvariant
  <2> QED  BY <1>t, <1>8, <2>1, Zenon DEF end_op, WakeupAndGoto
<1>9. ASSUME NEW p \in Proc, commit(p) PROVE NoPanic'
  BY <1>t, <1>9, Zenon DEF commit, Goto
<1>10. ASSUME NEW p \in Proc, write_log(p) PROVE NoPanic'
  BY <1>t, <1>10, Zenon DEF write_log
<1>11. ASSUME NEW p \in Proc, write_head(p) PROVE NoPanic'
  BY <1>t, <1>11, Zenon DEF write_head, Goto
<1>12. ASSUME NEW p \in Proc, install_trans(p) PROVE NoPanic'
  BY <1>t, <1>12, Zenon DEF install_trans
<1>13. ASSUME NEW p \in Proc, erase_head(p) PROVE NoPanic'
  BY <1>t, <1>13, Zenon DEF erase_head, Goto
<1>14. ASSUME NEW p \in Proc, end_commit(p) PROVE NoPanic'
  BY <1>t, <1>14, Zenon DEF end_commit, WakeupAndGoto
<1>15. ASSUME NEW p \in Proc, read_head(p) PROVE NoPanic'
  BY <1>t, <1>15, Zenon DEF read_head, Goto
<1>16. ASSUME NEW p \in Proc, recover_from_log(p) PROVE NoPanic'
  BY <1>t, <1>16, Zenon DEF recover_from_log
<1>17. ASSUME NEW b \in Block, Bread(b) PROVE NoPanic'
  BY <1>t, <1>17, Zenon DEF Bread
<1>18. ASSUME NEW b \in Block, Evict(b) PROVE NoPanic'
  BY <1>t, <1>18, Zenon DEF Evict
<1>19. CASE Crash
  BY <1>t, <1>19, Zenon DEF Crash, BootPc
<1>20. CASE UNCHANGED vars
  BY <1>t, <1>20, Zenon DEF vars
<1> QED
  BY <1>0, <1>1, <1>2, <1>3, <1>4, <1>5, <1>6, <1>7, <1>8, <1>9, <1>10, <1>11, <1>12,
     <1>13, <1>14, <1>15, <1>16, <1>17, <1>18, <1>19, <1>20, ZenonT(60) DEF Next, CommitStep, OpStep

(* One committer or many system calls, and recovery before either.         *)
LEMMA ControlStep == LogInvariant /\ CheckedStep => Control'
<1>0. SUFFICES ASSUME LogInvariant, [Next]_vars, Counted, NoPanic' PROVE Control'
  BY Zenon DEF CheckedStep
<1> USE DEF Control, Up, Committer, Recoverer, InOp
<1>c. TypeOK /\ Control /\ Phases /\ NoPanic'
  BY <1>0, Zenon DEF LogInvariant
<1>t. pc \in [Proc -> Label] /\ committing \in {0, 1} /\ initproc \in Proc /\ Control
  BY <1>c, LogConstants, Zenon DEF TypeOK
<1>1. ASSUME NEW p \in Proc, begin_op(p) PROVE Control'
  BY <1>t, <1>1 DEF begin_op, Goto, MayBegin
<1>2. ASSUME NEW p \in Proc, begin_op_sleep(p) PROVE Control'
  BY <1>t, <1>2, Zenon DEF begin_op_sleep, Goto
<1>3. ASSUME NEW p \in Proc, NEW b \in Block, NEW v \in Value, Modify(p, b, v) PROVE Control'
  BY <1>t, <1>3, Zenon DEF Modify, Goto
<1>4. ASSUME NEW p \in Proc, log_write_check(p) PROVE Control'
  <2>1. Goto(p, "append")
    BY <1>c, <1>t, <1>4, Zenon DEF log_write_check, NoPanic, Goto
  <2> QED  BY <1>t, <1>4, <2>1, Zenon DEF log_write_check, Goto
<1>5. ASSUME NEW p \in Proc, log_write_absorb(p) PROVE Control'
  BY <1>t, <1>5, Zenon DEF log_write_absorb, Goto
<1>6. ASSUME NEW p \in Proc, NEW b \in Block, log_write(p, b) PROVE Control'
  BY <1>t, <1>6, Zenon DEF log_write, Goto
<1>7. ASSUME NEW p \in Proc, end_op_last(p) PROVE Control'
  <2>1. Goto(p, "commit")
    BY <1>c, <1>7, EndOpCalm, Zenon DEF end_op_last
  <2>2. \A q \in Proc : InOp(q) => q = p
    BY <1>0, <1>7, Zenon DEF end_op_last, Counted
  <2> QED  BY <1>t, <1>7, <2>1, <2>2 DEF end_op_last, Goto
<1>8. ASSUME NEW p \in Proc, end_op(p) PROVE Control'
  <2>1. WakeupAndGoto(p, "idle")
    BY <1>c, <1>8, EndOpCalm, Zenon DEF end_op
  <2>2. PICK q \in Proc : InOp(q) /\ q # p
    BY <1>0, <1>8, Zenon DEF end_op, Counted
  <2> QED  BY <1>t, <1>8, <2>1, <2>2, Zenon DEF end_op, WakeupAndGoto
<1>9. ASSUME NEW p \in Proc, commit(p) PROVE Control'
  BY <1>t, <1>9, Zenon DEF commit, Goto
<1>10. ASSUME NEW p \in Proc, write_log(p) PROVE Control'
  BY <1>t, <1>10, Zenon DEF write_log
<1>11. ASSUME NEW p \in Proc, write_head(p) PROVE Control'
  BY <1>t, <1>11, Zenon DEF write_head, Goto
<1>12. ASSUME NEW p \in Proc, install_trans(p) PROVE Control'
  BY <1>t, <1>12, Zenon DEF install_trans
<1>13. ASSUME NEW p \in Proc, erase_head(p) PROVE Control'
  BY <1>t, <1>13, Zenon DEF erase_head, Goto
<1>14. ASSUME NEW p \in Proc, end_commit(p) PROVE Control'
  <2>1. lh = <<>>
    BY <1>c, <1>14, Zenon DEF end_commit, Phases
  <2> QED  BY <1>t, <1>14, <2>1 DEF end_commit, WakeupAndGoto
<1>15. ASSUME NEW p \in Proc, read_head(p) PROVE Control'
  BY <1>t, <1>15, Zenon DEF read_head, Goto
<1>16. ASSUME NEW p \in Proc, recover_from_log(p) PROVE Control'
  BY <1>t, <1>16, Zenon DEF recover_from_log
<1>17. ASSUME NEW b \in Block, Bread(b) PROVE Control'
  BY <1>t, <1>17, Zenon DEF Bread
<1>18. ASSUME NEW b \in Block, Evict(b) PROVE Control'
  BY <1>t, <1>18, Zenon DEF Evict
<1>19. CASE Crash
  BY <1>t, <1>19 DEF Crash, BootPc
<1>20. CASE UNCHANGED vars
  BY <1>t, <1>20, Zenon DEF vars
<1> QED
  BY <1>0, <1>1, <1>2, <1>3, <1>4, <1>5, <1>6, <1>7, <1>8, <1>9, <1>10, <1>11, <1>12,
     <1>13, <1>14, <1>15, <1>16, <1>17, <1>18, <1>19, <1>20, ZenonT(60) DEF Next, CommitStep, OpStep

(* Whoever sleeps in begin_op() has somebody to wake it.                   *)
LEMMA SleeperStep == LogInvariant /\ CheckedStep => SleeperHasWaker'
<1>0. SUFFICES ASSUME LogInvariant, [Next]_vars, Counted PROVE SleeperHasWaker'
  BY Zenon DEF CheckedStep
<1> USE DEF SleeperHasWaker
<1>c. TypeOK /\ Control
  BY <1>0, Zenon DEF LogInvariant
<1>t. pc \in [Proc -> Label] /\ committing \in {0, 1} /\ outstanding \in Nat /\ SleeperHasWaker
  BY <1>0, <1>c, Zenon DEF LogInvariant, TypeOK, Counted
<1>1. ASSUME NEW p \in Proc, begin_op(p) PROVE SleeperHasWaker'
  BY <1>t, <1>1 DEF begin_op, Goto
<1>2. ASSUME NEW p \in Proc, begin_op_sleep(p) PROVE SleeperHasWaker'
  <2>1. outstanding > 0 \/ committing = 1
    <3> SUFFICES ASSUME outstanding = 0, committing = 0 PROVE FALSE
      BY <1>t
    <3>1. \A q \in Proc : ~InOp(q)
      BY <1>0, Zenon DEF Counted
    <3>2. Up
      BY <1>c, <1>2, Zenon DEF begin_op_sleep, Control, Recoverer
    <3>3. Len(lh) = 0
      BY <1>c, <3>1, <3>2 DEF Control
    <3> QED  BY <1>2, <3>3, LogConstants, LargeEnough DEF begin_op_sleep, MayBegin
  <2> QED  BY <2>1, <1>2, Zenon DEF begin_op_sleep
<1>3. ASSUME NEW p \in Proc, NEW b \in Block, NEW v \in Value, Modify(p, b, v) PROVE SleeperHasWaker'
  BY <1>t, <1>3, Zenon DEF Modify, Goto
<1>4. ASSUME NEW p \in Proc, log_write_check(p) PROVE SleeperHasWaker'
  BY <1>t, <1>4, Zenon DEF log_write_check, Goto
<1>5. ASSUME NEW p \in Proc, log_write_absorb(p) PROVE SleeperHasWaker'
  BY <1>t, <1>5, Zenon DEF log_write_absorb, Goto
<1>6. ASSUME NEW p \in Proc, NEW b \in Block, log_write(p, b) PROVE SleeperHasWaker'
  BY <1>t, <1>6, Zenon DEF log_write, Goto
<1>7. ASSUME NEW p \in Proc, end_op_last(p) PROVE SleeperHasWaker'
  BY <1>t, <1>7, Zenon DEF end_op_last, Goto
<1>8. ASSUME NEW p \in Proc, end_op(p) PROVE SleeperHasWaker'
  <2>1. WakeupAndGoto(p, "idle")
    BY <1>c, <1>8, EndOpCalm DEF end_op
  <2> QED  BY <1>t, <2>1, Zenon DEF WakeupAndGoto
<1>9. ASSUME NEW p \in Proc, commit(p) PROVE SleeperHasWaker'
  BY <1>t, <1>9, Zenon DEF commit, Goto
<1>10. ASSUME NEW p \in Proc, write_log(p) PROVE SleeperHasWaker'
  BY <1>t, <1>10, Zenon DEF write_log
<1>11. ASSUME NEW p \in Proc, write_head(p) PROVE SleeperHasWaker'
  BY <1>t, <1>11, Zenon DEF write_head, Goto
<1>12. ASSUME NEW p \in Proc, install_trans(p) PROVE SleeperHasWaker'
  BY <1>t, <1>12, Zenon DEF install_trans
<1>13. ASSUME NEW p \in Proc, erase_head(p) PROVE SleeperHasWaker'
  BY <1>t, <1>13, Zenon DEF erase_head, Goto
<1>14. ASSUME NEW p \in Proc, end_commit(p) PROVE SleeperHasWaker'
  BY <1>t, <1>14, Zenon DEF end_commit, WakeupAndGoto
<1>15. ASSUME NEW p \in Proc, read_head(p) PROVE SleeperHasWaker'
  BY <1>t, <1>15, Zenon DEF read_head, Goto
<1>16. ASSUME NEW p \in Proc, recover_from_log(p) PROVE SleeperHasWaker'
  BY <1>t, <1>16, Zenon DEF recover_from_log
<1>17. ASSUME NEW b \in Block, Bread(b) PROVE SleeperHasWaker'
  BY <1>t, <1>17, Zenon DEF Bread
<1>18. ASSUME NEW b \in Block, Evict(b) PROVE SleeperHasWaker'
  BY <1>t, <1>18, Zenon DEF Evict
<1>19. CASE Crash
  BY <1>t, <1>19, Zenon DEF Crash, BootPc
<1>20. CASE UNCHANGED vars
  BY <1>t, <1>20, Zenon DEF vars
<1> QED
  BY <1>0, <1>1, <1>2, <1>3, <1>4, <1>5, <1>6, <1>7, <1>8, <1>9, <1>10, <1>11, <1>12,
     <1>13, <1>14, <1>15, <1>16, <1>17, <1>18, <1>19, <1>20, Zenon DEF Next, CommitStep, OpStep

(* The steps that neither begin, nor log for, nor end a system call, and   *)
(* leave log.lh alone.                                                     *)
Aside == UNCHANGED <<lh, outstanding, held, wset>> /\ Active' = Active

(* They are all but the following.                                         *)
LEMMA OtherSteps ==
  ASSUME TypeOK, [Next]_vars, NoPanic'
  PROVE  \/ \E p \in Proc :
              \/ begin_op(p) \/ log_write_absorb(p) \/ end_op_last(p) \/ end_op(p)
              \/ erase_head(p) \/ read_head(p) \/ recover_from_log(p)
         \/ \E p \in Proc, b \in Block : log_write(p, b)
         \/ \E p \in Proc, b \in Block, v \in Value : Modify(p, b, v)
         \/ Crash
         \/ Aside
<1> USE DEF Aside, Active, InOp
<1>t. pc \in [Proc -> Label]
  BY Zenon DEF TypeOK
<1>1. ASSUME NEW p \in Proc, begin_op_sleep(p) PROVE Aside
  BY <1>t, <1>1, Zenon DEF begin_op_sleep, Goto
<1>2. ASSUME NEW p \in Proc, log_write_check(p) PROVE Aside
  BY <1>t, <1>2, Zenon DEF log_write_check, Goto, NoPanic
<1>3. ASSUME NEW p \in Proc, commit(p) PROVE Aside
  BY <1>t, <1>3, Zenon DEF commit, Goto
<1>4. ASSUME NEW p \in Proc, write_log(p) PROVE Aside
  BY <1>t, <1>4, Zenon DEF write_log
<1>5. ASSUME NEW p \in Proc, write_head(p) PROVE Aside
  BY <1>t, <1>5, Zenon DEF write_head, Goto
<1>6. ASSUME NEW p \in Proc, install_trans(p) PROVE Aside
  BY <1>t, <1>6, Zenon DEF install_trans
<1>7. ASSUME NEW p \in Proc, end_commit(p) PROVE Aside
  BY <1>t, <1>7, Zenon DEF end_commit, WakeupAndGoto
<1>8. ASSUME NEW b \in Block, Bread(b) PROVE Aside
  BY <1>t, <1>8, Zenon DEF Bread
<1>9. ASSUME NEW b \in Block, Evict(b) PROVE Aside
  BY <1>t, <1>9, Zenon DEF Evict
<1>10. CASE UNCHANGED vars
  BY <1>10, Zenon DEF vars
<1> QED
  BY <1>1, <1>2, <1>3, <1>4, <1>5, <1>6, <1>7, <1>8, <1>9, <1>10, Zenon DEF Next, CommitStep, OpStep

(* Who holds which buffer, and what each system call has logged.           *)
LEMMA BuffersStep == LogInvariant /\ CheckedStep => Buffers'
<1>0. SUFFICES ASSUME LogInvariant, [Next]_vars, NoPanic', Room PROVE Buffers'
  BY Zenon DEF CheckedStep
<1>c. TypeOK /\ Control /\ Buffers /\ NoPanic'
  BY <1>0, Zenon DEF LogInvariant
<1>t. /\ pc \in [Proc -> Label] /\ lh \in Seq(Block) /\ Buffers
      /\ held \in [Proc -> SUBSET Block] /\ wset \in [Proc -> SUBSET Block]
  BY <1>c, Zenon DEF TypeOK
<1> USE DEF Buffers, Logged, InOp
<1>1. ASSUME NEW p \in Proc, begin_op(p) PROVE Buffers'
  BY <1>t, <1>1 DEF begin_op, Goto
<1>2. ASSUME NEW p \in Proc, begin_op_sleep(p) PROVE Buffers'
  BY <1>t, <1>2 DEF begin_op_sleep, Goto
<1>3. ASSUME NEW p \in Proc, NEW b \in Block, NEW v \in Value, Modify(p, b, v) PROVE Buffers'
  <2>1. held' = [held EXCEPT ![p] = {b}] /\ \A q \in Proc : b \notin held[q]
    BY <1>3, Zenon DEF Modify, Free
  <2>2. /\ \A q \in Proc : pc'[q] = IF q = p THEN "check" ELSE pc[q]
        /\ pc[p] = "op"
    BY <1>t, <1>3, Zenon DEF Modify, Goto
  <2>3. lh' = lh /\ wset' = wset
    BY <1>3, Zenon DEF Modify
  <2>4. \A q \in Proc : held'[q] = IF q = p THEN {b} ELSE held[q]
    BY <1>t, <2>1, Zenon
  <2>5. \A q \in Proc : pc'[q] \in {"check", "append"} => \E c \in Block : held'[q] = {c}
    <3> SUFFICES ASSUME NEW q \in Proc, pc'[q] \in {"check", "append"}
                 PROVE  \E c \in Block : held'[q] = {c}
      OBVIOUS
    <3>1. CASE q = p
      BY <3>1, <2>4, Zenon
    <3>2. CASE q # p
      <4>1. held'[q] = held[q] /\ pc[q] \in {"check", "append"}
        BY <3>2, <2>2, <2>4, Zenon
      <4> QED  BY <4>1, <1>t, Zenon
    <3> QED  BY <3>1, <3>2, Zenon
  <2>6. \A q \in Proc : pc'[q] \notin {"check", "append"} => held'[q] = {}
    BY <1>t, <2>2, <2>4, Zenon
  <2>7. \A q, r \in Proc : \A c \in Block : c \in held'[q] /\ c \in held'[r] => q = r
    BY <1>t, <2>1, <2>4
  <2>8. \A q \in Proc : pc'[q] \notin {"op", "check", "append"} => wset'[q] = {}
    BY <1>t, <2>2, <2>3, Zenon
  <2>9. \A q \in Proc : wset'[q] \subseteq Logged'
    BY <1>t, <2>3
  <2> QED  BY <2>5, <2>6, <2>7, <2>8, <2>9, Zenon
<1>4. ASSUME NEW p \in Proc, log_write_check(p) PROVE Buffers'
  BY <1>c, <1>t, <1>4 DEF log_write_check, Goto, NoPanic
<1>5. ASSUME NEW p \in Proc, log_write_absorb(p) PROVE Buffers'
  BY <1>t, <1>5 DEF log_write_absorb, Goto
<1>6. ASSUME NEW p \in Proc, NEW b \in Block, log_write(p, b) PROVE Buffers'
  BY <1>t, <1>6 DEF log_write, Goto
<1>7. ASSUME NEW p \in Proc, end_op_last(p) PROVE Buffers'
  BY <1>t, <1>7 DEF end_op_last, Goto
<1>8. ASSUME NEW p \in Proc, end_op(p) PROVE Buffers'
  <2>1. WakeupAndGoto(p, "idle")
    BY <1>c, <1>8, EndOpCalm DEF end_op
  <2> QED  BY <1>t, <1>8, <2>1 DEF end_op, WakeupAndGoto
<1>9. ASSUME NEW p \in Proc, commit(p) PROVE Buffers'
  BY <1>t, <1>9 DEF commit, Goto
<1>10. ASSUME NEW p \in Proc, write_log(p) PROVE Buffers'
  BY <1>t, <1>10 DEF write_log
<1>11. ASSUME NEW p \in Proc, write_head(p) PROVE Buffers'
  BY <1>t, <1>11 DEF write_head, Goto
<1>12. ASSUME NEW p \in Proc, install_trans(p) PROVE Buffers'
  BY <1>t, <1>12 DEF install_trans
<1>13. ASSUME NEW p \in Proc, erase_head(p) PROVE Buffers'
  <2>1. \A q \in Proc : wset[q] = {} /\ ~InOp(q)
    BY <1>c, <1>13, Zenon DEF erase_head, Control, Up, Committer, InOp
  <2> QED  BY <1>t, <1>13, <2>1, Zenon DEF erase_head, Goto
<1>14. ASSUME NEW p \in Proc, end_commit(p) PROVE Buffers'
  BY <1>t, <1>14 DEF end_commit, WakeupAndGoto
<1>15. ASSUME NEW p \in Proc, read_head(p) PROVE Buffers'
  <2>1. \A q \in Proc : ~InOp(q)
    BY <1>c, <1>15, BootFacts, Zenon DEF read_head, Recoverer
  <2> QED  BY <1>t, <1>15, <2>1, Zenon DEF read_head, Goto
<1>16. ASSUME NEW p \in Proc, recover_from_log(p) PROVE Buffers'
  <2>1. \A q \in Proc : wset[q] = {} /\ ~InOp(q)
    BY <1>c, <1>16, BootFacts, Zenon DEF recover_from_log, Recoverer
  <2> QED  BY <1>t, <1>16, <2>1, Zenon DEF recover_from_log
<1>17. ASSUME NEW b \in Block, Bread(b) PROVE Buffers'
  BY <1>t, <1>17 DEF Bread
<1>18. ASSUME NEW b \in Block, Evict(b) PROVE Buffers'
  BY <1>t, <1>18 DEF Evict
<1>19. CASE Crash
  BY <1>t, <1>19, Zenon DEF Crash, BootPc
<1>20. CASE UNCHANGED vars
  BY <1>t, <1>20 DEF vars
<1> QED
  BY <1>0, <1>1, <1>2, <1>3, <1>4, <1>5, <1>6, <1>7, <1>8, <1>9, <1>10, <1>11, <1>12,
     <1>13, <1>14, <1>15, <1>16, <1>17, <1>18, <1>19, <1>20, ZenonT(60) DEF Next, CommitStep, OpStep

(* The steps that leave both headers, the pins and the stage of a commit   *)
(* or a recovery alone.                                                    *)
Staged == {"unborn", "rhead", "rinst", "wlog", "inst"}
Still ==
  /\ UNCHANGED <<lh, dhead, pinned, tail>>
  /\ \A q \in Proc :
       \/ pc'[q] = pc[q]
       \/ pc[q] \notin Staged /\ pc'[q] \notin Staged \union {"endc"}

(* They are all but the following.                                         *)
LEMMA StageSteps ==
  ASSUME TypeOK, [Next]_vars
  PROVE  \/ \E p \in Proc, b \in Block : log_write(p, b)
         \/ \E p \in Proc :
              \/ commit(p) \/ write_log(p) \/ write_head(p) \/ install_trans(p)
              \/ erase_head(p) \/ read_head(p) \/ recover_from_log(p)
         \/ Crash
         \/ Still
<1> USE DEF Still, Staged
<1>t. pc \in [Proc -> Label]
  BY Zenon DEF TypeOK
<1>1. ASSUME NEW p \in Proc, begin_op(p) PROVE Still
  BY <1>t, <1>1, Zenon DEF begin_op, Goto
<1>2. ASSUME NEW p \in Proc, begin_op_sleep(p) PROVE Still
  BY <1>t, <1>2, Zenon DEF begin_op_sleep, Goto
<1>3. ASSUME NEW p \in Proc, NEW b \in Block, NEW v \in Value, Modify(p, b, v) PROVE Still
  BY <1>t, <1>3, Zenon DEF Modify, Goto
<1>4. ASSUME NEW p \in Proc, log_write_check(p) PROVE Still
  BY <1>t, <1>4, Zenon DEF log_write_check, Goto
<1>5. ASSUME NEW p \in Proc, log_write_absorb(p) PROVE Still
  BY <1>t, <1>5, Zenon DEF log_write_absorb, Goto
<1>6. ASSUME NEW p \in Proc, end_op_last(p) PROVE Still
  BY <1>t, <1>6, Zenon DEF end_op_last, Goto
<1>7. ASSUME NEW p \in Proc, end_op(p) PROVE Still
  BY <1>t, <1>7, Zenon DEF end_op, Goto, WakeupAndGoto
<1>8. ASSUME NEW p \in Proc, end_commit(p) PROVE Still
  BY <1>t, <1>8, Zenon DEF end_commit, WakeupAndGoto
<1>9. ASSUME NEW b \in Block, Bread(b) PROVE Still
  BY <1>t, <1>9, Zenon DEF Bread
<1>10. ASSUME NEW b \in Block, Evict(b) PROVE Still
  BY <1>t, <1>10, Zenon DEF Evict
<1>11. CASE UNCHANGED vars
  BY <1>11, Zenon DEF vars
<1> QED
  BY <1>1, <1>2, <1>3, <1>4, <1>5, <1>6, <1>7, <1>8, <1>9, <1>10, <1>11, Zenon DEF Next, CommitStep, OpStep

(* The headers never name a block twice nor outgrow the log.               *)
LEMMA ShapeStep == LogInvariant /\ CheckedStep => Shape'
<1>0. SUFFICES ASSUME LogInvariant, [Next]_vars, NoPanic', Room PROVE Shape'
  BY DEF CheckedStep
<1>t. lh \in Seq(Block) /\ dhead \in Seq(Block) /\ NLOG \in Nat /\ Shape
  BY <1>0, LogConstants, Zenon DEF LogInvariant, TypeOK
<1> USE DEF Shape, Injective
<1>1. ASSUME NEW p \in Proc, NEW b \in Block, log_write(p, b) PROVE Shape'
  <2>1. Len(lh) < NLOG - 1
    BY <1>0, <1>1, Zenon DEF log_write, InOp, Room
  <2> QED  BY <1>t, <1>1, <2>1 DEF log_write, Goto, Logged
<1>2. ASSUME NEW p \in Proc, commit(p) PROVE Shape'
  BY <1>t, <1>2, Zenon DEF commit, Goto
<1>3. ASSUME NEW p \in Proc, write_log(p) PROVE Shape'
  BY <1>t, <1>3, Zenon DEF write_log
<1>4. ASSUME NEW p \in Proc, write_head(p) PROVE Shape'
  BY <1>t, <1>4, Zenon DEF write_head, Goto
<1>5. ASSUME NEW p \in Proc, install_trans(p) PROVE Shape'
  BY <1>t, <1>5, Zenon DEF install_trans
<1>6. ASSUME NEW p \in Proc, erase_head(p) PROVE Shape'
  BY <1>t, <1>6 DEF erase_head, Goto
<1>7. ASSUME NEW p \in Proc, read_head(p) PROVE Shape'
  BY <1>t, <1>7, Zenon DEF read_head, Goto
<1>8. ASSUME NEW p \in Proc, recover_from_log(p) PROVE Shape'
  BY <1>t, <1>8 DEF recover_from_log
<1>9. CASE Crash
  BY <1>t, <1>9 DEF Crash, BootPc
<1>10. CASE Still
  BY <1>t, <1>10, Zenon DEF Still
<1> QED
  BY <1>0, <1>1, <1>2, <1>3, <1>4, <1>5, <1>6, <1>7, <1>8, <1>9, <1>10, StageSteps, Zenon
     DEF LogInvariant

(* The headers agree with the stage of the commit or of the recovery.      *)
LEMMA PhasesStep == LogInvariant /\ CheckedStep => Phases'
<1>0. SUFFICES ASSUME LogInvariant, [Next]_vars, NoPanic', Room PROVE Phases'
  BY DEF CheckedStep
<1>c. TypeOK /\ Control /\ NoPanic'
  BY <1>0, Zenon DEF LogInvariant
<1>t. /\ pc \in [Proc -> Label] /\ tail \in [Proc -> Nat \ {0}] /\ Len(lh) \in Nat
      /\ initproc \in Proc /\ Shape /\ Phases
  BY <1>0, <1>c, LogConstants DEF LogInvariant, TypeOK
<1> USE DEF Phases, Up, Committer
<1>1. ASSUME NEW p \in Proc, NEW b \in Block, log_write(p, b) PROVE Phases'
  <2>1. \A q \in Proc : ~Committer(q) /\ ~Recoverer(q)
    BY <1>c, <1>t, <1>1, OpFacts, Zenon DEF log_write, InOp
  <2> QED  BY <1>t, <1>1, <2>1, Zenon DEF log_write, Goto, Recoverer
<1>2. ASSUME NEW p \in Proc, commit(p) PROVE Phases'
  BY <1>t, <1>2 DEF commit, Goto
<1>3. ASSUME NEW p \in Proc, write_log(p) PROVE Phases'
  BY <1>t, <1>3 DEF write_log
<1>4. ASSUME NEW p \in Proc, write_head(p) PROVE Phases'
  BY <1>t, <1>4 DEF write_head, Goto
<1>5. ASSUME NEW p \in Proc, install_trans(p) PROVE Phases'
  BY <1>t, <1>5 DEF install_trans
<1>6. ASSUME NEW p \in Proc, erase_head(p) PROVE Phases'
  <2>1. \A q \in Proc : ~Recoverer(q) /\ (Committer(q) => q = p)
    BY <1>c, <1>t, <1>6, CommitterFacts, Zenon DEF erase_head
  <2> QED  BY <1>t, <1>6, <2>1, Zenon DEF erase_head, Goto, Recoverer
<1>7. ASSUME NEW p \in Proc, read_head(p) PROVE Phases'
  <2>1. \A q \in Proc : ~Committer(q) /\ (Recoverer(q) => q = p)
    BY <1>c, <1>t, <1>7, BootFacts, Zenon DEF read_head, Recoverer
  <2>2. \A q \in Proc : pc'[q] = IF q = p THEN "rinst" ELSE pc[q]
    BY <1>t, <1>7, Zenon DEF read_head, Goto
  <2>3. /\ tail'[p] = 1 /\ lh' = dhead /\ dhead' = dhead
        /\ \A q \in Proc : q # p => tail'[q] = tail[q]
    BY <1>t, <1>7, Zenon DEF read_head
  <2>4. ~Up'
    BY <2>2, Zenon
  <2> QED  BY <1>t, <2>1, <2>2, <2>3, <2>4, SMTT(40) DEF Recoverer
<1>8. ASSUME NEW p \in Proc, recover_from_log(p) PROVE Phases'
  BY <1>t, <1>8, Zenon DEF recover_from_log
<1>9. CASE Crash
  BY <1>t, <1>9, Zenon DEF Crash, BootPc
<1>10. CASE Still
  BY <1>t, <1>10, Zenon DEF Still, Staged
<1> QED
  BY <1>0, <1>1, <1>2, <1>3, <1>4, <1>5, <1>6, <1>7, <1>8, <1>9, <1>10, StageSteps, Zenon
     DEF LogInvariant

-----------------------------------------------------------------------------
(* Where the latest contents of a block are: in its buffer, in the log or  *)
(* at home.  A step whose sanity checks pass keeps pins and copies in      *)
(* order, and is a step of AtomicDisk or invisible to it.                  *)

(* bpin() and bunpin() bracket the time a block is only in the log.        *)
LEMMA PinsStep == LogInvariant /\ CheckedStep => Pins'
<1>0. SUFFICES ASSUME LogInvariant, [Next]_vars, NoPanic', Room PROVE Pins'
  BY Zenon DEF CheckedStep
<1>c. TypeOK /\ Control /\ NoPanic'
  BY <1>0, Zenon DEF LogInvariant
<1>t. /\ pc \in [Proc -> Label] /\ tail \in [Proc -> Nat \ {0}] /\ Len(lh) \in Nat
      /\ initproc \in Proc /\ Shape /\ Phases /\ Pins
  BY <1>0, <1>c, LogConstants DEF LogInvariant, TypeOK
<1> USE DEF Pins, Up, Committer
<1>1. ASSUME NEW p \in Proc, NEW b \in Block, log_write(p, b) PROVE Pins'
  <2>1. Up /\ \A q \in Proc : pc[q] # "inst" /\ pc'[q] # "inst"
    BY <1>c, <1>t, <1>1, OpFacts, Zenon DEF log_write, InOp, Goto
  <2>2. /\ Len(lh') = Len(lh) + 1 /\ Len(lh) \in Nat
        /\ lh'[Len(lh) + 1] = b
        /\ \A i \in 1..Len(lh) : lh'[i] = lh[i]
    BY <1>t, <1>1 DEF log_write
  <2>3. pinned' = pinned \union {b}
    BY <1>1, Zenon DEF log_write
  <2>4. Up'
    BY <1>t, <2>1, <1>1, Zenon DEF log_write, Goto
  <2>o. /\ \A c \in pinned : \E i \in 1..Len(lh) : lh[i] = c
        /\ \A i \in 1..Len(lh) : lh[i] \in pinned
    BY <1>t, <2>1, Zenon
  <2>5. \A c \in pinned' : \E i \in 1..Len(lh') : lh'[i] = c
    <3> HIDE DEF Pins
    <3> SUFFICES ASSUME NEW c \in pinned' PROVE \E i \in 1..Len(lh') : lh'[i] = c
      OBVIOUS
    <3>1. CASE c = b
      BY <2>2, <3>1
    <3>2. CASE c \in pinned
      BY <2>2, <2>o, <3>2
    <3> QED  BY <2>3, <3>1, <3>2, Zenon
  <2>6. \A i \in 1..Len(lh') : lh'[i] \in pinned'
    <3> HIDE DEF Pins
    <3> SUFFICES ASSUME NEW i \in 1..Len(lh') PROVE lh'[i] \in pinned'
      OBVIOUS
    <3>1. CASE i = Len(lh) + 1
      BY <2>2, <2>3, <3>1, Zenon
    <3>2. CASE i \in 1..Len(lh)
      BY <2>2, <2>3, <2>o, <3>2, Zenon
    <3> QED  BY <2>2, <3>1, <3>2
  <2> QED  BY <2>1, <2>4, <2>5, <2>6, Zenon
<1>2. ASSUME NEW p \in Proc, commit(p) PROVE Pins'
  BY <1>t, <1>2 DEF commit, Goto
<1>3. ASSUME NEW p \in Proc, write_log(p) PROVE Pins'
  BY <1>t, <1>3, Zenon DEF write_log
<1>4. ASSUME NEW p \in Proc, write_head(p) PROVE Pins'
  BY <1>t, <1>4 DEF write_head, Goto
<1>5. ASSUME NEW p \in Proc, install_trans(p) PROVE Pins'
  BY <1>t, <1>5 DEF install_trans
<1>6. ASSUME NEW p \in Proc, erase_head(p) PROVE Pins'
  BY <1>t, <1>6 DEF erase_head, Goto
<1>7. ASSUME NEW p \in Proc, read_head(p) PROVE Pins'
  BY <1>t, <1>7, Zenon DEF read_head, Goto
<1>8. ASSUME NEW p \in Proc, recover_from_log(p) PROVE Pins'
  BY <1>t, <1>8 DEF recover_from_log
<1>9. CASE Crash
  BY <1>t, <1>9, Zenon DEF Crash, BootPc
<1>10. CASE Still
  BY <1>t, <1>10 DEF Still, Staged
<1> QED
  BY <1>0, <1>1, <1>2, <1>3, <1>4, <1>5, <1>6, <1>7, <1>8, <1>9, <1>10, StageSteps, Zenon
     DEF LogInvariant

(* A step that copies nothing and enters no copying loop.                  *)
LEMMA SameCopies ==
  ASSUME Copies, UNCHANGED <<disk, dlog, cache, pinned, lh, tail, held>>,
         \A q \in Proc : pc'[q] \in {"wlog", "inst", "rinst"} => pc'[q] = pc[q]
  PROVE  Copies'
<1>1. \A c : (Contents(c)' = Contents(c)) /\ (Free(c)' <=> Free(c))
  BY Zenon DEF Contents, Free
<1>2. \A b \in Block : Contents(b)' = disk'[b] \/ b \in pinned' \/ ~Free(b)'
  BY <1>1, Zenon DEF Copies
<1>3. ASSUME NEW p \in Proc
      PROVE  /\ pc'[p] = "wlog" => \A i \in 1..(tail'[p] - 1) : dlog'[i] = Contents(lh[i])'
             /\ pc'[p] = "inst" => \A i \in 1..Len(lh') : dlog'[i] = Contents(lh[i])'
             /\ pc'[p] \in {"inst", "rinst"} =>
                  \A i \in 1..(tail'[p] - 1) : disk'[lh'[i]] = dlog'[i]
  BY DEF Copies, Contents
<1> QED  BY <1>2, <1>3, Zenon DEF Copies

(* Which copy of each block is up to date.                                 *)
LEMMA CopiesStep == LogInvariant /\ CheckedStep => Copies'
<1>0. SUFFICES ASSUME LogInvariant, [Next]_vars, NoPanic', Room PROVE Copies'
  BY DEF CheckedStep
<1>c. TypeOK /\ Control /\ Buffers /\ Shape /\ Phases /\ Pins /\ Copies /\ NoPanic'
  BY <1>0, Zenon DEF LogInvariant
<1>t. /\ disk \in [Block -> Value] /\ dlog \in [1..(NLOG - 1) -> Value]
      /\ cache \in [Block -> Value \union {NotCached}] /\ held \in [Proc -> SUBSET Block]
      /\ pc \in [Proc -> Label] /\ tail \in [Proc -> Nat \ {0}]
      /\ Len(lh) \in Nat /\ \A i \in 1..Len(lh) : lh[i] \in Block
      /\ NLOG \in Nat /\ NotCached \notin Value
      /\ Buffers /\ Shape /\ Phases /\ Pins /\ Copies
  BY <1>c, LogConstants DEF TypeOK
<1>1. ASSUME NEW p \in Proc, begin_op(p) PROVE Copies'
  <2>1. \A q \in Proc : pc'[q] \in {"wlog", "inst", "rinst"} => pc'[q] = pc[q]
    BY <1>t, <1>1, Zenon DEF begin_op, Goto
  <2> QED  BY <1>t, <1>1, <2>1, SameCopies, Zenon DEF begin_op
<1>2. ASSUME NEW p \in Proc, begin_op_sleep(p) PROVE Copies'
  <2>1. \A q \in Proc : pc'[q] \in {"wlog", "inst", "rinst"} => pc'[q] = pc[q]
    BY <1>t, <1>2, Zenon DEF begin_op_sleep, Goto
  <2> QED  BY <1>t, <1>2, <2>1, SameCopies, Zenon DEF begin_op_sleep
<1>3. ASSUME NEW p \in Proc, NEW b \in Block, NEW v \in Value, Modify(p, b, v) PROVE Copies'
  <2>1. \A q \in Proc : ~Committer(q) /\ ~Recoverer(q)
    BY <1>c, <1>3, OpFacts, Zenon DEF Modify, InOp
  <2>2. /\ disk' = disk /\ pinned' = pinned
        /\ \A c \in Block : c # b => cache'[c] = cache[c]
        /\ held'[p] = {b}
        /\ \A q \in Proc : q # p => held'[q] = held[q]
    BY <1>t, <1>3, Zenon DEF Modify
  <2>3. held[p] = {}
    BY <1>t, <1>3, Zenon DEF Modify, Buffers
  <2>4. \A q \in Proc : pc'[q] \notin {"wlog", "inst", "rinst"}
    BY <1>t, <2>1, <1>3, Zenon DEF Modify, Goto, Committer, Recoverer
  <2> QED  BY <1>t, <2>2, <2>3, <2>4, Zenon DEF Copies, Contents, Free
<1>4. ASSUME NEW p \in Proc, log_write_check(p) PROVE Copies'
  <2>1. \A q \in Proc : pc'[q] \in {"wlog", "inst", "rinst"} => pc'[q] = pc[q]
    BY <1>t, <1>4, Zenon DEF log_write_check, Goto
  <2> QED  BY <1>t, <1>4, <2>1, SameCopies, Zenon DEF log_write_check
<1>5. ASSUME NEW p \in Proc, log_write_absorb(p) PROVE Copies'
  <2>1. Up /\ \A q \in Proc : ~Committer(q) /\ ~Recoverer(q)
    BY <1>c, <1>5, OpFacts, Zenon DEF log_write_absorb, InOp
  <2>2. PICK c \in Block : held[p] = {c}
    BY <1>t, <1>5, Zenon DEF log_write_absorb, Buffers
  <2>3. c \in pinned' /\ pinned \subseteq pinned'
    BY <1>t, <2>1, <2>2, <1>5 DEF log_write_absorb, Logged, Pins, Committer
  <2>4. /\ disk' = disk /\ cache' = cache
        /\ \A q \in Proc : q # p => held'[q] = held[q]
    BY <1>t, <1>5, Zenon DEF log_write_absorb
  <2>5. \A q \in Proc : pc'[q] \notin {"wlog", "inst", "rinst"}
    BY <1>t, <2>1, <1>5, Zenon DEF log_write_absorb, Goto, Committer, Recoverer
  <2>6. \A d \in Block : ~Free(d) => ~Free(d)' \/ d = c
    BY <1>t, <2>2, <2>4, Zenon DEF Free
  <2>7. \A d \in Block : Contents(d)' = Contents(d)
    BY <2>4, Zenon DEF Contents
  <2> QED  BY <1>t, <2>3, <2>4, <2>5, <2>6, <2>7, Zenon DEF Copies
<1>6. ASSUME NEW p \in Proc, NEW b \in Block, log_write(p, b) PROVE Copies'
  <2>1. Up /\ \A q \in Proc : ~Committer(q) /\ ~Recoverer(q)
    BY <1>c, <1>6, OpFacts, Zenon DEF log_write, InOp
  <2>2. PICK c \in Block : held[p] = {c}
    BY <1>t, <1>6, Zenon DEF log_write, Buffers
  <2>3. c \in pinned' /\ pinned \subseteq pinned'
    BY <1>t, <2>1, <2>2, <1>6, Zenon DEF log_write, Logged, Pins, Committer
  <2>4. /\ disk' = disk /\ cache' = cache
        /\ \A q \in Proc : q # p => held'[q] = held[q]
    BY <1>t, <1>6, Zenon DEF log_write
  <2>5. \A q \in Proc : pc'[q] \notin {"wlog", "inst", "rinst"}
    BY <1>t, <2>1, <1>6, Zenon DEF log_write, Goto, Committer, Recoverer
  <2>6. \A d \in Block : ~Free(d) => ~Free(d)' \/ d = c
    BY <1>t, <2>2, <2>4, Zenon DEF Free
  <2>7. \A d \in Block : Contents(d)' = Contents(d)
    BY <2>4, Zenon DEF Contents
  <2> QED  BY <1>t, <2>3, <2>4, <2>5, <2>6, <2>7, Zenon DEF Copies
<1>7. ASSUME NEW p \in Proc, end_op_last(p) PROVE Copies'
  <2>1. \A q \in Proc : pc'[q] \in {"wlog", "inst", "rinst"} => pc'[q] = pc[q]
    BY <1>t, <1>7, Zenon DEF end_op_last, Goto
  <2> QED  BY <1>t, <1>7, <2>1, SameCopies, Zenon DEF end_op_last
<1>8. ASSUME NEW p \in Proc, end_op(p) PROVE Copies'
  <2>1. WakeupAndGoto(p, "idle")
    BY <1>c, <1>8, EndOpCalm DEF end_op
  <2>2. \A q \in Proc : pc'[q] \in {"wlog", "inst", "rinst"} => pc'[q] = pc[q]
    BY <1>t, <2>1, Zenon DEF WakeupAndGoto
  <2> QED  BY <1>t, <1>8, <2>2, SameCopies, Zenon DEF end_op
<1>9. ASSUME NEW p \in Proc, commit(p) PROVE Copies'
  BY <1>t, <1>9 DEF commit, Goto, Copies, Contents, Free
<1>10. ASSUME NEW p \in Proc, write_log(p) PROVE Copies'
  <2> DEFINE t == tail[p]
             b == lh[t]
  <2>1. \A q \in Proc : ~Recoverer(q) /\ (Committer(q) => q = p)
    BY <1>c, <1>10, CommitterFacts, Zenon DEF write_log, Committer
  <2>2. t \in 1..Len(lh) /\ t \in 1..(NLOG - 1) /\ b \in Block /\ Len(lh) \in Nat
    BY <1>t, <1>10 DEF write_log, Shape
  <2>3. /\ dlog' = [dlog EXCEPT ![t] = Contents(b)]
        /\ cache' = [cache EXCEPT ![b] = Contents(b)]
        /\ tail' = [tail EXCEPT ![p] = t + 1]
        /\ UNCHANGED <<disk, pinned, lh, pc, held>>
    BY <1>10, Zenon DEF write_log
  <2>4. Contents(b) \in Value /\ NotCached \notin Value
    BY <1>t, <2>2, Zenon DEF Contents
  <2>5. \A c \in Block : Contents(c)' = Contents(c)
    BY <1>t, <2>2, <2>3, <2>4, Zenon DEF Contents
  <2>6. \A i \in 1..(tail'[p] - 1) : dlog'[i] = Contents(lh[i])
    <3>1. \A i \in 1..(t - 1) : dlog[i] = Contents(lh[i])
      BY <1>t, <1>10, Zenon DEF write_log, Copies
    <3>2. tail'[p] - 1 = t /\ dlog \in [1..(NLOG - 1) -> Value] /\ t \in Nat
      BY <1>t, <2>2, <2>3
    <3>3. dlog'[t] = Contents(b) /\ \A i \in 1..(t - 1) : dlog'[i] = dlog[i]
      BY <2>2, <2>3, <3>2
    <3> QED  BY <3>1, <3>2, <3>3
  <2>7. \A i \in 1..Len(lh) : lh[i] \in Block
    BY <1>t, Zenon
  <2>8. \A q \in Proc : q # p => pc'[q] \notin {"wlog", "inst", "rinst"}
    BY <2>1, <2>3, Zenon DEF Committer, Recoverer
  <2>9. pc'[p] = "wlog" /\ tail'[p] - 1 = t
    BY <1>t, <2>2, <2>3, <1>10 DEF write_log
  <2>10. \A c \in Block : Contents(c)' = disk'[c] \/ c \in pinned' \/ ~Free(c)'
    BY <1>t, <2>3, <2>5, ZenonT(60) DEF Copies, Free
  <2>11. \A i \in 1..(tail'[p] - 1) : dlog'[i] = Contents(lh[i])'
    BY <2>2, <2>3, <2>5, <2>6, <2>7, <2>9 DEF Contents
  <2> HIDE DEF t, b
  <2> QED  BY <2>8, <2>9, <2>10, <2>11, Zenon DEF Copies
<1>11. ASSUME NEW p \in Proc, write_head(p) PROVE Copies'
  BY <1>t, <1>11 DEF write_head, Goto, Copies, Contents, Free
<1>12. ASSUME NEW p \in Proc, install_trans(p) PROVE Copies'
  <2> DEFINE t == tail[p]
             b == lh[t]
  <2>1. \A q \in Proc : q # p => pc[q] \notin {"wlog", "inst", "rinst"}
    BY <1>c, <1>12, CommitterFacts, BootFacts, Zenon DEF install_trans, Committer, Recoverer
  <2>2. t \in 1..Len(lh) /\ t \in 1..(NLOG - 1) /\ b \in Block /\ Len(lh) \in Nat
    BY <1>t, <1>12 DEF install_trans, Shape
  <2>3. /\ disk' = [disk EXCEPT ![b] = dlog[t]]
        /\ cache' = [cache EXCEPT ![b] = dlog[t]]
        /\ pinned' = pinned \ {b}
        /\ tail' = [tail EXCEPT ![p] = t + 1]
        /\ UNCHANGED <<dlog, lh, pc, held>>
    BY <1>12, Zenon DEF install_trans
  <2>4. dlog[t] \in Value /\ NotCached \notin Value
    BY <1>t, <2>2, Zenon
  <2>5. /\ \A c \in Block : c = b => Contents(c)' = dlog[t] /\ disk'[c] = dlog[t]
        /\ \A c \in Block : c # b => Contents(c)' = Contents(c) /\ disk'[c] = disk[c]
    <3>1. disk'[b] = dlog[t] /\ cache'[b] = dlog[t]
      BY <1>t, <2>2, <2>3, Zenon
    <3>2. \A c \in Block : c # b => cache'[c] = cache[c] /\ disk'[c] = disk[c]
      BY <1>t, <2>3, Zenon
    <3> QED  BY <2>4, <3>1, <3>2, Zenon DEF Contents
  <2>6. \A i \in 1..Len(lh) : lh[i] \in Block /\ (i # t => lh[i] # b)
    BY <1>t, <2>2, Zenon DEF Shape, Injective
  <2>7. tail'[p] - 1 = t /\ pc'[p] = pc[p] /\ pc[p] \in {"inst", "rinst"}
    BY <1>t, <2>2, <2>3, <1>12 DEF install_trans
  <2>8. \A c \in Block : Contents(c)' = disk'[c] \/ c \in pinned' \/ ~Free(c)'
    BY <1>t, <2>3, <2>5, Zenon DEF Copies, Free
  <2>9. pc[p] = "inst" => \A i \in 1..Len(lh) : dlog[i] = Contents(lh[i])'
    BY <1>t, <2>2, <2>3, <2>5, <2>6 DEF Copies
  <2>10. \A i \in 1..t : disk'[lh[i]] = dlog[i]
    <3>1. \A i \in 1..(t - 1) : disk[lh[i]] = dlog[i]
      BY <1>t, <2>7, Zenon DEF Copies
    <3>2. t \in Nat
      BY <1>t, Zenon
    <3> QED  BY <2>2, <2>5, <2>6, <3>1, <3>2
  <2> HIDE DEF t, b
  <2> QED  BY <2>1, <2>3, <2>7, <2>8, <2>9, <2>10, Zenon DEF Copies
<1>13. ASSUME NEW p \in Proc, erase_head(p) PROVE Copies'
  <2>1. \A q \in Proc : ~Recoverer(q) /\ (Committer(q) => q = p)
    BY <1>c, <1>13, CommitterFacts, Zenon DEF erase_head, Committer
  <2>2. \A q \in Proc : pc'[q] \notin {"wlog", "inst", "rinst"}
    BY <1>t, <1>13, <2>1, Zenon DEF erase_head, Goto, Committer, Recoverer
  <2> QED  BY <1>t, <1>13, <2>2, Zenon DEF erase_head, Copies, Contents, Free
<1>14. ASSUME NEW p \in Proc, end_commit(p) PROVE Copies'
  <2>1. \A q \in Proc : pc'[q] \in {"wlog", "inst", "rinst"} => pc'[q] = pc[q]
    BY <1>t, <1>14, Zenon DEF end_commit, WakeupAndGoto
  <2> QED  BY <1>t, <1>14, <2>1, SameCopies, Zenon DEF end_commit
<1>15. ASSUME NEW p \in Proc, read_head(p) PROVE Copies'
  <2>1. \A q \in Proc : q # p => pc'[q] \notin {"wlog", "inst", "rinst"}
    <3>1. Recoverer(p)
      BY <1>15, Zenon DEF read_head, Recoverer
    <3>2. p = initproc /\ \A q \in Proc : Recoverer(q) \/ pc[q] = "unborn"
      BY <1>c, <3>1, BootFacts, Zenon
    <3>3. \A q \in Proc : Recoverer(q) => q = initproc
      BY <1>c, BootFacts, Zenon
    <3>4. \A q \in Proc : q # p => pc[q] = "unborn"
      BY <3>2, <3>3, Zenon
    <3>5. \A q \in Proc : q # p => pc'[q] = pc[q]
      BY <1>t, <1>15, Zenon DEF read_head, Goto
    <3> QED  BY <3>4, <3>5, Zenon
  <2>2. pc'[p] = "rinst" /\ tail'[p] = 1
    BY <1>t, <1>15, Zenon DEF read_head, Goto
  <2> QED  BY <1>t, <1>15, <2>1, <2>2 DEF read_head, Copies, Contents, Free
<1>16. ASSUME NEW p \in Proc, recover_from_log(p) PROVE Copies'
  BY <1>t, <1>16, Zenon DEF recover_from_log, Copies, Contents, Free
<1>17. ASSUME NEW b \in Block, Bread(b) PROVE Copies'
  BY <1>t, <1>17 DEF Bread, Copies, Contents, Free
<1>18. ASSUME NEW b \in Block, Evict(b) PROVE Copies'
  BY <1>t, <1>18 DEF Evict, Copies, Contents, Free
<1>19. CASE Crash
  BY <1>t, <1>19, Zenon DEF Crash, BootPc, Copies, Contents, Free
<1>20. CASE UNCHANGED vars
  <2>1. \A q \in Proc : pc'[q] \in {"wlog", "inst", "rinst"} => pc'[q] = pc[q]
    BY <1>t, <1>20, Zenon DEF vars
  <2> QED  BY <1>t, <1>20, <2>1, SameCopies, Zenon DEF vars
<1> QED
  BY <1>0, <1>1, <1>2, <1>3, <1>4, <1>5, <1>6, <1>7, <1>8, <1>9, <1>10, <1>11, <1>12,
     <1>13, <1>14, <1>15, <1>16, <1>17, <1>18, <1>19, <1>20, ZenonT(60) DEF Next, CommitStep, OpStep

(* What recovery reads back: a block named in the on-disk header comes     *)
(* from the log, any other from its home.                                  *)
LEMMA RecoveredFacts ==
  TypeOK /\ Shape =>
    \A c \in Block :
      /\ \A i \in 1..Len(dhead) : dhead[i] = c => Recovered(c) = dlog[i]
      /\ (\A i \in 1..Len(dhead) : dhead[i] # c) => Recovered(c) = disk[c]
<1> SUFFICES ASSUME TypeOK, Shape, NEW c \in Block
             PROVE  /\ \A i \in 1..Len(dhead) : dhead[i] = c => Recovered(c) = dlog[i]
                    /\ (\A i \in 1..Len(dhead) : dhead[i] # c) => Recovered(c) = disk[c]
  OBVIOUS
<1>1. (\A i \in 1..Len(dhead) : dhead[i] # c) => Recovered(c) = disk[c]
  BY Zenon DEF Recovered
<1>2. ASSUME NEW i \in 1..Len(dhead), dhead[i] = c PROVE Recovered(c) = dlog[i]
  <2> DEFINE j == CHOOSE k \in 1..Len(dhead) : dhead[k] = c
  <2>1. j \in 1..Len(dhead) /\ dhead[j] = c
    BY <1>2, Zenon
  <2>2. j = i
    BY <1>2, <2>1, Zenon DEF Shape, Injective
  <2> QED  BY <1>2, <2>2, Zenon DEF Recovered
<1> QED  BY <1>1, <1>2, Zenon

(* The same after a step.                                                  *)
LEMMA RecoveredFactsNext ==
  TypeOK' /\ Shape' =>
    (\A c \in Block :
       /\ \A i \in 1..Len(dhead) : dhead[i] = c => Recovered(c) = dlog[i]
       /\ (\A i \in 1..Len(dhead) : dhead[i] # c) => Recovered(c) = disk[c])'
  BY RecoveredFacts, PTL

(* A step that leaves the disk alone leaves what is durable alone; if it   *)
(* also keeps what the buffers show, it leaves what bread() returns alone. *)
LEMMA SameViews ==
  ASSUME Durable' = Durable, Up' <=> Up, \A c \in Block : Contents(c)' = Contents(c)
  PROVE  Current' = Current
  BY Zenon DEF Current

(* What recovery restores depends on the disk alone.                       *)
LEMMA SameDurable ==
  ASSUME UNCHANGED <<disk, dhead, dlog>>
  PROVE  Durable' = Durable
  BY Zenon DEF Durable, Recovered

(* What bread() returns depends on the disk and the cache alone.           *)
LEMMA SameContents ==
  ASSUME UNCHANGED <<disk, cache>>
  PROVE  \A c \in Block : Contents(c)' = Contents(c)
  BY Zenon DEF Contents

(* A step that leaves disk and cache alone, and who is in a system call,   *)
(* is not seen from outside.                                               *)
LEMMA Invisible ==
  ASSUME UNCHANGED <<disk, dhead, dlog, cache>>, Up' <=> Up, Active' = Active
  PROVE  UNCHANGED <<Durable, Current, Active>>
<1>1. Durable' = Durable
  BY SameDurable, Zenon
<1>2. Current' = Current
  BY <1>1, SameContents, SameViews, Zenon
<1> QED  BY <1>1, <1>2, Zenon

(* Every step of log.c is a step of AtomicDisk or leaves it unchanged.     *)
LEMMA RefineStep ==
  LogInvariant /\ CheckedStep /\ TypeOK' /\ Shape' => Abstract!Next \/ UNCHANGED <<Durable, Current, Active>>
<1>0. SUFFICES ASSUME LogInvariant, [Next]_vars, NoPanic', TypeOK', Shape'
      PROVE  Abstract!Next \/ UNCHANGED <<Durable, Current, Active>>
  BY Zenon DEF CheckedStep
<1>c. TypeOK /\ Control /\ Shape /\ NoPanic'
  BY <1>0, Zenon DEF LogInvariant
<1>n. TypeOK' /\ Shape'
  BY <1>0, Zenon
<1>p. pc \in [Proc -> Label] /\ NoPanic'
  BY <1>c, Zenon DEF TypeOK
<1>t. /\ disk \in [Block -> Value] /\ dlog \in [1..(NLOG - 1) -> Value]
      /\ cache \in [Block -> Value \union {NotCached}] /\ tail \in [Proc -> Nat \ {0}]
      /\ Len(lh) \in Nat /\ \A i \in 1..Len(lh) : lh[i] \in Block
      /\ Buffers /\ Shape /\ Phases /\ Pins /\ Copies
  BY <1>0, <1>c DEF LogInvariant, TypeOK
<1>1. ASSUME NEW p \in Proc, begin_op(p)
      PROVE  Abstract!Next \/ UNCHANGED <<Durable, Current, Active>>
  <2>1. Durable' = Durable
    BY <1>1, SameDurable, Zenon DEF begin_op, Goto
  <2>2. Up' <=> Up
    BY <1>p, <1>1, Zenon DEF begin_op, Goto, Up
  <2>3. Current' = Current
    BY <2>1, <2>2, <1>1, SameContents, SameViews, Zenon DEF begin_op, Goto
  <2>4. p \notin Active /\ Active' = Active \union {p}
    BY <1>p, <1>1, Zenon DEF begin_op, Goto, Active, InOp
  <2>5. Abstract!Begin(p)
    BY <2>1, <2>3, <2>4, Zenon DEF Abstract!Begin
  <2> QED  BY <2>5, Zenon DEF Abstract!Next
<1>2. ASSUME NEW p \in Proc, begin_op_sleep(p)
      PROVE  Abstract!Next \/ UNCHANGED <<Durable, Current, Active>>
  <2>1. (Up' <=> Up) /\ Active' = Active
    BY <1>p, <1>2, Zenon DEF begin_op_sleep, Goto, Up, Active, InOp
  <2> QED  BY <1>2, <2>1, Invisible, Zenon DEF begin_op_sleep, Goto
<1>3. ASSUME NEW p \in Proc, NEW b \in Block, NEW v \in Value, Modify(p, b, v)
      PROVE  Abstract!Next \/ UNCHANGED <<Durable, Current, Active>>
  <2>1. Durable' = Durable
    BY <1>3, SameDurable, Zenon DEF Modify, Goto
  <2>2. Up /\ Up'
    BY <1>c, <1>p, <1>3, OpFacts, Zenon DEF Modify, Goto, Up, InOp
  <2>3. p \in Active /\ Active' = Active
    BY <1>p, <1>3, Zenon DEF Modify, Goto, Active, InOp
  <2>4. /\ disk' = disk /\ cache'[b] = v
        /\ \A c \in Block : c # b => cache'[c] = cache[c]
    BY <1>t, <1>3, Zenon DEF Modify
  <2>5. Contents(b)' = v /\ \A c \in Block : c # b => Contents(c)' = Contents(c)
    BY <2>4, LogConstants, Zenon DEF Contents
  <2>6. Current' = [Current EXCEPT ![b] = v]
    BY <2>2, <2>5, Zenon DEF Current
  <2>7. Abstract!Write(p, b, v)
    BY <2>1, <2>3, <2>6, Zenon DEF Abstract!Write
  <2> QED  BY <2>7, Zenon DEF Abstract!Next
<1>4. ASSUME NEW p \in Proc, log_write_check(p)
      PROVE  Abstract!Next \/ UNCHANGED <<Durable, Current, Active>>
  <2>1. (Up' <=> Up) /\ Active' = Active
    BY <1>p, <1>4, Zenon DEF log_write_check, Goto, NoPanic, Up, Active, InOp
  <2> QED  BY <1>4, <2>1, Invisible, Zenon DEF log_write_check, Goto
<1>5. ASSUME NEW p \in Proc, log_write_absorb(p)
      PROVE  Abstract!Next \/ UNCHANGED <<Durable, Current, Active>>
  <2>1. (Up' <=> Up) /\ Active' = Active
    BY <1>p, <1>5, Zenon DEF log_write_absorb, Goto, Up, Active, InOp
  <2> QED  BY <1>5, <2>1, Invisible, Zenon DEF log_write_absorb, Goto
<1>6. ASSUME NEW p \in Proc, NEW b \in Block, log_write(p, b)
      PROVE  Abstract!Next \/ UNCHANGED <<Durable, Current, Active>>
  <2>1. (Up' <=> Up) /\ Active' = Active
    BY <1>p, <1>6, Zenon DEF log_write, Goto, Up, Active, InOp
  <2> QED  BY <1>6, <2>1, Invisible, Zenon DEF log_write, Goto
<1>7. ASSUME NEW p \in Proc, end_op_last(p)
      PROVE  Abstract!Next \/ UNCHANGED <<Durable, Current, Active>>
  <2>1. Durable' = Durable
    BY <1>7, SameDurable, Zenon DEF end_op_last, Goto
  <2>2. Up' <=> Up
    BY <1>p, <1>7, Zenon DEF end_op_last, Goto, Up
  <2>3. Current' = Current
    BY <2>1, <2>2, <1>7, SameContents, SameViews, Zenon DEF end_op_last, Goto
  <2>4. p \in Active /\ Active' = Active \ {p}
    BY <1>p, <1>7, Zenon DEF end_op_last, Goto, Active, InOp
  <2>5. Abstract!End(p)
    BY <2>1, <2>3, <2>4, Zenon DEF Abstract!End
  <2> QED  BY <2>5, Zenon DEF Abstract!Next
<1>8. ASSUME NEW p \in Proc, end_op(p)
      PROVE  Abstract!Next \/ UNCHANGED <<Durable, Current, Active>>
  <2>w. WakeupAndGoto(p, "idle")
    BY <1>c, <1>8, EndOpCalm DEF end_op
  <2>1. Durable' = Durable
    BY <1>8, SameDurable, Zenon DEF end_op, Goto, WakeupAndGoto
  <2>2. Up' <=> Up
    BY <1>p, <1>8, <2>w, Zenon DEF end_op, WakeupAndGoto, Up
  <2>3. Current' = Current
    BY <2>1, <2>2, <1>8, SameContents, SameViews, Zenon DEF end_op, Goto, WakeupAndGoto
  <2>4. p \in Active /\ Active' = Active \ {p}
    BY <1>p, <1>8, <2>w, Zenon DEF end_op, WakeupAndGoto, Active, InOp
  <2>5. Abstract!End(p)
    BY <2>1, <2>3, <2>4 DEF Abstract!End
  <2> QED  BY <2>5 DEF Abstract!Next
<1>9. ASSUME NEW p \in Proc, commit(p)
      PROVE  Abstract!Next \/ UNCHANGED <<Durable, Current, Active>>
  <2>1. (Up' <=> Up) /\ Active' = Active
    BY <1>p, <1>9, Zenon DEF commit, Goto, Up, Active, InOp
  <2> QED  BY <1>9, <2>1, Invisible, Zenon DEF commit, Goto
<1>10. ASSUME NEW p \in Proc, write_log(p)
      PROVE  Abstract!Next \/ UNCHANGED <<Durable, Current, Active>>
  <2>1. dhead = <<>> /\ dhead' = <<>> /\ disk' = disk
    BY <1>c, <1>t, <1>10, CommitterFacts, Zenon DEF write_log, Phases, Committer
  <2>2. Durable' = Durable
    BY <2>1 DEF Durable, Recovered
  <2>3. Up' <=> Up
    BY <1>p, <1>10, Zenon DEF write_log, Up
  <2>4. lh[tail[p]] \in Block
    BY <1>t, <1>10 DEF write_log
  <2>5. \A c \in Block : Contents(c)' = Contents(c)
    BY <1>t, <1>10, <2>4, LogConstants, Zenon DEF write_log, Contents
  <2>6. Active' = Active
    BY <1>p, <1>10, Zenon DEF write_log, Active, InOp
  <2> QED  BY <2>2, <2>3, <2>5, <2>6, SameViews, Zenon
<1>11. ASSUME NEW p \in Proc, write_head(p)
      PROVE  Abstract!Next \/ UNCHANGED <<Durable, Current, Active>>
  <2>1. /\ \A q \in Proc : ~InOp(q)
        /\ Up
    BY <1>c, <1>11, CommitterFacts, Zenon DEF write_head, Committer
  <2>2. Up' /\ Active = {} /\ Active' = {}
    BY <1>p, <1>11, <2>1, Zenon DEF write_head, Goto, Up, Active, InOp
  <2>3. Current' = Current
    BY <1>11, <2>1, <2>2, SameContents, Zenon DEF write_head, Goto, Current
  <2>4. dhead' = lh /\ dlog' = dlog /\ disk' = disk
    BY <1>11, Zenon DEF write_head
  <2>r. \A c \in Block :
          /\ \A i \in 1..Len(lh) : lh[i] = c => Recovered(c)' = dlog[i]
          /\ (\A i \in 1..Len(lh) : lh[i] # c) => Recovered(c)' = disk[c]
    BY <1>n, <2>4, RecoveredFactsNext, Zenon
  <2>5. \A c \in Block : Recovered(c)' = Contents(c)
    <3> SUFFICES ASSUME NEW c \in Block PROVE Recovered(c)' = Contents(c)
      OBVIOUS
    <3>1. ASSUME NEW i \in 1..Len(lh), lh[i] = c PROVE Recovered(c)' = Contents(c)
      <4>1. Recovered(c)' = dlog[i]
        BY <3>1, <2>r, Zenon
      <4>2. dlog[i] = Contents(lh[i])
        BY <1>t, <1>11 DEF write_head, Copies
      <4> QED  BY <3>1, <4>1, <4>2, Zenon
    <3>2. ASSUME \A i \in 1..Len(lh) : lh[i] # c PROVE Recovered(c)' = Contents(c)
      <4>1. Recovered(c)' = disk[c]
        BY <3>2, <2>r, Zenon
      <4>2. c \notin pinned
        BY <1>t, <3>2, Zenon DEF Pins
      <4>3. Free(c)
        BY <1>t, <2>1, Zenon DEF Buffers, InOp, Free
      <4> QED  BY <1>t, <4>1, <4>2, <4>3, Zenon DEF Copies
    <3> QED  BY <3>1, <3>2, Zenon
  <2>6. Durable' = Current
    BY <2>1, <2>5, Zenon DEF Durable, Current
  <2>7. Abstract!Commit
    BY <2>2, <2>3, <2>6, Zenon DEF Abstract!Commit
  <2> QED  BY <2>7, Zenon DEF Abstract!Next
<1>12. ASSUME NEW p \in Proc, install_trans(p)
      PROVE  Abstract!Next \/ UNCHANGED <<Durable, Current, Active>>
  <2> DEFINE t == tail[p]
  <2>1. dhead = lh /\ dhead' = dhead /\ dlog' = dlog /\ t \in 1..Len(lh)
    BY <1>t, <1>12 DEF install_trans, Phases
  <2>2. PICK b \in Block : b = lh[t]
    BY <1>t, <2>1, Zenon
  <2>3. /\ disk' = [disk EXCEPT ![b] = dlog[t]]
        /\ cache' = [cache EXCEPT ![b] = dlog[t]]
    BY <1>12, <2>2, Zenon DEF install_trans
  <2>4. dlog[t] \in Value /\ NotCached \notin Value
    BY <1>t, <2>1, LogConstants DEF Shape
  <2>5. \A c \in Block : Recovered(c)' = Recovered(c)
    <3> SUFFICES ASSUME NEW c \in Block PROVE Recovered(c)' = Recovered(c)
      OBVIOUS
    <3>1. CASE \E i \in 1..Len(dhead) : dhead[i] = c
      BY <3>1, <2>1, Zenon DEF Recovered
    <3>2. CASE ~ \E i \in 1..Len(dhead) : dhead[i] = c
      BY <1>t, <3>2, <2>1, <2>2, <2>3, Zenon DEF Recovered
    <3> QED  BY <3>1, <3>2, Zenon
  <2>6. Durable' = Durable
    BY <2>5, Zenon DEF Durable
  <2>7. Up' <=> Up
    BY <1>12, Zenon DEF install_trans, Up
  <2>8. Active' = Active
    BY <1>12, Zenon DEF install_trans, Active, InOp
  <2>9. CASE pc[p] = "inst"
    <3>1. dlog[t] = Contents(b)
      BY <1>t, <2>1, <2>2, <2>9, Zenon DEF Copies
    <3>2. cache'[b] = dlog[t] /\ \A c \in Block : c # b => cache'[c] = cache[c] /\ disk'[c] = disk[c]
      BY <1>t, <2>3, Zenon
    <3>3. \A c \in Block : Contents(c)' = Contents(c)
      BY <2>4, <3>1, <3>2, Zenon DEF Contents
    <3> QED  BY <2>6, <2>7, <2>8, <3>3, SameViews, Zenon
  <2>10. CASE pc[p] = "rinst"
    <3>1. ~Up
      BY <1>c, <2>10, BootFacts, Zenon DEF Recoverer
    <3> QED  BY <2>6, <2>7, <2>8, <3>1, Zenon DEF Current
  <2> QED  BY <1>12, <2>9, <2>10, Zenon DEF install_trans
<1>13. ASSUME NEW p \in Proc, erase_head(p)
      PROVE  Abstract!Next \/ UNCHANGED <<Durable, Current, Active>>
  <2>1. dhead = lh /\ dhead' = <<>> /\ disk' = disk
    BY <1>t, <1>13, Zenon DEF erase_head, Phases
  <2>2. \A c \in Block : Recovered(c)' = Recovered(c)
    <3> SUFFICES ASSUME NEW c \in Block PROVE Recovered(c)' = Recovered(c)
      OBVIOUS
    <3>1. Recovered(c)' = disk[c]
      BY <2>1 DEF Recovered
    <3>2. ASSUME NEW i \in 1..Len(lh), lh[i] = c PROVE Recovered(c) = disk[c]
      <4>1. Recovered(c) = dlog[i]
        BY <1>c, <3>2, <2>1, RecoveredFacts, Zenon
      <4>2. i \in 1..(tail[p] - 1)
        BY <1>t, <1>13 DEF erase_head
      <4> QED  BY <1>t, <1>13, <3>2, <4>1, <4>2, Zenon DEF erase_head, Copies
    <3>3. (\A i \in 1..Len(lh) : lh[i] # c) => Recovered(c) = disk[c]
      BY <1>c, <2>1, RecoveredFacts, Zenon
    <3> QED  BY <3>1, <3>2, <3>3, Zenon
  <2>3. Durable' = Durable
    BY <2>2, Zenon DEF Durable
  <2>4. Up' <=> Up
    BY <1>p, <1>13, Zenon DEF erase_head, Goto, Up
  <2>5. Current' = Current
    BY <2>3, <2>4, <1>13, SameContents, SameViews, Zenon DEF erase_head, Goto
  <2>6. Active' = Active
    BY <1>p, <1>13, Zenon DEF erase_head, Goto, Active, InOp
  <2> QED  BY <2>3, <2>5, <2>6, Zenon
<1>14. ASSUME NEW p \in Proc, end_commit(p)
      PROVE  Abstract!Next \/ UNCHANGED <<Durable, Current, Active>>
  <2>1. Up' <=> Up
    BY <1>p, <1>14, Zenon DEF end_commit, WakeupAndGoto, Up
  <2>2. Active' = Active
    BY <1>p, <1>14, Zenon DEF end_commit, WakeupAndGoto, Active, InOp
  <2> QED  BY <1>14, <2>1, <2>2, Invisible, Zenon DEF end_commit, WakeupAndGoto
<1>15. ASSUME NEW p \in Proc, read_head(p)
      PROVE  Abstract!Next \/ UNCHANGED <<Durable, Current, Active>>
  <2>1. (Up' <=> Up) /\ Active' = Active
    BY <1>p, <1>15, Zenon DEF read_head, Goto, Up, Active, InOp
  <2> QED  BY <1>15, <2>1, Invisible, Zenon DEF read_head, Goto
<1>16. ASSUME NEW p \in Proc, recover_from_log(p)
      PROVE  Abstract!Next \/ UNCHANGED <<Durable, Current, Active>>
  <2>1. dhead = lh /\ dhead' = <<>> /\ disk' = disk /\ cache' = cache
    BY <1>t, <1>16, Zenon DEF recover_from_log, Phases
  <2>2. \A c \in Block : Recovered(c)' = Recovered(c)
    <3> SUFFICES ASSUME NEW c \in Block PROVE Recovered(c)' = Recovered(c)
      OBVIOUS
    <3>1. Recovered(c)' = disk[c]
      BY <2>1 DEF Recovered
    <3>2. ASSUME NEW i \in 1..Len(lh), lh[i] = c PROVE Recovered(c) = disk[c]
      <4>1. Recovered(c) = dlog[i]
        BY <1>c, <3>2, <2>1, RecoveredFacts, Zenon
      <4>2. i \in 1..(tail[p] - 1)
        BY <1>t, <1>16 DEF recover_from_log
      <4> QED  BY <1>t, <1>16, <3>2, <4>1, <4>2, Zenon DEF recover_from_log, Copies
    <3>3. (\A i \in 1..Len(lh) : lh[i] # c) => Recovered(c) = disk[c]
      BY <1>c, <2>1, RecoveredFacts, Zenon
    <3> QED  BY <3>1, <3>2, <3>3
  <2>3. Durable' = Durable
    BY <2>2 DEF Durable
  <2>4. ~Up /\ Up' /\ \A q \in Proc : ~InOp(q)
    BY <1>c, <1>p, <1>16, BootFacts, Zenon DEF recover_from_log, Recoverer, Up
  <2>5. \A c \in Block : Contents(c)' = disk[c] /\ Recovered(c)' = disk[c]
    <3> SUFFICES ASSUME NEW c \in Block
                 PROVE  Contents(c)' = disk[c] /\ Recovered(c)' = disk[c]
      OBVIOUS
    <3>1. c \notin pinned /\ Free(c)
      BY <1>t, <2>4, Zenon DEF Pins, Free, Buffers, InOp
    <3> QED  BY <1>t, <2>1, <3>1 DEF Copies, Contents, Recovered
  <2>6. Current' = Current
    BY <2>3, <2>4, <2>5, Zenon DEF Current, Durable
  <2>7. Active' = Active
    BY <1>p, <1>16, <2>4, Zenon DEF recover_from_log, Active, InOp
  <2> QED  BY <2>3, <2>6, <2>7
<1>17. ASSUME NEW b \in Block, Bread(b)
      PROVE  Abstract!Next \/ UNCHANGED <<Durable, Current, Active>>
  <2>1. Durable' = Durable
    BY <1>17, SameDurable, Zenon DEF Bread
  <2>2. Up' <=> Up
    BY <1>p, <1>17, Zenon DEF Bread, Up
  <2>3. \A c \in Block : Contents(c)' = Contents(c)
    BY <1>t, <1>17, LogConstants, Zenon DEF Bread, Contents, Copies
  <2>4. Active' = Active
    BY <1>p, <1>17, Zenon DEF Bread, Active, InOp
  <2> QED  BY <2>1, <2>2, <2>3, <2>4, SameViews, Zenon
<1>18. ASSUME NEW b \in Block, Evict(b)
      PROVE  Abstract!Next \/ UNCHANGED <<Durable, Current, Active>>
  <2>1. Durable' = Durable
    BY <1>18, SameDurable, Zenon DEF Evict
  <2>2. Up' <=> Up
    BY <1>p, <1>18, Zenon DEF Evict, Up
  <2>3. \A c \in Block : Contents(c)' = Contents(c)
    BY <1>t, <1>18, LogConstants, Zenon DEF Evict, Contents, Copies
  <2>4. Active' = Active
    BY <1>p, <1>18, Zenon DEF Evict, Active, InOp
  <2> QED  BY <2>1, <2>2, <2>3, <2>4, SameViews
<1>19. CASE Crash
  <2>1. Durable' = Durable
    BY <1>19, SameDurable, Zenon DEF Crash, BootPc
  <2>2. pc'[initproc] = "rhead" /\ \A q \in Proc : pc'[q] \in {"rhead", "unborn"}
    BY <1>19, LogConstants, Zenon DEF Crash, BootPc
  <2>3. ~Up' /\ Active' = {}
    BY <2>2, LogConstants, Zenon DEF Up, Active, InOp
  <2>4. Current' = Durable
    BY <2>1, <2>3, Zenon DEF Current
  <2>5. Abstract!Crash
    BY <2>1, <2>3, <2>4, Zenon DEF Abstract!Crash
  <2> QED  BY <2>5, Zenon DEF Abstract!Next
<1>20. CASE UNCHANGED vars
  <2>1. (Up' <=> Up) /\ Active' = Active
    BY <1>p, <1>20, Zenon DEF vars, Up, Active, InOp
  <2> QED  BY <1>20, <2>1, Invisible, Zenon DEF vars
<1> QED
  BY <1>0, <1>1, <1>2, <1>3, <1>4, <1>5, <1>6, <1>7, <1>8, <1>9, <1>10, <1>11, <1>12,
     <1>13, <1>14, <1>15, <1>16, <1>17, <1>18, <1>19, <1>20, Zenon DEF Next, CommitStep, OpStep

-----------------------------------------------------------------------------
(* The counts.  What is used of finite sets is shown at the end, from the  *)
(* library's theorems.                                                     *)
FinSubset ==
  \A S, T : IsFiniteSet(S) /\ T \in SUBSET S => IsFiniteSet(T) /\ Cardinality(T) <= Cardinality(S)

FinCardinalityType == \A S : IsFiniteSet(S) => Cardinality(S) \in Nat

FinEmptySet ==
  IsFiniteSet({}) /\ Cardinality({}) = 0 /\ \A S : IsFiniteSet(S) => (Cardinality(S) = 0 <=> S = {})

FinSingleton == \A S : IsFiniteSet(S) => (Cardinality(S) = 1 <=> \E x : S = {x})

FinAddElement ==
  \A S, x : IsFiniteSet(S) =>
    /\ IsFiniteSet(S \union {x})
    /\ Cardinality(S \union {x}) = IF x \in S THEN Cardinality(S) ELSE Cardinality(S) + 1

FinRemoveElement ==
  \A S, x : IsFiniteSet(S) =>
    Cardinality(S \ {x}) = IF x \in S THEN Cardinality(S) - 1 ELSE Cardinality(S)

FinInterval == \A k \in Nat : IsFiniteSet(1..k) /\ Cardinality(1..k) = k

FinProduct ==
  \A S, T : IsFiniteSet(S) /\ IsFiniteSet(T) =>
    IsFiniteSet(S \X T) /\ Cardinality(S \X T) = Cardinality(S) * Cardinality(T)

FiniteFacts ==
  /\ FinSubset /\ FinCardinalityType /\ FinEmptySet /\ FinSingleton
  /\ FinAddElement /\ FinRemoveElement /\ FinInterval /\ FinProduct

(* What the count of outstanding system calls says about who is in one.    *)
LEMMA ActiveFacts ==
  ASSUME FiniteFacts, TypeOK, Counting
  PROVE  /\ IsFiniteSet(Active)
         /\ outstanding \in Nat
         /\ outstanding = 0 => Active = {}
         /\ \A p \in Active : outstanding >= 1
         /\ \A p \in Active : outstanding = 1 => Active = {p}
         /\ \A p \in Active : outstanding # 1 => \E q \in Active : q # p
<1>1. IsFiniteSet(Active)
  <2>1. Active \in SUBSET Proc
    BY Zenon DEF Active
  <2> QED  BY <2>1, LogConstants, Zenon DEF FiniteFacts, FinSubset
<1>2. outstanding \in Nat
  BY <1>1, Zenon DEF FiniteFacts, FinCardinalityType, Counting
<1>3. outstanding = 0 <=> Active = {}
  BY <1>1, Zenon DEF FiniteFacts, FinEmptySet, Counting
<1>4. outstanding = 1 <=> \E x : Active = {x}
  BY <1>1, Zenon DEF FiniteFacts, FinSingleton, Counting
<1>5. \A p \in Active : outstanding >= 1
  BY <1>2, <1>3
<1>6. \A p \in Active : outstanding = 1 => Active = {p}
  BY <1>4, Zenon
<1>7. \A p \in Active : outstanding # 1 => \E q \in Active : q # p
  <2> SUFFICES ASSUME NEW p \in Active, outstanding # 1 PROVE \E q \in Active : q # p
    OBVIOUS
  <2>1. Active # {p}
    BY <1>4, Zenon
  <2> QED  BY <2>1, Zenon
<1> QED  BY <1>1, <1>2, <1>3, <1>5, <1>6, <1>7, Zenon

(* The blocks reserved and not yet used are a finite set, no larger than   *)
(* the reservation of every running system call.                           *)
LEMMA UnusedFacts ==
  ASSUME FiniteFacts
  PROVE  TypeOK /\ Counting => /\ IsFiniteSet(Unused)
                               /\ Cardinality(Unused) \in Nat
                               /\ Cardinality(Unused) <= outstanding * OPBLOCKS
<1> SUFFICES ASSUME TypeOK, Counting
             PROVE  /\ IsFiniteSet(Unused)
                    /\ Cardinality(Unused) \in Nat
                    /\ Cardinality(Unused) <= outstanding * OPBLOCKS
  OBVIOUS
<1>1. IsFiniteSet(Active)
  BY ActiveFacts, Zenon
<1>2. IsFiniteSet(1..OPBLOCKS) /\ Cardinality(1..OPBLOCKS) = OPBLOCKS
  BY LogConstants DEF FiniteFacts, FinInterval
<1>3. /\ IsFiniteSet(Active \X (1..OPBLOCKS))
      /\ Cardinality(Active \X (1..OPBLOCKS)) = outstanding * OPBLOCKS
  BY <1>1, <1>2, Zenon DEF FiniteFacts, FinProduct, Counting
<1>4. Unused \in SUBSET (Active \X (1..OPBLOCKS))
  BY Zenon DEF Unused
<1>5. IsFiniteSet(Unused) /\ Cardinality(Unused) <= outstanding * OPBLOCKS
  BY <1>3, <1>4, Zenon DEF FiniteFacts, FinSubset
<1> QED  BY <1>5, Zenon DEF FiniteFacts, FinCardinalityType

(* The same facts about the state after a step.                            *)
LEMMA UnusedFactsNext ==
  ASSUME FiniteFacts
  PROVE  TypeOK' /\ Counting' => (/\ IsFiniteSet(Unused)
                                  /\ Cardinality(Unused) \in Nat
                                  /\ Cardinality(Unused) <= outstanding * OPBLOCKS)'
<1>1. TypeOK /\ Counting => /\ IsFiniteSet(Unused)
                            /\ Cardinality(Unused) \in Nat
                            /\ Cardinality(Unused) <= outstanding * OPBLOCKS
  BY UnusedFacts, Zenon
<1> QED  BY <1>1, PTL

(* The sanity checks of log_write() pass: the log is never that full.      *)
LEMMA CheckPasses ==
  ASSUME FiniteFacts, LogInvariant, NEW p \in Proc, InOp(p)
  PROVE  Len(lh) < LOGSIZE /\ Len(lh) < NLOG - 1 /\ outstanding >= 1
<1>1. TypeOK /\ Counting /\ Capacity
  BY Zenon DEF LogInvariant
<1>2. outstanding \in Nat /\ outstanding >= 1
  BY <1>1, ActiveFacts, Zenon DEF Active
<1>3. Cardinality(Unused) \in Nat
  BY <1>1, UnusedFacts, Zenon
<1>4. Len(lh) \in Nat
  BY <1>1 DEF TypeOK
<1> QED
  BY <1>1, <1>2, <1>3, <1>4, LogConstants, LargeEnough DEF Capacity

(* Every step finds room in the log and does not panic.                    *)
LEMMA Checked ==
  ASSUME FiniteFacts PROVE LogInvariant /\ [Next]_vars => CheckedStep
<1> SUFFICES ASSUME LogInvariant, [Next]_vars PROVE CheckedStep
  OBVIOUS
<1>1. Room
  BY CheckPasses, Zenon DEF Room
<1>2. Counted
  <2>1. TypeOK /\ Counting
    BY Zenon DEF LogInvariant
  <2> QED  BY <2>1, ActiveFacts, Zenon DEF Counted, Active
<1> QED  BY <1>1, <1>2, NoPanicStep, Zenon DEF CheckedStep

(* log.outstanding counts the running system calls.                        *)
LEMMA CountingStep ==
  ASSUME FiniteFacts PROVE LogInvariant /\ CheckedStep => Counting'
<1>0. SUFFICES ASSUME LogInvariant, CheckedStep PROVE Counting'
  OBVIOUS
<1> USE DEF Counting
<1>c. TypeOK /\ Control /\ Counting /\ NoPanic'
  BY <1>0, Zenon DEF LogInvariant, CheckedStep
<1>t. pc \in [Proc -> Label] /\ Counting
  BY <1>c, Zenon DEF TypeOK
<1>a. IsFiniteSet(Active) /\ outstanding \in Nat
  BY <1>c, ActiveFacts, Zenon
<1>1. ASSUME NEW p \in Proc, begin_op(p) PROVE Counting'
  <2>1. Active' = Active \union {p} /\ p \notin Active
    BY <1>t, <1>1, Zenon DEF begin_op, Goto, Active, InOp
  <2>2. Cardinality(Active \union {p}) = Cardinality(Active) + 1
    BY <2>1, <1>a, Zenon DEF FiniteFacts, FinAddElement
  <2> QED  BY <1>t, <1>a, <1>1, <2>1, <2>2, Zenon DEF begin_op
<1>2. ASSUME NEW p \in Proc, NEW b \in Block, NEW v \in Value, Modify(p, b, v) PROVE Counting'
  <2>1. Active' = Active
    BY <1>t, <1>2, Zenon DEF Modify, Goto, Active, InOp
  <2> QED  BY <1>t, <1>2, <2>1, Zenon DEF Modify, Goto
<1>3. ASSUME NEW p \in Proc, log_write_absorb(p) PROVE Counting'
  <2>1. Active' = Active
    BY <1>t, <1>3, Zenon DEF log_write_absorb, Goto, Active, InOp
  <2> QED  BY <1>t, <1>3, <2>1, Zenon DEF log_write_absorb, Goto
<1>4. ASSUME NEW p \in Proc, NEW b \in Block, log_write(p, b) PROVE Counting'
  <2>1. Active' = Active
    BY <1>t, <1>4, Zenon DEF log_write, Goto, Active, InOp
  <2> QED  BY <1>t, <1>4, <2>1, Zenon DEF log_write, Goto
<1>5. ASSUME NEW p \in Proc, end_op_last(p) PROVE Counting'
  <2>1. Active' = Active \ {p} /\ p \in Active
    BY <1>t, <1>5, Zenon DEF end_op_last, Goto, Active, InOp
  <2>2. Cardinality(Active \ {p}) = Cardinality(Active) - 1
    BY <2>1, <1>a, Zenon DEF FiniteFacts, FinRemoveElement
  <2> QED  BY <1>t, <1>a, <1>5, <2>1, <2>2 DEF end_op_last
<1>6. ASSUME NEW p \in Proc, end_op(p) PROVE Counting'
  <2>0. WakeupAndGoto(p, "idle")
    BY <1>c, <1>6, EndOpCalm DEF end_op
  <2>1. Active' = Active \ {p} /\ p \in Active
    BY <1>t, <1>6, <2>0, Zenon DEF end_op, WakeupAndGoto, Active, InOp
  <2>2. Cardinality(Active \ {p}) = Cardinality(Active) - 1
    BY <2>1, <1>a, Zenon DEF FiniteFacts, FinRemoveElement
  <2> QED  BY <1>t, <1>a, <1>6, <2>1, <2>2, Zenon DEF end_op
<1>7. ASSUME NEW p \in Proc, erase_head(p) PROVE Counting'
  <2>1. Active' = Active
    BY <1>t, <1>7, Zenon DEF erase_head, Goto, Active, InOp
  <2> QED  BY <1>t, <1>7, <2>1, Zenon DEF erase_head, Goto
<1>8. ASSUME NEW p \in Proc, read_head(p) PROVE Counting'
  <2>1. Active' = Active
    BY <1>t, <1>8, Zenon DEF read_head, Goto, Active, InOp
  <2> QED  BY <1>t, <1>8, <2>1, Zenon DEF read_head, Goto
<1>9. ASSUME NEW p \in Proc, recover_from_log(p) PROVE Counting'
  <2>1. Active' = Active
    BY <1>c, <1>t, <1>9, BootFacts, Zenon DEF recover_from_log, Active, InOp, Recoverer
  <2> QED  BY <1>t, <1>9, <2>1, Zenon DEF recover_from_log
<1>10. CASE Crash
  <2>1. Active' = {}
    BY <1>10, Zenon DEF Crash, BootPc, Active, InOp
  <2> QED  BY <2>1, <1>10, Zenon DEF FiniteFacts, FinEmptySet, Crash, BootPc
<1>11. CASE Aside
  BY <1>t, <1>11, Zenon DEF Aside
<1> QED
  BY <1>0, <1>c, <1>1, <1>2, <1>3, <1>4, <1>5, <1>6, <1>7, <1>8, <1>9, <1>10, <1>11, OtherSteps, Zenon
     DEF CheckedStep

(* No system call exceeds OPBLOCKS distinct blocks.                        *)
LEMMA OpBoundStep ==
  ASSUME FiniteFacts PROVE LogInvariant /\ CheckedStep => OpBound'
<1>0. SUFFICES ASSUME LogInvariant, CheckedStep PROVE OpBound'
  OBVIOUS
<1> USE DEF OpBound
<1>c. TypeOK /\ NoPanic'
  BY <1>0, Zenon DEF LogInvariant, CheckedStep
<1>t. held \in [Proc -> SUBSET Block] /\ wset \in [Proc -> SUBSET Block] /\ Buffers /\ OpBound
  BY <1>0, <1>c, Zenon DEF LogInvariant, TypeOK
<1>1. ASSUME NEW p \in Proc, begin_op(p) PROVE OpBound'
  BY <1>t, <1>1, Zenon DEF begin_op, Goto
<1>2. ASSUME NEW p \in Proc, NEW b \in Block, NEW v \in Value, Modify(p, b, v) PROVE OpBound'
  <2>1. /\ wset' = wset
        /\ held' = [held EXCEPT ![p] = {b}]
        /\ b \in wset[p] \/ Cardinality(wset[p]) < OPBLOCKS
    BY <1>2, Zenon DEF Modify
  <2> QED  BY <1>t, <2>1, Zenon
<1>3. ASSUME NEW p \in Proc, log_write_absorb(p) PROVE OpBound'
  <2>1. PICK c \in Block : held[p] = {c}
    BY <1>t, <1>3, Zenon DEF log_write_absorb, Buffers
  <2>2. /\ wset' = [wset EXCEPT ![p] = wset[p] \union {c}]
        /\ held' = [held EXCEPT ![p] = {}]
    BY <1>t, <1>3, <2>1, Zenon DEF log_write_absorb
  <2>3. /\ IsFiniteSet(wset[p] \union {c})
        /\ Cardinality(wset[p] \union {c}) =
             IF c \in wset[p] THEN Cardinality(wset[p]) ELSE Cardinality(wset[p]) + 1
    BY <1>t, Zenon DEF FiniteFacts, FinAddElement
  <2>4. Cardinality(wset[p]) \in Nat /\ OPBLOCKS \in Nat
    BY <1>t, LogConstants, Zenon DEF FiniteFacts, FinCardinalityType
  <2>5. Cardinality(wset[p] \union {c}) <= OPBLOCKS
    <3>1. c \in wset[p] \/ Cardinality(wset[p]) < OPBLOCKS
      BY <1>t, <2>1, Zenon
    <3>2. Cardinality(wset[p]) <= OPBLOCKS
      BY <1>t, Zenon
    <3>3. PICK n \in Nat : n = Cardinality(wset[p])
      BY <2>4, Zenon
    <3>4. Cardinality(wset[p] \union {c}) = IF c \in wset[p] THEN n ELSE n + 1
      BY <2>3, <3>3, Zenon
    <3>5. (c \in wset[p] \/ n < OPBLOCKS) /\ n <= OPBLOCKS
      BY <3>1, <3>2, <3>3, Zenon
    <3> QED  BY <2>4, <3>3, <3>4, <3>5
  <2> QED  BY <1>t, <2>2, <2>3, <2>5, Zenon
<1>4. ASSUME NEW p \in Proc, NEW b \in Block, log_write(p, b) PROVE OpBound'
  <2>1. PICK c \in Block : held[p] = {c}
    BY <1>t, <1>4, Zenon DEF log_write, Buffers
  <2>2. /\ wset' = [wset EXCEPT ![p] = wset[p] \union {c}]
        /\ held' = [held EXCEPT ![p] = {}]
    BY <1>t, <1>4, <2>1, Zenon DEF log_write
  <2>3. /\ IsFiniteSet(wset[p] \union {c})
        /\ Cardinality(wset[p] \union {c}) =
             IF c \in wset[p] THEN Cardinality(wset[p]) ELSE Cardinality(wset[p]) + 1
    BY <1>t, Zenon DEF FiniteFacts, FinAddElement
  <2>4. Cardinality(wset[p]) \in Nat /\ OPBLOCKS \in Nat
    BY <1>t, LogConstants, Zenon DEF FiniteFacts, FinCardinalityType
  <2>5. Cardinality(wset[p] \union {c}) <= OPBLOCKS
    <3>1. c \in wset[p] \/ Cardinality(wset[p]) < OPBLOCKS
      BY <1>t, <2>1, Zenon
    <3>2. Cardinality(wset[p]) <= OPBLOCKS
      BY <1>t, Zenon
    <3>3. PICK n \in Nat : n = Cardinality(wset[p])
      BY <2>4, Zenon
    <3>4. Cardinality(wset[p] \union {c}) = IF c \in wset[p] THEN n ELSE n + 1
      BY <2>3, <3>3, Zenon
    <3>5. (c \in wset[p] \/ n < OPBLOCKS) /\ n <= OPBLOCKS
      BY <3>1, <3>2, <3>3, Zenon
    <3> QED  BY <2>4, <3>3, <3>4, <3>5
  <2> QED  BY <1>t, <2>2, <2>3, <2>5, Zenon
<1>5. ASSUME NEW p \in Proc, end_op_last(p) PROVE OpBound'
  <2>1. wset' = [wset EXCEPT ![p] = {}] /\ held' = held /\ held[p] = {}
    BY <1>t, <1>5, Zenon DEF end_op_last, Buffers
  <2> QED  BY <1>t, <2>1, LogConstants DEF FiniteFacts, FinEmptySet
<1>6. ASSUME NEW p \in Proc, end_op(p) PROVE OpBound'
  <2>1. wset' = [wset EXCEPT ![p] = {}] /\ held' = held /\ held[p] = {}
    BY <1>t, <1>6, Zenon DEF end_op, Buffers
  <2> QED  BY <1>t, <2>1, LogConstants DEF FiniteFacts, FinEmptySet
<1>7. ASSUME NEW p \in Proc, erase_head(p) PROVE OpBound'
  BY <1>t, <1>7, Zenon DEF erase_head, Goto
<1>8. ASSUME NEW p \in Proc, read_head(p) PROVE OpBound'
  BY <1>t, <1>8, Zenon DEF read_head, Goto
<1>9. ASSUME NEW p \in Proc, recover_from_log(p) PROVE OpBound'
  BY <1>t, <1>9, Zenon DEF recover_from_log
<1>10. CASE Crash
  <2>1. wset' = [q \in Proc |-> {}] /\ held' = [q \in Proc |-> {}]
    BY <1>10, Zenon DEF Crash
  <2> QED  BY <2>1, LogConstants DEF FiniteFacts, FinEmptySet
<1>11. CASE Aside
  BY <1>t, <1>11, Zenon DEF Aside
<1> QED
  BY <1>0, <1>c, <1>1, <1>2, <1>3, <1>4, <1>5, <1>6, <1>7, <1>8, <1>9, <1>10, <1>11, OtherSteps, Zenon
     DEF CheckedStep

(* A step after which no more is reserved, and no more is logged, keeps    *)
(* the capacity invariant.                                                 *)
LEMMA CapacityShrinks ==
  ASSUME FiniteFacts, LogInvariant, Unused' \subseteq Unused, lh' = lh,
         outstanding' > 0 => outstanding > 0
  PROVE  Capacity'
<1>1. IsFiniteSet(Unused) /\ Cardinality(Unused) \in Nat
  BY UnusedFacts, Zenon DEF LogInvariant
<1>2. Cardinality(Unused') \in Nat /\ Cardinality(Unused') <= Cardinality(Unused)
  BY <1>1, Zenon DEF FiniteFacts, FinSubset, FinCardinalityType
<1>3. Len(lh) \in Nat
  BY DEF LogInvariant, TypeOK
<1> QED
  BY <1>1, <1>2, <1>3, LogConstants DEF LogInvariant, Capacity

(* Two reservations at least leave twice the slack of one.                 *)
LEMMA TwiceTheSlack ==
  ASSUME NEW n \in Nat, n >= 2, NEW m \in Nat, NEW k \in Nat, k <= m
  PROVE  n * k + 2 * (m - k) <= n * m
<1>1. n * m = n * k + n * (m - k)
  OBVIOUS
<1>2. PICK d \in Nat : n = d + 2
  BY n - 2 \in Nat
<1>3. n * (m - k) = d * (m - k) + 2 * (m - k)
  BY <1>2
<1>4. d * (m - k) >= 0
  OBVIOUS
<1> QED  BY <1>1, <1>3, <1>4

(* The log has room for every reservation that has been handed out.        *)
LEMMA CapacityStep ==
  ASSUME FiniteFacts PROVE LogInvariant /\ CheckedStep /\ TypeOK' /\ Counting' /\ OpBound' => Capacity'
<1>0. SUFFICES ASSUME LogInvariant, CheckedStep, TypeOK', Counting', OpBound' PROVE Capacity'
  OBVIOUS
<1>c. TypeOK /\ Control /\ Counting /\ NoPanic'
  BY <1>0, Zenon DEF LogInvariant, CheckedStep
<1>t. /\ pc \in [Proc -> Label] /\ wset \in [Proc -> SUBSET Block] /\ lh \in Seq(Block)
      /\ outstanding \in Int /\ Buffers /\ OpBound /\ Capacity
  BY <1>0, <1>c, Zenon DEF LogInvariant, TypeOK
<1>o. OpBound'
  BY <1>0, Zenon
<1>1. ASSUME NEW p \in Proc, begin_op(p) PROVE Capacity'
  <2>1. TypeOK' /\ Counting'
    BY <1>0, Zenon
  <2>2. Cardinality(Unused') \in Nat /\ Cardinality(Unused') <= outstanding' * OPBLOCKS
    BY <2>1, UnusedFactsNext, Zenon
  <2>3. /\ outstanding' = outstanding + 1 /\ lh' = lh
        /\ outstanding \in Nat /\ Len(lh) \in Nat
    BY <1>c, <1>t, <1>1, ActiveFacts DEF begin_op
  <2>4. CASE outstanding = 0
    <3>1. \A q \in Proc : ~InOp(q)
      BY <1>c, <2>4, ActiveFacts, Zenon DEF Active
    <3>2. Up
      BY <1>c, <1>1, Zenon DEF begin_op, Control, Recoverer
    <3>3. lh = <<>>
      BY <1>c, <1>1, <3>1, <3>2, Zenon DEF begin_op, MayBegin, Control
    <3> QED  BY <2>2, <2>3, <2>4, <3>3, LogConstants DEF Capacity
  <2>5. CASE outstanding # 0
    <3>1. Len(lh) + outstanding' * MAXOPBLOCKS <= LOGSIZE
      BY <1>1, <2>3, Zenon DEF begin_op, MayBegin
    <3>2. outstanding' * OPBLOCKS + 2 * (MAXOPBLOCKS - OPBLOCKS) <= outstanding' * MAXOPBLOCKS
      BY <2>3, <2>5, TwiceTheSlack, LogConstants, LargeEnough
    <3> QED  BY <2>2, <2>3, <3>1, <3>2, LogConstants DEF Capacity
  <2> QED  BY <2>4, <2>5, Zenon
<1>2. ASSUME NEW p \in Proc, NEW b \in Block, NEW v \in Value, Modify(p, b, v) PROVE Capacity'
  <2>1. Unused' \subseteq Unused
    BY <1>t, <1>2, Zenon DEF Modify, Goto, Unused, Active, InOp
  <2>2. lh' = lh /\ outstanding' = outstanding
    BY <1>2, Zenon DEF Modify, Goto
  <2> QED  BY <1>0, <2>1, <2>2, CapacityShrinks, Zenon
<1>3. ASSUME NEW p \in Proc, log_write_absorb(p) PROVE Capacity'
  <2>1. PICK c \in Block : held[p] = {c}
    BY <1>t, <1>3, Zenon DEF log_write_absorb, Buffers
  <2>2. Cardinality(wset[p]) <= Cardinality(wset'[p])
    <3>1. wset'[p] = wset[p] \union {c}
      BY <1>t, <1>3, <2>1, Zenon DEF log_write_absorb
    <3>2. IsFiniteSet(wset[p])
      BY <1>t, Zenon DEF OpBound
    <3>3. Cardinality(wset[p]) \in Nat
      BY <3>2, Zenon DEF FiniteFacts, FinCardinalityType
    <3>4. Cardinality(wset[p] \union {c}) =
             IF c \in wset[p] THEN Cardinality(wset[p]) ELSE Cardinality(wset[p]) + 1
      BY <3>2, Zenon DEF FiniteFacts, FinAddElement
    <3> QED  BY <3>1, <3>3, <3>4
  <2>3. \A q \in Proc : q # p => wset'[q] = wset[q]
    BY <1>t, <1>3, Zenon DEF log_write_absorb
  <2>4. Active' = Active
    BY <1>t, <1>3, Zenon DEF log_write_absorb, Goto, Active, InOp
  <2>5. \A q \in Proc : Cardinality(wset[q]) \in Nat /\ Cardinality(wset'[q]) \in Nat
    BY <1>t, <1>o, Zenon DEF FiniteFacts, FinCardinalityType, OpBound
  <2>6. Unused' \subseteq Unused
    BY <2>2, <2>3, <2>4, <2>5 DEF Unused, Active
  <2>7. lh' = lh /\ outstanding' = outstanding
    BY <1>3, Zenon DEF log_write_absorb, Goto
  <2> QED  BY <1>0, <2>6, <2>7, CapacityShrinks, Zenon
<1>4. ASSUME NEW p \in Proc, NEW b \in Block, log_write(p, b) PROVE Capacity'
  <2>1. b \notin wset[p]
    BY <1>t, <1>4, Zenon DEF log_write, Buffers
  <2>2. wset' = [wset EXCEPT ![p] = wset[p] \union {b}]
    BY <1>4, Zenon DEF log_write
  <2>3. /\ Cardinality(wset'[p]) = Cardinality(wset[p]) + 1
        /\ Cardinality(wset[p]) \in Nat
        /\ Cardinality(wset'[p]) <= OPBLOCKS
    BY <1>t, <1>o, <2>1, <2>2, ZenonT(60) DEF FiniteFacts, FinAddElement, FinCardinalityType, OpBound
  <2>4. Active' = Active /\ p \in Active
    BY <1>t, <1>4, Zenon DEF log_write, Goto, Active, InOp
  <2> DEFINE t == <<p, Cardinality(wset[p]) + 1>>
  <2>5. t \in Unused
    BY <2>3, <2>4, LogConstants DEF Unused
  <2>6. Unused' = Unused \ {t}
    <3>1. \A q \in Proc : Cardinality(wset[q]) \in Nat
      BY <1>t, Zenon DEF FiniteFacts, FinCardinalityType, OpBound
    <3>2. \A q \in Proc : q # p => wset'[q] = wset[q]
      BY <1>t, <2>2, Zenon
    <3> QED  BY <2>3, <2>4, <3>1, <3>2 DEF Unused, Active
  <2>7. Cardinality(Unused') = Cardinality(Unused) - 1 /\ Cardinality(Unused) \in Nat
    <3>1. IsFiniteSet(Unused) /\ Cardinality(Unused) \in Nat
      BY <1>0, UnusedFacts, Zenon DEF LogInvariant
    <3>2. Cardinality(Unused \ {t}) = Cardinality(Unused) - 1
      BY <3>1, <2>5, ZenonT(60) DEF FiniteFacts, FinRemoveElement
    <3> QED  BY <2>6, <3>1, <3>2, Zenon
  <2>8. Len(lh') = Len(lh) + 1 /\ Len(lh) \in Nat /\ outstanding' = outstanding
    BY <1>t, <1>4 DEF log_write
  <2> QED  BY <1>t, <2>7, <2>8, LogConstants DEF Capacity
<1>5. ASSUME NEW p \in Proc, end_op_last(p) PROVE Capacity'
  BY <1>5 DEF end_op_last, Capacity
<1>6. ASSUME NEW p \in Proc, end_op(p) PROVE Capacity'
  <2>1. WakeupAndGoto(p, "idle")
    BY <1>c, <1>6, EndOpCalm DEF end_op
  <2>2. Unused' \subseteq Unused
    BY <1>t, <1>6, <2>1, Zenon DEF end_op, WakeupAndGoto, Unused, Active, InOp
  <2>3. lh' = lh /\ outstanding' = outstanding - 1 /\ outstanding \in Int
    BY <1>t, <1>6, Zenon DEF end_op
  <2> QED  BY <1>0, <2>2, <2>3, CapacityShrinks
<1>7. ASSUME NEW p \in Proc, erase_head(p) PROVE Capacity'
  <2>1. outstanding = 0
    BY <1>c, <1>7, ZenonT(60) DEF FiniteFacts, FinEmptySet, erase_head, Control, Committer, Counting, Active
  <2> QED  BY <1>7, <2>1 DEF erase_head, Capacity
<1>8. ASSUME NEW p \in Proc, read_head(p) PROVE Capacity'
  <2>1. outstanding = 0
    BY <1>c, <1>8, BootFacts, Zenon DEF FiniteFacts, FinEmptySet, read_head, Recoverer, Counting, Active
  <2> QED  BY <1>8, <2>1 DEF read_head, Capacity
<1>9. ASSUME NEW p \in Proc, recover_from_log(p) PROVE Capacity'
  <2>1. outstanding = 0
    BY <1>c, <1>9, BootFacts, ZenonT(60) DEF FiniteFacts, FinEmptySet, recover_from_log, Recoverer, Counting, Active
  <2> QED  BY <1>9, <2>1 DEF recover_from_log, Capacity
<1>10. CASE Crash
  BY <1>10 DEF Crash, Capacity
<1>11. CASE Aside
  <2>1. Unused' \subseteq Unused
    BY <1>11, Zenon DEF Aside, Unused
  <2> QED  BY <1>0, <1>11, <2>1, CapacityShrinks, Zenon DEF Aside
<1> QED
  BY <1>0, <1>c, <1>1, <1>2, <1>3, <1>4, <1>5, <1>6, <1>7, <1>8, <1>9, <1>10, <1>11, OtherSteps, Zenon
     DEF CheckedStep

(* At boot the log is empty and nobody runs but initproc.                  *)
LEMMA InitInvariant ==
  ASSUME FiniteFacts PROVE Init => LogInvariant
<1> SUFFICES ASSUME Init PROVE LogInvariant
  OBVIOUS
<1> USE LogConstants DEF Init, BootPc
<1>1. TypeOK
  BY DEF TypeOK, Label
<1>2. \A p \in Proc : pc[p] \in {"rhead", "unborn"} /\ held[p] = {} /\ wset[p] = {}
  OBVIOUS
<1>3. pc[initproc] = "rhead" /\ \A p \in Proc \ {initproc} : pc[p] = "unborn"
  OBVIOUS
<1>4. Control
  BY <1>2, <1>3 DEF Control, Up, Recoverer, Committer, InOp
<1>5. Counting
  <2>1. Active = {}
    BY <1>2, Zenon DEF Active, InOp
  <2> QED  BY <2>1, Zenon DEF FiniteFacts, FinEmptySet, Counting
<1>6. Buffers
  BY <1>2, Zenon DEF Buffers, Logged, InOp
<1>7. OpBound
  BY <1>2 DEF FiniteFacts, FinEmptySet, OpBound
<1>8. Capacity
  BY DEF Capacity
<1>9. Shape
  <2>1. Len(lh) = 0 /\ Len(dhead) = 0
    OBVIOUS
  <2> QED  BY <2>1, LargeEnough DEF Shape, Injective
<1>10. Phases
  BY <1>2, <1>3, Zenon DEF Phases, Up
<1>11. Pins
  BY <1>3, Zenon DEF Pins, Up
<1>12. Copies
  BY <1>2, Zenon DEF Copies, Contents
<1>13. NoPanic /\ SleeperHasWaker
  BY <1>2, Zenon DEF NoPanic, SleeperHasWaker
<1> QED
  BY <1>1, <1>4, <1>5, <1>6, <1>7, <1>8, <1>9, <1>10, <1>11, <1>12, <1>13, Zenon DEF LogInvariant

F == INSTANCE FiniteSetTheorems

(* The library's theorems are about the same Cardinality.                  *)
LEMMA Finite == FiniteFacts
<1>1. ASSUME NEW S
      PROVE  Cardinality(S) = F!Cardinality(S) /\ (IsFiniteSet(S) <=> F!IsFiniteSet(S))
  BY Zenon DEF Cardinality, F!Cardinality, IsFiniteSet, F!IsFiniteSet
<1>2. FinSubset
  <2> SUFFICES ASSUME NEW S, IsFiniteSet(S), NEW T \in SUBSET S
               PROVE  IsFiniteSet(T) /\ Cardinality(T) <= Cardinality(S)
    BY Zenon DEF FinSubset
  <2>1. F!IsFiniteSet(T) /\ F!Cardinality(T) <= F!Cardinality(S)
    BY <1>1, F!FS_Subset, Zenon
  <2>2. Cardinality(S) = F!Cardinality(S) /\ Cardinality(T) = F!Cardinality(T) /\ IsFiniteSet(T)
    BY <1>1, <2>1, Zenon
  <2> QED  BY <2>1, <2>2
<1>3. FinCardinalityType
  BY <1>1, F!FS_CardinalityType, Zenon DEF FinCardinalityType
<1>4. FinEmptySet
  BY <1>1, F!FS_EmptySet, Zenon DEF FinEmptySet
<1>5. FinSingleton
  BY <1>1, F!FS_Singleton, Zenon DEF FinSingleton
<1>6. FinAddElement
  <2> SUFFICES ASSUME NEW S, IsFiniteSet(S), NEW x
               PROVE  /\ IsFiniteSet(S \union {x})
                      /\ Cardinality(S \union {x}) =
                           IF x \in S THEN Cardinality(S) ELSE Cardinality(S) + 1
    BY Zenon DEF FinAddElement
  <2>1. /\ F!IsFiniteSet(S \union {x})
        /\ F!Cardinality(S \union {x}) =
             IF x \in S THEN F!Cardinality(S) ELSE F!Cardinality(S) + 1
    BY <1>1, F!FS_AddElement, Zenon
  <2> QED  BY <1>1, <2>1, Zenon
<1>7. FinRemoveElement
  BY <1>1, F!FS_RemoveElement, Zenon DEF FinRemoveElement
<1>8. FinInterval
  <2> SUFFICES ASSUME NEW k \in Nat PROVE IsFiniteSet(1..k) /\ Cardinality(1..k) = k
    BY Zenon DEF FinInterval
  <2>1. F!IsFiniteSet(1..k) /\ F!Cardinality(1..k) = k
    BY F!FS_Interval
  <2> QED  BY <1>1, <2>1, Zenon
<1>9. FinProduct
  <2> SUFFICES ASSUME NEW S, IsFiniteSet(S), NEW T, IsFiniteSet(T)
               PROVE  /\ IsFiniteSet(S \X T)
                      /\ Cardinality(S \X T) = Cardinality(S) * Cardinality(T)
    BY Zenon DEF FinProduct
  <2>1. /\ F!IsFiniteSet(S \X T)
        /\ F!Cardinality(S \X T) = F!Cardinality(S) * F!Cardinality(T)
    BY <1>1, F!FS_Product, Zenon
  <2>2. /\ Cardinality(S) = F!Cardinality(S) /\ Cardinality(T) = F!Cardinality(T)
        /\ Cardinality(S \X T) = F!Cardinality(S \X T) /\ IsFiniteSet(S \X T)
    BY <1>1, <2>1, Zenon
  <2> QED  BY <2>1, <2>2
<1> QED
  BY <1>2, <1>3, <1>4, <1>5, <1>6, <1>7, <1>8, <1>9, Zenon DEF FiniteFacts

(* The inductive invariant holds of every execution of log.c, crashes      *)
(* and recoveries included.                                                *)
THEOREM LogInvariance == Spec => []LogInvariant
<1>1. Init => LogInvariant
  BY Finite, InitInvariant, Zenon
<1>2. LogInvariant /\ [Next]_vars => LogInvariant'
  <2> SUFFICES ASSUME LogInvariant, [Next]_vars PROVE LogInvariant'
    OBVIOUS
  <2>1. CheckedStep
    BY Finite, Checked, Zenon
  <2>2. TypeOK' /\ Counting' /\ OpBound' /\ NoPanic'
    BY <2>1, Finite, TypeStep, CountingStep, OpBoundStep, Zenon DEF CheckedStep
  <2> QED
    BY <2>1, <2>2, Finite, ControlStep, BuffersStep, CapacityStep, ShapeStep, PhasesStep, PinsStep,
       CopiesStep, SleeperStep, Zenon DEF LogInvariant
<1> QED  BY <1>1, <1>2, PTL DEF Spec

(* Every state log.c reaches is well typed.                                *)
THEOREM LogType == Spec => []TypeOK
<1>1. LogInvariant => TypeOK
  BY Zenon DEF LogInvariant
<1> QED  BY <1>1, LogInvariance, PTL

(* If every system call writes fewer than MAXOPBLOCKS distinct blocks,     *)
(* log_write() never panics with "too big a transaction", and no other     *)
(* panic of log.c is reached.                                              *)
THEOREM LogNeverPanics == Spec => []NoPanic
<1>1. LogInvariant => NoPanic
  BY Zenon DEF LogInvariant
<1> QED  BY <1>1, LogInvariance, PTL

(* A process that sleeps in begin_op() can count on a later wakeup.        *)
THEOREM NoLostWakeup == Spec => []SleeperHasWaker
<1>1. LogInvariant => SleeperHasWaker
  BY Zenon DEF LogInvariant
<1> QED  BY <1>1, LogInvariance, PTL

(* log.c implements AtomicDisk: whatever the interleaving of system calls, *)
(* commits, evictions, crashes and recoveries, what a reboot restores is   *)
(* the state after a whole number of system calls.                         *)
THEOREM LogIsCrashAtomic == Spec => CrashAtomic
<1>1. Init => Abstract!Init
  <2> SUFFICES ASSUME Init PROVE Abstract!Init
    OBVIOUS
  <2>1. \A c \in Block : Recovered(c) = disk[c]
    BY DEF Init, Recovered
  <2>2. Durable \in [Block -> Value]
    BY <2>1, Zenon DEF Init, Durable
  <2>3. pc[initproc] = "rhead" /\ \A p \in Proc : pc[p] \in {"rhead", "unborn"}
    BY LogConstants, Zenon DEF Init, BootPc
  <2>4. Current = Durable /\ Active = {}
    BY <2>3, LogConstants, Zenon DEF Current, Active, InOp, Up
  <2> QED  BY <2>2, <2>4, Zenon DEF Abstract!Init
<1>2. LogInvariant /\ [Next]_vars => [Abstract!Next]_(Abstract!vars)
  BY RefineStep, Finite, Checked, TypeStep, ShapeStep, Zenon DEF Abstract!vars
<1> QED  BY <1>1, <1>2, LogInvariance, PTL DEF Spec, CrashAtomic, Abstract!Spec
=============================================================================
