---------------------------- MODULE SchedProofs ----------------------------
(***************************************************************************)
(* The scheduler for any number of CPUs, processes and channels.           *)
(*                                                                         *)
(* The inductive invariant says what p->lock, noff, intena and SIE are at  *)
(* every label, who holds p->lock while a process changes CPUs, and that a *)
(* process on its way into sleep() is still to be visited by the wakeup()  *)
(* of an event it has not seen.                                            *)
(***************************************************************************)
EXTENDS Sched, TLAPS

(* A CPU between scheduler()'s acquire() of p->lock and its release().     *)
Serves(c, p) == spc[c] = "back" /\ sp[c] = p

(* The labels of a process that is on a CPU and holds its lock.            *)
Locked == {"new", "sleep", "asleep", "ssched", "soff", "ysched", "yoff"}

ServesInv(c) == on[c] \in Proc => Serves(c, on[c])

ServesOnce(c, d) == spc[c] = "back" /\ spc[d] = "back" /\ sp[c] = sp[d] => c = d

LockInv(c, p) ==
  plock[p] = c <=> Serves(c, p) /\ (on[c] = p => pc[p] \in Locked)

(* A process on a CPU, and one on none.                                    *)
OnInv(c, p) ==
  on[c] = p => state[p] = IF pc[p] = "ssched" THEN "SLEEPING"
                          ELSE IF pc[p] = "ysched" THEN "RUNNABLE" ELSE "RUNNING"

OffInv(p) ==
  (\A c \in Cpu : on[c] # p) => state[p] # "RUNNING" /\ pc[p] \in {"new", "soff", "yoff"}

SleepInv(p) ==
  /\ state[p] = "SLEEPING" => pc[p] \in {"ssched", "soff"} /\ chan[p] = want[p]
  /\ pc[p] = "soff" => sint[p] = 1
  /\ pc[p] = "yoff" => sint[p] = 0
  /\ pc[p] # "panic"

(* noff and SIE of a CPU, by what it is doing.                             *)
IntrInv(c) ==
  intr[c] # "no" =>
    /\ sie[c] = 0
    /\ IF intr[c] = "wake" THEN noff[c] = 1 /\ intena[c] = 0 ELSE noff[c] = 0
    /\ IF on[c] \in Proc THEN pc[on[c]] \in {"fret", "run", "reacq"} ELSE spc[c] # "back"

SchedulerInv(c) ==
  intr[c] = "no" /\ on[c] = NoProc =>
    IF spc[c] = "back" THEN noff[c] = 1 /\ sie[c] = 0 ELSE noff[c] = 0

ThreadInv(c, p) ==
  intr[c] = "no" /\ on[c] = p =>
    /\ pc[p] \in {"fret", "run", "reacq", "yield", "tret"} => noff[c] = 0
    /\ pc[p] \in {"new", "test", "asleep", "ssched", "ysched", "soff", "yoff"} => noff[c] = 1
    /\ pc[p] = "sleep" => noff[c] = 2
    /\ pc[p] \in {"run", "reacq"} => sie[c] = 1
    /\ pc[p] \notin {"fret", "run", "reacq"} => sie[c] = 0
    /\ pc[p] \in {"test", "sleep", "asleep", "ssched"} => intena[c] = 1
    /\ pc[p] = "ysched" => intena[c] = 0

(* p is in sleep(), or on the way into it with p->lock held.               *)
Sleeps(p) == state[p] = "SLEEPING" \/ pc[p] \in {"sleep", "asleep"}

Visits(c, p) == intr[c] = "wake" /\ hch[c] = want[p] /\ p \in hscan[c]

WakeInv(p) == Sleeps(p) /\ cond[want[p]] > 0 => \E c \in Cpu : Visits(c, p)

CpuInv ==
  /\ \A c \in Cpu : ServesInv(c) /\ IntrInv(c) /\ SchedulerInv(c)
  /\ \A c, d \in Cpu : ServesOnce(c, d)

ProcInv ==
  /\ \A p \in Proc : OffInv(p) /\ SleepInv(p)
  /\ \A c \in Cpu, p \in Proc : LockInv(c, p) /\ OnInv(c, p) /\ ThreadInv(c, p)

SleepersVisited == \A p \in Proc : WakeInv(p)

SchedInv == TypeOK /\ CpuInv /\ ProcInv /\ SleepersVisited

-----------------------------------------------------------------------------
(* Leaves go to the SMT solver, unless they name another prover.           *)
USE SMTT(60)

(* What the invariant says of one CPU, and of one process.                 *)
LEMMA CpuFacts ==
  ASSUME SchedInv, NEW d \in Cpu
  PROVE  ServesInv(d) /\ IntrInv(d) /\ SchedulerInv(d)
BY DEF SchedInv, CpuInv

LEMMA ProcFacts ==
  ASSUME SchedInv, NEW r \in Proc
  PROVE  /\ OffInv(r) /\ SleepInv(r) /\ WakeInv(r)
         /\ \A d \in Cpu : LockInv(d, r) /\ OnInv(d, r) /\ ThreadInv(d, r)
BY DEF SchedInv, ProcInv, SleepersVisited

(* The CPU that a process runs on is the only one that has to do with it.  *)
LEMMA Alone ==
  ASSUME SchedInv, NEW c \in Cpu, NEW p \in Proc, on[c] = p
  PROVE  Serves(c, p) /\ \A d \in Cpu : (on[d] = p => d = c) /\ (Serves(d, p) => d = c)
BY DEF SchedInv, CpuInv, ServesInv, ServesOnce, Serves

(* acquire() and release() keep the types.                                 *)
LEMMA PushType ==
  ASSUME TypeOK, NEW c \in Cpu, push_off(c)
  PROVE  noff' \in [Cpu -> Int] /\ intena' \in [Cpu -> {0, 1}] /\ sie' \in [Cpu -> {0, 1}]
BY DEF TypeOK, push_off

LEMMA PopType ==
  ASSUME TypeOK, NEW c \in Cpu, NEW ena \in {0, 1}, pop_off(c, ena)
  PROVE  noff' \in [Cpu -> Int] /\ intena' \in [Cpu -> {0, 1}] /\ sie' \in [Cpu -> {0, 1}]
BY DEF TypeOK, pop_off

-----------------------------------------------------------------------------
(* Every step keeps the invariant.                                         *)

LEMMA scheduler_intr_on_Step ==
  ASSUME SchedInv, NEW c \in Cpu, scheduler_intr_on(c)
  PROVE  SchedInv'
<1> USE SchedConstants DEF scheduler_intr_on, procVars, condVars, thrVars, cpuVars, offVars, intrVars, InScheduler
<1>t. TypeOK BY ZenonT(60) DEF SchedInv
<1>0. /\ sie \in [Cpu -> {0, 1}] /\ spc \in [Cpu -> SchedulerLabel]
  BY <1>t, ZenonT(60) DEF TypeOK
<1>5. TypeOK'
  BY <1>t, ZenonT(60) DEF TypeOK, State, Label, SchedulerLabel, HandlerLabel
<1>6. CpuInv'
  <2>1. ASSUME NEW d \in Cpu PROVE ServesInv(d)'
    <3>1. ServesInv(d) BY CpuFacts, ZenonT(60)
    <3> QED BY <1>0, <3>1, ZenonT(60) DEF ServesInv, Serves
  <2>2. ASSUME NEW d \in Cpu PROVE IntrInv(d)'
    <3>1. IntrInv(d) BY CpuFacts, ZenonT(60)
    <3> QED BY <1>0, <3>1, ZenonT(60) DEF IntrInv
  <2>3. ASSUME NEW d \in Cpu PROVE SchedulerInv(d)'
    <3>1. IntrInv(d) /\ SchedulerInv(d) BY CpuFacts, ZenonT(60)
    <3> QED BY <1>0, <3>1, ZenonT(60) DEF IntrInv, SchedulerInv
  <2>4. ASSUME NEW d \in Cpu, NEW e \in Cpu PROVE ServesOnce(d, e)'
    BY <1>0, ZenonT(60) DEF SchedInv, CpuInv, ServesOnce
  <2> QED BY <2>1, <2>2, <2>3, <2>4, ZenonT(60) DEF CpuInv
<1>7. ProcInv'
  <2>1. ASSUME NEW r \in Proc PROVE OffInv(r)'
    BY ProcFacts, ZenonT(60) DEF OffInv
  <2>2. ASSUME NEW r \in Proc PROVE SleepInv(r)'
    BY ProcFacts, ZenonT(60) DEF SleepInv
  <2>3. ASSUME NEW d \in Cpu, NEW r \in Proc PROVE LockInv(d, r)'
    <3>1. LockInv(d, r) /\ OnInv(d, r) BY ProcFacts, ZenonT(60)
    <3> QED BY <1>0, <3>1, ZenonT(60) DEF LockInv, OnInv, Serves, Locked
  <2>4. ASSUME NEW d \in Cpu, NEW r \in Proc PROVE OnInv(d, r)'
    BY ProcFacts, ZenonT(60) DEF OnInv
  <2>5. ASSUME NEW d \in Cpu, NEW r \in Proc PROVE ThreadInv(d, r)'
    <3>1. ThreadInv(d, r) /\ IntrInv(d) /\ SleepInv(r) BY CpuFacts, ProcFacts, ZenonT(60)
    <3> QED BY <1>0, <3>1, ZenonT(60) DEF ThreadInv, IntrInv, SleepInv
  <2> QED BY <2>1, <2>2, <2>3, <2>4, <2>5, ZenonT(60) DEF ProcInv
<1>8. ASSUME NEW r \in Proc PROVE WakeInv(r)'
  BY ProcFacts, ZenonT(60) DEF WakeInv, Sleeps, Visits
<1> QED BY <1>5, <1>6, <1>7, <1>8, ZenonT(60) DEF SchedInv, SleepersVisited

LEMMA scheduler_run_Step ==
  ASSUME SchedInv, NEW c \in Cpu, scheduler_run(c)
  PROVE  SchedInv'
<1> USE SchedConstants DEF scheduler_run, procVars, condVars, thrVars, cpuVars, offVars, intrVars, InScheduler
<1>t. TypeOK BY ZenonT(60) DEF SchedInv
<1>0. /\ plock \in [Proc -> Cpu \union {NoCpu}] /\ state \in [Proc -> State]
      /\ on \in [Cpu -> Proc \union {NoProc}] /\ spc \in [Cpu -> SchedulerLabel]
      /\ noff \in [Cpu -> Int] /\ intena \in [Cpu -> {0, 1}] /\ sie \in [Cpu -> {0, 1}]
  BY <1>t, ZenonT(60) DEF TypeOK
<1>1. sp[c] \in Proc BY <1>t, ZenonT(60) DEF TypeOK
<1>2. ASSUME NEW d \in Cpu PROVE ~Serves(d, sp[c]) /\ on[d] # sp[c]
  <2>1. LockInv(d, sp[c]) /\ OnInv(d, sp[c]) /\ ServesInv(d) BY <1>1, CpuFacts, ProcFacts, ZenonT(60)
  <2> QED BY <1>0, <1>1, <2>1, ZenonT(60) DEF LockInv, OnInv, ServesInv, Serves, Locked
<1>3. pc[sp[c]] \in {"new", "soff", "yoff"}
  BY <1>1, <1>2, ProcFacts, ZenonT(60) DEF OffInv
<1>5. TypeOK'
  <2>1. noff' \in [Cpu -> Int] /\ intena' \in [Cpu -> {0, 1}] /\ sie' \in [Cpu -> {0, 1}]
    BY <1>t, PushType, ZenonT(60)
  <2> QED BY <1>t, <2>1, ZenonT(60) DEF TypeOK, State, Label, SchedulerLabel, HandlerLabel
<1>6. CpuInv'
  <2>1. ASSUME NEW d \in Cpu PROVE ServesInv(d)'
    <3>1. ServesInv(d) BY CpuFacts, ZenonT(60)
    <3> QED BY <1>0, <1>1, <1>2, <1>3, <3>1, ZenonT(60) DEF push_off, ServesInv, Serves
  <2>2. ASSUME NEW d \in Cpu PROVE IntrInv(d)'
    <3>1. IntrInv(d) BY CpuFacts, ZenonT(60)
    <3> QED BY <1>0, <1>1, <1>2, <1>3, <3>1, ZenonT(60) DEF push_off, IntrInv
  <2>3. ASSUME NEW d \in Cpu PROVE SchedulerInv(d)'
    <3>1. IntrInv(d) /\ SchedulerInv(d) BY CpuFacts, ZenonT(60)
    <3> QED BY <1>0, <1>1, <1>2, <1>3, <3>1, ZenonT(60) DEF push_off, IntrInv, SchedulerInv
  <2>4. ASSUME NEW d \in Cpu, NEW e \in Cpu PROVE ServesOnce(d, e)'
    BY <1>0, <1>1, <1>2, <1>3, ZenonT(60) DEF SchedInv, CpuInv, ServesOnce, Serves
  <2> QED BY <2>1, <2>2, <2>3, <2>4, ZenonT(60) DEF CpuInv
<1>7. ProcInv'
  <2>1. ASSUME NEW r \in Proc PROVE OffInv(r)'
    <3>1. OffInv(r) /\ \A d \in Cpu : OnInv(d, r) BY ProcFacts, ZenonT(60)
    <3> QED BY <1>0, <1>1, <1>2, <1>3, <3>1, ZenonT(60) DEF push_off, OffInv, OnInv
  <2>2. ASSUME NEW r \in Proc PROVE SleepInv(r)'
    <3>1. SleepInv(r) /\ \A d \in Cpu : OnInv(d, r) /\ ThreadInv(d, r) BY ProcFacts, ZenonT(60)
    <3> QED BY <1>0, <1>1, <1>2, <1>3, <3>1, ZenonT(60) DEF push_off, SleepInv, OnInv, ThreadInv
  <2>3. ASSUME NEW d \in Cpu, NEW r \in Proc PROVE LockInv(d, r)'
    <3>1. LockInv(d, r) /\ OnInv(d, r) /\ ServesInv(d) BY CpuFacts, ProcFacts, ZenonT(60)
    <3> QED BY <1>0, <1>1, <1>2, <1>3, <3>1, ZenonT(60) DEF push_off, LockInv, OnInv, Serves, Locked, ServesInv
  <2>4. ASSUME NEW d \in Cpu, NEW r \in Proc PROVE OnInv(d, r)'
    <3>1. LockInv(d, r) /\ OnInv(d, r) /\ ServesInv(d) BY CpuFacts, ProcFacts, ZenonT(60)
    <3> QED BY <1>0, <1>1, <1>2, <1>3, <3>1, ZenonT(60) DEF push_off, OnInv, LockInv, ServesInv, Serves, Locked
  <2>5. ASSUME NEW d \in Cpu, NEW r \in Proc PROVE ThreadInv(d, r)'
    <3>1. ThreadInv(d, r) /\ IntrInv(d) /\ SleepInv(r) /\ SchedulerInv(d) BY CpuFacts, ProcFacts, ZenonT(60)
    <3> QED BY <1>0, <1>1, <1>2, <1>3, <3>1 DEF push_off, ThreadInv, IntrInv, SleepInv, SchedulerInv
  <2> QED BY <2>1, <2>2, <2>3, <2>4, <2>5, ZenonT(60) DEF ProcInv
<1>8. ASSUME NEW r \in Proc PROVE WakeInv(r)'
  <2>1. WakeInv(r) /\ SleepInv(r) /\ \A d \in Cpu : OnInv(d, r) BY ProcFacts, ZenonT(60)
  <2> QED BY <1>0, <1>1, <1>2, <1>3, <2>1, ZenonT(60) DEF WakeInv, Sleeps, Visits, SleepInv, OnInv
<1> QED BY <1>5, <1>6, <1>7, <1>8, ZenonT(60) DEF SchedInv, SleepersVisited

LEMMA scheduler_pass_Step ==
  ASSUME SchedInv, NEW c \in Cpu, scheduler_pass(c)
  PROVE  SchedInv'
<1> USE SchedConstants DEF scheduler_pass, Advance, procVars, condVars, thrVars, cpuVars, offVars, intrVars, InScheduler
<1>t. TypeOK BY ZenonT(60) DEF SchedInv
<1>0. /\ intena \in [Cpu -> {0, 1}] /\ sp \in [Cpu -> Proc]
      /\ spc \in [Cpu -> SchedulerLabel]
  BY <1>t, ZenonT(60) DEF TypeOK
<1>5. TypeOK'
  BY <1>t DEF TypeOK, State, Label, SchedulerLabel, HandlerLabel, Proc
<1>6. CpuInv'
  <2>1. ASSUME NEW d \in Cpu PROVE ServesInv(d)'
    <3>1. ServesInv(d) BY CpuFacts, ZenonT(60)
    <3> QED BY <1>0, <3>1, ZenonT(60) DEF ServesInv, Serves
  <2>2. ASSUME NEW d \in Cpu PROVE IntrInv(d)'
    <3>1. IntrInv(d) BY CpuFacts, ZenonT(60)
    <3> QED BY <1>0, <3>1, ZenonT(60) DEF IntrInv
  <2>3. ASSUME NEW d \in Cpu PROVE SchedulerInv(d)'
    <3>1. IntrInv(d) /\ SchedulerInv(d) BY CpuFacts, ZenonT(60)
    <3> QED BY <1>0, <3>1, ZenonT(60) DEF IntrInv, SchedulerInv
  <2>4. ASSUME NEW d \in Cpu, NEW e \in Cpu PROVE ServesOnce(d, e)'
    BY <1>0, ZenonT(60) DEF SchedInv, CpuInv, ServesOnce
  <2> QED BY <2>1, <2>2, <2>3, <2>4, ZenonT(60) DEF CpuInv
<1>7. ProcInv'
  <2>1. ASSUME NEW r \in Proc PROVE OffInv(r)'
    BY ProcFacts, ZenonT(60) DEF OffInv
  <2>2. ASSUME NEW r \in Proc PROVE SleepInv(r)'
    BY ProcFacts, ZenonT(60) DEF SleepInv
  <2>3. ASSUME NEW d \in Cpu, NEW r \in Proc PROVE LockInv(d, r)'
    <3>1. LockInv(d, r) /\ OnInv(d, r) BY ProcFacts, ZenonT(60)
    <3> QED BY <1>0, <3>1, ZenonT(60) DEF LockInv, OnInv, Serves, Locked
  <2>4. ASSUME NEW d \in Cpu, NEW r \in Proc PROVE OnInv(d, r)'
    BY ProcFacts, ZenonT(60) DEF OnInv
  <2>5. ASSUME NEW d \in Cpu, NEW r \in Proc PROVE ThreadInv(d, r)'
    <3>1. ThreadInv(d, r) /\ IntrInv(d) /\ SleepInv(r) BY CpuFacts, ProcFacts, ZenonT(60)
    <3> QED BY <1>0, <3>1, ZenonT(60) DEF ThreadInv, IntrInv, SleepInv
  <2> QED BY <2>1, <2>2, <2>3, <2>4, <2>5, ZenonT(60) DEF ProcInv
<1>8. ASSUME NEW r \in Proc PROVE WakeInv(r)'
  BY ProcFacts, ZenonT(60) DEF WakeInv, Sleeps, Visits
<1> QED BY <1>5, <1>6, <1>7, <1>8, ZenonT(60) DEF SchedInv, SleepersVisited

LEMMA scheduler_back_Step ==
  ASSUME SchedInv, NEW c \in Cpu, scheduler_back(c)
  PROVE  SchedInv'
<1> USE SchedConstants DEF scheduler_back, Advance, procVars, condVars, thrVars, cpuVars, offVars, intrVars, InScheduler
<1>t. TypeOK BY ZenonT(60) DEF SchedInv
<1>0. /\ plock \in [Proc -> Cpu \union {NoCpu}] /\ sp \in [Cpu -> Proc]
      /\ spc \in [Cpu -> SchedulerLabel] /\ noff \in [Cpu -> Int]
      /\ intena \in [Cpu -> {0, 1}] /\ sie \in [Cpu -> {0, 1}]
  BY <1>t, ZenonT(60) DEF TypeOK
<1>1. sp[c] \in Proc BY <1>t, ZenonT(60) DEF TypeOK
<1>2. ASSUME NEW d \in Cpu, Serves(d, sp[c]) PROVE d = c
  BY <1>2, ZenonT(60) DEF SchedInv, CpuInv, ServesOnce, Serves
<1>5. TypeOK'
  <2>1. intena[c] \in {0, 1} BY <1>t, ZenonT(60) DEF TypeOK
  <2>2. noff' \in [Cpu -> Int] /\ intena' \in [Cpu -> {0, 1}] /\ sie' \in [Cpu -> {0, 1}]
    BY <1>t, <2>1, PopType, ZenonT(60)
  <2> QED BY <1>t, <2>2 DEF TypeOK, State, Label, SchedulerLabel, HandlerLabel, Proc
<1>6. CpuInv'
  <2>1. ASSUME NEW d \in Cpu PROVE ServesInv(d)'
    <3>1. ServesInv(d) BY CpuFacts, ZenonT(60)
    <3> QED BY <1>0, <1>1, <1>2, <3>1, ZenonT(60) DEF pop_off, ServesInv, Serves
  <2>2. ASSUME NEW d \in Cpu PROVE IntrInv(d)'
    <3>1. IntrInv(d) BY CpuFacts, ZenonT(60)
    <3> QED BY <1>0, <1>1, <1>2, <3>1, ZenonT(60) DEF pop_off, IntrInv
  <2>3. ASSUME NEW d \in Cpu PROVE SchedulerInv(d)'
    <3>1. IntrInv(d) /\ SchedulerInv(d) BY CpuFacts, ZenonT(60)
    <3> QED BY <1>0, <1>1, <1>2, <3>1 DEF pop_off, IntrInv, SchedulerInv
  <2>4. ASSUME NEW d \in Cpu, NEW e \in Cpu PROVE ServesOnce(d, e)'
    BY <1>0, <1>1, <1>2, ZenonT(60) DEF SchedInv, CpuInv, ServesOnce
  <2> QED BY <2>1, <2>2, <2>3, <2>4, ZenonT(60) DEF CpuInv
<1>7. ProcInv'
  <2>1. ASSUME NEW r \in Proc PROVE OffInv(r)'
    BY ProcFacts, ZenonT(60) DEF OffInv
  <2>2. ASSUME NEW r \in Proc PROVE SleepInv(r)'
    BY ProcFacts, ZenonT(60) DEF SleepInv
  <2>3. ASSUME NEW d \in Cpu, NEW r \in Proc PROVE LockInv(d, r)'
    <3>1. LockInv(d, r) /\ OnInv(d, r) /\ ServesInv(d) BY CpuFacts, ProcFacts, ZenonT(60)
    <3> QED BY <1>0, <1>1, <1>2, <3>1, ZenonT(60) DEF pop_off, LockInv, OnInv, Serves, Locked, ServesInv
  <2>4. ASSUME NEW d \in Cpu, NEW r \in Proc PROVE OnInv(d, r)'
    BY ProcFacts, ZenonT(60) DEF OnInv
  <2>5. ASSUME NEW d \in Cpu, NEW r \in Proc PROVE ThreadInv(d, r)'
    <3>1. ThreadInv(d, r) /\ IntrInv(d) /\ SleepInv(r) BY CpuFacts, ProcFacts, ZenonT(60)
    <3> QED BY <1>0, <1>1, <1>2, <3>1, ZenonT(60) DEF pop_off, ThreadInv, IntrInv, SleepInv
  <2> QED BY <2>1, <2>2, <2>3, <2>4, <2>5, ZenonT(60) DEF ProcInv
<1>8. ASSUME NEW r \in Proc PROVE WakeInv(r)'
  BY ProcFacts, ZenonT(60) DEF WakeInv, Sleeps, Visits
<1> QED BY <1>5, <1>6, <1>7, <1>8, ZenonT(60) DEF SchedInv, SleepersVisited

LEMMA forkret_Step ==
  ASSUME SchedInv, NEW c \in Cpu, NEW p \in Proc, forkret(c, p)
  PROVE  SchedInv'
<1> USE SchedConstants DEF forkret, procVars, condVars, thrVars, cpuVars, offVars, intrVars, Runs, Goto
<1>t. TypeOK BY ZenonT(60) DEF SchedInv
<1>0. /\ plock \in [Proc -> Cpu \union {NoCpu}] /\ pc \in [Proc -> Label]
      /\ noff \in [Cpu -> Int] /\ intena \in [Cpu -> {0, 1}] /\ sie \in [Cpu -> {0, 1}]
  BY <1>t, ZenonT(60) DEF TypeOK
<1>1. Serves(c, p) /\ \A d \in Cpu : (on[d] = p => d = c) /\ (Serves(d, p) => d = c)
  BY Alone, ZenonT(60)
<1>5. TypeOK'
  <2>1. intena[c] \in {0, 1} BY <1>t, ZenonT(60) DEF TypeOK
  <2>2. noff' \in [Cpu -> Int] /\ intena' \in [Cpu -> {0, 1}] /\ sie' \in [Cpu -> {0, 1}]
    BY <1>t, <2>1, PopType, ZenonT(60)
  <2> QED BY <1>t, <2>2, ZenonT(60) DEF TypeOK, State, Label, SchedulerLabel, HandlerLabel
<1>6. CpuInv'
  <2>1. ASSUME NEW d \in Cpu PROVE ServesInv(d)'
    BY CpuFacts, ZenonT(60) DEF ServesInv, Serves
  <2>2. ASSUME NEW d \in Cpu PROVE IntrInv(d)'
    <3>1. IntrInv(d) BY CpuFacts, ZenonT(60)
    <3> QED BY <1>0, <1>1, <3>1, ZenonT(60) DEF pop_off, IntrInv
  <2>3. ASSUME NEW d \in Cpu PROVE SchedulerInv(d)'
    <3>1. IntrInv(d) /\ SchedulerInv(d) BY CpuFacts, ZenonT(60)
    <3> QED BY <1>0, <1>1, <3>1, ZenonT(60) DEF pop_off, IntrInv, SchedulerInv
  <2>4. ASSUME NEW d \in Cpu, NEW e \in Cpu PROVE ServesOnce(d, e)'
    BY ZenonT(60) DEF SchedInv, CpuInv, ServesOnce
  <2> QED BY <2>1, <2>2, <2>3, <2>4, ZenonT(60) DEF CpuInv
<1>7. ProcInv'
  <2>1. ASSUME NEW r \in Proc PROVE OffInv(r)'
    <3>1. OffInv(r) /\ \A d \in Cpu : OnInv(d, r) BY ProcFacts, ZenonT(60)
    <3> QED BY <1>0, <1>1, <3>1, ZenonT(60) DEF pop_off, OffInv, OnInv
  <2>2. ASSUME NEW r \in Proc PROVE SleepInv(r)'
    <3>1. SleepInv(r) /\ \A d \in Cpu : OnInv(d, r) /\ ThreadInv(d, r) BY ProcFacts, ZenonT(60)
    <3> QED BY <1>0, <1>1, <3>1, ZenonT(60) DEF pop_off, SleepInv, OnInv, ThreadInv
  <2>3. ASSUME NEW d \in Cpu, NEW r \in Proc PROVE LockInv(d, r)'
    <3>1. LockInv(d, r) /\ OnInv(d, r) BY ProcFacts, ZenonT(60)
    <3> QED BY <1>0, <1>1, <3>1, ZenonT(60) DEF pop_off, LockInv, OnInv, Serves, Locked
  <2>4. ASSUME NEW d \in Cpu, NEW r \in Proc PROVE OnInv(d, r)'
    <3>1. LockInv(d, r) /\ OnInv(d, r) /\ ServesInv(d) BY CpuFacts, ProcFacts, ZenonT(60)
    <3> QED BY <1>0, <1>1, <3>1, ZenonT(60) DEF pop_off, OnInv, LockInv, ServesInv, Serves, Locked
  <2>5. ASSUME NEW d \in Cpu, NEW r \in Proc PROVE ThreadInv(d, r)'
    <3>1. ThreadInv(d, r) /\ IntrInv(d) /\ SleepInv(r) BY CpuFacts, ProcFacts, ZenonT(60)
    <3> QED BY <1>0, <1>1, <3>1 DEF pop_off, ThreadInv, IntrInv, SleepInv
  <2> QED BY <2>1, <2>2, <2>3, <2>4, <2>5, ZenonT(60) DEF ProcInv
<1>8. ASSUME NEW r \in Proc PROVE WakeInv(r)'
  <2>1. WakeInv(r) /\ SleepInv(r) /\ \A d \in Cpu : OnInv(d, r) BY ProcFacts, ZenonT(60)
  <2> QED BY <1>0, <1>1, <2>1, ZenonT(60) DEF WakeInv, Sleeps, Visits, SleepInv, OnInv
<1> QED BY <1>5, <1>6, <1>7, <1>8, ZenonT(60) DEF SchedInv, SleepersVisited

LEMMA usertrapret_Step ==
  ASSUME SchedInv, NEW c \in Cpu, NEW p \in Proc, usertrapret(c, p)
  PROVE  SchedInv'
<1> USE SchedConstants DEF usertrapret, procVars, condVars, thrVars, cpuVars, offVars, intrVars, Runs, Goto
<1>t. TypeOK BY ZenonT(60) DEF SchedInv
<1>0. /\ sie \in [Cpu -> {0, 1}] /\ pc \in [Proc -> Label]
  BY <1>t, ZenonT(60) DEF TypeOK
<1>1. Serves(c, p) /\ \A d \in Cpu : (on[d] = p => d = c) /\ (Serves(d, p) => d = c)
  BY Alone, ZenonT(60)
<1>5. TypeOK'
  BY <1>t, <1>1, ZenonT(60) DEF TypeOK, State, Label, SchedulerLabel, HandlerLabel
<1>6. CpuInv'
  <2>1. ASSUME NEW d \in Cpu PROVE ServesInv(d)'
    BY CpuFacts, ZenonT(60) DEF ServesInv, Serves
  <2>2. ASSUME NEW d \in Cpu PROVE IntrInv(d)'
    <3>1. IntrInv(d) BY CpuFacts, ZenonT(60)
    <3> QED BY <1>0, <1>1, <3>1, ZenonT(60) DEF IntrInv
  <2>3. ASSUME NEW d \in Cpu PROVE SchedulerInv(d)'
    <3>1. IntrInv(d) /\ SchedulerInv(d) BY CpuFacts, ZenonT(60)
    <3> QED BY <1>0, <1>1, <3>1, ZenonT(60) DEF IntrInv, SchedulerInv
  <2>4. ASSUME NEW d \in Cpu, NEW e \in Cpu PROVE ServesOnce(d, e)'
    BY ZenonT(60) DEF SchedInv, CpuInv, ServesOnce
  <2> QED BY <2>1, <2>2, <2>3, <2>4, ZenonT(60) DEF CpuInv
<1>7. ProcInv'
  <2>1. ASSUME NEW r \in Proc PROVE OffInv(r)'
    <3>1. OffInv(r) /\ \A d \in Cpu : OnInv(d, r) BY ProcFacts, ZenonT(60)
    <3> QED BY <1>0, <1>1, <3>1, ZenonT(60) DEF OffInv, OnInv
  <2>2. ASSUME NEW r \in Proc PROVE SleepInv(r)'
    <3>1. SleepInv(r) /\ \A d \in Cpu : OnInv(d, r) /\ ThreadInv(d, r) BY ProcFacts, ZenonT(60)
    <3> QED BY <1>0, <1>1, <3>1, ZenonT(60) DEF SleepInv, OnInv, ThreadInv
  <2>3. ASSUME NEW d \in Cpu, NEW r \in Proc PROVE LockInv(d, r)'
    <3>1. LockInv(d, r) /\ OnInv(d, r) BY ProcFacts, ZenonT(60)
    <3> QED BY <1>0, <1>1, <3>1, ZenonT(60) DEF LockInv, OnInv, Serves, Locked
  <2>4. ASSUME NEW d \in Cpu, NEW r \in Proc PROVE OnInv(d, r)'
    <3>1. LockInv(d, r) /\ OnInv(d, r) /\ ServesInv(d) BY CpuFacts, ProcFacts, ZenonT(60)
    <3> QED BY <1>0, <1>1, <3>1, ZenonT(60) DEF OnInv, LockInv, ServesInv, Serves, Locked
  <2>5. ASSUME NEW d \in Cpu, NEW r \in Proc PROVE ThreadInv(d, r)'
    <3>1. ThreadInv(d, r) /\ IntrInv(d) /\ SleepInv(r) BY CpuFacts, ProcFacts, ZenonT(60)
    <3> QED BY <1>0, <1>1, <3>1, ZenonT(60) DEF ThreadInv, IntrInv, SleepInv
  <2> QED BY <2>1, <2>2, <2>3, <2>4, <2>5, ZenonT(60) DEF ProcInv
<1>8. ASSUME NEW r \in Proc PROVE WakeInv(r)'
  <2>1. WakeInv(r) /\ SleepInv(r) /\ \A d \in Cpu : OnInv(d, r) BY ProcFacts, ZenonT(60)
  <2> QED BY <1>0, <1>1, <2>1, ZenonT(60) DEF WakeInv, Sleeps, Visits, SleepInv, OnInv
<1> QED BY <1>5, <1>6, <1>7, <1>8, ZenonT(60) DEF SchedInv, SleepersVisited

LEMMA acquire_lk_Step ==
  ASSUME SchedInv, NEW c \in Cpu, NEW p \in Proc, NEW ch \in Chan, acquire_lk(c, p, ch)
  PROVE  SchedInv'
<1> USE SchedConstants DEF acquire_lk, procVars, condVars, thrVars, cpuVars, offVars, intrVars, Runs, Goto
<1>t. TypeOK BY ZenonT(60) DEF SchedInv
<1>0. /\ clock \in [Chan -> Cpu \union {NoCpu}] /\ want \in [Proc -> Chan]
      /\ pc \in [Proc -> Label] /\ noff \in [Cpu -> Int] /\ intena \in [Cpu -> {0, 1}]
      /\ sie \in [Cpu -> {0, 1}]
  BY <1>t, ZenonT(60) DEF TypeOK
<1>1. Serves(c, p) /\ \A d \in Cpu : (on[d] = p => d = c) /\ (Serves(d, p) => d = c)
  BY Alone, ZenonT(60)
<1>5. TypeOK'
  <2>1. noff' \in [Cpu -> Int] /\ intena' \in [Cpu -> {0, 1}] /\ sie' \in [Cpu -> {0, 1}]
    BY <1>t, PushType, ZenonT(60)
  <2> QED BY <1>t, <2>1, ZenonT(60) DEF TypeOK, State, Label, SchedulerLabel, HandlerLabel
<1>6. CpuInv'
  <2>1. ASSUME NEW d \in Cpu PROVE ServesInv(d)'
    BY CpuFacts, ZenonT(60) DEF ServesInv, Serves
  <2>2. ASSUME NEW d \in Cpu PROVE IntrInv(d)'
    <3>1. IntrInv(d) BY CpuFacts, ZenonT(60)
    <3> QED BY <1>0, <1>1, <3>1, ZenonT(60) DEF push_off, IntrInv
  <2>3. ASSUME NEW d \in Cpu PROVE SchedulerInv(d)'
    <3>1. IntrInv(d) /\ SchedulerInv(d) BY CpuFacts, ZenonT(60)
    <3> QED BY <1>0, <1>1, <3>1, ZenonT(60) DEF push_off, IntrInv, SchedulerInv
  <2>4. ASSUME NEW d \in Cpu, NEW e \in Cpu PROVE ServesOnce(d, e)'
    BY ZenonT(60) DEF SchedInv, CpuInv, ServesOnce
  <2> QED BY <2>1, <2>2, <2>3, <2>4, ZenonT(60) DEF CpuInv
<1>7. ProcInv'
  <2>1. ASSUME NEW r \in Proc PROVE OffInv(r)'
    <3>1. OffInv(r) /\ \A d \in Cpu : OnInv(d, r) BY ProcFacts, ZenonT(60)
    <3> QED BY <1>0, <1>1, <3>1, ZenonT(60) DEF push_off, OffInv, OnInv
  <2>2. ASSUME NEW r \in Proc PROVE SleepInv(r)'
    <3>1. SleepInv(r) /\ \A d \in Cpu : OnInv(d, r) /\ ThreadInv(d, r) BY ProcFacts, ZenonT(60)
    <3> QED BY <1>0, <1>1, <3>1, ZenonT(60) DEF push_off, SleepInv, OnInv, ThreadInv
  <2>3. ASSUME NEW d \in Cpu, NEW r \in Proc PROVE LockInv(d, r)'
    <3>1. LockInv(d, r) /\ OnInv(d, r) BY ProcFacts, ZenonT(60)
    <3> QED BY <1>0, <1>1, <3>1, ZenonT(60) DEF push_off, LockInv, OnInv, Serves, Locked
  <2>4. ASSUME NEW d \in Cpu, NEW r \in Proc PROVE OnInv(d, r)'
    <3>1. LockInv(d, r) /\ OnInv(d, r) /\ ServesInv(d) BY CpuFacts, ProcFacts, ZenonT(60)
    <3> QED BY <1>0, <1>1, <3>1, ZenonT(60) DEF push_off, OnInv, LockInv, ServesInv, Serves, Locked
  <2>5. ASSUME NEW d \in Cpu, NEW r \in Proc PROVE ThreadInv(d, r)'
    <3>1. ThreadInv(d, r) BY ProcFacts, ZenonT(60)
    <3>2. CASE d = c /\ r = p
      <4>1. noff[c] = 0 /\ sie[c] = 1
        BY <3>1, <3>2, ZenonT(60) DEF ThreadInv
      <4>2. noff'[c] = 1 /\ intena'[c] = 1 /\ sie'[c] = 0 /\ pc'[p] = "test"
        BY <1>0, <4>1 DEF push_off
      <4> QED BY <3>2, <4>2, ZenonT(60) DEF ThreadInv
    <3>3. CASE ~(d = c /\ r = p)
      BY <1>0, <1>1, <3>1, <3>3 DEF push_off, ThreadInv
    <3> QED BY <3>2, <3>3, ZenonT(60)
  <2> QED BY <2>1, <2>2, <2>3, <2>4, <2>5, ZenonT(60) DEF ProcInv
<1>8. ASSUME NEW r \in Proc PROVE WakeInv(r)'
  <2>1. WakeInv(r) /\ SleepInv(r) /\ \A d \in Cpu : OnInv(d, r) BY ProcFacts, ZenonT(60)
  <2> QED BY <1>0, <1>1, <2>1, ZenonT(60) DEF WakeInv, Sleeps, Visits, SleepInv, OnInv
<1> QED BY <1>5, <1>6, <1>7, <1>8, ZenonT(60) DEF SchedInv, SleepersVisited

LEMMA consume_Step ==
  ASSUME SchedInv, NEW c \in Cpu, NEW p \in Proc, consume(c, p)
  PROVE  SchedInv'
<1> USE SchedConstants DEF consume, procVars, condVars, thrVars, cpuVars, offVars, intrVars, Runs, Goto
<1>t. TypeOK BY ZenonT(60) DEF SchedInv
<1>0. /\ cond \in [Chan -> Nat] /\ clock \in [Chan -> Cpu \union {NoCpu}]
      /\ pc \in [Proc -> Label] /\ noff \in [Cpu -> Int] /\ intena \in [Cpu -> {0, 1}]
      /\ sie \in [Cpu -> {0, 1}]
  BY <1>t, ZenonT(60) DEF TypeOK
<1>1. Serves(c, p) /\ \A d \in Cpu : (on[d] = p => d = c) /\ (Serves(d, p) => d = c)
  BY Alone, ZenonT(60)
<1>2. noff[c] = 1 /\ intena[c] = 1 BY ProcFacts, ZenonT(60) DEF ThreadInv
<1>5. TypeOK'
  <2>1. intena[c] \in {0, 1} BY <1>t, ZenonT(60) DEF TypeOK
  <2>2. noff' \in [Cpu -> Int] /\ intena' \in [Cpu -> {0, 1}] /\ sie' \in [Cpu -> {0, 1}]
    BY <1>t, <2>1, PopType, ZenonT(60)
  <2> QED BY <1>t, <2>2 DEF TypeOK, State, Label, SchedulerLabel, HandlerLabel
<1>6. CpuInv'
  <2>1. ASSUME NEW d \in Cpu PROVE ServesInv(d)'
    BY CpuFacts, ZenonT(60) DEF ServesInv, Serves
  <2>2. ASSUME NEW d \in Cpu PROVE IntrInv(d)'
    <3>1. IntrInv(d) BY CpuFacts, ZenonT(60)
    <3> QED BY <1>0, <1>1, <1>2, <3>1, ZenonT(60) DEF pop_off, IntrInv
  <2>3. ASSUME NEW d \in Cpu PROVE SchedulerInv(d)'
    <3>1. IntrInv(d) /\ SchedulerInv(d) BY CpuFacts, ZenonT(60)
    <3> QED BY <1>0, <1>1, <1>2, <3>1, ZenonT(60) DEF pop_off, IntrInv, SchedulerInv
  <2>4. ASSUME NEW d \in Cpu, NEW e \in Cpu PROVE ServesOnce(d, e)'
    BY ZenonT(60) DEF SchedInv, CpuInv, ServesOnce
  <2> QED BY <2>1, <2>2, <2>3, <2>4, ZenonT(60) DEF CpuInv
<1>7. ProcInv'
  <2>1. ASSUME NEW r \in Proc PROVE OffInv(r)'
    <3>1. OffInv(r) /\ \A d \in Cpu : OnInv(d, r) BY ProcFacts, ZenonT(60)
    <3> QED BY <1>0, <1>1, <1>2, <3>1, ZenonT(60) DEF pop_off, OffInv, OnInv
  <2>2. ASSUME NEW r \in Proc PROVE SleepInv(r)'
    <3>1. SleepInv(r) /\ \A d \in Cpu : OnInv(d, r) /\ ThreadInv(d, r) BY ProcFacts, ZenonT(60)
    <3> QED BY <1>0, <1>1, <1>2, <3>1, ZenonT(60) DEF pop_off, SleepInv, OnInv, ThreadInv
  <2>3. ASSUME NEW d \in Cpu, NEW r \in Proc PROVE LockInv(d, r)'
    <3>1. LockInv(d, r) /\ OnInv(d, r) BY ProcFacts, ZenonT(60)
    <3> QED BY <1>0, <1>1, <1>2, <3>1, ZenonT(60) DEF pop_off, LockInv, OnInv, Serves, Locked
  <2>4. ASSUME NEW d \in Cpu, NEW r \in Proc PROVE OnInv(d, r)'
    <3>1. LockInv(d, r) /\ OnInv(d, r) /\ ServesInv(d) BY CpuFacts, ProcFacts, ZenonT(60)
    <3> QED BY <1>0, <1>1, <1>2, <3>1, ZenonT(60) DEF pop_off, OnInv, LockInv, ServesInv, Serves, Locked
  <2>5. ASSUME NEW d \in Cpu, NEW r \in Proc PROVE ThreadInv(d, r)'
    <3>1. ThreadInv(d, r) BY ProcFacts, ZenonT(60)
    <3>2. CASE d = c /\ r = p
      <4>1. noff[c] = 1 /\ intena[c] = 1 /\ sie[c] = 0
        BY <3>1, <3>2, ZenonT(60) DEF ThreadInv
      <4>2. noff'[c] = 0 /\ intena'[c] = 1 /\ sie'[c] = 1 /\ pc'[p] = "run"
        BY <1>0, <4>1 DEF pop_off
      <4> QED BY <3>2, <4>2, ZenonT(60) DEF ThreadInv
    <3>3. CASE ~(d = c /\ r = p)
      BY <1>0, <1>1, <3>1, <3>3, ZenonT(60) DEF pop_off, ThreadInv
    <3> QED BY <3>2, <3>3, ZenonT(60)
  <2> QED BY <2>1, <2>2, <2>3, <2>4, <2>5, ZenonT(60) DEF ProcInv
<1>8. ASSUME NEW r \in Proc PROVE WakeInv(r)'
  <2>1. WakeInv(r) /\ OnInv(c, p) BY ProcFacts, ZenonT(60)
  <2>2. want[p] \in Chan /\ want[r] \in Chan BY <1>t, ZenonT(60) DEF TypeOK
  <2>3. SUFFICES ASSUME Sleeps(r)', cond'[want[r]] > 0 PROVE \E d \in Cpu : Visits(d, r)'
    BY ZenonT(60) DEF WakeInv
  <2>4. Sleeps(r)
    BY <1>0, <2>1, <2>3, ZenonT(60) DEF Sleeps, OnInv
  <2>5. cond[want[r]] > 0
    BY <1>0, <2>2, <2>3, ZenonT(60)
  <2>6. PICK d \in Cpu : Visits(d, r)
    BY <2>1, <2>4, <2>5, ZenonT(60) DEF WakeInv
  <2>7. Visits(d, r)'
    BY <2>6, ZenonT(60) DEF Visits
  <2> QED BY <2>7, ZenonT(60)
<1> QED BY <1>5, <1>6, <1>7, <1>8, ZenonT(60) DEF SchedInv, SleepersVisited

LEMMA sleep_lock_Step ==
  ASSUME SchedInv, NEW c \in Cpu, NEW p \in Proc, sleep_lock(c, p)
  PROVE  SchedInv'
<1> USE SchedConstants DEF sleep_lock, procVars, condVars, thrVars, cpuVars, offVars, intrVars, Runs, Goto
<1>t. TypeOK BY ZenonT(60) DEF SchedInv
<1>0. /\ plock \in [Proc -> Cpu \union {NoCpu}] /\ pc \in [Proc -> Label]
      /\ noff \in [Cpu -> Int] /\ intena \in [Cpu -> {0, 1}] /\ sie \in [Cpu -> {0, 1}]
  BY <1>t, ZenonT(60) DEF TypeOK
<1>1. Serves(c, p) /\ \A d \in Cpu : (on[d] = p => d = c) /\ (Serves(d, p) => d = c)
  BY Alone, ZenonT(60)
<1>5. TypeOK'
  <2>1. noff' \in [Cpu -> Int] /\ intena' \in [Cpu -> {0, 1}] /\ sie' \in [Cpu -> {0, 1}]
    BY <1>t, PushType, ZenonT(60)
  <2> QED BY <1>t, <2>1, ZenonT(60) DEF TypeOK, State, Label, SchedulerLabel, HandlerLabel
<1>6. CpuInv'
  <2>1. ASSUME NEW d \in Cpu PROVE ServesInv(d)'
    BY CpuFacts, ZenonT(60) DEF ServesInv, Serves
  <2>2. ASSUME NEW d \in Cpu PROVE IntrInv(d)'
    <3>1. IntrInv(d) BY CpuFacts, ZenonT(60)
    <3> QED BY <1>0, <1>1, <3>1, ZenonT(60) DEF push_off, IntrInv
  <2>3. ASSUME NEW d \in Cpu PROVE SchedulerInv(d)'
    <3>1. IntrInv(d) /\ SchedulerInv(d) BY CpuFacts, ZenonT(60)
    <3> QED BY <1>0, <1>1, <3>1, ZenonT(60) DEF push_off, IntrInv, SchedulerInv
  <2>4. ASSUME NEW d \in Cpu, NEW e \in Cpu PROVE ServesOnce(d, e)'
    BY ZenonT(60) DEF SchedInv, CpuInv, ServesOnce
  <2> QED BY <2>1, <2>2, <2>3, <2>4, ZenonT(60) DEF CpuInv
<1>7. ProcInv'
  <2>1. ASSUME NEW r \in Proc PROVE OffInv(r)'
    <3>1. OffInv(r) /\ \A d \in Cpu : OnInv(d, r) BY ProcFacts, ZenonT(60)
    <3> QED BY <1>0, <1>1, <3>1, ZenonT(60) DEF push_off, OffInv, OnInv
  <2>2. ASSUME NEW r \in Proc PROVE SleepInv(r)'
    <3>1. SleepInv(r) /\ \A d \in Cpu : OnInv(d, r) /\ ThreadInv(d, r) BY ProcFacts, ZenonT(60)
    <3> QED BY <1>0, <1>1, <3>1, ZenonT(60) DEF push_off, SleepInv, OnInv, ThreadInv
  <2>3. ASSUME NEW d \in Cpu, NEW r \in Proc PROVE LockInv(d, r)'
    <3>1. LockInv(d, r) /\ OnInv(d, r) BY ProcFacts, ZenonT(60)
    <3> QED BY <1>0, <1>1, <3>1, ZenonT(60) DEF push_off, LockInv, OnInv, Serves, Locked
  <2>4. ASSUME NEW d \in Cpu, NEW r \in Proc PROVE OnInv(d, r)'
    <3>1. LockInv(d, r) /\ OnInv(d, r) /\ ServesInv(d) BY CpuFacts, ProcFacts, ZenonT(60)
    <3> QED BY <1>0, <1>1, <3>1, ZenonT(60) DEF push_off, OnInv, LockInv, ServesInv, Serves, Locked
  <2>5. ASSUME NEW d \in Cpu, NEW r \in Proc PROVE ThreadInv(d, r)'
    <3>1. ThreadInv(d, r) BY ProcFacts, ZenonT(60)
    <3>2. CASE d = c /\ r = p
      <4>1. noff[c] = 1 /\ intena[c] = 1 /\ sie[c] = 0
        BY <3>1, <3>2, ZenonT(60) DEF ThreadInv
      <4>2. noff'[c] = 2 /\ intena'[c] = 1 /\ sie'[c] = 0 /\ pc'[p] = "sleep"
        BY <1>0, <4>1 DEF push_off
      <4> QED BY <3>2, <4>2, ZenonT(60) DEF ThreadInv
    <3>3. CASE ~(d = c /\ r = p)
      BY <1>0, <1>1, <3>1, <3>3 DEF push_off, ThreadInv
    <3> QED BY <3>2, <3>3, ZenonT(60)
  <2> QED BY <2>1, <2>2, <2>3, <2>4, <2>5, ZenonT(60) DEF ProcInv
<1>8. ASSUME NEW r \in Proc PROVE WakeInv(r)'
  <2>1. WakeInv(r) /\ SleepInv(r) /\ \A d \in Cpu : OnInv(d, r) BY ProcFacts, ZenonT(60)
  <2> QED BY <1>0, <1>1, <2>1 DEF WakeInv, Sleeps, Visits, SleepInv, OnInv
<1> QED BY <1>5, <1>6, <1>7, <1>8, ZenonT(60) DEF SchedInv, SleepersVisited

LEMMA sleep_unlock_Step ==
  ASSUME SchedInv, NEW c \in Cpu, NEW p \in Proc, sleep_unlock(c, p)
  PROVE  SchedInv'
<1> USE SchedConstants DEF sleep_unlock, procVars, condVars, thrVars, cpuVars, offVars, intrVars, Runs, Goto
<1>t. TypeOK BY ZenonT(60) DEF SchedInv
<1>0. /\ clock \in [Chan -> Cpu \union {NoCpu}] /\ pc \in [Proc -> Label]
      /\ noff \in [Cpu -> Int] /\ intena \in [Cpu -> {0, 1}] /\ sie \in [Cpu -> {0, 1}]
  BY <1>t, ZenonT(60) DEF TypeOK
<1>1. Serves(c, p) /\ \A d \in Cpu : (on[d] = p => d = c) /\ (Serves(d, p) => d = c)
  BY Alone, ZenonT(60)
<1>5. TypeOK'
  <2>1. intena[c] \in {0, 1} BY <1>t, ZenonT(60) DEF TypeOK
  <2>2. noff' \in [Cpu -> Int] /\ intena' \in [Cpu -> {0, 1}] /\ sie' \in [Cpu -> {0, 1}]
    BY <1>t, <2>1, PopType, ZenonT(60)
  <2> QED BY <1>t, <2>2, ZenonT(60) DEF TypeOK, State, Label, SchedulerLabel, HandlerLabel
<1>6. CpuInv'
  <2>1. ASSUME NEW d \in Cpu PROVE ServesInv(d)'
    BY CpuFacts, ZenonT(60) DEF ServesInv, Serves
  <2>2. ASSUME NEW d \in Cpu PROVE IntrInv(d)'
    <3>1. IntrInv(d) BY CpuFacts, ZenonT(60)
    <3> QED BY <1>0, <1>1, <3>1, ZenonT(60) DEF pop_off, IntrInv
  <2>3. ASSUME NEW d \in Cpu PROVE SchedulerInv(d)'
    <3>1. IntrInv(d) /\ SchedulerInv(d) BY CpuFacts, ZenonT(60)
    <3> QED BY <1>0, <1>1, <3>1, ZenonT(60) DEF pop_off, IntrInv, SchedulerInv
  <2>4. ASSUME NEW d \in Cpu, NEW e \in Cpu PROVE ServesOnce(d, e)'
    BY ZenonT(60) DEF SchedInv, CpuInv, ServesOnce
  <2> QED BY <2>1, <2>2, <2>3, <2>4, ZenonT(60) DEF CpuInv
<1>7. ProcInv'
  <2>1. ASSUME NEW r \in Proc PROVE OffInv(r)'
    <3>1. OffInv(r) /\ \A d \in Cpu : OnInv(d, r) BY ProcFacts, ZenonT(60)
    <3> QED BY <1>0, <1>1, <3>1, ZenonT(60) DEF pop_off, OffInv, OnInv
  <2>2. ASSUME NEW r \in Proc PROVE SleepInv(r)'
    <3>1. SleepInv(r) /\ \A d \in Cpu : OnInv(d, r) /\ ThreadInv(d, r) BY ProcFacts, ZenonT(60)
    <3> QED BY <1>0, <1>1, <3>1, ZenonT(60) DEF pop_off, SleepInv, OnInv, ThreadInv
  <2>3. ASSUME NEW d \in Cpu, NEW r \in Proc PROVE LockInv(d, r)'
    <3>1. LockInv(d, r) /\ OnInv(d, r) BY ProcFacts, ZenonT(60)
    <3> QED BY <1>0, <1>1, <3>1, ZenonT(60) DEF pop_off, LockInv, OnInv, Serves, Locked
  <2>4. ASSUME NEW d \in Cpu, NEW r \in Proc PROVE OnInv(d, r)'
    <3>1. LockInv(d, r) /\ OnInv(d, r) /\ ServesInv(d) BY CpuFacts, ProcFacts, ZenonT(60)
    <3> QED BY <1>0, <1>1, <3>1, ZenonT(60) DEF pop_off, OnInv, LockInv, ServesInv, Serves, Locked
  <2>5. ASSUME NEW d \in Cpu, NEW r \in Proc PROVE ThreadInv(d, r)'
    <3>1. ThreadInv(d, r) BY ProcFacts, ZenonT(60)
    <3>2. CASE d = c /\ r = p
      <4>1. noff[c] = 2 /\ intena[c] = 1 /\ sie[c] = 0
        BY <3>1, <3>2, ZenonT(60) DEF ThreadInv
      <4>2. noff'[c] = 1 /\ intena'[c] = 1 /\ sie'[c] = 0 /\ pc'[p] = "asleep"
        BY <1>0, <4>1 DEF pop_off
      <4> QED BY <3>2, <4>2, ZenonT(60) DEF ThreadInv
    <3>3. CASE ~(d = c /\ r = p)
      BY <1>0, <1>1, <3>1, <3>3, ZenonT(60) DEF pop_off, ThreadInv
    <3> QED BY <3>2, <3>3, ZenonT(60)
  <2> QED BY <2>1, <2>2, <2>3, <2>4, <2>5, ZenonT(60) DEF ProcInv
<1>8. ASSUME NEW r \in Proc PROVE WakeInv(r)'
  <2>1. WakeInv(r) /\ SleepInv(r) /\ \A d \in Cpu : OnInv(d, r) BY ProcFacts, ZenonT(60)
  <2> QED BY <1>0, <1>1, <2>1, ZenonT(60) DEF WakeInv, Sleeps, Visits, SleepInv, OnInv
<1> QED BY <1>5, <1>6, <1>7, <1>8, ZenonT(60) DEF SchedInv, SleepersVisited

LEMMA sleep_Step ==
  ASSUME SchedInv, NEW c \in Cpu, NEW p \in Proc, sleep(c, p)
  PROVE  SchedInv'
<1> USE SchedConstants DEF sleep, procVars, condVars, thrVars, cpuVars, offVars, intrVars, Runs, Goto
<1>t. TypeOK BY ZenonT(60) DEF SchedInv
<1>0. /\ chan \in [Proc -> Chan \union {NoChan}] /\ state \in [Proc -> State]
      /\ pc \in [Proc -> Label]
  BY <1>t, ZenonT(60) DEF TypeOK
<1>1. Serves(c, p) /\ \A d \in Cpu : (on[d] = p => d = c) /\ (Serves(d, p) => d = c)
  BY Alone, ZenonT(60)
<1>5. TypeOK'
  BY <1>t, <1>1, ZenonT(60) DEF TypeOK, State, Label, SchedulerLabel, HandlerLabel
<1>6. CpuInv'
  <2>1. ASSUME NEW d \in Cpu PROVE ServesInv(d)'
    BY CpuFacts, ZenonT(60) DEF ServesInv, Serves
  <2>2. ASSUME NEW d \in Cpu PROVE IntrInv(d)'
    <3>1. IntrInv(d) BY CpuFacts, ZenonT(60)
    <3> QED BY <1>0, <1>1, <3>1, ZenonT(60) DEF IntrInv
  <2>3. ASSUME NEW d \in Cpu PROVE SchedulerInv(d)'
    BY CpuFacts, ZenonT(60) DEF SchedulerInv
  <2>4. ASSUME NEW d \in Cpu, NEW e \in Cpu PROVE ServesOnce(d, e)'
    BY ZenonT(60) DEF SchedInv, CpuInv, ServesOnce
  <2> QED BY <2>1, <2>2, <2>3, <2>4, ZenonT(60) DEF CpuInv
<1>7. ProcInv'
  <2>1. ASSUME NEW r \in Proc PROVE OffInv(r)'
    <3>1. OffInv(r) /\ \A d \in Cpu : OnInv(d, r) BY ProcFacts, ZenonT(60)
    <3> QED BY <1>0, <1>1, <3>1, ZenonT(60) DEF OffInv, OnInv
  <2>2. ASSUME NEW r \in Proc PROVE SleepInv(r)'
    <3>1. SleepInv(r) /\ \A d \in Cpu : OnInv(d, r) /\ ThreadInv(d, r) BY ProcFacts, ZenonT(60)
    <3> QED BY <1>0, <1>1, <3>1, ZenonT(60) DEF SleepInv, OnInv, ThreadInv
  <2>3. ASSUME NEW d \in Cpu, NEW r \in Proc PROVE LockInv(d, r)'
    <3>1. LockInv(d, r) /\ OnInv(d, r) BY ProcFacts, ZenonT(60)
    <3> QED BY <1>0, <1>1, <3>1, ZenonT(60) DEF LockInv, OnInv, Serves, Locked
  <2>4. ASSUME NEW d \in Cpu, NEW r \in Proc PROVE OnInv(d, r)'
    <3>1. LockInv(d, r) /\ OnInv(d, r) /\ ServesInv(d) BY CpuFacts, ProcFacts, ZenonT(60)
    <3> QED BY <1>0, <1>1, <3>1, ZenonT(60) DEF OnInv, LockInv, ServesInv, Serves, Locked
  <2>5. ASSUME NEW d \in Cpu, NEW r \in Proc PROVE ThreadInv(d, r)'
    <3>1. ThreadInv(d, r) /\ IntrInv(d) /\ SleepInv(r) BY CpuFacts, ProcFacts, ZenonT(60)
    <3> QED BY <1>0, <1>1, <3>1, ZenonT(60) DEF ThreadInv, IntrInv, SleepInv
  <2> QED BY <2>1, <2>2, <2>3, <2>4, <2>5, ZenonT(60) DEF ProcInv
<1>8. ASSUME NEW r \in Proc PROVE WakeInv(r)'
  <2>1. WakeInv(r) /\ SleepInv(r) /\ \A d \in Cpu : OnInv(d, r) BY ProcFacts, ZenonT(60)
  <2> QED BY <1>0, <1>1, <2>1, ZenonT(60) DEF WakeInv, Sleeps, Visits, SleepInv, OnInv
<1> QED BY <1>5, <1>6, <1>7, <1>8, ZenonT(60) DEF SchedInv, SleepersVisited

LEMMA timer_Step ==
  ASSUME SchedInv, NEW c \in Cpu, NEW p \in Proc, timer(c, p)
  PROVE  SchedInv'
<1> USE SchedConstants DEF timer, procVars, condVars, thrVars, cpuVars, offVars, intrVars, Runs, Goto
<1>t. TypeOK BY ZenonT(60) DEF SchedInv
<1>0. /\ sie \in [Cpu -> {0, 1}] /\ yret \in [Proc -> {"run", "reacq"}]
      /\ pc \in [Proc -> Label]
  BY <1>t, ZenonT(60) DEF TypeOK
<1>1. Serves(c, p) /\ \A d \in Cpu : (on[d] = p => d = c) /\ (Serves(d, p) => d = c)
  BY Alone, ZenonT(60)
<1>5. TypeOK'
  BY <1>t, <1>1, ZenonT(60) DEF TypeOK, State, Label, SchedulerLabel, HandlerLabel
<1>6. CpuInv'
  <2>1. ASSUME NEW d \in Cpu PROVE ServesInv(d)'
    BY CpuFacts, ZenonT(60) DEF ServesInv, Serves
  <2>2. ASSUME NEW d \in Cpu PROVE IntrInv(d)'
    <3>1. IntrInv(d) BY CpuFacts, ZenonT(60)
    <3> QED BY <1>0, <1>1, <3>1, ZenonT(60) DEF IntrInv
  <2>3. ASSUME NEW d \in Cpu PROVE SchedulerInv(d)'
    <3>1. IntrInv(d) /\ SchedulerInv(d) BY CpuFacts, ZenonT(60)
    <3> QED BY <1>0, <1>1, <3>1, ZenonT(60) DEF IntrInv, SchedulerInv
  <2>4. ASSUME NEW d \in Cpu, NEW e \in Cpu PROVE ServesOnce(d, e)'
    BY ZenonT(60) DEF SchedInv, CpuInv, ServesOnce
  <2> QED BY <2>1, <2>2, <2>3, <2>4, ZenonT(60) DEF CpuInv
<1>7. ProcInv'
  <2>1. ASSUME NEW r \in Proc PROVE OffInv(r)'
    <3>1. OffInv(r) /\ \A d \in Cpu : OnInv(d, r) BY ProcFacts, ZenonT(60)
    <3> QED BY <1>0, <1>1, <3>1, ZenonT(60) DEF OffInv, OnInv
  <2>2. ASSUME NEW r \in Proc PROVE SleepInv(r)'
    <3>1. SleepInv(r) /\ \A d \in Cpu : OnInv(d, r) /\ ThreadInv(d, r) BY ProcFacts, ZenonT(60)
    <3> QED BY <1>0, <1>1, <3>1, ZenonT(60) DEF SleepInv, OnInv, ThreadInv
  <2>3. ASSUME NEW d \in Cpu, NEW r \in Proc PROVE LockInv(d, r)'
    <3>1. LockInv(d, r) /\ OnInv(d, r) BY ProcFacts, ZenonT(60)
    <3> QED BY <1>0, <1>1, <3>1, ZenonT(60) DEF LockInv, OnInv, Serves, Locked
  <2>4. ASSUME NEW d \in Cpu, NEW r \in Proc PROVE OnInv(d, r)'
    <3>1. LockInv(d, r) /\ OnInv(d, r) /\ ServesInv(d) BY CpuFacts, ProcFacts, ZenonT(60)
    <3> QED BY <1>0, <1>1, <3>1, ZenonT(60) DEF OnInv, LockInv, ServesInv, Serves, Locked
  <2>5. ASSUME NEW d \in Cpu, NEW r \in Proc PROVE ThreadInv(d, r)'
    <3>1. ThreadInv(d, r) /\ IntrInv(d) /\ SleepInv(r) BY CpuFacts, ProcFacts, ZenonT(60)
    <3> QED BY <1>0, <1>1, <3>1, ZenonT(60) DEF ThreadInv, IntrInv, SleepInv
  <2> QED BY <2>1, <2>2, <2>3, <2>4, <2>5, ZenonT(60) DEF ProcInv
<1>8. ASSUME NEW r \in Proc PROVE WakeInv(r)'
  <2>1. WakeInv(r) /\ SleepInv(r) /\ \A d \in Cpu : OnInv(d, r) BY ProcFacts, ZenonT(60)
  <2> QED BY <1>0, <1>1, <2>1, ZenonT(60) DEF WakeInv, Sleeps, Visits, SleepInv, OnInv
<1> QED BY <1>5, <1>6, <1>7, <1>8, ZenonT(60) DEF SchedInv, SleepersVisited

LEMMA yield_Step ==
  ASSUME SchedInv, NEW c \in Cpu, NEW p \in Proc, yield(c, p)
  PROVE  SchedInv'
<1> USE SchedConstants DEF yield, procVars, condVars, thrVars, cpuVars, offVars, intrVars, Runs, Goto
<1>t. TypeOK BY ZenonT(60) DEF SchedInv
<1>0. /\ plock \in [Proc -> Cpu \union {NoCpu}] /\ state \in [Proc -> State]
      /\ pc \in [Proc -> Label] /\ noff \in [Cpu -> Int] /\ intena \in [Cpu -> {0, 1}]
      /\ sie \in [Cpu -> {0, 1}]
  BY <1>t, ZenonT(60) DEF TypeOK
<1>1. Serves(c, p) /\ \A d \in Cpu : (on[d] = p => d = c) /\ (Serves(d, p) => d = c)
  BY Alone, ZenonT(60)
<1>5. TypeOK'
  <2>1. noff' \in [Cpu -> Int] /\ intena' \in [Cpu -> {0, 1}] /\ sie' \in [Cpu -> {0, 1}]
    BY <1>t, PushType, ZenonT(60)
  <2> QED BY <1>t, <2>1, ZenonT(60) DEF TypeOK, State, Label, SchedulerLabel, HandlerLabel
<1>6. CpuInv'
  <2>1. ASSUME NEW d \in Cpu PROVE ServesInv(d)'
    BY CpuFacts, ZenonT(60) DEF ServesInv, Serves
  <2>2. ASSUME NEW d \in Cpu PROVE IntrInv(d)'
    <3>1. IntrInv(d) BY CpuFacts, ZenonT(60)
    <3> QED BY <1>0, <1>1, <3>1, ZenonT(60) DEF push_off, IntrInv
  <2>3. ASSUME NEW d \in Cpu PROVE SchedulerInv(d)'
    <3>1. IntrInv(d) /\ SchedulerInv(d) BY CpuFacts, ZenonT(60)
    <3> QED BY <1>0, <1>1, <3>1, ZenonT(60) DEF push_off, IntrInv, SchedulerInv
  <2>4. ASSUME NEW d \in Cpu, NEW e \in Cpu PROVE ServesOnce(d, e)'
    BY ZenonT(60) DEF SchedInv, CpuInv, ServesOnce
  <2> QED BY <2>1, <2>2, <2>3, <2>4, ZenonT(60) DEF CpuInv
<1>7. ProcInv'
  <2>1. ASSUME NEW r \in Proc PROVE OffInv(r)'
    <3>1. OffInv(r) /\ \A d \in Cpu : OnInv(d, r) BY ProcFacts, ZenonT(60)
    <3> QED BY <1>0, <1>1, <3>1, ZenonT(60) DEF push_off, OffInv, OnInv
  <2>2. ASSUME NEW r \in Proc PROVE SleepInv(r)'
    <3>1. SleepInv(r) /\ \A d \in Cpu : OnInv(d, r) /\ ThreadInv(d, r) BY ProcFacts, ZenonT(60)
    <3> QED BY <1>0, <1>1, <3>1, ZenonT(60) DEF push_off, SleepInv, OnInv, ThreadInv
  <2>3. ASSUME NEW d \in Cpu, NEW r \in Proc PROVE LockInv(d, r)'
    <3>1. LockInv(d, r) /\ OnInv(d, r) BY ProcFacts, ZenonT(60)
    <3> QED BY <1>0, <1>1, <3>1, ZenonT(60) DEF push_off, LockInv, OnInv, Serves, Locked
  <2>4. ASSUME NEW d \in Cpu, NEW r \in Proc PROVE OnInv(d, r)'
    <3>1. LockInv(d, r) /\ OnInv(d, r) /\ ServesInv(d) BY CpuFacts, ProcFacts, ZenonT(60)
    <3> QED BY <1>0, <1>1, <3>1, ZenonT(60) DEF push_off, OnInv, LockInv, ServesInv, Serves, Locked
  <2>5. ASSUME NEW d \in Cpu, NEW r \in Proc PROVE ThreadInv(d, r)'
    <3>1. ThreadInv(d, r) BY ProcFacts, ZenonT(60)
    <3>2. CASE d = c /\ r = p
      <4>1. noff[c] = 0 /\ sie[c] = 0
        BY <3>1, <3>2, ZenonT(60) DEF ThreadInv
      <4>2. noff'[c] = 1 /\ intena'[c] = 0 /\ sie'[c] = 0 /\ pc'[p] = "ysched"
        BY <1>0, <4>1 DEF push_off
      <4> QED BY <3>2, <4>2, ZenonT(60) DEF ThreadInv
    <3>3. CASE ~(d = c /\ r = p)
      BY <1>0, <1>1, <3>1, <3>3 DEF push_off, ThreadInv
    <3> QED BY <3>2, <3>3, ZenonT(60)
  <2> QED BY <2>1, <2>2, <2>3, <2>4, <2>5, ZenonT(60) DEF ProcInv
<1>8. ASSUME NEW r \in Proc PROVE WakeInv(r)'
  <2>1. WakeInv(r) /\ SleepInv(r) /\ \A d \in Cpu : OnInv(d, r) BY ProcFacts, ZenonT(60)
  <2> QED BY <1>0, <1>1, <2>1, ZenonT(60) DEF WakeInv, Sleeps, Visits, SleepInv, OnInv
<1> QED BY <1>5, <1>6, <1>7, <1>8, ZenonT(60) DEF SchedInv, SleepersVisited

LEMMA sched_Step ==
  ASSUME SchedInv, NEW c \in Cpu, NEW p \in Proc, sched(c, p)
  PROVE  SchedInv'
<1> USE SchedConstants DEF procVars, condVars, thrVars, cpuVars, offVars, intrVars, Runs
<1>t. TypeOK BY ZenonT(60) DEF SchedInv
<1>0. /\ sint \in [Proc -> {0, 1}] /\ on \in [Cpu -> Proc \union {NoProc}]
      /\ pc \in [Proc -> Label]
  BY <1>t, ZenonT(60) DEF TypeOK
<1>1. Serves(c, p) /\ \A d \in Cpu : (on[d] = p => d = c) /\ (Serves(d, p) => d = c)
  BY Alone, ZenonT(60) DEF sched
<1>2. LockInv(c, p) /\ OnInv(c, p) /\ ThreadInv(c, p) BY ProcFacts, ZenonT(60)
<1>3. plock[p] = c /\ noff[c] = 1 /\ state[p] # "RUNNING" /\ sie[c] = 0
  BY <1>1, <1>2, ZenonT(60) DEF sched, LockInv, OnInv, ThreadInv, Locked
<1>4. /\ intr[c] = "no" /\ on[c] = p /\ pc[p] \in {"ssched", "ysched"}
      /\ sint' = [sint EXCEPT ![p] = intena[c]]
      /\ on' = [on EXCEPT ![c] = NoProc]
      /\ pc' = [pc EXCEPT ![p] = IF pc[p] = "ssched" THEN "soff" ELSE "yoff"]
      /\ UNCHANGED <<procVars, condVars, want, yret, spc, sp, offVars, intrVars>>
  BY <1>3, ZenonT(60) DEF sched, Goto
<1>5. TypeOK'
  BY <1>t, <1>1, <1>2, <1>3, <1>4, ZenonT(60) DEF TypeOK, State, Label, SchedulerLabel, HandlerLabel
<1>6. CpuInv'
  <2>1. ASSUME NEW d \in Cpu PROVE ServesInv(d)'
    <3>1. ServesInv(d) BY CpuFacts, ZenonT(60)
    <3> QED BY <1>0, <1>1, <1>2, <1>3, <1>4, <3>1, ZenonT(60) DEF ServesInv, Serves
  <2>2. ASSUME NEW d \in Cpu PROVE IntrInv(d)'
    <3>1. IntrInv(d) BY CpuFacts, ZenonT(60)
    <3> QED BY <1>0, <1>1, <1>2, <1>3, <1>4, <3>1, ZenonT(60) DEF IntrInv
  <2>3. ASSUME NEW d \in Cpu PROVE SchedulerInv(d)'
    <3>1. IntrInv(d) /\ SchedulerInv(d) BY CpuFacts, ZenonT(60)
    <3> QED BY <1>0, <1>1, <1>2, <1>3, <1>4, <3>1, ZenonT(60) DEF IntrInv, SchedulerInv, Serves
  <2>4. ASSUME NEW d \in Cpu, NEW e \in Cpu PROVE ServesOnce(d, e)'
    BY <1>4, ZenonT(60) DEF SchedInv, CpuInv, ServesOnce
  <2> QED BY <2>1, <2>2, <2>3, <2>4, ZenonT(60) DEF CpuInv
<1>7. ProcInv'
  <2>1. ASSUME NEW r \in Proc PROVE OffInv(r)'
    <3>1. OffInv(r) /\ \A d \in Cpu : OnInv(d, r) BY ProcFacts, ZenonT(60)
    <3> QED BY <1>0, <1>1, <1>2, <1>3, <1>4, <3>1, ZenonT(60) DEF OffInv, OnInv
  <2>2. ASSUME NEW r \in Proc PROVE SleepInv(r)'
    <3>1. SleepInv(r) BY ProcFacts, ZenonT(60)
    <3> QED BY <1>0, <1>1, <1>2, <1>3, <1>4, <3>1, ZenonT(60) DEF SleepInv, OnInv, ThreadInv
  <2>3. ASSUME NEW d \in Cpu, NEW r \in Proc PROVE LockInv(d, r)'
    <3>1. LockInv(d, r) /\ OnInv(d, r) BY ProcFacts, ZenonT(60)
    <3> QED BY <1>0, <1>1, <1>2, <1>3, <1>4, <3>1, ZenonT(60) DEF LockInv, OnInv, Serves, Locked
  <2>4. ASSUME NEW d \in Cpu, NEW r \in Proc PROVE OnInv(d, r)'
    <3>1. LockInv(d, r) /\ OnInv(d, r) /\ ServesInv(d) BY CpuFacts, ProcFacts, ZenonT(60)
    <3> QED BY <1>0, <1>1, <1>2, <1>3, <1>4, <3>1, ZenonT(60) DEF OnInv, LockInv, ServesInv, Serves, Locked
  <2>5. ASSUME NEW d \in Cpu, NEW r \in Proc PROVE ThreadInv(d, r)'
    <3>1. ThreadInv(d, r) /\ IntrInv(d) /\ SleepInv(r) BY CpuFacts, ProcFacts, ZenonT(60)
    <3> QED BY <1>0, <1>1, <1>2, <1>3, <1>4, <3>1, ZenonT(60) DEF ThreadInv, IntrInv, SleepInv
  <2> QED BY <2>1, <2>2, <2>3, <2>4, <2>5, ZenonT(60) DEF ProcInv
<1>8. ASSUME NEW r \in Proc PROVE WakeInv(r)'
  <2>1. WakeInv(r) /\ SleepInv(r) /\ \A d \in Cpu : OnInv(d, r) BY ProcFacts, ZenonT(60)
  <2> QED BY <1>0, <1>1, <1>2, <1>3, <1>4, <2>1, ZenonT(60) DEF WakeInv, Sleeps, Visits, SleepInv, OnInv
<1> QED BY <1>5, <1>6, <1>7, <1>8, ZenonT(60) DEF SchedInv, SleepersVisited

LEMMA wake_Step ==
  ASSUME SchedInv, NEW c \in Cpu, NEW p \in Proc, wake(c, p)
  PROVE  SchedInv'
<1> USE SchedConstants DEF wake, procVars, condVars, thrVars, cpuVars, offVars, intrVars, Runs, Goto
<1>t. TypeOK BY ZenonT(60) DEF SchedInv
<1>0. /\ chan \in [Proc -> Chan \union {NoChan}]
      /\ plock \in [Proc -> Cpu \union {NoCpu}] /\ pc \in [Proc -> Label]
      /\ noff \in [Cpu -> Int] /\ intena \in [Cpu -> {0, 1}] /\ sie \in [Cpu -> {0, 1}]
  BY <1>t, ZenonT(60) DEF TypeOK
<1>1. Serves(c, p) /\ \A d \in Cpu : (on[d] = p => d = c) /\ (Serves(d, p) => d = c)
  BY Alone, ZenonT(60)
<1>5. TypeOK'
  <2>1. sint[p] \in {0, 1} BY <1>t, ZenonT(60) DEF TypeOK
  <2>2. noff' \in [Cpu -> Int] /\ intena' \in [Cpu -> {0, 1}] /\ sie' \in [Cpu -> {0, 1}]
    BY <1>t, <2>1, PopType, ZenonT(60)
  <2> QED BY <1>t, <2>2, ZenonT(60) DEF TypeOK, State, Label, SchedulerLabel, HandlerLabel
<1>6. CpuInv'
  <2>1. ASSUME NEW d \in Cpu PROVE ServesInv(d)'
    BY CpuFacts, ZenonT(60) DEF ServesInv, Serves
  <2>2. ASSUME NEW d \in Cpu PROVE IntrInv(d)'
    <3>1. IntrInv(d) BY CpuFacts, ZenonT(60)
    <3> QED BY <1>0, <1>1, <3>1, ZenonT(60) DEF pop_off, IntrInv
  <2>3. ASSUME NEW d \in Cpu PROVE SchedulerInv(d)'
    <3>1. IntrInv(d) /\ SchedulerInv(d) BY CpuFacts, ZenonT(60)
    <3> QED BY <1>0, <1>1, <3>1, ZenonT(60) DEF pop_off, IntrInv, SchedulerInv
  <2>4. ASSUME NEW d \in Cpu, NEW e \in Cpu PROVE ServesOnce(d, e)'
    BY ZenonT(60) DEF SchedInv, CpuInv, ServesOnce
  <2> QED BY <2>1, <2>2, <2>3, <2>4, ZenonT(60) DEF CpuInv
<1>7. ProcInv'
  <2>1. ASSUME NEW r \in Proc PROVE OffInv(r)'
    <3>1. OffInv(r) /\ \A d \in Cpu : OnInv(d, r) BY ProcFacts, ZenonT(60)
    <3> QED BY <1>0, <1>1, <3>1, ZenonT(60) DEF pop_off, OffInv, OnInv
  <2>2. ASSUME NEW r \in Proc PROVE SleepInv(r)'
    <3>1. SleepInv(r) /\ \A d \in Cpu : OnInv(d, r) /\ ThreadInv(d, r) BY ProcFacts, ZenonT(60)
    <3> QED BY <1>0, <1>1, <3>1, ZenonT(60) DEF pop_off, SleepInv, OnInv, ThreadInv
  <2>3. ASSUME NEW d \in Cpu, NEW r \in Proc PROVE LockInv(d, r)'
    <3>1. LockInv(d, r) /\ OnInv(d, r) BY ProcFacts, ZenonT(60)
    <3> QED BY <1>0, <1>1, <3>1, ZenonT(60) DEF pop_off, LockInv, OnInv, Serves, Locked
  <2>4. ASSUME NEW d \in Cpu, NEW r \in Proc PROVE OnInv(d, r)'
    <3>1. LockInv(d, r) /\ OnInv(d, r) /\ ServesInv(d) BY CpuFacts, ProcFacts, ZenonT(60)
    <3> QED BY <1>0, <1>1, <3>1, ZenonT(60) DEF pop_off, OnInv, LockInv, ServesInv, Serves, Locked
  <2>5. ASSUME NEW d \in Cpu, NEW r \in Proc PROVE ThreadInv(d, r)'
    <3>1. ThreadInv(d, r) /\ SleepInv(r) BY ProcFacts, ZenonT(60)
    <3>2. CASE d = c /\ r = p
      <4>1. noff[c] = 1 /\ sie[c] = 0 /\ sint[p] = IF pc[p] = "soff" THEN 1 ELSE 0
        BY <3>1, <3>2, ZenonT(60) DEF ThreadInv, SleepInv
      <4>2. noff'[c] = 0 /\ sie'[c] = sint[p] /\ pc'[p] = IF pc[p] = "soff" THEN "reacq" ELSE "tret"
        BY <1>0, <4>1 DEF pop_off
      <4>3. CASE pc[p] = "soff"
        <5>1. noff'[c] = 0 /\ sie'[c] = 1 /\ pc'[p] = "reacq" BY <4>1, <4>2, <4>3, ZenonT(60)
        <5> QED BY <3>2, <5>1, ZenonT(60) DEF ThreadInv
      <4>4. CASE pc[p] # "soff"
        <5>1. noff'[c] = 0 /\ sie'[c] = 0 /\ pc'[p] = "tret" BY <4>1, <4>2, <4>4, ZenonT(60)
        <5> QED BY <3>2, <5>1, ZenonT(60) DEF ThreadInv
      <4> QED BY <4>3, <4>4, ZenonT(60)
    <3>3. CASE ~(d = c /\ r = p)
      BY <1>0, <1>1, <3>1, <3>3, ZenonT(60) DEF pop_off, ThreadInv
    <3> QED BY <3>2, <3>3, ZenonT(60)
  <2> QED BY <2>1, <2>2, <2>3, <2>4, <2>5, ZenonT(60) DEF ProcInv
<1>8. ASSUME NEW r \in Proc PROVE WakeInv(r)'
  <2>1. WakeInv(r) /\ SleepInv(r) /\ \A d \in Cpu : OnInv(d, r) BY ProcFacts, ZenonT(60)
  <2> QED BY <1>0, <1>1, <2>1, ZenonT(60) DEF WakeInv, Sleeps, Visits, SleepInv, OnInv
<1> QED BY <1>5, <1>6, <1>7, <1>8, ZenonT(60) DEF SchedInv, SleepersVisited

LEMMA trapret_Step ==
  ASSUME SchedInv, NEW c \in Cpu, NEW p \in Proc, trapret(c, p)
  PROVE  SchedInv'
<1> USE SchedConstants DEF trapret, procVars, condVars, thrVars, cpuVars, offVars, intrVars, Runs, Goto
<1>t. TypeOK BY ZenonT(60) DEF SchedInv
<1>0. /\ sie \in [Cpu -> {0, 1}] /\ pc \in [Proc -> Label]
  BY <1>t, ZenonT(60) DEF TypeOK
<1>1. Serves(c, p) /\ \A d \in Cpu : (on[d] = p => d = c) /\ (Serves(d, p) => d = c)
  BY Alone, ZenonT(60)
<1>2. yret[p] \in {"run", "reacq"} BY <1>t, ZenonT(60) DEF TypeOK
<1>3. noff[c] = 0 BY ProcFacts, ZenonT(60) DEF ThreadInv
<1>5. TypeOK'
  BY <1>t, <1>1, <1>2, <1>3, ZenonT(60) DEF TypeOK, State, Label, SchedulerLabel, HandlerLabel
<1>6. CpuInv'
  <2>1. ASSUME NEW d \in Cpu PROVE ServesInv(d)'
    BY CpuFacts, ZenonT(60) DEF ServesInv, Serves
  <2>2. ASSUME NEW d \in Cpu PROVE IntrInv(d)'
    <3>1. IntrInv(d) BY CpuFacts, ZenonT(60)
    <3> QED BY <1>0, <1>1, <1>2, <1>3, <3>1, ZenonT(60) DEF IntrInv
  <2>3. ASSUME NEW d \in Cpu PROVE SchedulerInv(d)'
    <3>1. IntrInv(d) /\ SchedulerInv(d) BY CpuFacts, ZenonT(60)
    <3> QED BY <1>0, <1>1, <1>2, <1>3, <3>1, ZenonT(60) DEF IntrInv, SchedulerInv
  <2>4. ASSUME NEW d \in Cpu, NEW e \in Cpu PROVE ServesOnce(d, e)'
    BY ZenonT(60) DEF SchedInv, CpuInv, ServesOnce
  <2> QED BY <2>1, <2>2, <2>3, <2>4, ZenonT(60) DEF CpuInv
<1>7. ProcInv'
  <2>1. ASSUME NEW r \in Proc PROVE OffInv(r)'
    <3>1. OffInv(r) /\ \A d \in Cpu : OnInv(d, r) BY ProcFacts, ZenonT(60)
    <3> QED BY <1>0, <1>1, <1>2, <1>3, <3>1, ZenonT(60) DEF OffInv, OnInv
  <2>2. ASSUME NEW r \in Proc PROVE SleepInv(r)'
    <3>1. SleepInv(r) /\ \A d \in Cpu : OnInv(d, r) /\ ThreadInv(d, r) BY ProcFacts, ZenonT(60)
    <3> QED BY <1>0, <1>1, <1>2, <1>3, <3>1, ZenonT(60) DEF SleepInv, OnInv, ThreadInv
  <2>3. ASSUME NEW d \in Cpu, NEW r \in Proc PROVE LockInv(d, r)'
    <3>1. LockInv(d, r) /\ OnInv(d, r) BY ProcFacts, ZenonT(60)
    <3> QED BY <1>0, <1>1, <1>2, <1>3, <3>1, ZenonT(60) DEF LockInv, OnInv, Serves, Locked
  <2>4. ASSUME NEW d \in Cpu, NEW r \in Proc PROVE OnInv(d, r)'
    <3>1. LockInv(d, r) /\ OnInv(d, r) /\ ServesInv(d) BY CpuFacts, ProcFacts, ZenonT(60)
    <3> QED BY <1>0, <1>1, <1>2, <1>3, <3>1, ZenonT(60) DEF OnInv, LockInv, ServesInv, Serves, Locked
  <2>5. ASSUME NEW d \in Cpu, NEW r \in Proc PROVE ThreadInv(d, r)'
    <3>1. ThreadInv(d, r) /\ IntrInv(d) /\ SleepInv(r) BY CpuFacts, ProcFacts, ZenonT(60)
    <3> QED BY <1>0, <1>1, <1>2, <1>3, <3>1, ZenonT(60) DEF ThreadInv, IntrInv, SleepInv
  <2> QED BY <2>1, <2>2, <2>3, <2>4, <2>5, ZenonT(60) DEF ProcInv
<1>8. ASSUME NEW r \in Proc PROVE WakeInv(r)'
  <2>1. WakeInv(r) /\ SleepInv(r) /\ \A d \in Cpu : OnInv(d, r) BY ProcFacts, ZenonT(60)
  <2> QED BY <1>0, <1>1, <1>2, <1>3, <2>1, ZenonT(60) DEF WakeInv, Sleeps, Visits, SleepInv, OnInv
<1> QED BY <1>5, <1>6, <1>7, <1>8, ZenonT(60) DEF SchedInv, SleepersVisited

LEMMA kill_Step ==
  ASSUME SchedInv, NEW c \in Cpu, NEW p \in Proc, NEW q \in Proc, kill(c, p, q)
  PROVE  SchedInv'
<1> USE SchedConstants DEF kill, procVars, condVars, thrVars, cpuVars, offVars, intrVars, Runs
<1>t. TypeOK BY ZenonT(60) DEF SchedInv
<1>0. /\ state \in [Proc -> State]
  BY <1>t, ZenonT(60) DEF TypeOK
<1>1. Serves(c, p) /\ \A d \in Cpu : (on[d] = p => d = c) /\ (Serves(d, p) => d = c)
  BY Alone, ZenonT(60)
<1>5. TypeOK'
  BY <1>t, <1>1, ZenonT(60) DEF TypeOK, State, Label, SchedulerLabel, HandlerLabel
<1>6. CpuInv'
  <2>1. ASSUME NEW d \in Cpu PROVE ServesInv(d)'
    BY CpuFacts, ZenonT(60) DEF ServesInv, Serves
  <2>2. ASSUME NEW d \in Cpu PROVE IntrInv(d)'
    BY CpuFacts, ZenonT(60) DEF IntrInv
  <2>3. ASSUME NEW d \in Cpu PROVE SchedulerInv(d)'
    BY CpuFacts, ZenonT(60) DEF SchedulerInv
  <2>4. ASSUME NEW d \in Cpu, NEW e \in Cpu PROVE ServesOnce(d, e)'
    BY ZenonT(60) DEF SchedInv, CpuInv, ServesOnce
  <2> QED BY <2>1, <2>2, <2>3, <2>4, ZenonT(60) DEF CpuInv
<1>7. ProcInv'
  <2>1. ASSUME NEW r \in Proc PROVE OffInv(r)'
    <3>1. OffInv(r) /\ \A d \in Cpu : OnInv(d, r) BY ProcFacts, ZenonT(60)
    <3> QED BY <1>0, <1>1, <3>1, ZenonT(60) DEF OffInv, OnInv
  <2>2. ASSUME NEW r \in Proc PROVE SleepInv(r)'
    <3>1. SleepInv(r) /\ \A d \in Cpu : OnInv(d, r) /\ ThreadInv(d, r) BY ProcFacts, ZenonT(60)
    <3> QED BY <1>0, <1>1, <3>1, ZenonT(60) DEF SleepInv, OnInv, ThreadInv
  <2>3. ASSUME NEW d \in Cpu, NEW r \in Proc PROVE LockInv(d, r)'
    <3>1. LockInv(d, r) BY ProcFacts, ZenonT(60)
    <3> QED BY <3>1, ZenonT(60) DEF LockInv, Serves
  <2>4. ASSUME NEW d \in Cpu, NEW r \in Proc PROVE OnInv(d, r)'
    <3>1. LockInv(d, r) /\ OnInv(d, r) /\ ServesInv(d) BY CpuFacts, ProcFacts, ZenonT(60)
    <3> QED BY <1>0, <1>1, <3>1, ZenonT(60) DEF OnInv, LockInv, ServesInv, Serves, Locked
  <2>5. ASSUME NEW d \in Cpu, NEW r \in Proc PROVE ThreadInv(d, r)'
    BY ProcFacts, ZenonT(60) DEF ThreadInv
  <2> QED BY <2>1, <2>2, <2>3, <2>4, <2>5, ZenonT(60) DEF ProcInv
<1>8. ASSUME NEW r \in Proc PROVE WakeInv(r)'
  <2>1. WakeInv(r) /\ SleepInv(r) /\ \A d \in Cpu : OnInv(d, r) BY ProcFacts, ZenonT(60)
  <2> QED BY <1>0, <1>1, <2>1, ZenonT(60) DEF WakeInv, Sleeps, Visits, SleepInv, OnInv
<1> QED BY <1>5, <1>6, <1>7, <1>8, ZenonT(60) DEF SchedInv, SleepersVisited

LEMMA interrupt_Step ==
  ASSUME SchedInv, NEW c \in Cpu, NEW ch \in Chan, interrupt(c, ch)
  PROVE  SchedInv'
<1> USE SchedConstants DEF interrupt, procVars, condVars, thrVars, cpuVars, offVars, intrVars
<1>t. TypeOK BY ZenonT(60) DEF SchedInv
<1>0. /\ sie \in [Cpu -> {0, 1}] /\ intr \in [Cpu -> HandlerLabel]
      /\ hch \in [Cpu -> Chan]
  BY <1>t, ZenonT(60) DEF TypeOK
<1>5. TypeOK'
  BY <1>t, ZenonT(60) DEF TypeOK, State, Label, SchedulerLabel, HandlerLabel
<1>6. CpuInv'
  <2>1. ASSUME NEW d \in Cpu PROVE ServesInv(d)'
    BY CpuFacts, ZenonT(60) DEF ServesInv, Serves
  <2>2. ASSUME NEW d \in Cpu PROVE IntrInv(d)'
    <3>1. IntrInv(d) /\ SchedulerInv(d) BY CpuFacts, ZenonT(60)
    <3>2. CASE d = c
      <4>1. CASE on[c] \in Proc
        <5>1. ThreadInv(c, on[c]) BY <4>1, ProcFacts, ZenonT(60)
        <5>2. sie[c] # 0 OBVIOUS
        <5>3. noff[c] = 0 /\ pc[on[c]] \in {"fret", "run", "reacq"}
          BY <5>1, <5>2, ZenonT(60) DEF ThreadInv
        <5>4. sie'[c] = 0 /\ intr'[c] = "enter"
          BY <1>0, ZenonT(60)
        <5> QED BY <3>2, <4>1, <5>3, <5>4, ZenonT(60) DEF IntrInv
      <4>2. CASE on[c] = NoProc
        <5>1. noff[c] = 0 /\ spc[c] # "back" BY <3>1, <3>2, <4>2 DEF SchedulerInv
        <5> QED BY <1>0, <3>2, <4>2, <5>1, ZenonT(60) DEF IntrInv
      <4>3. on[c] \in Proc \union {NoProc} BY <1>t, ZenonT(60) DEF TypeOK
      <4> QED BY <4>1, <4>2, <4>3, ZenonT(60)
    <3>3. CASE d # c
      BY <1>0, <3>1, <3>3, ZenonT(60) DEF IntrInv
    <3> QED BY <3>2, <3>3, ZenonT(60)
  <2>3. ASSUME NEW d \in Cpu PROVE SchedulerInv(d)'
    <3>1. IntrInv(d) /\ SchedulerInv(d) BY CpuFacts, ZenonT(60)
    <3> QED BY <1>0, <3>1, ZenonT(60) DEF IntrInv, SchedulerInv
  <2>4. ASSUME NEW d \in Cpu, NEW e \in Cpu PROVE ServesOnce(d, e)'
    BY ZenonT(60) DEF SchedInv, CpuInv, ServesOnce
  <2> QED BY <2>1, <2>2, <2>3, <2>4, ZenonT(60) DEF CpuInv
<1>7. ProcInv'
  <2>1. ASSUME NEW r \in Proc PROVE OffInv(r)'
    BY ProcFacts, ZenonT(60) DEF OffInv
  <2>2. ASSUME NEW r \in Proc PROVE SleepInv(r)'
    BY ProcFacts, ZenonT(60) DEF SleepInv
  <2>3. ASSUME NEW d \in Cpu, NEW r \in Proc PROVE LockInv(d, r)'
    <3>1. LockInv(d, r) BY ProcFacts, ZenonT(60)
    <3> QED BY <3>1, ZenonT(60) DEF LockInv, Serves
  <2>4. ASSUME NEW d \in Cpu, NEW r \in Proc PROVE OnInv(d, r)'
    BY ProcFacts, ZenonT(60) DEF OnInv
  <2>5. ASSUME NEW d \in Cpu, NEW r \in Proc PROVE ThreadInv(d, r)'
    <3>1. ThreadInv(d, r) /\ IntrInv(d) /\ SleepInv(r) BY CpuFacts, ProcFacts, ZenonT(60)
    <3> QED BY <1>0, <3>1, ZenonT(60) DEF ThreadInv, IntrInv, SleepInv
  <2> QED BY <2>1, <2>2, <2>3, <2>4, <2>5, ZenonT(60) DEF ProcInv
<1>8. ASSUME NEW r \in Proc PROVE WakeInv(r)'
  <2>1. WakeInv(r) /\ SleepInv(r) /\ \A d \in Cpu : OnInv(d, r) BY ProcFacts, ZenonT(60)
  <2> QED BY <1>0, <2>1, ZenonT(60) DEF WakeInv, Sleeps, Visits, SleepInv, OnInv
<1> QED BY <1>5, <1>6, <1>7, <1>8, ZenonT(60) DEF SchedInv, SleepersVisited

LEMMA intr_acquire_Step ==
  ASSUME SchedInv, NEW c \in Cpu, intr_acquire(c)
  PROVE  SchedInv'
<1> USE SchedConstants DEF intr_acquire, procVars, condVars, thrVars, cpuVars, offVars, intrVars
<1>t. TypeOK BY ZenonT(60) DEF SchedInv
<1>0. /\ clock \in [Chan -> Cpu \union {NoCpu}] /\ cond \in [Chan -> Nat]
      /\ intr \in [Cpu -> HandlerLabel] /\ hscan \in [Cpu -> SUBSET Proc]
      /\ noff \in [Cpu -> Int] /\ intena \in [Cpu -> {0, 1}] /\ sie \in [Cpu -> {0, 1}]
  BY <1>t, ZenonT(60) DEF TypeOK
<1>5. TypeOK'
  <2>1. noff' \in [Cpu -> Int] /\ intena' \in [Cpu -> {0, 1}] /\ sie' \in [Cpu -> {0, 1}]
    BY <1>t, PushType, ZenonT(60)
  <2> QED BY <1>t, <2>1 DEF TypeOK, State, Label, SchedulerLabel, HandlerLabel
<1>6. CpuInv'
  <2>1. ASSUME NEW d \in Cpu PROVE ServesInv(d)'
    BY CpuFacts, ZenonT(60) DEF ServesInv, Serves
  <2>2. ASSUME NEW d \in Cpu PROVE IntrInv(d)'
    <3>1. IntrInv(d) BY CpuFacts, ZenonT(60)
    <3>2. CASE d = c
      <4>1. noff[c] = 0 /\ sie[c] = 0 BY <3>1, <3>2, ZenonT(60) DEF IntrInv
      <4>2. noff'[c] = 1 /\ intena'[c] = 0 /\ sie'[c] = 0 BY <1>0, <4>1 DEF push_off
      <4> QED BY <1>0, <3>1, <3>2, <4>2, ZenonT(60) DEF IntrInv
    <3>3. CASE d # c
      BY <1>0, <3>1, <3>3, ZenonT(60) DEF push_off, IntrInv
    <3> QED BY <3>2, <3>3, ZenonT(60)
  <2>3. ASSUME NEW d \in Cpu PROVE SchedulerInv(d)'
    <3>1. IntrInv(d) /\ SchedulerInv(d) BY CpuFacts, ZenonT(60)
    <3> QED BY <1>0, <3>1, ZenonT(60) DEF push_off, IntrInv, SchedulerInv
  <2>4. ASSUME NEW d \in Cpu, NEW e \in Cpu PROVE ServesOnce(d, e)'
    BY ZenonT(60) DEF SchedInv, CpuInv, ServesOnce
  <2> QED BY <2>1, <2>2, <2>3, <2>4, ZenonT(60) DEF CpuInv
<1>7. ProcInv'
  <2>1. ASSUME NEW r \in Proc PROVE OffInv(r)'
    BY ProcFacts, ZenonT(60) DEF OffInv
  <2>2. ASSUME NEW r \in Proc PROVE SleepInv(r)'
    BY ProcFacts, ZenonT(60) DEF SleepInv
  <2>3. ASSUME NEW d \in Cpu, NEW r \in Proc PROVE LockInv(d, r)'
    <3>1. LockInv(d, r) BY ProcFacts, ZenonT(60)
    <3> QED BY <3>1, ZenonT(60) DEF LockInv, Serves
  <2>4. ASSUME NEW d \in Cpu, NEW r \in Proc PROVE OnInv(d, r)'
    BY ProcFacts, ZenonT(60) DEF OnInv
  <2>5. ASSUME NEW d \in Cpu, NEW r \in Proc PROVE ThreadInv(d, r)'
    <3>1. ThreadInv(d, r) /\ IntrInv(d) /\ SleepInv(r) BY CpuFacts, ProcFacts, ZenonT(60)
    <3> QED BY <1>0, <3>1, ZenonT(60) DEF push_off, ThreadInv, IntrInv, SleepInv
  <2> QED BY <2>1, <2>2, <2>3, <2>4, <2>5, ZenonT(60) DEF ProcInv
<1>8. ASSUME NEW r \in Proc PROVE WakeInv(r)'
  <2>1. WakeInv(r) BY ProcFacts, ZenonT(60)
  <2>2. hch[c] \in Chan /\ want[r] \in Chan BY <1>t, ZenonT(60) DEF TypeOK
  <2>3. SUFFICES ASSUME Sleeps(r)', cond'[want[r]] > 0 PROVE \E d \in Cpu : Visits(d, r)'
    BY ZenonT(60) DEF WakeInv
  <2>4. CASE want[r] = hch[c]
    <3>1. Visits(c, r)' BY <1>0, <2>4, ZenonT(60) DEF Visits
    <3> QED BY <3>1, ZenonT(60)
  <2>5. CASE want[r] # hch[c]
    <3>1. Sleeps(r) BY <2>3, ZenonT(60) DEF Sleeps
    <3>2. cond[want[r]] > 0 BY <1>0, <2>2, <2>3, <2>5, ZenonT(60)
    <3>3. PICK d \in Cpu : Visits(d, r) BY <2>1, <3>1, <3>2, ZenonT(60) DEF WakeInv
    <3>4. Visits(d, r)' BY <1>0, <3>3, ZenonT(60) DEF Visits
    <3> QED BY <3>4, ZenonT(60)
  <2> QED BY <2>4, <2>5, ZenonT(60)
<1> QED BY <1>5, <1>6, <1>7, <1>8, ZenonT(60) DEF SchedInv, SleepersVisited

LEMMA wakeup_Step ==
  ASSUME SchedInv, NEW c \in Cpu, NEW p \in Proc, wakeup(c, p)
  PROVE  SchedInv'
<1> USE SchedConstants DEF wakeup, procVars, condVars, thrVars, cpuVars, offVars, intrVars
<1>t. TypeOK BY ZenonT(60) DEF SchedInv
<1>0. /\ state \in [Proc -> State] /\ hscan \in [Cpu -> SUBSET Proc]
  BY <1>t, ZenonT(60) DEF TypeOK
<1>5. TypeOK'
  BY <1>t, ZenonT(60) DEF TypeOK, State, Label, SchedulerLabel, HandlerLabel
<1>6. CpuInv'
  <2>1. ASSUME NEW d \in Cpu PROVE ServesInv(d)'
    BY CpuFacts, ZenonT(60) DEF ServesInv, Serves
  <2>2. ASSUME NEW d \in Cpu PROVE IntrInv(d)'
    BY CpuFacts, ZenonT(60) DEF IntrInv
  <2>3. ASSUME NEW d \in Cpu PROVE SchedulerInv(d)'
    BY CpuFacts, ZenonT(60) DEF SchedulerInv
  <2>4. ASSUME NEW d \in Cpu, NEW e \in Cpu PROVE ServesOnce(d, e)'
    BY ZenonT(60) DEF SchedInv, CpuInv, ServesOnce
  <2> QED BY <2>1, <2>2, <2>3, <2>4, ZenonT(60) DEF CpuInv
<1>7. ProcInv'
  <2>1. ASSUME NEW r \in Proc PROVE OffInv(r)'
    <3>1. OffInv(r) /\ \A d \in Cpu : OnInv(d, r) BY ProcFacts, ZenonT(60)
    <3> QED BY <1>0, <3>1, ZenonT(60) DEF OffInv, OnInv
  <2>2. ASSUME NEW r \in Proc PROVE SleepInv(r)'
    <3>1. SleepInv(r) /\ \A d \in Cpu : OnInv(d, r) /\ ThreadInv(d, r) BY ProcFacts, ZenonT(60)
    <3> QED BY <1>0, <3>1, ZenonT(60) DEF SleepInv, OnInv, ThreadInv
  <2>3. ASSUME NEW d \in Cpu, NEW r \in Proc PROVE LockInv(d, r)'
    <3>1. LockInv(d, r) BY ProcFacts, ZenonT(60)
    <3> QED BY <3>1, ZenonT(60) DEF LockInv, Serves
  <2>4. ASSUME NEW d \in Cpu, NEW r \in Proc PROVE OnInv(d, r)'
    <3>1. LockInv(d, r) /\ OnInv(d, r) /\ ServesInv(d) BY CpuFacts, ProcFacts, ZenonT(60)
    <3> QED BY <1>0, <3>1, ZenonT(60) DEF OnInv, LockInv, ServesInv, Serves, Locked
  <2>5. ASSUME NEW d \in Cpu, NEW r \in Proc PROVE ThreadInv(d, r)'
    BY ProcFacts, ZenonT(60) DEF ThreadInv
  <2> QED BY <2>1, <2>2, <2>3, <2>4, <2>5, ZenonT(60) DEF ProcInv
<1>8. ASSUME NEW r \in Proc PROVE WakeInv(r)'
  <2>1. WakeInv(r) /\ SleepInv(r) /\ OffInv(r) /\ \A d \in Cpu : LockInv(d, r) /\ OnInv(d, r) /\ ServesInv(d)
    BY CpuFacts, ProcFacts, ZenonT(60)
  <2>2. SUFFICES ASSUME Sleeps(r)', cond[want[r]] > 0 PROVE \E d \in Cpu : Visits(d, r)'
    BY ZenonT(60) DEF WakeInv
  <2>3. Sleeps(r)
    BY <1>0, <2>2, ZenonT(60) DEF Sleeps
  <2>4. PICK d \in Cpu : Visits(d, r)
    BY <2>1, <2>2, <2>3, ZenonT(60) DEF WakeInv
  <2>5. ASSUME d = c, r = p PROVE FALSE
    <3>1. state[p] # "SLEEPING"
      BY <1>0, <2>1, <2>2, <2>4, <2>5, ZenonT(60) DEF Sleeps, Visits, SleepInv
    <3>2. pc[p] \in {"sleep", "asleep"}
      BY <2>3, <2>5, <3>1, ZenonT(60) DEF Sleeps
    <3>3. PICK e \in Cpu : on[e] = p
      BY <2>1, <2>5, <3>2, ZenonT(60) DEF OffInv
    <3>4. Serves(e, p)
      BY <2>1, <3>3, ZenonT(60) DEF ServesInv
    <3>5. plock[p] = e
      BY <2>1, <2>5, <3>2, <3>3, <3>4, ZenonT(60) DEF LockInv, Locked
    <3> QED BY <3>5, ZenonT(60)
  <2>6. Visits(d, r)'
    BY <1>0, <2>4, <2>5, ZenonT(60) DEF Visits
  <2> QED BY <2>6, ZenonT(60)
<1> QED BY <1>5, <1>6, <1>7, <1>8, ZenonT(60) DEF SchedInv, SleepersVisited

LEMMA intr_release_Step ==
  ASSUME SchedInv, NEW c \in Cpu, intr_release(c)
  PROVE  SchedInv'
<1> USE SchedConstants DEF intr_release, procVars, condVars, thrVars, cpuVars, offVars, intrVars
<1>t. TypeOK BY ZenonT(60) DEF SchedInv
<1>0. /\ clock \in [Chan -> Cpu \union {NoCpu}] /\ intr \in [Cpu -> HandlerLabel]
      /\ noff \in [Cpu -> Int] /\ intena \in [Cpu -> {0, 1}] /\ sie \in [Cpu -> {0, 1}]
  BY <1>t, ZenonT(60) DEF TypeOK
<1>2. noff[c] = 1 /\ intena[c] = 0 /\ sie[c] = 0 BY CpuFacts, ZenonT(60) DEF IntrInv
<1>5. TypeOK'
  <2>1. intena[c] \in {0, 1} BY <1>t, ZenonT(60) DEF TypeOK
  <2>2. noff' \in [Cpu -> Int] /\ intena' \in [Cpu -> {0, 1}] /\ sie' \in [Cpu -> {0, 1}]
    BY <1>t, <2>1, PopType, ZenonT(60)
  <2> QED BY <1>t, <2>2, ZenonT(60) DEF TypeOK, State, Label, SchedulerLabel, HandlerLabel
<1>6. CpuInv'
  <2>1. ASSUME NEW d \in Cpu PROVE ServesInv(d)'
    BY CpuFacts, ZenonT(60) DEF ServesInv, Serves
  <2>2. ASSUME NEW d \in Cpu PROVE IntrInv(d)'
    <3>1. IntrInv(d) BY CpuFacts, ZenonT(60)
    <3>2. CASE d = c
      <4>1. noff'[c] = 0 /\ sie'[c] = 0 /\ intr'[c] = "leave"
        BY <1>0, <1>2 DEF pop_off
      <4> QED BY <3>1, <3>2, <4>1, ZenonT(60) DEF IntrInv
    <3>3. CASE d # c
      BY <1>0, <3>1, <3>3, ZenonT(60) DEF pop_off, IntrInv
    <3> QED BY <3>2, <3>3, ZenonT(60)
  <2>3. ASSUME NEW d \in Cpu PROVE SchedulerInv(d)'
    <3>1. IntrInv(d) /\ SchedulerInv(d) BY CpuFacts, ZenonT(60)
    <3> QED BY <1>0, <1>2, <3>1, ZenonT(60) DEF pop_off, IntrInv, SchedulerInv
  <2>4. ASSUME NEW d \in Cpu, NEW e \in Cpu PROVE ServesOnce(d, e)'
    BY ZenonT(60) DEF SchedInv, CpuInv, ServesOnce
  <2> QED BY <2>1, <2>2, <2>3, <2>4, ZenonT(60) DEF CpuInv
<1>7. ProcInv'
  <2>1. ASSUME NEW r \in Proc PROVE OffInv(r)'
    BY ProcFacts, ZenonT(60) DEF OffInv
  <2>2. ASSUME NEW r \in Proc PROVE SleepInv(r)'
    BY ProcFacts, ZenonT(60) DEF SleepInv
  <2>3. ASSUME NEW d \in Cpu, NEW r \in Proc PROVE LockInv(d, r)'
    <3>1. LockInv(d, r) BY ProcFacts, ZenonT(60)
    <3> QED BY <3>1, ZenonT(60) DEF LockInv, Serves
  <2>4. ASSUME NEW d \in Cpu, NEW r \in Proc PROVE OnInv(d, r)'
    BY ProcFacts, ZenonT(60) DEF OnInv
  <2>5. ASSUME NEW d \in Cpu, NEW r \in Proc PROVE ThreadInv(d, r)'
    <3>1. ThreadInv(d, r) /\ IntrInv(d) /\ SleepInv(r) BY CpuFacts, ProcFacts, ZenonT(60)
    <3> QED BY <1>0, <1>2, <3>1, ZenonT(60) DEF pop_off, ThreadInv, IntrInv, SleepInv
  <2> QED BY <2>1, <2>2, <2>3, <2>4, <2>5, ZenonT(60) DEF ProcInv
<1>8. ASSUME NEW r \in Proc PROVE WakeInv(r)'
  <2>1. WakeInv(r) /\ SleepInv(r) /\ \A d \in Cpu : OnInv(d, r) BY ProcFacts, ZenonT(60)
  <2> QED BY <1>0, <1>2, <2>1, ZenonT(60) DEF WakeInv, Sleeps, Visits, SleepInv, OnInv
<1> QED BY <1>5, <1>6, <1>7, <1>8, ZenonT(60) DEF SchedInv, SleepersVisited

LEMMA intr_return_Step ==
  ASSUME SchedInv, NEW c \in Cpu, intr_return(c)
  PROVE  SchedInv'
<1> USE SchedConstants DEF intr_return, procVars, condVars, thrVars, cpuVars, offVars, intrVars
<1>t. TypeOK BY ZenonT(60) DEF SchedInv
<1>0. /\ sie \in [Cpu -> {0, 1}] /\ intr \in [Cpu -> HandlerLabel]
  BY <1>t, ZenonT(60) DEF TypeOK
<1>5. TypeOK'
  BY <1>t, ZenonT(60) DEF TypeOK, State, Label, SchedulerLabel, HandlerLabel
<1>6. CpuInv'
  <2>1. ASSUME NEW d \in Cpu PROVE ServesInv(d)'
    BY CpuFacts, ZenonT(60) DEF ServesInv, Serves
  <2>2. ASSUME NEW d \in Cpu PROVE IntrInv(d)'
    <3>1. IntrInv(d) BY CpuFacts, ZenonT(60)
    <3> QED BY <1>0, <3>1, ZenonT(60) DEF IntrInv
  <2>3. ASSUME NEW d \in Cpu PROVE SchedulerInv(d)'
    <3>1. IntrInv(d) /\ SchedulerInv(d) BY CpuFacts, ZenonT(60)
    <3> QED BY <1>0, <3>1, ZenonT(60) DEF IntrInv, SchedulerInv
  <2>4. ASSUME NEW d \in Cpu, NEW e \in Cpu PROVE ServesOnce(d, e)'
    BY ZenonT(60) DEF SchedInv, CpuInv, ServesOnce
  <2> QED BY <2>1, <2>2, <2>3, <2>4, ZenonT(60) DEF CpuInv
<1>7. ProcInv'
  <2>1. ASSUME NEW r \in Proc PROVE OffInv(r)'
    BY ProcFacts, ZenonT(60) DEF OffInv
  <2>2. ASSUME NEW r \in Proc PROVE SleepInv(r)'
    BY ProcFacts, ZenonT(60) DEF SleepInv
  <2>3. ASSUME NEW d \in Cpu, NEW r \in Proc PROVE LockInv(d, r)'
    <3>1. LockInv(d, r) BY ProcFacts, ZenonT(60)
    <3> QED BY <3>1, ZenonT(60) DEF LockInv, Serves
  <2>4. ASSUME NEW d \in Cpu, NEW r \in Proc PROVE OnInv(d, r)'
    BY ProcFacts, ZenonT(60) DEF OnInv
  <2>5. ASSUME NEW d \in Cpu, NEW r \in Proc PROVE ThreadInv(d, r)'
    <3>1. ThreadInv(d, r) /\ IntrInv(d) /\ SleepInv(r) BY CpuFacts, ProcFacts, ZenonT(60)
    <3> QED BY <1>0, <3>1, ZenonT(60) DEF ThreadInv, IntrInv, SleepInv
  <2> QED BY <2>1, <2>2, <2>3, <2>4, <2>5, ZenonT(60) DEF ProcInv
<1>8. ASSUME NEW r \in Proc PROVE WakeInv(r)'
  <2>1. WakeInv(r) /\ SleepInv(r) /\ \A d \in Cpu : OnInv(d, r) BY ProcFacts, ZenonT(60)
  <2> QED BY <1>0, <2>1, ZenonT(60) DEF WakeInv, Sleeps, Visits, SleepInv, OnInv
<1> QED BY <1>5, <1>6, <1>7, <1>8, ZenonT(60) DEF SchedInv, SleepersVisited
-----------------------------------------------------------------------------
LEMMA Init_Step == Init => SchedInv
<1> SUFFICES ASSUME Init PROVE SchedInv
  OBVIOUS
<1> USE SchedConstants DEF Init
<1>0. AnyChan \in Chan /\ 1 \in Proc
  BY DEF AnyChan, Proc
<1>1. TypeOK
  BY <1>0 DEF TypeOK, State, Label, SchedulerLabel, HandlerLabel
<1>2. CpuInv
  BY <1>0, ZenonT(60) DEF CpuInv, ServesInv, IntrInv, SchedulerInv, ServesOnce, Serves
<1>3. ASSUME NEW c \in Cpu, NEW p \in Proc PROVE LockInv(c, p) /\ OnInv(c, p) /\ ThreadInv(c, p)
  BY ZenonT(60) DEF LockInv, OnInv, ThreadInv, Serves, Locked
<1>4. ASSUME NEW p \in Proc PROVE OffInv(p) /\ SleepInv(p) /\ WakeInv(p)
  BY <1>0, ZenonT(60) DEF OffInv, SleepInv, WakeInv, Sleeps
<1> QED BY <1>1, <1>2, <1>3, <1>4, ZenonT(60) DEF SchedInv, ProcInv, SleepersVisited

LEMMA Next_Step == SchedInv /\ [Next]_vars => SchedInv'
<1> SUFFICES ASSUME SchedInv, [Next]_vars PROVE SchedInv'
  OBVIOUS
<1>1. ASSUME NEW c \in Cpu, SchedulerStep(c) PROVE SchedInv'
  BY <1>1, scheduler_intr_on_Step, scheduler_run_Step, scheduler_pass_Step, scheduler_back_Step, ZenonT(60)
  DEF SchedulerStep
<1>2. ASSUME NEW c \in Cpu, IntrStep(c) PROVE SchedInv'
  BY <1>2, intr_acquire_Step, intr_release_Step, intr_return_Step, ZenonT(60) DEF IntrStep
<1>3. ASSUME NEW c \in Cpu, NEW p \in Proc, ProcStep(c, p) PROVE SchedInv'
  BY <1>3, forkret_Step, usertrapret_Step, consume_Step, sleep_lock_Step, sleep_unlock_Step,
     sleep_Step, yield_Step, sched_Step, wake_Step, trapret_Step DEF ProcStep
<1>4. ASSUME UNCHANGED vars PROVE SchedInv'
  <2> USE <1>4 DEF vars
  <2>1. TypeOK' BY ZenonT(60) DEF SchedInv, TypeOK
  <2>2. CpuInv'
    BY ZenonT(60) DEF SchedInv, CpuInv, ServesInv, IntrInv, SchedulerInv, ServesOnce, Serves
  <2>3. ASSUME NEW c \in Cpu, NEW p \in Proc PROVE (LockInv(c, p) /\ OnInv(c, p) /\ ThreadInv(c, p))'
    BY ProcFacts DEF LockInv, OnInv, ThreadInv, Serves, Locked
  <2>4. ASSUME NEW p \in Proc PROVE (OffInv(p) /\ SleepInv(p) /\ WakeInv(p))'
    BY ProcFacts, ZenonT(60) DEF OffInv, SleepInv, WakeInv, Sleeps, Visits
  <2> QED BY <2>1, <2>2, <2>3, <2>4, ZenonT(60) DEF SchedInv, ProcInv, SleepersVisited
<1>5. ASSUME NEW c \in Cpu, NEW ch \in Chan, interrupt(c, ch) PROVE SchedInv'
  BY <1>5, interrupt_Step, ZenonT(60)
<1>6. ASSUME NEW c \in Cpu, NEW p \in Proc, NEW ch \in Chan, acquire_lk(c, p, ch) PROVE SchedInv'
  BY <1>6, acquire_lk_Step, ZenonT(60)
<1>7. ASSUME NEW c \in Cpu, NEW p \in Proc, NEW q \in Proc, kill(c, p, q) PROVE SchedInv'
  BY <1>7, kill_Step, ZenonT(60)
<1>8. ASSUME NEW c \in Cpu, NEW p \in Proc, wakeup(c, p) \/ timer(c, p) PROVE SchedInv'
  BY <1>8, wakeup_Step, timer_Step, ZenonT(60)
<1> QED BY <1>1, <1>2, <1>3, <1>4, <1>5, <1>6, <1>7, <1>8, ZenonT(60) DEF Next

-----------------------------------------------------------------------------
(* The scheduler keeps its invariant, for any number of CPUs, processes    *)
(* and channels.                                                           *)
THEOREM SchedInvariance == Spec => []SchedInv
BY Init_Step, Next_Step, PTL DEF Spec

(* No process is on two CPUs, a process whose lock is free and that has a  *)
(* CPU is RUNNING, and the four checks of sched() never panic.             *)
THEOREM OneCpuEach == Spec => []SwitchedOut
<1>1. SchedInv => SwitchedOut
  <2> SUFFICES ASSUME SchedInv PROVE SwitchedOut
    OBVIOUS
  <2>1. ASSUME NEW c \in Cpu, NEW d \in Cpu, on[c] = on[d], on[c] # NoProc PROVE c = d
    <3>1. on[c] \in Proc BY <2>1 DEF SchedInv, TypeOK
    <3> QED BY <2>1, <3>1, Alone
  <2>2. ASSUME NEW c \in Cpu, NEW p \in Proc, on[c] = p, plock[p] = NoCpu PROVE state[p] = "RUNNING"
    <3>1. OnInv(c, p) /\ LockInv(c, p) /\ Serves(c, p) BY <2>2, ProcFacts, Alone
    <3> QED BY <2>2, <3>1, SchedConstants DEF OnInv, LockInv, Locked
  <2>3. ASSUME NEW p \in Proc PROVE pc[p] # "panic"
    BY ProcFacts DEF SleepInv
  <2> QED BY <2>1, <2>2, <2>3 DEF SwitchedOut
<1> QED BY <1>1, SchedInvariance, PTL

(* A process sleeps on a channel whose condition holds only while some     *)
(* wakeup() of that channel has still to visit it.                         *)
THEOREM WakeupsArrive == Spec => []NoLostWakeup
<1>1. SchedInv => NoLostWakeup
  <2> SUFFICES ASSUME SchedInv, NEW p \in Proc, state[p] = "SLEEPING", cond[chan[p]] > 0
               PROVE  \E c \in Cpu : intr[c] = "wake" /\ hch[c] = chan[p] /\ p \in hscan[c]
    BY DEF NoLostWakeup
  <2>1. SleepInv(p) /\ WakeInv(p) BY ProcFacts
  <2> QED BY <2>1 DEF SleepInv, WakeInv, Sleeps, Visits
<1> QED BY <1>1, SchedInvariance, PTL

(* The interrupt flag follows the kernel thread from CPU to CPU.           *)
THEOREM IntrFollows == Spec => []IntrOfThread
<1>1. SchedInv => IntrOfThread
  <2> SUFFICES ASSUME SchedInv, NEW c \in Cpu, NEW p \in Proc
               PROVE  /\ Runs(c, p, "run") \/ Runs(c, p, "reacq") => sie[c] = 1
                      /\ Runs(c, p, "tret") => sie[c] = 0
    BY DEF IntrOfThread
  <2>1. ThreadInv(c, p) BY ProcFacts
  <2> QED BY <2>1 DEF ThreadInv, Runs
<1> QED BY <1>1, SchedInvariance, PTL
=============================================================================
