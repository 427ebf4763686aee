------------------------------- MODULE Sched -------------------------------
(***************************************************************************)
(* The scheduler of kernel/proc.c: scheduler(), sched(), yield(), sleep(), *)
(* wakeup() and the wakeup in kill(), on several CPUs, with the timer and  *)
(* device interrupts of kernel/trap.c.                                     *)
(*                                                                         *)
(* Processes wait in sleep() for something that a device interrupt makes   *)
(* true (cond, under a condition lock), as virtio_disk_rw(), consoleread() *)
(* and sys_sleep() do.  Spin locks are atomic here (module Spinlock); what *)
(* they do to noff, intena and SIE is kept, because sched() depends on it. *)
(***************************************************************************)
EXTENDS Integers

CONSTANTS
  Cpu, NoCpu,
  NPROC, NoProc,
  Chan,
  MAXCOND      \* bound: events of a channel that nobody has consumed yet

Proc == 1..NPROC

VARIABLES
  state, chan, plock,    \* p->state, p->chan, the CPU that holds p->lock
  clock, cond,           \* the condition lock of a channel and its condition
  pc, want, sint, yret,  \* process: label, channel, sched()'s intena, where yield() returns
  on,                    \* c->proc; NoProc while the CPU is in scheduler()
  spc, sp,               \* scheduler(): label, its loop variable p
  noff, intena, sie,     \* struct cpu, sstatus.SIE
  intr, hch, hscan       \* interrupt handler: label, channel, what wakeup() has to visit

procVars == <<state, chan, plock>>
condVars == <<clock, cond>>
thrVars  == <<pc, want, sint, yret>>
cpuVars  == <<on, spc, sp>>
offVars  == <<noff, intena, sie>>
intrVars == <<intr, hch, hscan>>
vars == <<state, chan, plock, clock, cond, pc, want, sint, yret, on, spc, sp,
          noff, intena, sie, intr, hch, hscan>>

AnyChan == CHOOSE ch \in Chan : TRUE
NoChan  == "none"

ASSUME SchedConstants ==
  /\ NoCpu \notin Cpu /\ NPROC \in Nat \ {0} /\ NoProc \notin Proc
  /\ Chan # {} /\ NoChan \notin Chan /\ MAXCOND \in Nat

(* Processes that fork() has made RUNNABLE, and CPUs that enter            *)
(* scheduler().                                                            *)
Init ==
  /\ state = [p \in Proc |-> "RUNNABLE"]
  /\ chan = [p \in Proc |-> NoChan]
  /\ plock = [p \in Proc |-> NoCpu]
  /\ clock = [ch \in Chan |-> NoCpu]
  /\ cond = [ch \in Chan |-> 0]
  /\ pc = [p \in Proc |-> "new"]
  /\ want = [p \in Proc |-> AnyChan]
  /\ sint = [p \in Proc |-> 0]
  /\ yret = [p \in Proc |-> "run"]
  /\ on = [c \in Cpu |-> NoProc]
  /\ spc = [c \in Cpu |-> "head"]
  /\ sp = [c \in Cpu |-> 1]
  /\ noff = [c \in Cpu |-> 0]
  /\ intena = [c \in Cpu |-> 0]
  /\ sie = [c \in Cpu |-> 0]
  /\ intr = [c \in Cpu |-> "no"]
  /\ hch = [c \in Cpu |-> AnyChan]
  /\ hscan = [c \in Cpu |-> {}]

(* What acquire() and release() do to the CPU.                             *)
push_off(c) ==
  /\ intena' = [intena EXCEPT ![c] = IF noff[c] = 0 THEN sie[c] ELSE @]
  /\ noff' = [noff EXCEPT ![c] = @ + 1]
  /\ sie' = [sie EXCEPT ![c] = 0]

pop_off(c, ena) ==
  /\ intena' = [intena EXCEPT ![c] = ena]
  /\ noff' = [noff EXCEPT ![c] = @ - 1]
  /\ sie' = [sie EXCEPT ![c] = IF noff[c] = 1 /\ ena = 1 THEN 1 ELSE @]

(* Process p runs on CPU c, and no interrupt is being handled there.       *)
Runs(c, p, l) == on[c] = p /\ intr[c] = "no" /\ pc[p] = l

InScheduler(c, l) == on[c] = NoProc /\ intr[c] = "no" /\ spc[c] = l

Goto(p, l) == pc' = [pc EXCEPT ![p] = l]

-----------------------------------------------------------------------------

(* The head of the scheduler's loop.  A CPU that found nothing waits for   *)
(* an interrupt (wfi); the timer always sends one.                         *)
scheduler_intr_on(c) ==
  /\ InScheduler(c, "head")
  /\ sie' = [sie EXCEPT ![c] = 1]
  /\ spc' = [spc EXCEPT ![c] = "scan"]
  /\ UNCHANGED <<procVars, condVars, thrVars, on, sp, noff, intena, intrVars>>

(* p++, and from the last process to the head of the loop.                 *)
Advance(c) ==
  /\ sp' = [sp EXCEPT ![c] = IF @ = NPROC THEN 1 ELSE @ + 1]
  /\ spc' = [spc EXCEPT ![c] = IF sp[c] = NPROC THEN "head" ELSE "scan"]

(* Mutant: the state is tested before the lock is taken.                   *)
scheduler_run_unlocked(c) ==
  /\ InScheduler(c, "scan")
  /\ state[sp[c]] = "RUNNABLE"
  /\ plock' = [plock EXCEPT ![sp[c]] = c]
  /\ push_off(c)
  /\ state' = [state EXCEPT ![sp[c]] = "RUNNING"]
  /\ on' = [on EXCEPT ![c] = sp[c]]
  /\ spc' = [spc EXCEPT ![c] = "back"]
  /\ UNCHANGED <<chan, condVars, thrVars, sp, intrVars>>

(* acquire(&p->lock), a RUNNABLE process, swtch() to its context.          *)
scheduler_run(c) ==
  /\ InScheduler(c, "scan")
  /\ plock[sp[c]] = NoCpu
  /\ state[sp[c]] = "RUNNABLE"
  /\ plock' = [plock EXCEPT ![sp[c]] = c]
  /\ push_off(c)
  /\ state' = [state EXCEPT ![sp[c]] = "RUNNING"]
  /\ on' = [on EXCEPT ![c] = sp[c]]
  /\ spc' = [spc EXCEPT ![c] = "back"]
  /\ UNCHANGED <<chan, condVars, thrVars, sp, intrVars>>

(* A process that is not RUNNABLE: acquire(&p->lock) and release().        *)
scheduler_pass(c) ==
  /\ InScheduler(c, "scan")
  /\ plock[sp[c]] = NoCpu
  /\ state[sp[c]] # "RUNNABLE"
  /\ intena' = [intena EXCEPT ![c] = sie[c]]
  /\ Advance(c)
  /\ UNCHANGED <<procVars, condVars, thrVars, on, noff, sie, intrVars>>

(* swtch() has returned: release(&p->lock), with the intena that the       *)
(* process left on this CPU.                                               *)
scheduler_back(c) ==
  /\ InScheduler(c, "back")
  /\ plock' = [plock EXCEPT ![sp[c]] = NoCpu]
  /\ pop_off(c, intena[c])
  /\ Advance(c)
  /\ UNCHANGED <<state, chan, condVars, thrVars, on, intrVars>>

-----------------------------------------------------------------------------
(* forkret(): release(&p->lock), then to user space, where interrupts are  *)
(* on.                                                                     *)
forkret(c, p) ==
  /\ Runs(c, p, "new")
  /\ plock' = [plock EXCEPT ![p] = NoCpu]
  /\ pop_off(c, intena[c])
  /\ Goto(p, "fret")
  /\ UNCHANGED <<state, chan, condVars, want, sint, yret, cpuVars, intrVars>>

usertrapret(c, p) ==
  /\ Runs(c, p, "fret")
  /\ sie' = [sie EXCEPT ![c] = 1]
  /\ Goto(p, "run")
  /\ UNCHANGED <<procVars, condVars, want, sint, yret, cpuVars, noff, intena, intrVars>>

(* A system call that waits for channel ch: acquire(lk).                   *)
acquire_lk(c, p, ch) ==
  /\ Runs(c, p, "run") \/ (Runs(c, p, "reacq") /\ ch = want[p])
  /\ clock[ch] = NoCpu
  /\ clock' = [clock EXCEPT ![ch] = c]
  /\ push_off(c)
  /\ want' = [want EXCEPT ![p] = ch]
  /\ Goto(p, "test")
  /\ UNCHANGED <<procVars, cond, sint, yret, cpuVars, intrVars>>

(* The condition holds: it is used up, release(lk).                        *)
consume(c, p) ==
  /\ Runs(c, p, "test")
  /\ cond[want[p]] > 0
  /\ cond' = [cond EXCEPT ![want[p]] = @ - 1]
  /\ clock' = [clock EXCEPT ![want[p]] = NoCpu]
  /\ pop_off(c, intena[c])
  /\ Goto(p, "run")
  /\ UNCHANGED <<procVars, want, sint, yret, cpuVars, intrVars>>

(* It does not: sleep(ch, lk) first acquires p->lock ...                   *)
sleep_lock(c, p) ==
  /\ Runs(c, p, "test")
  /\ cond[want[p]] = 0
  /\ plock[p] = NoCpu
  /\ plock' = [plock EXCEPT ![p] = c]
  /\ push_off(c)
  /\ Goto(p, "sleep")
  /\ UNCHANGED <<state, chan, condVars, want, sint, yret, cpuVars, intrVars>>

(* ... then releases lk ...                                                *)
sleep_unlock(c, p) ==
  /\ Runs(c, p, "sleep")
  /\ clock' = [clock EXCEPT ![want[p]] = NoCpu]
  /\ pop_off(c, intena[c])
  /\ Goto(p, "asleep")
  /\ UNCHANGED <<procVars, cond, want, sint, yret, cpuVars, intrVars>>

(* ... and only then goes to sleep.                                        *)
sleep(c, p) ==
  /\ Runs(c, p, "asleep")
  /\ chan' = [chan EXCEPT ![p] = want[p]]
  /\ state' = [state EXCEPT ![p] = "SLEEPING"]
  /\ Goto(p, "ssched")
  /\ UNCHANGED <<plock, condVars, want, sint, yret, cpuVars, offVars, intrVars>>

(* kerneltrap() with a timer interrupt: yield() takes p->lock.             *)
timer(c, p) ==
  /\ Runs(c, p, "run") \/ Runs(c, p, "reacq")
  /\ sie[c] = 1
  /\ state[p] = "RUNNING"
  /\ sie' = [sie EXCEPT ![c] = 0]
  /\ yret' = [yret EXCEPT ![p] = pc[p]]
  /\ Goto(p, "yield")
  /\ UNCHANGED <<procVars, condVars, want, sint, cpuVars, noff, intena, intrVars>>

(* Mutant: the timer does not take the CPU away.                           *)
yield_not(c, p) ==
  /\ Runs(c, p, "yield")
  /\ Goto(p, "tret")
  /\ UNCHANGED <<procVars, condVars, want, sint, yret, cpuVars, offVars, intrVars>>

yield(c, p) ==
  /\ Runs(c, p, "yield")
  /\ plock[p] = NoCpu
  /\ plock' = [plock EXCEPT ![p] = c]
  /\ push_off(c)
  /\ state' = [state EXCEPT ![p] = "RUNNABLE"]
  /\ Goto(p, "ysched")
  /\ UNCHANGED <<chan, condVars, want, sint, yret, cpuVars, intrVars>>

(* sched(): its four checks, then swtch() to this CPU's scheduler.         *)
sched(c, p) ==
  /\ Runs(c, p, "ssched") \/ Runs(c, p, "ysched")
  /\ IF plock[p] = c /\ noff[c] = 1 /\ state[p] # "RUNNING" /\ sie[c] = 0
     THEN /\ sint' = [sint EXCEPT ![p] = intena[c]]
          /\ on' = [on EXCEPT ![c] = NoProc]
          /\ Goto(p, IF pc[p] = "ssched" THEN "soff" ELSE "yoff")
     ELSE /\ Goto(p, "panic")
          /\ UNCHANGED <<sint, on>>
  /\ UNCHANGED <<procVars, condVars, want, yret, spc, sp, offVars, intrVars>>

(* Mutant: intena stays that of the CPU.                                   *)
wake_cpu_intena(c, p) ==
  /\ Runs(c, p, "soff") \/ Runs(c, p, "yoff")
  /\ chan' = [chan EXCEPT ![p] = IF pc[p] = "soff" THEN NoChan ELSE @]
  /\ plock' = [plock EXCEPT ![p] = NoCpu]
  /\ pop_off(c, intena[c])
  /\ Goto(p, IF pc[p] = "soff" THEN "reacq" ELSE "tret")
  /\ UNCHANGED <<state, condVars, want, sint, yret, cpuVars, intrVars>>

(* sched() returns, perhaps on another CPU: intena is the thread's again.  *)
(* sleep() then tidies up and goes for lk again; yield() returns to the    *)
(* trap handler.                                                           *)
wake(c, p) ==
  /\ Runs(c, p, "soff") \/ Runs(c, p, "yoff")
  /\ chan' = [chan EXCEPT ![p] = IF pc[p] = "soff" THEN NoChan ELSE @]
  /\ plock' = [plock EXCEPT ![p] = NoCpu]
  /\ pop_off(c, sint[p])
  /\ Goto(p, IF pc[p] = "soff" THEN "reacq" ELSE "tret")
  /\ UNCHANGED <<state, condVars, want, sint, yret, cpuVars, intrVars>>

(* kerneltrap() returns to what the timer interrupted.                     *)
trapret(c, p) ==
  /\ Runs(c, p, "tret")
  /\ sie' = [sie EXCEPT ![c] = 1]
  /\ Goto(p, yret[p])
  /\ UNCHANGED <<procVars, condVars, want, sint, yret, cpuVars, noff, intena, intrVars>>

(* kill(): a process wakes another one that sleeps.                        *)
kill(c, p, q) ==
  /\ Runs(c, p, "run")
  /\ plock[q] = NoCpu
  /\ state[q] = "SLEEPING"
  /\ state' = [state EXCEPT ![q] = "RUNNABLE"]
  /\ UNCHANGED <<chan, plock, condVars, thrVars, cpuVars, offVars, intrVars>>

-----------------------------------------------------------------------------
(* A device interrupt, in a process or in the scheduler.                   *)
interrupt(c, ch) ==
  /\ sie[c] = 1 /\ intr[c] = "no"
  /\ cond[ch] < MAXCOND
  /\ sie' = [sie EXCEPT ![c] = 0]
  /\ intr' = [intr EXCEPT ![c] = "enter"]
  /\ hch' = [hch EXCEPT ![c] = ch]
  /\ UNCHANGED <<procVars, condVars, thrVars, cpuVars, noff, intena, hscan>>

intr_acquire(c) ==
  /\ intr[c] = "enter"
  /\ clock[hch[c]] = NoCpu
  /\ clock' = [clock EXCEPT ![hch[c]] = c]
  /\ push_off(c)
  /\ cond' = [cond EXCEPT ![hch[c]] = @ + 1]
  /\ intr' = [intr EXCEPT ![c] = "wake"]
  /\ hscan' = [hscan EXCEPT ![c] = Proc]
  /\ UNCHANGED <<procVars, thrVars, cpuVars, hch>>

(* Mutant: wakeup() does not wait for p->lock.                             *)
wakeup_unlocked(c, q) ==
  /\ intr[c] = "wake"
  /\ q \in hscan[c]
  /\ state' = [state EXCEPT ![q] = IF @ = "SLEEPING" /\ chan[q] = hch[c] THEN "RUNNABLE" ELSE @]
  /\ hscan' = [hscan EXCEPT ![c] = @ \ {q}]
  /\ UNCHANGED <<chan, plock, condVars, thrVars, cpuVars, offVars, intr, hch>>

(* One round of wakeup(): acquire(&q->lock), test, release.                *)
wakeup(c, q) ==
  /\ intr[c] = "wake"
  /\ q \in hscan[c]
  /\ plock[q] = NoCpu
  /\ state' = [state EXCEPT ![q] = IF @ = "SLEEPING" /\ chan[q] = hch[c] THEN "RUNNABLE" ELSE @]
  /\ hscan' = [hscan EXCEPT ![c] = @ \ {q}]
  /\ UNCHANGED <<chan, plock, condVars, thrVars, cpuVars, offVars, intr, hch>>

intr_release(c) ==
  /\ intr[c] = "wake"
  /\ hscan[c] = {}
  /\ clock' = [clock EXCEPT ![hch[c]] = NoCpu]
  /\ pop_off(c, intena[c])
  /\ intr' = [intr EXCEPT ![c] = "leave"]
  /\ UNCHANGED <<procVars, cond, thrVars, cpuVars, hch, hscan>>

intr_return(c) ==
  /\ intr[c] = "leave"
  /\ sie' = [sie EXCEPT ![c] = 1]
  /\ intr' = [intr EXCEPT ![c] = "no"]
  /\ UNCHANGED <<procVars, condVars, thrVars, cpuVars, noff, intena, hch, hscan>>

-----------------------------------------------------------------------------
SchedulerStep(c) ==
  scheduler_intr_on(c) \/ scheduler_run(c) \/ scheduler_pass(c) \/ scheduler_back(c)

ProcStep(c, p) ==
  \/ forkret(c, p) \/ usertrapret(c, p) \/ consume(c, p)
  \/ sleep_lock(c, p) \/ sleep_unlock(c, p) \/ sleep(c, p) \/ yield(c, p) \/ sched(c, p)
  \/ wake(c, p) \/ trapret(c, p)

IntrStep(c) == intr_acquire(c) \/ intr_release(c) \/ intr_return(c)

Next ==
  \/ \E c \in Cpu : SchedulerStep(c) \/ IntrStep(c)
  \/ \E c \in Cpu, ch \in Chan : interrupt(c, ch)
  \/ \E c \in Cpu, p \in Proc :
       \/ wakeup(c, p) \/ ProcStep(c, p) \/ timer(c, p)
       \/ \E ch \in Chan : acquire_lk(c, p, ch)
       \/ \E q \in Proc : kill(c, p, q)

Spec == Init /\ [][Next]_vars

(* Everything CPU c is in the middle of.                                   *)
CpuStep(c) ==
  \/ SchedulerStep(c) \/ IntrStep(c)
  \/ \E p \in Proc :
       \/ wakeup(c, p) \/ ProcStep(c, p)
       \/ Runs(c, p, "reacq") /\ acquire_lk(c, p, want[p])

(* A CPU goes on, and gets a lock that keeps becoming free; a timer        *)
(* interrupt stays pending until it is taken.                              *)
Fairness ==
  \A c \in Cpu : SF_vars(CpuStep(c)) /\ SF_vars(\E p \in Proc : timer(c, p))

FairSpec == Spec /\ Fairness

-----------------------------------------------------------------------------
State == {"RUNNABLE", "RUNNING", "SLEEPING"}
Label == {"new", "fret", "run", "test", "sleep", "asleep", "ssched", "soff", "reacq",
          "yield", "ysched", "yoff", "tret", "panic"}
SchedulerLabel == {"head", "scan", "back"}
HandlerLabel == {"no", "enter", "wake", "leave"}

TypeOK ==
  /\ state \in [Proc -> State]
  /\ chan \in [Proc -> Chan \union {NoChan}]
  /\ plock \in [Proc -> Cpu \union {NoCpu}]
  /\ clock \in [Chan -> Cpu \union {NoCpu}]
  /\ cond \in [Chan -> Nat]
  /\ pc \in [Proc -> Label]
  /\ want \in [Proc -> Chan]
  /\ sint \in [Proc -> {0, 1}]
  /\ yret \in [Proc -> {"run", "reacq"}]
  /\ on \in [Cpu -> Proc \union {NoProc}]
  /\ spc \in [Cpu -> SchedulerLabel]
  /\ sp \in [Cpu -> Proc]
  /\ noff \in [Cpu -> Int]
  /\ intena \in [Cpu -> {0, 1}]
  /\ sie \in [Cpu -> {0, 1}]
  /\ intr \in [Cpu -> HandlerLabel]
  /\ hch \in [Cpu -> Chan]
  /\ hscan \in [Cpu -> SUBSET Proc]

(* A process never runs on two CPUs, and no CPU can pick it up before the  *)
(* CPU it leaves has switched to its scheduler and saved its registers.    *)
(* The checks of sched() hold: p->lock, no other lock, not RUNNING,        *)
(* interrupts off.                                                         *)
SwitchedOut ==
  /\ \A c, d \in Cpu : on[c] = on[d] /\ on[c] # NoProc => c = d
  /\ \A p \in Proc, c \in Cpu : on[c] = p /\ plock[p] = NoCpu => state[p] = "RUNNING"
  /\ \A p \in Proc : pc[p] # "panic"

(* "Once we hold p->lock, we can be guaranteed that we won't miss any      *)
(* wakeup": a process sleeps on a channel whose condition holds only while *)
(* a wakeup() of that channel has still to visit it.                       *)
NoLostWakeup ==
  \A p \in Proc : state[p] = "SLEEPING" /\ cond[chan[p]] > 0 =>
    \E c \in Cpu : intr[c] = "wake" /\ hch[c] = chan[p] /\ p \in hscan[c]

(* "intena is a property of this kernel thread, not this CPU": whatever    *)
(* CPUs a process has been on, its code finds interrupts on, and a trap    *)
(* handler that yielded finds them off.                                    *)
IntrOfThread ==
  \A c \in Cpu, p \in Proc :
    /\ Runs(c, p, "run") \/ Runs(c, p, "reacq") => sie[c] = 1
    /\ Runs(c, p, "tret") => sie[c] = 0

(* Every RUNNABLE process gets to run.                                     *)
RunnableRuns == \A p \in Proc : state[p] = "RUNNABLE" ~> state[p] = "RUNNING"
=============================================================================
