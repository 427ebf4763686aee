------------------------------ MODULE Spinlock ------------------------------
(***************************************************************************)
(* kernel/spinlock.c: spin locks, and the push_off()/pop_off() counting    *)
(* that keeps interrupts off while a CPU holds one.                        *)
(*                                                                         *)
(* Every CPU runs a kernel thread that takes and releases locks, and on    *)
(* top of it, whenever sstatus.SIE lets it in, an interrupt handler that   *)
(* does the same.  The steps are the reads and writes of the code that     *)
(* another CPU or an interrupt can see between.                            *)
(***************************************************************************)
EXTENDS Integers, FiniteSets

CONSTANTS
  Cpu,
  NoCpu,       \* lk->cpu = 0
  NLOCK

(* The locks, numbered in the order in which the kernel nests them.        *)
Lock == 1..NLOCK

ASSUME SpinConstants == NoCpu \notin Cpu /\ NLOCK \in Nat \ {0}

VARIABLES
  locked, lkcpu,        \* lk->locked, lk->cpu
  noff, intena,         \* fields of struct cpu
  sie,                  \* sstatus.SIE of each CPU
  pc, lk, old,          \* running code: its label, its lock, push_off()'s old
  intr, spc, slk, sold, \* an interrupt is being handled; the code it interrupted
  held,                 \* locks from the swap that took them to the one that frees them
  base                  \* the locks held when the interrupt came

lockVars == <<locked, lkcpu>>
offVars  == <<noff, intena, sie>>
intrVars == <<intr, spc, slk, sold, base>>
vars     == <<locked, lkcpu, noff, intena, sie, pc, lk, old, intr, spc, slk, sold, held, base>>

Label == {"run", "off", "push", "check", "cpu", "swap", "mark", "unlock", "pop", "panic"}

Init ==
  /\ locked = [l \in Lock |-> 0]
  /\ lkcpu = [l \in Lock |-> NoCpu]
  /\ noff = [c \in Cpu |-> 0]
  /\ intena = [c \in Cpu |-> 0]
  /\ sie = [c \in Cpu |-> 1]
  /\ pc = [c \in Cpu |-> "run"]
  /\ lk = [c \in Cpu |-> 1]
  /\ old = [c \in Cpu |-> 0]
  /\ intr = [c \in Cpu |-> 0]
  /\ spc = [c \in Cpu |-> "run"]
  /\ slk = [c \in Cpu |-> 1]
  /\ sold = [c \in Cpu |-> 0]
  /\ held = [c \in Cpu |-> {}]
  /\ base = [c \in Cpu |-> {}]

Goto(c, l) == pc' = [pc EXCEPT ![c] = l]

-----------------------------------------------------------------------------
(* acquire() of a lock above the ones the running code holds; the first    *)
(* thing push_off() does is read whether interrupts are on.                *)
acquire(c, l) ==
  /\ pc[c] = "run"
  /\ \A m \in held[c] : m < l
  /\ lk' = [lk EXCEPT ![c] = l]
  /\ old' = [old EXCEPT ![c] = sie[c]]
  /\ Goto(c, "off")
  /\ UNCHANGED <<lockVars, offVars, intrVars, held>>

intr_off(c) ==
  /\ pc[c] = "off"
  /\ sie' = [sie EXCEPT ![c] = 0]
  /\ Goto(c, "push")
  /\ UNCHANGED <<lockVars, noff, intena, lk, old, intrVars, held>>

(* Mutant: intena is what SIE is now, not what it was.                     *)
push_off_late(c) ==
  /\ pc[c] = "push"
  /\ intena' = [intena EXCEPT ![c] = IF noff[c] = 0 THEN sie[c] ELSE @]
  /\ noff' = [noff EXCEPT ![c] = @ + 1]
  /\ Goto(c, "check")
  /\ UNCHANGED <<lockVars, sie, lk, old, intrVars, held>>

push_off(c) ==
  /\ pc[c] = "push"
  /\ intena' = [intena EXCEPT ![c] = IF noff[c] = 0 THEN old[c] ELSE @]
  /\ noff' = [noff EXCEPT ![c] = @ + 1]
  /\ Goto(c, "check")
  /\ UNCHANGED <<lockVars, sie, lk, old, intrVars, held>>

(* if(holding(lk)) panic("acquire"): lk->locked is read first, then        *)
(* lk->cpu, while other CPUs take and release the lock.                    *)
holding_locked(c) ==
  /\ pc[c] = "check"
  /\ Goto(c, IF locked[lk[c]] = 1 THEN "cpu" ELSE "swap")
  /\ UNCHANGED <<lockVars, offVars, lk, old, intrVars, held>>

holding_cpu(c) ==
  /\ pc[c] = "cpu"
  /\ Goto(c, IF lkcpu[lk[c]] = c THEN "panic" ELSE "swap")
  /\ UNCHANGED <<lockVars, offVars, lk, old, intrVars, held>>

(* Mutant: the lock is read and written in two instructions.               *)
test_and_set_torn(c) ==
  /\ pc[c] = "swap"
  /\ locked[lk[c]] = 0 \/ \E d \in Cpu : lk[d] = lk[c] /\ pc[d] = "mark"
  /\ locked' = [locked EXCEPT ![lk[c]] = 1]
  /\ held' = [held EXCEPT ![c] = @ \union {lk[c]}]
  /\ Goto(c, "mark")
  /\ UNCHANGED <<lkcpu, offVars, lk, old, intrVars>>

(* The swap that ends the spinning.                                        *)
test_and_set(c) ==
  /\ pc[c] = "swap"
  /\ locked[lk[c]] = 0
  /\ locked' = [locked EXCEPT ![lk[c]] = 1]
  /\ held' = [held EXCEPT ![c] = @ \union {lk[c]}]
  /\ Goto(c, "mark")
  /\ UNCHANGED <<lkcpu, offVars, lk, old, intrVars>>

set_cpu(c) ==
  /\ pc[c] = "mark"
  /\ lkcpu' = [lkcpu EXCEPT ![lk[c]] = c]
  /\ Goto(c, "run")
  /\ UNCHANGED <<locked, offVars, lk, old, intrVars, held>>

-----------------------------------------------------------------------------

(* release() of any lock the running code took: the check, which reads     *)
(* what only the holder writes, and lk->cpu = 0.                           *)
release(c, l) ==
  /\ pc[c] = "run"
  /\ l \in held[c] \ base[c]
  /\ lk' = [lk EXCEPT ![c] = l]
  /\ Goto(c, IF locked[l] = 1 /\ lkcpu[l] = c THEN "unlock" ELSE "panic")
  /\ lkcpu' = IF locked[l] = 1 /\ lkcpu[l] = c THEN [lkcpu EXCEPT ![l] = NoCpu] ELSE lkcpu
  /\ UNCHANGED <<locked, offVars, old, intrVars, held>>

lock_release(c) ==
  /\ pc[c] = "unlock"
  /\ locked' = [locked EXCEPT ![lk[c]] = 0]
  /\ held' = [held EXCEPT ![c] = @ \ {lk[c]}]
  /\ Goto(c, "pop")
  /\ UNCHANGED <<lkcpu, offVars, lk, old, intrVars>>

(* The checks of pop_off() are on what only this CPU changes.              *)
pop_off(c) ==
  LET ok == sie[c] = 0 /\ noff[c] >= 1 IN
  /\ pc[c] = "pop"
  /\ Goto(c, IF ok THEN "run" ELSE "panic")
  /\ noff' = [noff EXCEPT ![c] = IF ok THEN @ - 1 ELSE @]
  /\ sie' = [sie EXCEPT ![c] = IF ok /\ noff[c] = 1 /\ intena[c] = 1 THEN 1 ELSE @]
  /\ UNCHANGED <<lockVars, intena, lk, old, intrVars, held>>

-----------------------------------------------------------------------------
(* The hardware: a trap clears SIE, sret sets it again.  kerneltrap() runs *)
(* a handler that takes locks and returns when it holds none of its own.   *)
interrupt(c) ==
  /\ sie[c] = 1 /\ pc[c] # "panic"
  /\ sie' = [sie EXCEPT ![c] = 0]
  /\ intr' = [intr EXCEPT ![c] = @ + 1]
  /\ spc' = [spc EXCEPT ![c] = pc[c]]
  /\ slk' = [slk EXCEPT ![c] = lk[c]]
  /\ sold' = [sold EXCEPT ![c] = old[c]]
  /\ base' = [base EXCEPT ![c] = held[c]]
  /\ Goto(c, "run")
  /\ UNCHANGED <<lockVars, noff, intena, lk, old, held>>

sret(c) ==
  /\ pc[c] = "run"
  /\ intr[c] > 0
  /\ held[c] = base[c]
  /\ sie' = [sie EXCEPT ![c] = 1]
  /\ intr' = [intr EXCEPT ![c] = @ - 1]
  /\ pc' = [pc EXCEPT ![c] = spc[c]]
  /\ lk' = [lk EXCEPT ![c] = slk[c]]
  /\ old' = [old EXCEPT ![c] = sold[c]]
  /\ base' = [base EXCEPT ![c] = {}]
  /\ UNCHANGED <<lockVars, noff, intena, spc, slk, sold, held>>

-----------------------------------------------------------------------------
Next ==
  \/ \E c \in Cpu, l \in Lock : acquire(c, l) \/ release(c, l)
  \/ \E c \in Cpu :
       \/ intr_off(c) \/ push_off(c) \/ holding_locked(c) \/ holding_cpu(c)
       \/ test_and_set(c) \/ set_cpu(c) \/ lock_release(c) \/ pop_off(c)
       \/ interrupt(c) \/ sret(c)

Spec == Init /\ [][Next]_vars

-----------------------------------------------------------------------------
(* At most one interrupt is being handled on a CPU: handlers do not nest.  *)
TypeOK ==
  /\ locked \in [Lock -> {0, 1}]
  /\ lkcpu \in [Lock -> Cpu \union {NoCpu}]
  /\ noff \in [Cpu -> Nat]
  /\ intena \in [Cpu -> {0, 1}]
  /\ sie \in [Cpu -> {0, 1}]
  /\ pc \in [Cpu -> Label]
  /\ lk \in [Cpu -> Lock]
  /\ old \in [Cpu -> {0, 1}]
  /\ intr \in [Cpu -> {0, 1}]
  /\ spc \in [Cpu -> Label]
  /\ slk \in [Cpu -> Lock]
  /\ sold \in [Cpu -> {0, 1}]
  /\ held \in [Cpu -> SUBSET Lock]
  /\ base \in [Cpu -> SUBSET Lock]

(* A lock has one holder, whatever interleaving of acquire() and release().*)
MutualExclusion == \A c, d \in Cpu : c # d => held[c] \intersect held[d] = {}

(* "disable interrupts to avoid deadlock": no interrupt can come in while  *)
(* the CPU holds a lock its handler might want.                            *)
HeldOff == \A c \in Cpu : held[c] # {} => sie[c] = 0

(* holding() cannot be fooled by the lock changing hands between its two   *)
(* reads: lk->cpu names a CPU only while that CPU holds the lock.          *)
NotFooled == \A l \in Lock : \A c \in Cpu : lkcpu[l] = c => l \in held[c]

(* No panic of acquire(), release() or pop_off() is reachable by code that *)
(* takes locks in order.                                                   *)
NoPanic == \A c \in Cpu : pc[c] # "panic"

(* "if interrupts are initially off, then push_off, pop_off leaves them    *)
(* off": interrupts are off as long as a lock is held; code that holds     *)
(* none has them on in the thread and off in the handler, also when the    *)
(* interrupt came in the middle of push_off.                               *)
IntrRestored ==
  /\ HeldOff
  /\ \A c \in Cpu : pc[c] = "run" /\ held[c] = {} => sie[c] = 1 - intr[c]
=============================================================================
