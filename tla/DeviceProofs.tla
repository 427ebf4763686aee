---------------------------- MODULE DeviceProofs ----------------------------
(***************************************************************************)
(* Proofs about what keeps processes and interrupts apart, and about who   *)
(* waits for a device: spin locks, for any CPUs and locks, and sleep       *)
(* locks, for any processes.  Each keeps its own variables and Spec.       *)
(***************************************************************************)
EXTENDS Spinlock, SleepIO, TLAPS

(* Leaves go to the SMT solver, unless they name another prover.           *)
USE SMTT(60)

-----------------------------------------------------------------------------
(* Spin locks.                                                             *)

(* push_off() done for a lock that is not taken yet, or not popped yet.    *)
Extra(c) == IF pc[c] \in {"check", "cpu", "swap", "pop"} THEN 1 ELSE 0

(* noff counts the locks the CPU holds.                                    *)
Counts == \A c \in Cpu : noff[c] = Cardinality(held[c]) + Extra(c)

(* Interrupts are on only in a thread that is outside of any lock.         *)
OnlyOutside ==
  \A c \in Cpu : sie[c] = 1 =>
    held[c] = {} /\ noff[c] = 0 /\ intr[c] = 0 /\ pc[c] \in {"run", "off"}

(* What pop_off() will restore is the state outside of all locks, and      *)
(* outside of all locks that is the state.                                 *)
Restores ==
  \A c \in Cpu :
    /\ noff[c] # 0 => intena[c] = 1 - intr[c]
    /\ noff[c] = 0 /\ pc[c] \in {"run", "off"} => sie[c] = 1 - intr[c]
    /\ noff[c] = 0 /\ pc[c] \in {"off", "push"} => old[c] = 1 - intr[c]

(* An interrupt came outside of any lock, perhaps inside push_off().       *)
Interrupted ==
  \A c \in Cpu :
    /\ base[c] = {}
    /\ intr[c] = 1 => spc[c] \in {"run", "off"} /\ (spc[c] = "off" => sold[c] = 1)

(* Code that takes a lock is above the locks it holds.                     *)
Nested ==
  \A c \in Cpu : pc[c] \in {"off", "push", "check", "cpu", "swap"} =>
    \A m \in held[c] : m < lk[c]

(* The lock words say who holds what, but for the CPU in the middle of     *)
(* acquire() or release().                                                 *)
Words ==
  \A c \in Cpu :
    /\ \A l \in held[c] : locked[l] = 1
    /\ \A l \in held[c] : ~(lk[c] = l /\ pc[c] \in {"mark", "unlock"}) => lkcpu[l] = c
    /\ pc[c] \in {"mark", "unlock"} => lk[c] \in held[c]
    /\ pc[c] = "unlock" => lkcpu[lk[c]] # c

SpinInvariant ==
  /\ TypeOK /\ MutualExclusion /\ NotFooled /\ NoPanic
  /\ Counts /\ OnlyOutside /\ Restores /\ Interrupted /\ Nested /\ Words

(* How the locks that a CPU holds are counted.                             *)
CountFacts ==
  /\ \A T \in SUBSET Lock : Cardinality(T) \in Nat /\ (Cardinality(T) = 0 <=> T = {})
  /\ \A T \in SUBSET Lock : \A l \in Lock :
       /\ l \notin T => Cardinality(T \union {l}) = Cardinality(T) + 1
       /\ l \in T => Cardinality(T \ {l}) = Cardinality(T) - 1

(* Every step preserves the types; interrupts do not nest.                 *)
LEMMA TypeStep == SpinInvariant /\ [Next]_vars => TypeOK'
<1> SUFFICES ASSUME SpinInvariant, [Next]_vars PROVE TypeOK'
  BY Zenon
<1> USE DEF TypeOK, Label
<1>t. TypeOK /\ OnlyOutside /\ Interrupted /\ (\A c \in Cpu : noff[c] \in Nat)
  BY Zenon DEF SpinInvariant
<1>1. ASSUME NEW c \in Cpu, NEW l \in Lock, acquire(c, l) PROVE TypeOK'
  BY <1>1, <1>t, Zenon DEF acquire, Goto, lockVars, offVars, intrVars
<1>2. ASSUME NEW c \in Cpu, intr_off(c) PROVE TypeOK'
  BY <1>2, <1>t, Zenon DEF intr_off, Goto, lockVars, intrVars
<1>3. ASSUME NEW c \in Cpu, push_off(c) PROVE TypeOK'
  BY <1>3, <1>t DEF push_off, Goto, lockVars, intrVars
<1>4. ASSUME NEW c \in Cpu, holding_locked(c) PROVE TypeOK'
  BY <1>4, <1>t, Zenon DEF holding_locked, Goto, lockVars, offVars, intrVars
<1>5. ASSUME NEW c \in Cpu, holding_cpu(c) PROVE TypeOK'
  BY <1>5, <1>t, Zenon DEF holding_cpu, Goto, lockVars, offVars, intrVars
<1>6. ASSUME NEW c \in Cpu, test_and_set(c) PROVE TypeOK'
  BY <1>6, <1>t DEF test_and_set, Goto, offVars, intrVars
<1>7. ASSUME NEW c \in Cpu, set_cpu(c) PROVE TypeOK'
  BY <1>7, <1>t, Zenon DEF set_cpu, Goto, offVars, intrVars
<1>8. ASSUME NEW c \in Cpu, NEW l \in Lock, release(c, l) PROVE TypeOK'
  BY <1>8, <1>t, Zenon DEF release, Goto, offVars, intrVars
<1>9. ASSUME NEW c \in Cpu, lock_release(c) PROVE TypeOK'
  BY <1>9, <1>t, Zenon DEF lock_release, Goto, offVars, intrVars
<1>10. ASSUME NEW c \in Cpu, pop_off(c) PROVE TypeOK'
  <2>1. /\ pc'[c] \in Label /\ noff'[c] \in Nat /\ sie'[c] \in {0, 1}
        /\ pc' = [pc EXCEPT ![c] = pc'[c]]
        /\ noff' = [noff EXCEPT ![c] = noff'[c]]
        /\ sie' = [sie EXCEPT ![c] = sie'[c]]
    BY <1>10, <1>t DEF pop_off, Goto
  <2> QED  BY <1>10, <1>t, <2>1 DEF pop_off, lockVars, intrVars
<1>11. ASSUME NEW c \in Cpu, interrupt(c) PROVE TypeOK'
  <2>1. intr[c] = 0
    BY <1>11, <1>t, Zenon DEF interrupt, OnlyOutside
  <2> QED  BY <1>11, <1>t, <2>1 DEF interrupt, Goto, lockVars
<1>12. ASSUME NEW c \in Cpu, sret(c) PROVE TypeOK'
  <2>1. intr[c] = 1
    BY <1>12, <1>t DEF sret
  <2> QED  BY <1>12, <1>t, <2>1 DEF sret, lockVars
<1>13. ASSUME UNCHANGED vars PROVE TypeOK'
  BY <1>13, <1>t, Zenon DEF vars
<1> QED
  BY <1>1, <1>2, <1>3, <1>4, <1>5, <1>6, <1>7, <1>8, <1>9, <1>10, <1>11, <1>12, <1>13, Zenon DEF Next

(* Every step keeps the lock words in line with who holds what.            *)
LEMMA WordsStep == SpinInvariant /\ [Next]_vars => (MutualExclusion /\ NotFooled /\ Nested /\ Words)'
<1> SUFFICES ASSUME SpinInvariant, [Next]_vars PROVE (MutualExclusion /\ NotFooled /\ Nested /\ Words)'
  BY Zenon
<1> USE DEF TypeOK
<1>t. TypeOK /\ MutualExclusion /\ NotFooled /\ Nested /\ Words /\ Interrupted
  BY Zenon DEF SpinInvariant
<1>o. OnlyOutside
  BY Zenon DEF SpinInvariant
<1>1. ASSUME NEW c \in Cpu, NEW l \in Lock, acquire(c, l) PROVE (MutualExclusion /\ NotFooled /\ Nested /\ Words)'
  BY <1>1, <1>t DEF acquire, Goto, lockVars, offVars, intrVars, MutualExclusion, NotFooled, Nested, Words
<1>2. ASSUME NEW c \in Cpu, intr_off(c) PROVE (MutualExclusion /\ NotFooled /\ Nested /\ Words)'
  BY <1>2, <1>t DEF intr_off, Goto, lockVars, intrVars, MutualExclusion, NotFooled, Nested, Words
<1>3. ASSUME NEW c \in Cpu, push_off(c) PROVE (MutualExclusion /\ NotFooled /\ Nested /\ Words)'
  BY <1>3, <1>t DEF push_off, Goto, lockVars, intrVars, MutualExclusion, NotFooled, Nested, Words
<1>4. ASSUME NEW c \in Cpu, holding_locked(c) PROVE (MutualExclusion /\ NotFooled /\ Nested /\ Words)'
  BY <1>4, <1>t DEF holding_locked, Goto, lockVars, offVars, intrVars, MutualExclusion, NotFooled, Nested, Words
<1>5. ASSUME NEW c \in Cpu, holding_cpu(c) PROVE (MutualExclusion /\ NotFooled /\ Nested /\ Words)'
  BY <1>5, <1>t DEF holding_cpu, Goto, lockVars, offVars, intrVars, MutualExclusion, NotFooled, Nested, Words
<1>6. ASSUME NEW c \in Cpu, test_and_set(c) PROVE (MutualExclusion /\ NotFooled /\ Nested /\ Words)'
  BY <1>6, <1>t DEF test_and_set, Goto, offVars, intrVars, MutualExclusion, NotFooled, Nested, Words
<1>7. ASSUME NEW c \in Cpu, set_cpu(c) PROVE (MutualExclusion /\ NotFooled /\ Nested /\ Words)'
  BY <1>7, <1>t, SpinConstants DEF set_cpu, Goto, offVars, intrVars, MutualExclusion, NotFooled, Nested, Words
<1>8. ASSUME NEW c \in Cpu, NEW l \in Lock, release(c, l) PROVE (MutualExclusion /\ NotFooled /\ Nested /\ Words)'
  BY <1>8, <1>t, SpinConstants DEF release, Goto, offVars, intrVars, MutualExclusion, NotFooled, Nested, Words
<1>9. ASSUME NEW c \in Cpu, lock_release(c) PROVE (MutualExclusion /\ NotFooled /\ Nested /\ Words)'
  BY <1>9, <1>t DEF lock_release, Goto, offVars, intrVars, MutualExclusion, NotFooled, Nested, Words
<1>10. ASSUME NEW c \in Cpu, pop_off(c) PROVE (MutualExclusion /\ NotFooled /\ Nested /\ Words)'
  BY <1>10, <1>t DEF pop_off, Goto, lockVars, intrVars, MutualExclusion, NotFooled, Nested, Words
<1>11. ASSUME NEW c \in Cpu, interrupt(c) PROVE (MutualExclusion /\ NotFooled /\ Nested /\ Words)'
  <2>1. held[c] = {} /\ pc[c] \in {"run", "off"}
    BY <1>11, <1>o, Zenon DEF interrupt, OnlyOutside
  <2> QED  BY <1>11, <1>t, <2>1 DEF interrupt, Goto, lockVars, MutualExclusion, NotFooled, Nested, Words
<1>12. ASSUME NEW c \in Cpu, sret(c) PROVE (MutualExclusion /\ NotFooled /\ Nested /\ Words)'
  BY <1>12, <1>t DEF sret, lockVars, MutualExclusion, NotFooled, Nested, Words, Interrupted
<1>13. ASSUME UNCHANGED vars PROVE (MutualExclusion /\ NotFooled /\ Nested /\ Words)'
  BY <1>13, <1>t, Zenon DEF vars, MutualExclusion, NotFooled, Nested, Words
<1> QED
  BY <1>1, <1>2, <1>3, <1>4, <1>5, <1>6, <1>7, <1>8, <1>9, <1>10, <1>11, <1>12, <1>13, Zenon DEF Next

(* The checks of acquire(), release() and pop_off() pass.                  *)
LEMMA NoPanicStep == CountFacts /\ SpinInvariant /\ [Next]_vars => NoPanic'
<1> SUFFICES ASSUME CountFacts, SpinInvariant, [Next]_vars PROVE NoPanic'
  BY Zenon
<1> USE DEF TypeOK
<1>t. TypeOK /\ NoPanic /\ NotFooled /\ OnlyOutside /\ Counts /\ Nested /\ Words /\ Interrupted
  BY Zenon DEF SpinInvariant
<1>f. \A d \in Cpu : held[d] \in SUBSET Lock /\ Cardinality(held[d]) \in Nat
  BY <1>t, Zenon DEF CountFacts
<1>1. ASSUME NEW c \in Cpu, NEW l \in Lock, acquire(c, l) PROVE NoPanic'
  BY <1>1, <1>t, Zenon DEF acquire, Goto, lockVars, offVars, intrVars, NoPanic
<1>2. ASSUME NEW c \in Cpu, intr_off(c) PROVE NoPanic'
  BY <1>2, <1>t, Zenon DEF intr_off, Goto, lockVars, intrVars, NoPanic
<1>3. ASSUME NEW c \in Cpu, push_off(c) PROVE NoPanic'
  BY <1>3, <1>t, Zenon DEF push_off, Goto, lockVars, intrVars, NoPanic
<1>4. ASSUME NEW c \in Cpu, holding_locked(c) PROVE NoPanic'
  BY <1>4, <1>t, Zenon DEF holding_locked, Goto, lockVars, offVars, intrVars, NoPanic
<1>5. ASSUME NEW c \in Cpu, holding_cpu(c) PROVE NoPanic'
  <2>1. lkcpu[lk[c]] # c
    <3>1. \A m \in held[c] : m # lk[c]
      BY <1>5, <1>t DEF holding_cpu, Nested, Lock
    <3> QED  BY <1>t, <3>1, Zenon DEF NotFooled
  <2> QED  BY <1>5, <1>t, <2>1, Zenon DEF holding_cpu, Goto, lockVars, offVars, intrVars, NoPanic
<1>6. ASSUME NEW c \in Cpu, test_and_set(c) PROVE NoPanic'
  BY <1>6, <1>t, Zenon DEF test_and_set, Goto, offVars, intrVars, NoPanic
<1>7. ASSUME NEW c \in Cpu, set_cpu(c) PROVE NoPanic'
  BY <1>7, <1>t, Zenon DEF set_cpu, Goto, offVars, intrVars, NoPanic
<1>8. ASSUME NEW c \in Cpu, NEW l \in Lock, release(c, l) PROVE NoPanic'
  <2>1. locked[l] = 1 /\ lkcpu[l] = c
    BY <1>8, <1>t, Zenon DEF release, Words
  <2> QED  BY <1>8, <1>t, <2>1, Zenon DEF release, Goto, offVars, intrVars, NoPanic
<1>9. ASSUME NEW c \in Cpu, lock_release(c) PROVE NoPanic'
  BY <1>9, <1>t, Zenon DEF lock_release, Goto, offVars, intrVars, NoPanic
<1>10. ASSUME NEW c \in Cpu, pop_off(c) PROVE NoPanic'
  <2>1. sie[c] = 0 /\ noff[c] >= 1
    BY <1>10, <1>t, <1>f DEF pop_off, OnlyOutside, Counts, Extra
  <2> QED  BY <1>10, <1>t, <2>1, Zenon DEF pop_off, Goto, lockVars, intrVars, NoPanic
<1>11. ASSUME NEW c \in Cpu, interrupt(c) PROVE NoPanic'
  BY <1>11, <1>t, Zenon DEF interrupt, Goto, lockVars, NoPanic
<1>12. ASSUME NEW c \in Cpu, sret(c) PROVE NoPanic'
  <2>1. spc[c] # "panic"
    BY <1>12, <1>t DEF sret, Interrupted
  <2> QED  BY <1>12, <1>t, <2>1, Zenon DEF sret, lockVars, NoPanic
<1>13. ASSUME UNCHANGED vars PROVE NoPanic'
  BY <1>13, <1>t, Zenon DEF vars, NoPanic
<1> QED
  BY <1>1, <1>2, <1>3, <1>4, <1>5, <1>6, <1>7, <1>8, <1>9, <1>10, <1>11, <1>12, <1>13, Zenon DEF Next

(* noff keeps counting the locks.                                          *)
LEMMA CountStep == CountFacts /\ SpinInvariant /\ [Next]_vars => Counts'
<1> SUFFICES ASSUME CountFacts, SpinInvariant, [Next]_vars PROVE Counts'
  BY Zenon
<1> USE DEF TypeOK
<1>n. CountFacts /\ SpinInvariant /\ [Next]_vars
  BY Zenon
<1>t. TypeOK /\ Counts /\ OnlyOutside /\ Interrupted /\ Nested /\ Words /\ Restores
  BY Zenon DEF SpinInvariant
<1>f. \A d \in Cpu : held[d] \in SUBSET Lock /\ Cardinality(held[d]) \in Nat
  BY <1>t, Zenon DEF CountFacts
<1>1. ASSUME NEW c \in Cpu, NEW l \in Lock, acquire(c, l) PROVE Counts'
  <2>1. held' = held /\ noff' = noff /\ \A d \in Cpu : Extra(d)' = Extra(d)
    BY <1>1, <1>t, Zenon DEF acquire, Goto, lockVars, offVars, intrVars, Extra
  <2> QED  BY <1>t, <2>1, Zenon DEF Counts
<1>2. ASSUME NEW c \in Cpu, intr_off(c) PROVE Counts'
  <2>1. held' = held /\ noff' = noff /\ \A d \in Cpu : Extra(d)' = Extra(d)
    BY <1>2, <1>t, Zenon DEF intr_off, Goto, lockVars, intrVars, Extra
  <2> QED  BY <1>t, <2>1, Zenon DEF Counts
<1>3. ASSUME NEW c \in Cpu, push_off(c) PROVE Counts'
  <2>1. held' = held /\ noff' = [noff EXCEPT ![c] = noff[c] + 1]
    BY <1>3, Zenon DEF push_off
  <2>2. Extra(c) = 0 /\ Extra(c)' = 1 /\ \A d \in Cpu : d # c => Extra(d)' = Extra(d)
    BY <1>3, <1>t, Zenon DEF push_off, Goto, Extra
  <2> QED  BY <1>t, <1>f, <2>1, <2>2 DEF Counts
<1>4. ASSUME NEW c \in Cpu, holding_locked(c) PROVE Counts'
  <2>1. held' = held /\ noff' = noff /\ \A d \in Cpu : Extra(d)' = Extra(d)
    BY <1>4, <1>t, Zenon DEF holding_locked, Goto, lockVars, offVars, intrVars, Extra
  <2> QED  BY <1>t, <2>1, Zenon DEF Counts
<1>5. ASSUME NEW c \in Cpu, holding_cpu(c) PROVE Counts'
  <2>0. pc'[c] # "panic"
    BY <1>5, <1>n, NoPanicStep, Zenon DEF NoPanic
  <2>1. held' = held /\ noff' = noff /\ \A d \in Cpu : Extra(d)' = Extra(d)
    BY <1>5, <1>t, <2>0, Zenon DEF holding_cpu, Goto, lockVars, offVars, intrVars, Extra
  <2> QED  BY <1>t, <2>1, Zenon DEF Counts
<1>6. ASSUME NEW c \in Cpu, test_and_set(c) PROVE Counts'
  <2>0. held[c] \in SUBSET Lock /\ lk[c] \in Lock
    BY <1>t, Zenon
  <2>1. lk[c] \notin held[c] /\ held' = [held EXCEPT ![c] = held[c] \union {lk[c]}] /\ noff' = noff
    BY <1>6, <1>t DEF test_and_set, offVars, Nested, Lock
  <2>2. Extra(c) = 1 /\ Extra(c)' = 0 /\ \A d \in Cpu : d # c => Extra(d)' = Extra(d)
    BY <1>6, <1>t, Zenon DEF test_and_set, Goto, Extra
  <2>3. Cardinality(held[c] \union {lk[c]}) = Cardinality(held[c]) + 1
    BY <2>0, <2>1, Zenon DEF CountFacts
  <2> QED  BY <1>t, <1>f, <2>1, <2>2, <2>3 DEF Counts
<1>7. ASSUME NEW c \in Cpu, set_cpu(c) PROVE Counts'
  <2>1. held' = held /\ noff' = noff /\ \A d \in Cpu : Extra(d)' = Extra(d)
    BY <1>7, <1>t, Zenon DEF set_cpu, Goto, offVars, intrVars, Extra
  <2> QED  BY <1>t, <2>1, Zenon DEF Counts
<1>8. ASSUME NEW c \in Cpu, NEW l \in Lock, release(c, l) PROVE Counts'
  <2>1. held' = held /\ noff' = noff /\ \A d \in Cpu : Extra(d)' = Extra(d)
    BY <1>8, <1>t, Zenon DEF release, Goto, offVars, intrVars, Extra
  <2> QED  BY <1>t, <2>1, Zenon DEF Counts
<1>9. ASSUME NEW c \in Cpu, lock_release(c) PROVE Counts'
  <2>0. held[c] \in SUBSET Lock /\ lk[c] \in Lock /\ lk[c] \in held[c]
    BY <1>9, <1>t, Zenon DEF lock_release, Words
  <2>1. held' = [held EXCEPT ![c] = held[c] \ {lk[c]}] /\ noff' = noff
    BY <1>9, Zenon DEF lock_release, offVars
  <2>2. Extra(c) = 0 /\ Extra(c)' = 1 /\ \A d \in Cpu : d # c => Extra(d)' = Extra(d)
    BY <1>9, <1>t, Zenon DEF lock_release, Goto, Extra
  <2>3. Cardinality(held[c] \ {lk[c]}) = Cardinality(held[c]) - 1
    BY <2>0, Zenon DEF CountFacts
  <2> QED  BY <1>t, <1>f, <2>1, <2>2, <2>3 DEF Counts
<1>10. ASSUME NEW c \in Cpu, pop_off(c) PROVE Counts'
  <2>0. sie[c] = 0 /\ noff[c] >= 1
    BY <1>10, <1>t, <1>f DEF pop_off, OnlyOutside, Counts, Extra
  <2>1. held' = held /\ noff' = [noff EXCEPT ![c] = noff[c] - 1]
    BY <1>10, <2>0, Zenon DEF pop_off
  <2>2. Extra(c) = 1 /\ Extra(c)' = 0 /\ \A d \in Cpu : d # c => Extra(d)' = Extra(d)
    BY <1>10, <1>t, <2>0, Zenon DEF pop_off, Goto, Extra
  <2> QED  BY <1>t, <1>f, <2>1, <2>2 DEF Counts
<1>11. ASSUME NEW c \in Cpu, interrupt(c) PROVE Counts'
  <2>0. pc[c] \in {"run", "off"}
    BY <1>11, <1>t, Zenon DEF interrupt, OnlyOutside
  <2>1. held' = held /\ noff' = noff /\ \A d \in Cpu : Extra(d)' = Extra(d)
    BY <1>11, <1>t, <2>0, Zenon DEF interrupt, Goto, lockVars, Extra
  <2> QED  BY <1>t, <2>1, Zenon DEF Counts
<1>12. ASSUME NEW c \in Cpu, sret(c) PROVE Counts'
  <2>0. spc[c] \in {"run", "off"}
    BY <1>12, <1>t DEF sret, Interrupted
  <2>1. held' = held /\ noff' = noff /\ \A d \in Cpu : Extra(d)' = Extra(d)
    BY <1>12, <1>t, <2>0, Zenon DEF sret, lockVars, Extra
  <2> QED  BY <1>t, <2>1, Zenon DEF Counts
<1>13. ASSUME UNCHANGED vars PROVE Counts'
  BY <1>13, <1>t, Zenon DEF vars, Counts, Extra
<1> QED
  BY <1>1, <1>2, <1>3, <1>4, <1>5, <1>6, <1>7, <1>8, <1>9, <1>10, <1>11, <1>12, <1>13, Zenon DEF Next

(* Interrupts stay off inside locks and come back outside of them.         *)
LEMMA OffStep == CountFacts /\ SpinInvariant /\ [Next]_vars => (OnlyOutside /\ Restores /\ Interrupted)'
<1> SUFFICES ASSUME CountFacts, SpinInvariant, [Next]_vars PROVE (OnlyOutside /\ Restores /\ Interrupted)'
  BY Zenon
<1> USE DEF TypeOK
<1>t. TypeOK /\ OnlyOutside /\ Restores /\ Interrupted
  BY Zenon DEF SpinInvariant
<1>k. /\ Counts /\ Words /\ Nested
      /\ \A d \in Cpu : held[d] \in SUBSET Lock /\ Cardinality(held[d]) \in Nat
  BY <1>t, Zenon DEF SpinInvariant, CountFacts
<1>e. \A d \in Cpu : noff[d] = 0 => held[d] = {} /\ Extra(d) = 0
  <2> TAKE d \in Cpu
  <2> HAVE noff[d] = 0
  <2>1. Cardinality(held[d]) = 0 /\ Extra(d) = 0
    BY <1>k DEF Counts, Extra
  <2> QED  BY <1>k, <2>1, Zenon DEF CountFacts
<1>1. ASSUME NEW c \in Cpu, NEW l \in Lock, acquire(c, l) PROVE (OnlyOutside /\ Restores /\ Interrupted)'
  BY <1>1, <1>t DEF acquire, Goto, lockVars, offVars, intrVars, OnlyOutside, Restores, Interrupted
<1>2. ASSUME NEW c \in Cpu, intr_off(c) PROVE (OnlyOutside /\ Restores /\ Interrupted)'
  BY <1>2, <1>t DEF intr_off, Goto, lockVars, intrVars, OnlyOutside, Restores, Interrupted
<1>3. ASSUME NEW c \in Cpu, push_off(c) PROVE (OnlyOutside /\ Restores /\ Interrupted)'
  BY <1>3, <1>t DEF push_off, Goto, lockVars, intrVars, OnlyOutside, Restores, Interrupted
<1>4. ASSUME NEW c \in Cpu, holding_locked(c) PROVE (OnlyOutside /\ Restores /\ Interrupted)'
  BY <1>4, <1>t, Zenon DEF holding_locked, Goto, lockVars, offVars, intrVars, OnlyOutside, Restores, Interrupted
<1>5. ASSUME NEW c \in Cpu, holding_cpu(c) PROVE (OnlyOutside /\ Restores /\ Interrupted)'
  BY <1>5, <1>t, Zenon DEF holding_cpu, Goto, lockVars, offVars, intrVars, OnlyOutside, Restores, Interrupted
<1>6. ASSUME NEW c \in Cpu, test_and_set(c) PROVE (OnlyOutside /\ Restores /\ Interrupted)'
  <2>1. noff[c] # 0
    BY <1>6, <1>e DEF test_and_set, Extra
  <2> QED  BY <1>6, <1>t, <2>1 DEF test_and_set, Goto, offVars, intrVars, OnlyOutside, Restores, Interrupted
<1>7. ASSUME NEW c \in Cpu, set_cpu(c) PROVE (OnlyOutside /\ Restores /\ Interrupted)'
  <2>1. noff[c] # 0
    BY <1>7, <1>e, <1>k, Zenon DEF set_cpu, Words
  <2> QED  BY <1>7, <1>t, <2>1, Zenon DEF set_cpu, Goto, offVars, intrVars, OnlyOutside, Restores, Interrupted
<1>8. ASSUME NEW c \in Cpu, NEW l \in Lock, release(c, l) PROVE (OnlyOutside /\ Restores /\ Interrupted)'
  BY <1>8, <1>t, Zenon DEF release, Goto, offVars, intrVars, OnlyOutside, Restores, Interrupted
<1>9. ASSUME NEW c \in Cpu, lock_release(c) PROVE (OnlyOutside /\ Restores /\ Interrupted)'
  BY <1>9, <1>t, Zenon DEF lock_release, Goto, offVars, intrVars, OnlyOutside, Restores, Interrupted
<1>10. ASSUME NEW c \in Cpu, pop_off(c) PROVE (OnlyOutside /\ Restores /\ Interrupted)'
  <2>1. sie[c] = 0 /\ noff[c] >= 1 /\ noff[c] = Cardinality(held[c]) + 1
    BY <1>10, <1>t, <1>k DEF pop_off, OnlyOutside, Counts, Extra
  <2>2. noff[c] = 1 => held[c] = {}
    <3>1. noff[c] = 1 => Cardinality(held[c]) = 0
      BY <1>k, <2>1
    <3> QED  BY <1>k, <3>1, Zenon DEF CountFacts
  <2>3. /\ pc' = [pc EXCEPT ![c] = "run"]
        /\ noff' = [noff EXCEPT ![c] = noff[c] - 1]
        /\ sie' = [sie EXCEPT ![c] = IF noff[c] = 1 /\ intena[c] = 1 THEN 1 ELSE 0]
        /\ UNCHANGED <<intena, old, intr, spc, sold, base, held>>
    BY <1>10, <1>t, <2>1, Zenon DEF pop_off, Goto, intrVars
  <2> QED  BY <1>t, <2>1, <2>2, <2>3 DEF OnlyOutside, Restores, Interrupted
<1>11. ASSUME NEW c \in Cpu, interrupt(c) PROVE (OnlyOutside /\ Restores /\ Interrupted)'
  BY <1>11, <1>t DEF interrupt, Goto, lockVars, OnlyOutside, Restores, Interrupted
<1>12. ASSUME NEW c \in Cpu, sret(c) PROVE (OnlyOutside /\ Restores /\ Interrupted)'
  <2>1. held[c] = {} /\ intr[c] = 1 /\ spc[c] \in {"run", "off"} /\ (spc[c] = "off" => sold[c] = 1)
    BY <1>12, <1>t DEF sret, Interrupted
  <2>2. noff[c] = 0
    <3>1. Extra(c) = 0 /\ Cardinality(held[c]) = 0
      BY <1>12, <1>k, <2>1, Zenon DEF sret, Extra, CountFacts
    <3> QED  BY <1>k, <3>1 DEF Counts
  <2> QED  BY <1>12, <1>t, <2>1, <2>2 DEF sret, lockVars, OnlyOutside, Restores, Interrupted
<1>13. ASSUME UNCHANGED vars PROVE (OnlyOutside /\ Restores /\ Interrupted)'
  BY <1>13, <1>t, Zenon DEF vars, OnlyOutside, Restores, Interrupted
<1> QED
  BY <1>1, <1>2, <1>3, <1>4, <1>5, <1>6, <1>7, <1>8, <1>9, <1>10, <1>11, <1>12, <1>13, Zenon DEF Next

(* At boot no lock is held and interrupts are on.                          *)
LEMMA InitSpin == CountFacts /\ Init => SpinInvariant
<1> SUFFICES ASSUME CountFacts, Init PROVE SpinInvariant
  BY Zenon
<1> USE DEF Init
<1>1. TypeOK
  BY SpinConstants DEF TypeOK, Label, Lock
<1>2. Counts
  <2>1. Cardinality({}) = 0
    BY Zenon DEF CountFacts
  <2> QED  BY <2>1 DEF Counts, Extra
<1>3. MutualExclusion /\ NotFooled /\ NoPanic /\ Nested /\ Words
  BY SpinConstants, Zenon DEF MutualExclusion, NotFooled, NoPanic, Nested, Words
<1>4. OnlyOutside /\ Restores /\ Interrupted
  BY DEF OnlyOutside, Restores, Interrupted
<1> QED  BY <1>1, <1>2, <1>3, <1>4, Zenon DEF SpinInvariant

(* The conjuncts are inductive together.                                   *)
LEMMA SpinStep == CountFacts /\ SpinInvariant /\ [Next]_vars => SpinInvariant'
  BY TypeStep, WordsStep, NoPanicStep, CountStep, OffStep, Zenon DEF SpinInvariant

-----------------------------------------------------------------------------
(* Sleep locks, for any set of processes.                                  *)
SleepInvariant == S!TypeOK /\ S!HoldingIsExact /\ S!NoForgottenWaiter

(* The three conjuncts are inductive together.                             *)
LEMMA SleepStep ==
  ASSUME SleepInvariant, [S!Next]_(S!vars)
  PROVE  SleepInvariant'
<1> USE SleepAssumption
        DEF SleepInvariant, S!SleepConstants, S!TypeOK, S!HoldingIsExact, S!NoForgottenWaiter,
            S!holdingsleep
<1>1. ASSUME NEW p \in Sleeper, S!acquire_lk(p) PROVE SleepInvariant'
  BY <1>1, Zenon DEF S!acquire_lk, S!Goto
<1>2. ASSUME NEW p \in Sleeper, S!acquiresleep(p) PROVE SleepInvariant'
  BY <1>2 DEF S!acquiresleep, S!Goto
<1>3. ASSUME NEW p \in Sleeper, S!acquiresleep_sleep(p) PROVE SleepInvariant'
  BY <1>3, Zenon DEF S!acquiresleep_sleep, S!Goto
<1>4. ASSUME NEW p \in Sleeper, S!releasesleep(p) PROVE SleepInvariant'
  BY <1>4, Zenon DEF S!releasesleep, S!Goto
<1>5. ASSUME NEW p \in Sleeper, S!release_lk(p) PROVE SleepInvariant'
  BY <1>5, Zenon DEF S!release_lk, S!Goto
<1>6. ASSUME NEW p \in Sleeper, S!kill(p) PROVE SleepInvariant'
  BY <1>6, Zenon DEF S!kill, S!Goto
<1>7. ASSUME NEW p \in Sleeper, NEW q \in Sleeper, S!wakeup(p, q) PROVE SleepInvariant'
  BY <1>7, Zenon DEF S!wakeup
<1>8. ASSUME UNCHANGED S!vars PROVE SleepInvariant'
  BY <1>8, Zenon DEF S!vars
<1> QED  BY <1>1, <1>2, <1>3, <1>4, <1>5, <1>6, <1>7, <1>8, Zenon DEF S!Next

(* The invariant of sleeplock.c.                                           *)
THEOREM SleepInvariance == S!Spec => []SleepInvariant
<1>1. S!Init => SleepInvariant
  BY SleepAssumption
     DEF S!SleepConstants, S!Init, SleepInvariant, S!TypeOK, S!HoldingIsExact,
         S!NoForgottenWaiter, S!holdingsleep
<1> QED  BY <1>1, SleepStep, PTL DEF S!Spec

(* holdingsleep() is true for the process that holds the lock and for no   *)
(* other, whatever the order in which waiters wake up.                     *)
THEOREM HoldersKnown == S!Spec => []S!HoldingIsExact
<1>1. SleepInvariant => S!HoldingIsExact
  BY Zenon DEF SleepInvariant
<1> QED  BY <1>1, SleepInvariance, PTL

(* releasesleep() wakes everybody who sleeps for the lock.                 *)
THEOREM WaitersRemembered == S!Spec => []NoForgottenWaiter
<1>1. SleepInvariant => NoForgottenWaiter
  BY Zenon DEF SleepInvariant, NoForgottenWaiter
<1> QED  BY <1>1, SleepInvariance, PTL

(* acquiresleep() and releasesleep() implement the mutex of module Mutex.  *)
THEOREM SleeplockIsMutex == S!Spec => IsMutex
<1> DEFINE o == IF slocked = 1 THEN pid ELSE NoSleeper
<1>1. S!Init => S!MutexSpec!Init
  BY Zenon DEF S!Init, S!MutexSpec!Init
<1>2. ASSUME SleepInvariant, [S!Next]_(S!vars)
      PROVE  [S!MutexSpec!Next]_o
  <2> USE SleepAssumption
          DEF SleepInvariant, S!SleepConstants, S!TypeOK, S!HoldingIsExact, S!holdingsleep
  <2>1. ASSUME NEW p \in Sleeper, S!acquiresleep(p) PROVE S!MutexSpec!Acquire(p)
    BY <1>2, <2>1 DEF S!acquiresleep, S!MutexSpec!Acquire
  <2>2. ASSUME NEW p \in Sleeper, S!releasesleep(p) PROVE S!MutexSpec!Release(p)
    BY <1>2, <2>2, Zenon DEF S!releasesleep, S!MutexSpec!Release
  <2>3. ASSUME NEW p \in Sleeper,
               S!acquire_lk(p) \/ S!acquiresleep_sleep(p) \/ S!release_lk(p) \/ S!kill(p)
        PROVE  o' = o
    BY <2>3, Zenon DEF S!acquire_lk, S!acquiresleep_sleep, S!release_lk, S!kill
  <2>4. ASSUME NEW p \in Sleeper, NEW q \in Sleeper, S!wakeup(p, q) PROVE o' = o
    BY <2>4, Zenon DEF S!wakeup
  <2>5. ASSUME UNCHANGED S!vars PROVE o' = o
    BY <2>5, Zenon DEF S!vars
  <2> HIDE DEF o
  <2> QED  BY <1>2, <2>1, <2>2, <2>3, <2>4, <2>5, Zenon DEF S!Next, S!MutexSpec!Next
<1> QED  BY <1>1, <1>2, SleepInvariance, PTL DEF S!Spec, IsMutex, S!IsMutex, S!MutexSpec!Spec

-----------------------------------------------------------------------------
(* The library's theorems are about the same Cardinality.                  *)
F == INSTANCE FiniteSetTheorems

(* So counting a CPU's locks is what CountFacts says.                      *)
LEMMA Counting == CountFacts
<1>1. ASSUME NEW T
      PROVE  Cardinality(T) = F!Cardinality(T) /\ (IsFiniteSet(T) <=> F!IsFiniteSet(T))
  BY Zenon DEF Cardinality, F!Cardinality, IsFiniteSet, F!IsFiniteSet
<1>2. F!IsFiniteSet(Lock)
  <2>1. NLOCK \in Int /\ 1 \in Int
    BY SpinConstants
  <2>2. F!IsFiniteSet(1..NLOCK)
    BY <2>1, F!FS_Interval, Zenon
  <2> QED  BY <2>2, Zenon DEF Lock
<1>3. ASSUME NEW T \in SUBSET Lock PROVE F!IsFiniteSet(T)
  <2>1. T \subseteq Lock
    BY Zenon
  <2> QED  BY <1>2, <2>1, F!FS_Subset, Zenon
<1>4. ASSUME NEW T \in SUBSET Lock
      PROVE  Cardinality(T) \in Nat /\ (Cardinality(T) = 0 <=> T = {})
  BY <1>1, <1>3, F!FS_CardinalityType, F!FS_EmptySet, Zenon
<1>5. ASSUME NEW T \in SUBSET Lock, NEW l \in Lock
      PROVE  /\ l \notin T => Cardinality(T \union {l}) = Cardinality(T) + 1
             /\ l \in T => Cardinality(T \ {l}) = Cardinality(T) - 1
  <2>1. F!IsFiniteSet(T)
    BY <1>3, Zenon
  <2>2. l \notin T => F!Cardinality(T \union {l}) = F!Cardinality(T) + 1
    BY <2>1, F!FS_AddElement, Zenon
  <2>3. l \in T => F!Cardinality(T \ {l}) = F!Cardinality(T) - 1
    BY <2>1, F!FS_RemoveElement, Zenon
  <2> QED  BY <1>1, <2>2, <2>3, Zenon
<1> QED  BY <1>4, <1>5, Zenon DEF CountFacts

(* The invariant of spinlock.c, for any number of CPUs and locks.          *)
THEOREM SpinInvariance == Spec => []SpinInvariant
<1>1. Init => SpinInvariant
  BY InitSpin, Counting, Zenon
<1>2. SpinInvariant /\ [Next]_vars => SpinInvariant'
  BY SpinStep, Counting, Zenon
<1> QED  BY <1>1, <1>2, PTL DEF Spec

(* acquire() and release() give a lock to one CPU at a time.               *)
THEOREM LocksExclude == Spec => []MutualExclusion
<1>1. SpinInvariant => MutualExclusion
  BY Zenon DEF SpinInvariant
<1> QED  BY <1>1, SpinInvariance, PTL

(* No panic of spinlock.c is reached by code that takes locks in order,    *)
(* in particular no CPU ever acquires a lock it holds.                     *)
THEOREM LocksNeverPanic == Spec => []NoPanic
<1>1. SpinInvariant => NoPanic
  BY Zenon DEF SpinInvariant
<1> QED  BY <1>1, SpinInvariance, PTL

(* A CPU that holds a lock cannot be interrupted, and push_off() and       *)
(* pop_off() restore SIE to what it was outside of the locks.              *)
THEOREM InterruptsOff == Spec => []IntrRestored
<1>1. SpinInvariant => IntrRestored
  <2> SUFFICES ASSUME SpinInvariant PROVE IntrRestored
    BY Zenon
  <2>1. TypeOK /\ Counts /\ OnlyOutside /\ Restores
    BY Zenon DEF SpinInvariant
  <2>2. HeldOff
    BY <2>1, Zenon DEF HeldOff, OnlyOutside, TypeOK
  <2>3. \A c \in Cpu : held[c] = {} /\ pc[c] = "run" => noff[c] = 0
    <3>1. Cardinality({}) = 0
      BY Counting, Zenon DEF CountFacts
    <3>2. ASSUME NEW c \in Cpu, held[c] = {}, pc[c] = "run" PROVE noff[c] = 0
      <4>1. noff[c] = Cardinality({}) + Extra(c)
        BY <2>1, <3>2, Zenon DEF Counts
      <4>2. Extra(c) = 0
        BY <3>2, Zenon DEF Extra
      <4> QED  BY <3>1, <4>1, <4>2
    <3> QED  BY <3>2, Zenon
  <2> QED  BY <2>1, <2>2, <2>3, Zenon DEF IntrRestored, Restores
<1> QED  BY <1>1, SpinInvariance, PTL
=============================================================================
