----------------------------- MODULE PipeProofs -----------------------------
(***************************************************************************)
(* Proofs about Pipe, for any processes, bytes, size of the pipe and width *)
(* of its counters: no wakeup is lost, and the pipe is a queue of bytes    *)
(* when nread and nwrite wrap around too.                                  *)
(***************************************************************************)
EXTENDS Pipe, TLAPS

(* Who is between acquire(&pi->lock) and its release, and who uses an end. *)
Inside  == {"write", "wsleep", "read", "copy", "rsleep", "closed"}

(* pi->lock is held by who is inside.                                      *)
Locked == \A p \in Proc : lock = p <=> pc[p] \in Inside

(* Who reads or writes has the end open, and the pipe knows of it.         *)
Ends ==
  /\ \A p \in Proc : (pc[p] \in Reading => "r" \in fd[p]) /\ (pc[p] \in Writing => "w" \in fd[p])
  /\ readopen = 0 \/ (\E p \in Proc : pc[p] = "closer") => \A q \in Proc : "r" \notin fd[q]
  /\ writeopen = 0 \/ (\E p \in Proc : pc[p] = "closew") => \A q \in Proc : "w" \notin fd[q]

(* Who sleeps has a reason to, or who is inside will wake it.              *)
Reasons ==
  \A p \in Proc :
    /\ pc[p] = "wsleep" => Full /\ readopen = 1 /\ \A q \in Proc : pc[q] # "rasleep"
    /\ pc[p] = "rsleep" => Empty /\ writeopen = 1
    /\ pc[p] = "wasleep" => readopen = 1 /\ (Full \/ \E q \in Proc : pc[q] = "copy")
    /\ pc[p] = "rasleep" =>
         writeopen = 1 /\ (Empty \/ \E q \in Proc : killed[q] = 1 \/ pc[q] = "write")

(* The counters are at most the size of the pipe apart.                    *)
Bounded == Count <= PIPESIZE

PipeInvariant == TypeOK /\ Locked /\ Ends /\ Reasons /\ Bounded

(* Leaves go to the SMT solver, unless they name another prover.           *)
USE SMTT(60)

-----------------------------------------------------------------------------
(* Remainders.                                                             *)
LEMMA DivMod ==
  ASSUME NEW P \in Nat, P > 0, NEW a \in Int, NEW d \in Int, d = a \div P, NEW m \in Int, m = a % P
  PROVE  a = P * d + m
  OBVIOUS

LEMMA Remainder ==
  ASSUME NEW P \in Nat, P > 0, NEW a \in Int
  PROVE  \E d \in Int, m \in 0..P - 1 : m = a % P /\ a = P * d + m
<1>1. PICK m \in 0..P - 1 : m = a % P
  OBVIOUS
<1>2. PICK d \in Int : d = a \div P
  OBVIOUS
<1>3. a = P * d + m
  BY <1>1, <1>2, DivMod
<1> QED  BY <1>1, <1>2, <1>3, Zenon

LEMMA Unique ==
  ASSUME NEW P \in Nat, P > 0, NEW a \in Int, NEW q \in Int, NEW r \in 0..P - 1, a = P * q + r
  PROVE  a % P = r
<1>1. PICK d \in Int, m \in 0..P - 1 : m = a % P /\ a = P * d + m
  BY Remainder, Zenon
<1>2. P * (q - d) = m - r
  BY <1>1
<1>3. CASE q - d >= 1
  BY <1>1, <1>2, <1>3
<1>4. CASE q - d <= 0 - 1
  BY <1>1, <1>2, <1>4
<1>5. CASE q = d
  BY <1>1, <1>2, <1>5
<1>6. m = r
  BY <1>1, <1>3, <1>4, <1>5
<1> QED  BY <1>1, <1>6, Zenon

LEMMA Apart ==
  ASSUME NEW P \in Nat, P > 0, NEW a \in Nat, NEW b \in Nat, a < b, b < a + P
  PROVE  a % P # b % P
<1>0. a \in Int /\ b \in Int
  OBVIOUS
<1>1. PICK d \in Int, m \in 0..P - 1 : m = a % P /\ a = P * d + m
  BY <1>0, Remainder, Zenon
<1>2. PICK e \in Int, k \in 0..P - 1 : k = b % P /\ b = P * e + k
  BY <1>0, Remainder, Zenon
<1>3. SUFFICES ASSUME m = k PROVE FALSE
  BY <1>1, <1>2, Zenon
<1>4. b - a = P * (e - d)
  BY <1>1, <1>2, <1>3
<1>5. CASE e - d <= 0
  BY <1>4, <1>5
<1>6. CASE e - d >= 1
  BY <1>4, <1>6
<1> QED  BY <1>5, <1>6

LEMMA Wraps ==
  ASSUME NEW P \in Nat, P > 0, NEW M \in Nat, M % P = 0, NEW a \in Nat
  PROVE  (a + M) % P = a % P
<1>0. a \in Int /\ M \in Int
  OBVIOUS
<1>1. PICK d \in Int, m \in 0..P - 1 : m = a % P /\ a = P * d + m
  BY <1>0, Remainder, Zenon
<1>2. PICK e \in Int, k \in 0..P - 1 : k = M % P /\ M = P * e + k
  BY <1>0, Remainder, Zenon
<1>3. P * (d + e) = P * d + P * e
  OBVIOUS
<1>4. a + M = P * (d + e) + m
  BY <1>1, <1>2, <1>3
<1>5. (a + M) % P = m
  <2>1. a + M \in Int /\ d + e \in Int
    OBVIOUS
  <2> QED  BY <1>4, <2>1, Unique, Zenon
<1> QED  BY <1>1, <1>5, Zenon

-----------------------------------------------------------------------------
(* The counters.                                                           *)
Mod == 2^Width

LEMMA Sizes ==
  Mod \in Nat /\ PIPESIZE \in Nat /\ PIPESIZE > 0 /\ Mod % PIPESIZE = 0 /\ PIPESIZE < Mod
  BY PipeConstants DEF Mod

LEMMA Distance ==
  ASSUME NEW M \in Nat, NEW x \in 0..M - 1, NEW y \in 0..M - 1
  PROVE  (y - x) % M = IF x <= y THEN y - x ELSE y - x + M
<1>1. CASE x <= y
  BY <1>1
<1>2. CASE x > y
  BY <1>2
<1> QED  BY <1>1, <1>2

LEMMA Next1 ==
  ASSUME NEW M \in Nat, NEW x \in 0..M - 1
  PROVE  (x + 1) % M = IF x + 1 = M THEN 0 ELSE x + 1
<1>1. CASE x + 1 = M
  BY <1>1
<1>2. CASE x + 1 # M
  BY <1>2
<1> QED  BY <1>1, <1>2, Zenon

LEMMA FarAhead ==
  ASSUME NEW M \in Nat, NEW x \in 0..M - 1, NEW k \in Nat, k < M
  PROVE  (x + k) % M = IF x + k < M THEN x + k ELSE x + k - M
<1>1. CASE x + k < M
  BY <1>1
<1>2. CASE x + k >= M
  BY <1>2
<1> QED  BY <1>1, <1>2

LEMMA IncType == ASSUME NEW x \in 0..2^Width - 1 PROVE Inc(x) \in 0..2^Width - 1
  BY Sizes DEF Inc, Mod

LEMMA IndexType == ASSUME NEW x \in 0..2^Width - 1 PROVE x % PIPESIZE \in 0..PIPESIZE - 1
  BY Sizes DEF Mod

-----------------------------------------------------------------------------
(* Who has pi->lock.                                                       *)
LEMMA LockedStep == PipeInvariant /\ [Next]_vars => Locked'
<1>0. SUFFICES ASSUME PipeInvariant, [Next]_vars PROVE Locked'
  BY Zenon
<1>t. pc = [q \in Proc |-> pc[q]] /\ Locked /\ NoProc \notin Proc
  BY <1>0, PipeConstants, Zenon DEF PipeInvariant, TypeOK
<1> USE DEF Locked, Goto, Return, WakeAnd, pipeVars
<1>1. ASSUME NEW p \in Proc, NEW k \in WriteSizes, pipewrite(p, k) PROVE Locked'
  BY <1>t, <1>1, Zenon DEF pipewrite, Inside
<1>2. ASSUME NEW p \in Proc, NEW k \in ReadSizes, piperead(p, k) PROVE Locked'
  BY <1>t, <1>2, Zenon DEF piperead, Inside
<1>3. ASSUME NEW p \in Proc, reacquire(p) PROVE Locked'
  BY <1>t, <1>3, Zenon DEF reacquire, Inside
<1>4. ASSUME NEW p \in Proc, write_fails(p) PROVE Locked'
  BY <1>t, <1>4, Zenon DEF write_fails, Inside
<1>5. ASSUME NEW p \in Proc, write_full(p) PROVE Locked'
  BY <1>t, <1>5, Zenon DEF write_full, Inside
<1>6. ASSUME NEW p \in Proc, NEW b \in Byte, write_byte(p, b) PROVE Locked'
  BY <1>t, <1>6, Zenon DEF write_byte, Inside
<1>7. ASSUME NEW p \in Proc, write_done(p) PROVE Locked'
  BY <1>t, <1>7, Zenon DEF write_done, Inside
<1>8. ASSUME NEW p \in Proc, read_killed(p) PROVE Locked'
  BY <1>t, <1>8, Zenon DEF read_killed, Inside
<1>9. ASSUME NEW p \in Proc, read_empty(p) PROVE Locked'
  BY <1>t, <1>9, Zenon DEF read_empty, Inside
<1>10. ASSUME NEW p \in Proc, read_some(p) PROVE Locked'
  BY <1>t, <1>10, Zenon DEF read_some, Inside
<1>11. ASSUME NEW p \in Proc, read_byte(p) PROVE Locked'
  BY <1>t, <1>11, Zenon DEF read_byte, Inside
<1>12. ASSUME NEW p \in Proc, read_fault(p) PROVE Locked'
  BY <1>t, <1>12, Zenon DEF read_fault, Inside
<1>13. ASSUME NEW p \in Proc, read_done(p) PROVE Locked'
  BY <1>t, <1>13, Zenon DEF read_done, Inside
<1>14. ASSUME NEW p \in Proc, sleep(p) PROVE Locked'
  BY <1>t, <1>14, Zenon DEF sleep, Inside
<1>15. ASSUME NEW p \in Proc, kill(p) PROVE Locked'
  BY <1>t, <1>15, Zenon DEF kill, Inside
<1>16. ASSUME NEW p \in Proc, NEW end \in {"r", "w"}, fileclose(p, end) PROVE Locked'
  BY <1>t, <1>16, Zenon DEF fileclose, Inside
<1>17. ASSUME NEW p \in Proc, pipeclose_w(p) PROVE Locked'
  BY <1>t, <1>17, Zenon DEF pipeclose_w, Inside
<1>18. ASSUME NEW p \in Proc, pipeclose_r(p) PROVE Locked'
  BY <1>t, <1>18, Zenon DEF pipeclose_r, Inside
<1>19. ASSUME NEW p \in Proc, pipeclose_free(p) PROVE Locked'
  BY <1>t, <1>19, Zenon DEF pipeclose_free, Inside
<1>20. CASE UNCHANGED vars
  BY <1>t, <1>20, Zenon DEF vars, Inside
<1> QED
  BY <1>0, <1>1, <1>2, <1>3, <1>4, <1>5, <1>6, <1>7, <1>8, <1>9, <1>10,
     <1>11, <1>12, <1>13, <1>14, <1>15, <1>16, <1>17, <1>18, <1>19, <1>20, Zenon DEF Next, KernelStep

(* Who uses an end has it open.                                            *)
LEMMA EndsStep == PipeInvariant /\ [Next]_vars => Ends'
<1>0. SUFFICES ASSUME PipeInvariant, [Next]_vars PROVE Ends'
  BY Zenon
<1>t. pc = [q \in Proc |-> pc[q]] /\ fd \in [Proc -> SUBSET {"r", "w"}] /\ Ends
  BY <1>0, Zenon DEF PipeInvariant, TypeOK
<1> USE DEF Ends, Goto, Return, WakeAnd, pipeVars
<1>1. ASSUME NEW p \in Proc, NEW k \in WriteSizes, pipewrite(p, k) PROVE Ends'
  BY <1>t, <1>1, Zenon DEF pipewrite, Reading, Writing
<1>2. ASSUME NEW p \in Proc, NEW k \in ReadSizes, piperead(p, k) PROVE Ends'
  BY <1>t, <1>2, Zenon DEF piperead, Reading, Writing
<1>3. ASSUME NEW p \in Proc, reacquire(p) PROVE Ends'
  BY <1>t, <1>3, Zenon DEF reacquire, Reading, Writing
<1>4. ASSUME NEW p \in Proc, write_fails(p) PROVE Ends'
  BY <1>t, <1>4, Zenon DEF write_fails, Reading, Writing
<1>5. ASSUME NEW p \in Proc, write_full(p) PROVE Ends'
  BY <1>t, <1>5, Zenon DEF write_full, Reading, Writing
<1>6. ASSUME NEW p \in Proc, NEW b \in Byte, write_byte(p, b) PROVE Ends'
  BY <1>t, <1>6, Zenon DEF write_byte, Reading, Writing
<1>7. ASSUME NEW p \in Proc, write_done(p) PROVE Ends'
  BY <1>t, <1>7, Zenon DEF write_done, Reading, Writing
<1>8. ASSUME NEW p \in Proc, read_killed(p) PROVE Ends'
  BY <1>t, <1>8, Zenon DEF read_killed, Reading, Writing
<1>9. ASSUME NEW p \in Proc, read_empty(p) PROVE Ends'
  BY <1>t, <1>9, Zenon DEF read_empty, Reading, Writing
<1>10. ASSUME NEW p \in Proc, read_some(p) PROVE Ends'
  BY <1>t, <1>10, Zenon DEF read_some, Reading, Writing
<1>11. ASSUME NEW p \in Proc, read_byte(p) PROVE Ends'
  BY <1>t, <1>11, Zenon DEF read_byte, Reading, Writing
<1>12. ASSUME NEW p \in Proc, read_fault(p) PROVE Ends'
  BY <1>t, <1>12, Zenon DEF read_fault, Reading, Writing
<1>13. ASSUME NEW p \in Proc, read_done(p) PROVE Ends'
  BY <1>t, <1>13, Zenon DEF read_done, Reading, Writing
<1>14. ASSUME NEW p \in Proc, sleep(p) PROVE Ends'
  BY <1>t, <1>14, Zenon DEF sleep, Reading, Writing
<1>15. ASSUME NEW p \in Proc, kill(p) PROVE Ends'
  BY <1>t, <1>15, Zenon DEF kill, Reading, Writing
<1>16. ASSUME NEW p \in Proc, NEW end \in {"r", "w"}, fileclose(p, end) PROVE Ends'
  BY <1>t, <1>16 DEF fileclose, Reading, Writing
<1>17. ASSUME NEW p \in Proc, pipeclose_w(p) PROVE Ends'
  BY <1>t, <1>17, Zenon DEF pipeclose_w, Reading, Writing
<1>18. ASSUME NEW p \in Proc, pipeclose_r(p) PROVE Ends'
  BY <1>t, <1>18, Zenon DEF pipeclose_r, Reading, Writing
<1>19. ASSUME NEW p \in Proc, pipeclose_free(p) PROVE Ends'
  BY <1>t, <1>19, Zenon DEF pipeclose_free, Reading, Writing
<1>20. CASE UNCHANGED vars
  BY <1>t, <1>20, Zenon DEF vars, Reading, Writing
<1> QED
  BY <1>0, <1>1, <1>2, <1>3, <1>4, <1>5, <1>6, <1>7, <1>8, <1>9, <1>10,
     <1>11, <1>12, <1>13, <1>14, <1>15, <1>16, <1>17, <1>18, <1>19, <1>20, Zenon DEF Next, KernelStep

(* Who sleeps has a reason to.                                             *)
LEMMA ReasonsStep == PipeInvariant /\ [Next]_vars => Reasons'
<1>0. SUFFICES ASSUME PipeInvariant, [Next]_vars PROVE Reasons'
  BY Zenon
<1>t. /\ pc = [q \in Proc |-> pc[q]] /\ killed \in [Proc -> {0, 1}]
      /\ readopen \in {0, 1} /\ writeopen \in {0, 1} /\ Locked /\ Ends /\ Reasons /\ NoProc \notin Proc
  BY <1>0, PipeConstants, Zenon DEF PipeInvariant, TypeOK
<1> USE DEF Reasons, Goto, Return, WakeAnd, pipeVars
<1>1. ASSUME NEW p \in Proc, NEW k \in WriteSizes, pipewrite(p, k) PROVE Reasons'
  BY <1>t, <1>1, Zenon DEF pipewrite, Locked, Inside, Ends, Reading, Writing, Empty, Full
<1>2. ASSUME NEW p \in Proc, NEW k \in ReadSizes, piperead(p, k) PROVE Reasons'
  BY <1>t, <1>2, Zenon DEF piperead, Locked, Inside, Ends, Reading, Writing, Empty, Full
<1>3. ASSUME NEW p \in Proc, reacquire(p) PROVE Reasons'
  BY <1>t, <1>3, Zenon DEF reacquire, Locked, Inside, Ends, Reading, Writing, Empty, Full
<1>4. ASSUME NEW p \in Proc, write_fails(p) PROVE Reasons'
  <2>1. /\ pc' = [pc EXCEPT ![p] = "user"] /\ killed' = killed
        /\ readopen' = readopen /\ writeopen' = writeopen
        /\ readopen = 0 \/ killed[p] = 1
        /\ Full' = Full /\ Empty' = Empty /\ pc[p] = "write"
    BY <1>4, Zenon DEF write_fails, Empty, Full
  <2>2. \A q \in Proc : pc[q] \notin {"wsleep", "rsleep", "copy"}
    BY <1>t, <2>1, Zenon DEF Locked, Inside
  <2>3. CASE readopen = 0
    <3>1. \A q \in Proc : pc[q] # "rasleep"
      BY <1>t, <2>3, Zenon DEF Ends, Reading
    <3> QED  BY <1>t, <2>1, <2>2, <3>1, Zenon
  <2>4. CASE killed[p] = 1
    BY <1>t, <2>1, <2>2, <2>4, Zenon
  <2> QED  BY <2>1, <2>3, <2>4, Zenon
<1>5. ASSUME NEW p \in Proc, write_full(p) PROVE Reasons'
  BY <1>t, <1>5, Zenon DEF write_full, Locked, Inside, Ends, Reading, Writing, Empty, Full
<1>6. ASSUME NEW p \in Proc, NEW b \in Byte, write_byte(p, b) PROVE Reasons'
  BY <1>t, <1>6, Zenon DEF write_byte, Locked, Inside, Ends, Reading, Writing, Empty, Full
<1>7. ASSUME NEW p \in Proc, write_done(p) PROVE Reasons'
  BY <1>t, <1>7, Zenon DEF write_done, Locked, Inside, Ends, Reading, Writing, Empty, Full
<1>8. ASSUME NEW p \in Proc, read_killed(p) PROVE Reasons'
  BY <1>t, <1>8, Zenon DEF read_killed, Locked, Inside, Ends, Reading, Writing, Empty, Full
<1>9. ASSUME NEW p \in Proc, read_empty(p) PROVE Reasons'
  BY <1>t, <1>9, Zenon DEF read_empty, Locked, Inside, Ends, Reading, Writing, Empty, Full
<1>10. ASSUME NEW p \in Proc, read_some(p) PROVE Reasons'
  BY <1>t, <1>10, Zenon DEF read_some, Locked, Inside, Ends, Reading, Writing, Empty, Full
<1>11. ASSUME NEW p \in Proc, read_byte(p) PROVE Reasons'
  BY <1>t, <1>11, Zenon DEF read_byte, Locked, Inside, Ends, Reading, Writing, Empty, Full
<1>12. ASSUME NEW p \in Proc, read_fault(p) PROVE Reasons'
  BY <1>t, <1>12, Zenon DEF read_fault, Locked, Inside, Ends, Reading, Writing, Empty, Full
<1>13. ASSUME NEW p \in Proc, read_done(p) PROVE Reasons'
  BY <1>t, <1>13, Zenon DEF read_done, Locked, Inside, Ends, Reading, Writing, Empty, Full
<1>14. ASSUME NEW p \in Proc, sleep(p) PROVE Reasons'
  BY <1>t, <1>14, Zenon DEF sleep, Locked, Inside, Ends, Reading, Writing, Empty, Full
<1>15. ASSUME NEW p \in Proc, kill(p) PROVE Reasons'
  BY <1>t, <1>15, Zenon DEF kill, Locked, Inside, Ends, Reading, Writing, Empty, Full
<1>16. ASSUME NEW p \in Proc, NEW end \in {"r", "w"}, fileclose(p, end) PROVE Reasons'
  BY <1>t, <1>16, Zenon DEF fileclose, Locked, Inside, Ends, Reading, Writing, Empty, Full
<1>17. ASSUME NEW p \in Proc, pipeclose_w(p) PROVE Reasons'
  BY <1>t, <1>17, Zenon DEF pipeclose_w, Locked, Inside, Ends, Reading, Writing, Empty, Full
<1>18. ASSUME NEW p \in Proc, pipeclose_r(p) PROVE Reasons'
  BY <1>t, <1>18, Zenon DEF pipeclose_r, Locked, Inside, Ends, Reading, Writing, Empty, Full
<1>19. ASSUME NEW p \in Proc, pipeclose_free(p) PROVE Reasons'
  BY <1>t, <1>19, Zenon DEF pipeclose_free, Locked, Inside, Ends, Reading, Writing, Empty, Full
<1>20. CASE UNCHANGED vars
  BY <1>t, <1>20, Zenon DEF vars, Empty, Full
<1> QED
  BY <1>0, <1>1, <1>2, <1>3, <1>4, <1>5, <1>6, <1>7, <1>8, <1>9, <1>10,
     <1>11, <1>12, <1>13, <1>14, <1>15, <1>16, <1>17, <1>18, <1>19, <1>20, Zenon DEF Next, KernelStep

(* Every step keeps the types.                                             *)
LEMMA TypeStep == PipeInvariant /\ [Next]_vars => TypeOK'
<1>0. SUFFICES ASSUME PipeInvariant, [Next]_vars PROVE TypeOK'
  BY Zenon
<1>t. TypeOK /\ ReadSizes \subseteq Nat /\ WriteSizes \subseteq Nat
  BY <1>0, PipeConstants, Zenon DEF PipeInvariant
<1> USE DEF TypeOK, Goto, Return, WakeAnd, pipeVars
<1>1. ASSUME NEW p \in Proc, NEW k \in WriteSizes, pipewrite(p, k) PROVE TypeOK'
  BY <1>t, <1>1, Zenon DEF pipewrite
<1>2. ASSUME NEW p \in Proc, NEW k \in ReadSizes, piperead(p, k) PROVE TypeOK'
  BY <1>t, <1>2, Zenon DEF piperead
<1>3. ASSUME NEW p \in Proc, reacquire(p) PROVE TypeOK'
  BY <1>t, <1>3, Zenon DEF reacquire
<1>4. ASSUME NEW p \in Proc, write_fails(p) PROVE TypeOK'
  BY <1>t, <1>4, Zenon DEF write_fails
<1>5. ASSUME NEW p \in Proc, write_full(p) PROVE TypeOK'
  BY <1>t, <1>5, Zenon DEF write_full
<1>6. ASSUME NEW p \in Proc, NEW b \in Byte, write_byte(p, b) PROVE TypeOK'
  <2>1. nwrite' \in 0..2^Width - 1 /\ nwrite % PIPESIZE \in 0..PIPESIZE - 1
    BY <1>t, <1>6, IncType, IndexType, Zenon DEF write_byte
  <2> QED  BY <1>t, <1>6, <2>1 DEF write_byte
<1>7. ASSUME NEW p \in Proc, write_done(p) PROVE TypeOK'
  BY <1>t, <1>7, Zenon DEF write_done
<1>8. ASSUME NEW p \in Proc, read_killed(p) PROVE TypeOK'
  BY <1>t, <1>8, Zenon DEF read_killed
<1>9. ASSUME NEW p \in Proc, read_empty(p) PROVE TypeOK'
  BY <1>t, <1>9, Zenon DEF read_empty
<1>10. ASSUME NEW p \in Proc, read_some(p) PROVE TypeOK'
  BY <1>t, <1>10, Zenon DEF read_some
<1>11. ASSUME NEW p \in Proc, read_byte(p) PROVE TypeOK'
  <2>1. nread' \in 0..2^Width - 1 /\ nread % PIPESIZE \in 0..PIPESIZE - 1
    BY <1>t, <1>11, IncType, IndexType, Zenon DEF read_byte
  <2> QED  BY <1>t, <1>11, <2>1 DEF read_byte
<1>12. ASSUME NEW p \in Proc, read_fault(p) PROVE TypeOK'
  <2>1. nread' \in 0..2^Width - 1
    BY <1>t, <1>12, IncType, Zenon DEF read_fault
  <2> QED  BY <1>t, <1>12, <2>1, Zenon DEF read_fault
<1>13. ASSUME NEW p \in Proc, read_done(p) PROVE TypeOK'
  BY <1>t, <1>13, Zenon DEF read_done
<1>14. ASSUME NEW p \in Proc, sleep(p) PROVE TypeOK'
  BY <1>t, <1>14, Zenon DEF sleep
<1>15. ASSUME NEW p \in Proc, kill(p) PROVE TypeOK'
  BY <1>t, <1>15, Zenon DEF kill
<1>16. ASSUME NEW p \in Proc, NEW end \in {"r", "w"}, fileclose(p, end) PROVE TypeOK'
  BY <1>t, <1>16, Zenon DEF fileclose
<1>17. ASSUME NEW p \in Proc, pipeclose_w(p) PROVE TypeOK'
  BY <1>t, <1>17, Zenon DEF pipeclose_w
<1>18. ASSUME NEW p \in Proc, pipeclose_r(p) PROVE TypeOK'
  BY <1>t, <1>18, Zenon DEF pipeclose_r
<1>19. ASSUME NEW p \in Proc, pipeclose_free(p) PROVE TypeOK'
  BY <1>t, <1>19 DEF pipeclose_free
<1>20. CASE UNCHANGED vars
  BY <1>t, <1>20, Zenon DEF vars
<1> QED
  BY <1>0, <1>1, <1>2, <1>3, <1>4, <1>5, <1>6, <1>7, <1>8, <1>9, <1>10,
     <1>11, <1>12, <1>13, <1>14, <1>15, <1>16, <1>17, <1>18, <1>19, <1>20, Zenon DEF Next, KernelStep

-----------------------------------------------------------------------------
(* The queue.  Where the counters are after a step.                        *)
LEMMA CountIs ==
  ASSUME NEW x \in 0..2^Width - 1, NEW y \in 0..2^Width - 1
  PROVE  (y - x) % 2^Width = IF x <= y THEN y - x ELSE y - x + 2^Width
  BY Distance, Sizes, Zenon DEF Mod

LEMMA IncIs ==
  ASSUME NEW x \in 0..2^Width - 1
  PROVE  Inc(x) = IF x + 1 = 2^Width THEN 0 ELSE x + 1
  BY Next1, Sizes, Zenon DEF Inc, Mod

(* nwrite is nread and the bytes between, and so is its place in data[].   *)
LEMMA Ahead ==
  ASSUME TypeOK
  PROVE  /\ Count \in 0..2^Width - 1
         /\ nwrite = nread + Count \/ nwrite + 2^Width = nread + Count
         /\ nwrite % PIPESIZE = (nread + Count) % PIPESIZE
<1>1. nread \in 0..2^Width - 1 /\ nwrite \in 0..2^Width - 1
  BY Zenon DEF TypeOK
<1>2. Count = IF nread <= nwrite THEN nwrite - nread ELSE nwrite - nread + 2^Width
  BY <1>1, CountIs, Zenon DEF Count
<1>3. 2^Width \in Nat
  BY Sizes, Zenon DEF Mod
<1>4. /\ Count \in 0..2^Width - 1
      /\ nwrite = nread + Count \/ nwrite + 2^Width = nread + Count
  BY <1>1, <1>2, <1>3
<1>5. (nwrite + 2^Width) % PIPESIZE = nwrite % PIPESIZE
  <2>1. nwrite \in Nat
    BY <1>1
  <2> QED  BY <2>1, Wraps, Sizes, Zenon DEF Mod
<1> QED  BY <1>4, <1>5, Zenon

LEMMA NotFull == ASSUME TypeOK, Bounded, ~Full PROVE Count < PIPESIZE
<1>1. nread \in 0..2^Width - 1 /\ nwrite \in 0..2^Width - 1
  BY Zenon DEF TypeOK
<1>2. (nread + PIPESIZE) % 2^Width =
        IF nread + PIPESIZE < 2^Width THEN nread + PIPESIZE ELSE nread + PIPESIZE - 2^Width
  BY <1>1, FarAhead, Sizes, Zenon DEF Mod
<1>3. PIPESIZE \in Nat /\ 2^Width \in Nat
  BY Sizes, Zenon DEF Mod
<1>4. CASE Count = PIPESIZE
  BY <1>1, <1>2, <1>3, <1>4, Ahead DEF Full
<1> QED  BY <1>3, <1>4, Ahead DEF Bounded

LEMMA NotEmpty == ASSUME TypeOK PROVE Empty <=> Count = 0
<1>1. nread \in 0..2^Width - 1 /\ nwrite \in 0..2^Width - 1 /\ 2^Width \in Nat
  BY Sizes, Zenon DEF TypeOK, Mod
<1> QED  BY <1>1, CountIs DEF Empty, Count

LEMMA CountPut ==
  ASSUME TypeOK, Bounded, ~Full, nwrite' = Inc(nwrite), nread' = nread
  PROVE  Count' = Count + 1
<1>1. nread \in 0..2^Width - 1 /\ nwrite \in 0..2^Width - 1
  BY Zenon DEF TypeOK
<1>2. nwrite' \in 0..2^Width - 1
  BY <1>1, IncType, Zenon
<1>3. nwrite' = IF nwrite + 1 = 2^Width THEN 0 ELSE nwrite + 1
  BY <1>1, IncIs, Zenon
<1>4. Count' = IF nread <= nwrite' THEN nwrite' - nread ELSE nwrite' - nread + 2^Width
  BY <1>1, <1>2, CountIs, Zenon DEF Count
<1>5. Count = IF nread <= nwrite THEN nwrite - nread ELSE nwrite - nread + 2^Width
  BY <1>1, CountIs, Zenon DEF Count
<1>6. Count < PIPESIZE /\ PIPESIZE < 2^Width /\ PIPESIZE \in Nat /\ 2^Width \in Nat
  BY NotFull, Sizes, Zenon DEF Mod
<1> QED  BY <1>1, <1>2, <1>3, <1>4, <1>5, <1>6

LEMMA CountTake ==
  ASSUME TypeOK, ~Empty, nread' = Inc(nread), nwrite' = nwrite
  PROVE  Count' = Count - 1 /\ (nread' = nread + 1 \/ nread' + 2^Width = nread + 1)
<1>1. nread \in 0..2^Width - 1 /\ nwrite \in 0..2^Width - 1 /\ 2^Width \in Nat
  BY Sizes, Zenon DEF TypeOK, Mod
<1>2. nread' \in 0..2^Width - 1
  BY <1>1, IncType, Zenon
<1>3. nread' = IF nread + 1 = 2^Width THEN 0 ELSE nread + 1
  BY <1>1, IncIs, Zenon
<1>4. Count' = IF nread' <= nwrite THEN nwrite - nread' ELSE nwrite - nread' + 2^Width
  BY <1>1, <1>2, CountIs, Zenon DEF Count
<1>5. Count = IF nread <= nwrite THEN nwrite - nread ELSE nwrite - nread + 2^Width
  BY <1>1, CountIs, Zenon DEF Count
<1> QED  BY <1>1, <1>2, <1>3, <1>4, <1>5 DEF Empty

(* A byte that is written comes after the others.                          *)
LEMMA Puts ==
  ASSUME TypeOK, Bounded, ~Full, NEW b \in Byte, nwrite' = Inc(nwrite), nread' = nread,
         data' = [data EXCEPT ![nwrite % PIPESIZE] = b]
  PROVE  Queue' = Append(Queue, b) /\ Len(Queue) < PIPESIZE
<1>1. Count \in Nat /\ Count < PIPESIZE /\ Count' = Count + 1
  BY Ahead, NotFull, CountPut
<1>2. nread \in Nat /\ PIPESIZE \in Nat /\ PIPESIZE > 0
  BY Sizes DEF TypeOK
<1>3. nwrite % PIPESIZE = (nread + Count) % PIPESIZE /\ nwrite % PIPESIZE \in DOMAIN data
  BY Ahead, IndexType, Zenon DEF TypeOK
<1>4. ASSUME NEW k \in 1..Count
      PROVE  data'[(nread + k - 1) % PIPESIZE] = data[(nread + k - 1) % PIPESIZE]
  <2>1. (nread + k - 1) % PIPESIZE # (nread + Count) % PIPESIZE
    <3>1. nread + k - 1 \in Nat /\ nread + Count \in Nat
      BY <1>1, <1>2
    <3>2. nread + k - 1 < nread + Count /\ nread + Count < nread + k - 1 + PIPESIZE
      BY <1>1, <1>2
    <3> QED  BY <1>2, <3>1, <3>2, Apart, Zenon
  <2>2. data = [x \in DOMAIN data |-> data[x]]
    BY Zenon DEF TypeOK
  <2> QED  BY <1>3, <2>1, <2>2
<1>5. data'[(nread + (Count + 1) - 1) % PIPESIZE] = b
  <2>1. nread + (Count + 1) - 1 = nread + Count
    BY <1>1, <1>2
  <2> QED  BY <1>3, <2>1, Zenon DEF TypeOK
<1>6. Queue' = [k \in 1..Count + 1 |-> data'[(nread + k - 1) % PIPESIZE]]
  BY <1>1 DEF Queue
<1>7. Queue = [k \in 1..Count |-> data[(nread + k - 1) % PIPESIZE]]
  BY Zenon DEF Queue
<1>8. Len(Queue) = Count
  BY <1>1, <1>7
<1>9. Append(Queue, b) = [k \in 1..Count + 1 |-> IF k = Count + 1 THEN b ELSE Queue[k]]
  BY <1>1, <1>7, <1>8
<1>10. \A k \in 1..Count + 1 : k \in 1..Count \/ k = Count + 1
  BY <1>1
<1>11. \A k \in 1..Count : k # Count + 1
  BY <1>1
<1>12. \A k \in 1..Count + 1 : data'[(nread + k - 1) % PIPESIZE] = IF k = Count + 1 THEN b ELSE Queue[k]
  BY <1>4, <1>5, <1>7, <1>10, <1>11, Zenon
<1> QED  BY <1>1, <1>6, <1>8, <1>9, <1>12, Zenon

(* The byte that is read is the first.                                     *)
LEMMA Takes ==
  ASSUME TypeOK, Bounded, ~Empty, nread' = Inc(nread), nwrite' = nwrite, data' = data
  PROVE  Queue # <<>> /\ Queue' = Tail(Queue) /\ Head(Queue) = data[nread % PIPESIZE]
<1>1. Count \in Nat /\ Count # 0 /\ Count' = Count - 1
  BY Ahead, NotEmpty, CountTake
<1>2. nread \in Nat /\ PIPESIZE \in Nat /\ PIPESIZE > 0 /\ nread' \in Nat
  BY Sizes, IncType DEF TypeOK
<1>3. nread' = nread + 1 \/ nread' + 2^Width = nread + 1
  BY CountTake, Zenon
<1>4. ASSUME NEW k \in 1..Count - 1
      PROVE  (nread' + k - 1) % PIPESIZE = (nread + (k + 1) - 1) % PIPESIZE
  <2>1. CASE nread' = nread + 1
    BY <1>1, <1>2, <2>1
  <2>2. CASE nread' + 2^Width = nread + 1
    <3>1. nread' + k - 1 \in Nat /\ 2^Width \in Nat
      BY <1>1, <1>2, Sizes DEF Mod
    <3>2. (nread' + k - 1 + 2^Width) % PIPESIZE = (nread' + k - 1) % PIPESIZE
      BY <3>1, Wraps, Sizes, Zenon DEF Mod
    <3>3. nread' + k - 1 + 2^Width = nread + (k + 1) - 1
      BY <1>1, <1>2, <2>2, <3>1
    <3> QED  BY <3>2, <3>3, Zenon
  <2> QED  BY <1>3, <2>1, <2>2, Zenon
<1>5. Queue' = [k \in 1..Count - 1 |-> data[(nread' + k - 1) % PIPESIZE]]
  BY <1>1, Zenon DEF Queue
<1>6. Queue = [k \in 1..Count |-> data[(nread + k - 1) % PIPESIZE]]
  BY Zenon DEF Queue
<1>7. Len(Queue) = Count
  BY <1>1, <1>6
<1>8. Tail(Queue) = [k \in 1..Count - 1 |-> Queue[k + 1]]
  BY <1>1, <1>6, <1>7
<1>9. \A k \in 1..Count - 1 : k + 1 \in 1..Count
  BY <1>1
<1>10. \A k \in 1..Count - 1 : data[(nread' + k - 1) % PIPESIZE] = Queue[k + 1]
  BY <1>4, <1>6, <1>9, Zenon
<1>11. Queue # <<>>
  BY <1>1, <1>7
<1>12. Head(Queue) = data[nread % PIPESIZE]
  <2>1. Head(Queue) = Queue[1]
    BY <1>11
  <2>2. 1 \in 1..Count /\ nread + 1 - 1 = nread
    BY <1>1, <1>2
  <2> QED  BY <1>6, <2>1, <2>2, Zenon
<1> QED  BY <1>5, <1>8, <1>10, <1>11, <1>12, Zenon

(* Three steps move a byte.                                                *)
LEMMA Moves ==
  [Next]_vars => \/ \E p \in Proc, b \in Byte : write_byte(p, b)
                 \/ \E p \in Proc : read_byte(p) \/ read_fault(p)
                 \/ UNCHANGED <<data, nread, nwrite, out>>
<1> SUFFICES ASSUME [Next]_vars, ~ \E p \in Proc, b \in Byte : write_byte(p, b),
                    ~ \E p \in Proc : read_byte(p) \/ read_fault(p)
             PROVE  UNCHANGED <<data, nread, nwrite, out>>
  BY Zenon
<1> USE DEF pipeVars
<1>1. ASSUME NEW p \in Proc, KernelStep(p) PROVE UNCHANGED <<data, nread, nwrite, out>>
  BY <1>1, Zenon
     DEF KernelStep, reacquire, sleep, write_fails, write_full, write_done, read_killed, read_empty,
         read_some, read_done, pipeclose_w, pipeclose_r, pipeclose_free
<1>2. ASSUME NEW p \in Proc, NEW k, NEW end,
             kill(p) \/ pipewrite(p, k) \/ piperead(p, k) \/ fileclose(p, end)
      PROVE  UNCHANGED <<data, nread, nwrite, out>>
  BY <1>2, Zenon DEF kill, pipewrite, piperead, fileclose
<1>3. CASE UNCHANGED vars
  BY <1>3, Zenon DEF vars
<1> QED  BY <1>1, <1>2, <1>3, Zenon DEF Next

(* The counters stay within the size of the pipe.                          *)
LEMMA BoundedStep == PipeInvariant /\ [Next]_vars => Bounded'
<1> SUFFICES ASSUME PipeInvariant, [Next]_vars PROVE Bounded'
  BY Zenon
<1>0. TypeOK /\ Bounded
  BY Zenon DEF PipeInvariant
<1>1. ASSUME NEW p \in Proc, NEW b \in Byte, write_byte(p, b) PROVE Bounded'
  <2>1. ~Full /\ nwrite' = Inc(nwrite) /\ nread' = nread
    BY <1>1, Zenon DEF write_byte
  <2>2. Count' = Count + 1 /\ Count < PIPESIZE
    BY <1>0, <2>1, CountPut, NotFull, Zenon
  <2>3. Count \in Int /\ PIPESIZE \in Int
    BY <1>0, Ahead, Sizes
  <2> QED  BY <2>2, <2>3 DEF Bounded
<1>2. ASSUME NEW p \in Proc, read_byte(p) \/ read_fault(p) PROVE Bounded'
  <2>1. ~Empty /\ nread' = Inc(nread) /\ nwrite' = nwrite
    BY <1>2, Zenon DEF read_byte, read_fault
  <2>2. Count' = Count - 1
    BY <1>0, <2>1, CountTake, Zenon
  <2>3. Count \in Int /\ PIPESIZE \in Int
    BY <1>0, Ahead, Sizes
  <2> QED  BY <1>0, <2>2, <2>3 DEF Bounded
<1>3. CASE UNCHANGED <<data, nread, nwrite, out>>
  BY <1>0, <1>3, Zenon DEF Bounded, Count
<1> QED  BY <1>1, <1>2, <1>3, Moves, Zenon

(* Nobody has slept, written or closed anything.                           *)
LEMMA InitInvariant == Init => PipeInvariant
<1> SUFFICES ASSUME Init PROVE PipeInvariant
  BY Zenon
<1>1. TypeOK
  BY PipeConstants, Sizes DEF Init, TypeOK, Mod
<1>2. Locked /\ Ends /\ Reasons
  BY PipeConstants DEF Init, Locked, Ends, Reasons, Inside, Reading, Writing
<1>3. Bounded
  BY <1>1, NotEmpty, Sizes DEF Init, Bounded, Empty
<1> QED  BY <1>1, <1>2, <1>3, Zenon DEF PipeInvariant

(* The invariant of pipe.c: pi->lock, the open ends, the sleepers and the  *)
(* counters agree, whoever is killed when.                                 *)
THEOREM PipeInvariance == Spec => []PipeInvariant
<1>1. PipeInvariant /\ [Next]_vars => PipeInvariant'
  BY TypeStep, LockedStep, EndsStep, ReasonsStep, BoundedStep, Zenon DEF PipeInvariant
<1> QED  BY <1>1, InitInvariant, PTL DEF Spec

(* With pi->lock free, nobody sleeps in piperead() or pipewrite() for what *)
(* is already there.                                                       *)
THEOREM SleepersHaveReasons == Spec => []NoLostWakeup
<1>1. PipeInvariant => NoLostWakeup
  <2> SUFFICES ASSUME PipeInvariant, lock = NoProc
               PROVE  \A p \in Proc :
                        /\ pc[p] = "rasleep" =>
                             writeopen = 1 /\ (Empty \/ \E q \in Proc : killed[q] = 1)
                        /\ pc[p] = "wasleep" => Full /\ readopen = 1
    BY Zenon DEF NoLostWakeup
  <2>1. \A q \in Proc : pc[q] \notin Inside
    BY PipeConstants, Zenon DEF PipeInvariant, Locked
  <2>2. \A q \in Proc : pc[q] # "write" /\ pc[q] # "copy"
    BY <2>1, Zenon DEF Inside
  <2> QED  BY <2>2, Zenon DEF PipeInvariant, Reasons
<1> QED  BY <1>1, PipeInvariance, PTL

(* pipe.c is the queue of module Fifo: the bytes come out in the order in  *)
(* which they went in, also where nread and nwrite wrap around.            *)
THEOREM PipeIsFifo == Spec => IsFifo
<1>1. Init => FifoSpec!Init
  <2> SUFFICES ASSUME Init PROVE FifoSpec!Init
    BY Zenon
  <2>1. Count = 0
    BY InitInvariant, NotEmpty, Zenon DEF Init, PipeInvariant, Empty
  <2>2. Queue = <<>>
    BY <2>1 DEF Queue
  <2> QED  BY <2>2, Zenon DEF Init, FifoSpec!Init
<1>2. PipeInvariant /\ [Next]_vars => [FifoSpec!Next]_<<Queue, out>>
  <2> SUFFICES ASSUME PipeInvariant, [Next]_vars PROVE [FifoSpec!Next]_<<Queue, out>>
    BY Zenon
  <2>0. TypeOK /\ Bounded
    BY Zenon DEF PipeInvariant
  <2>1. ASSUME NEW p \in Proc, NEW b \in Byte, write_byte(p, b) PROVE FifoSpec!Put(b)
    BY <2>0, <2>1, Puts, Zenon DEF write_byte, FifoSpec!Put
  <2>2. ASSUME NEW p \in Proc, read_byte(p) PROVE FifoSpec!Take
    BY <2>0, <2>2, Takes, Zenon DEF read_byte, FifoSpec!Take
  <2>3. ASSUME NEW p \in Proc, read_fault(p) PROVE FifoSpec!Lose
    BY <2>0, <2>3, Takes, Zenon DEF read_fault, FifoSpec!Lose
  <2>4. CASE UNCHANGED <<data, nread, nwrite, out>>
    BY <2>4, Zenon DEF Queue, Count
  <2> QED  BY <2>1, <2>2, <2>3, <2>4, Moves, Zenon DEF FifoSpec!Next
<1> QED  BY <1>1, <1>2, PipeInvariance, PTL DEF Spec, IsFifo, FifoSpec!Spec
=============================================================================
