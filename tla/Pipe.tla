-------------------------------- MODULE Pipe --------------------------------
(***************************************************************************)
(* kernel/pipe.c: one pipe, the processes that read, write and close it,   *)
(* and kill().  pi->lock is held from a step to the next where the code    *)
(* does something in between that kill() can see: the test of pr->killed   *)
(* and the sleep() after it are two steps.                                 *)
(*                                                                         *)
(* nread and nwrite are unsigned ints of Width bits that wrap around; the  *)
(* pipe has PIPESIZE bytes.  fd is what file.c and the descriptor tables   *)
(* tell of the pipe: the ends each process has open.                       *)
(***************************************************************************)
EXTENDS Integers, Sequences, FiniteSets

CONSTANTS
  Reader, Writer,   \* the processes that have each end open at the start
  NoProc,
  Byte, NoByte,
  PIPESIZE, Width,
  ReadSizes,        \* bound: bytes of one read() ...
  WriteSizes        \* ... and of one write()

Proc == Reader \union Writer

ASSUME PipeConstants ==
  /\ NoProc \notin Proc /\ NoByte \notin Byte
  /\ PIPESIZE \in Nat \ {0} /\ Width \in Nat /\ ReadSizes \union WriteSizes \subseteq Nat
  /\ 2^Width % PIPESIZE = 0 /\ PIPESIZE < 2^Width

VARIABLES
  data, nread, nwrite, readopen, writeopen, lock,   \* struct pipe
  freed,            \* how often kfree(pi) was called
  fd, killed,
  pc, n, i,         \* label and locals of each process
  out               \* the byte that was read last

pipeVars == <<data, nread, nwrite, readopen, writeopen, freed>>
vars == <<data, nread, nwrite, readopen, writeopen, freed, lock, fd, killed, pc, n, i, out>>

(* pipealloc(), and the file descriptors.                                  *)
Init ==
  /\ data = [k \in 0..PIPESIZE - 1 |-> NoByte]
  /\ nread = 0 /\ nwrite = 0
  /\ readopen = 1 /\ writeopen = 1
  /\ freed = 0
  /\ lock = NoProc
  /\ fd = [p \in Proc |-> {e \in {"r", "w"} : p \in IF e = "r" THEN Reader ELSE Writer}]
  /\ killed = [p \in Proc |-> 0]
  /\ pc = [p \in Proc |-> "user"]
  /\ n = [p \in Proc |-> 0]
  /\ i = [p \in Proc |-> 0]
  /\ out = NoByte

Inc(x) == (x + 1) % 2^Width
Empty  == nread = nwrite
Full   == nwrite = (nread + PIPESIZE) % 2^Width

Goto(p, l) == pc' = [pc EXCEPT ![p] = l]

(* The locals of a call that returns.                                      *)
Return(p) == n' = [n EXCEPT ![p] = 0] /\ i' = [i EXCEPT ![p] = 0]

(* p leaves with release(&pi->lock) for label l; wakeup() wakes whoever    *)
(* sleeps at label chan.                                                   *)
WakeAnd(p, chan, woken, l) ==
  pc' = [q \in Proc |-> IF q = p THEN l ELSE IF pc[q] = chan THEN woken ELSE pc[q]]

-----------------------------------------------------------------------------
(* acquire(&pi->lock) in pipewrite() and piperead().                       *)
pipewrite(p, k) ==
  /\ pc[p] = "user" /\ killed[p] = 0 /\ "w" \in fd[p]
  /\ lock = NoProc /\ lock' = p
  /\ n' = [n EXCEPT ![p] = k]
  /\ i' = [i EXCEPT ![p] = 0]
  /\ Goto(p, "write")
  /\ UNCHANGED <<pipeVars, fd, killed, out>>

piperead(p, k) ==
  /\ pc[p] = "user" /\ killed[p] = 0 /\ "r" \in fd[p]
  /\ lock = NoProc /\ lock' = p
  /\ n' = [n EXCEPT ![p] = k]
  /\ i' = [i EXCEPT ![p] = 0]
  /\ Goto(p, "read")
  /\ UNCHANGED <<pipeVars, fd, killed, out>>

(* acquire(lk) at the end of sleep().                                      *)
reacquire(p) ==
  /\ pc[p] \in {"wwoken", "rwoken"}
  /\ lock = NoProc /\ lock' = p
  /\ Goto(p, IF pc[p] = "wwoken" THEN "write" ELSE "read")
  /\ UNCHANGED <<pipeVars, fd, killed, n, i, out>>

-----------------------------------------------------------------------------
(* The pipe is full, and nobody will read it or want the answer.           *)
write_fails(p) ==
  /\ pc[p] = "write" /\ i[p] < n[p] /\ Full
  /\ readopen = 0 \/ killed[p] = 1
  /\ lock' = NoProc /\ Return(p)
  /\ Goto(p, "user")
  /\ UNCHANGED <<pipeVars, fd, killed, out>>

(* Mutant: a writer goes to sleep without waking the readers.              *)
write_full_silent(p) ==
  /\ pc[p] = "write" /\ i[p] < n[p] /\ Full
  /\ readopen = 1 /\ killed[p] = 0
  /\ Goto(p, "wsleep")
  /\ UNCHANGED <<pipeVars, lock, fd, killed, n, i, out>>

write_full(p) ==
  /\ pc[p] = "write" /\ i[p] < n[p] /\ Full
  /\ readopen = 1 /\ killed[p] = 0
  /\ WakeAnd(p, "rasleep", "rwoken", "wsleep")
  /\ UNCHANGED <<pipeVars, lock, fd, killed, n, i, out>>

(* Mutant: the test for a full pipe is one off.                            *)
write_byte_over(p, b) ==
  /\ pc[p] = "write" /\ i[p] < n[p] /\ nwrite # (nread + PIPESIZE + 1) % 2^Width
  /\ data' = [data EXCEPT ![nwrite % PIPESIZE] = b]
  /\ nwrite' = Inc(nwrite)
  /\ i' = [i EXCEPT ![p] = @ + 1]
  /\ UNCHANGED <<nread, readopen, writeopen, freed, lock, fd, killed, pc, n, out>>

write_byte(p, b) ==
  /\ pc[p] = "write" /\ i[p] < n[p] /\ ~Full
  /\ data' = [data EXCEPT ![nwrite % PIPESIZE] = b]
  /\ nwrite' = Inc(nwrite)
  /\ i' = [i EXCEPT ![p] = @ + 1]
  /\ UNCHANGED <<nread, readopen, writeopen, freed, lock, fd, killed, pc, n, out>>

(* All is written, or copyin() fails.                                      *)
write_done(p) ==
  /\ pc[p] = "write"
  /\ i[p] = n[p] \/ ~Full
  /\ WakeAnd(p, "rasleep", "rwoken", "user")
  /\ lock' = NoProc /\ Return(p)
  /\ UNCHANGED <<pipeVars, fd, killed, out>>

-----------------------------------------------------------------------------
read_killed(p) ==
  /\ pc[p] = "read" /\ Empty /\ writeopen = 1
  /\ killed[p] = 1
  /\ lock' = NoProc /\ Return(p)
  /\ Goto(p, "user")
  /\ UNCHANGED <<pipeVars, fd, killed, out>>

read_empty(p) ==
  /\ pc[p] = "read" /\ Empty /\ writeopen = 1
  /\ killed[p] = 0
  /\ Goto(p, "rsleep")
  /\ UNCHANGED <<pipeVars, lock, fd, killed, n, i, out>>

read_some(p) ==
  /\ pc[p] = "read"
  /\ ~Empty \/ writeopen = 0
  /\ Goto(p, "copy")
  /\ UNCHANGED <<pipeVars, lock, fd, killed, n, i, out>>

read_byte(p) ==
  /\ pc[p] = "copy" /\ i[p] < n[p] /\ ~Empty
  /\ out' = data[nread % PIPESIZE]
  /\ nread' = Inc(nread)
  /\ i' = [i EXCEPT ![p] = @ + 1]
  /\ UNCHANGED <<data, nwrite, readopen, writeopen, freed, lock, fd, killed, pc, n>>

(* copyout() fails after pi->nread++.                                      *)
read_fault(p) ==
  /\ pc[p] = "copy" /\ i[p] < n[p] /\ ~Empty
  /\ nread' = Inc(nread)
  /\ WakeAnd(p, "wasleep", "wwoken", "user")
  /\ lock' = NoProc /\ Return(p)
  /\ UNCHANGED <<data, nwrite, readopen, writeopen, freed, fd, killed, out>>

read_done(p) ==
  /\ pc[p] = "copy"
  /\ i[p] = n[p] \/ Empty
  /\ WakeAnd(p, "wasleep", "wwoken", "user")
  /\ lock' = NoProc /\ Return(p)
  /\ UNCHANGED <<pipeVars, fd, killed, out>>

-----------------------------------------------------------------------------
(* sleep(): SLEEPING and release(&pi->lock).                               *)
sleep(p) ==
  /\ pc[p] \in {"wsleep", "rsleep"}
  /\ lock' = NoProc
  /\ Goto(p, IF pc[p] = "wsleep" THEN "wasleep" ELSE "rasleep")
  /\ UNCHANGED <<pipeVars, fd, killed, n, i, out>>

kill(p) ==
  /\ killed[p] = 0
  /\ killed' = [killed EXCEPT ![p] = 1]
  /\ pc' = [pc EXCEPT ![p] = CASE @ = "wasleep" -> "wwoken"
                               [] @ = "rasleep" -> "rwoken"
                               [] OTHER -> @]
  /\ UNCHANGED <<pipeVars, lock, fd, n, i, out>>

-----------------------------------------------------------------------------
(* fileclose(), by close() or exit(): the last reference calls pipeclose().*)
fileclose(p, end) ==
  /\ pc[p] = "user" /\ end \in fd[p]
  /\ fd' = [fd EXCEPT ![p] = @ \ {end}]
  /\ Goto(p, IF \E q \in Proc \ {p} : end \in fd[q] THEN "user"
             ELSE IF end = "w" THEN "closew" ELSE "closer")
  /\ UNCHANGED <<pipeVars, lock, killed, n, i, out>>

(* Mutant: the readers are not woken.                                      *)
pipeclose_w_silent(p) ==
  /\ pc[p] = "closew"
  /\ lock = NoProc /\ lock' = p
  /\ writeopen' = 0
  /\ Goto(p, "closed")
  /\ UNCHANGED <<data, nread, nwrite, readopen, freed, fd, killed, n, i, out>>

pipeclose_w(p) ==
  /\ pc[p] = "closew"
  /\ lock = NoProc /\ lock' = p
  /\ writeopen' = 0
  /\ WakeAnd(p, "rasleep", "rwoken", "closed")
  /\ UNCHANGED <<data, nread, nwrite, readopen, freed, fd, killed, n, i, out>>

pipeclose_r(p) ==
  /\ pc[p] = "closer"
  /\ lock = NoProc /\ lock' = p
  /\ readopen' = 0
  /\ WakeAnd(p, "wasleep", "wwoken", "closed")
  /\ UNCHANGED <<data, nread, nwrite, writeopen, freed, fd, killed, n, i, out>>

pipeclose_free(p) ==
  /\ pc[p] = "closed"
  /\ lock' = NoProc
  /\ freed' = IF readopen = 0 /\ writeopen = 0 THEN freed + 1 ELSE freed
  /\ Goto(p, "user")
  /\ UNCHANGED <<data, nread, nwrite, readopen, writeopen, fd, killed, n, i, out>>

-----------------------------------------------------------------------------
(* What a process does inside of a call of the kernel.                     *)
KernelStep(p) ==
  \/ reacquire(p) \/ sleep(p)
  \/ write_fails(p) \/ write_full(p) \/ write_done(p) \/ \E b \in Byte : write_byte(p, b)
  \/ read_killed(p) \/ read_empty(p) \/ read_some(p) \/ read_byte(p) \/ read_done(p)
  \/ pipeclose_w(p) \/ pipeclose_r(p) \/ pipeclose_free(p)

Next ==
  \E p \in Proc :
    \/ KernelStep(p) \/ read_fault(p) \/ kill(p)
    \/ \E k \in WriteSizes : pipewrite(p, k)
    \/ \E k \in ReadSizes : piperead(p, k)
    \/ \E end \in {"r", "w"} : fileclose(p, end)

Spec == Init /\ [][Next]_vars

(* A process in the kernel goes on and gets pi->lock in the end; exit() of *)
(* a killed process closes its files.                                      *)
exit(p) == killed[p] = 1 /\ \E end \in {"r", "w"} : fileclose(p, end)

FairSpec == Spec /\ \A p \in Proc : SF_vars(KernelStep(p)) /\ WF_vars(exit(p))

-----------------------------------------------------------------------------
TypeOK ==
  /\ data \in [0..PIPESIZE - 1 -> Byte \union {NoByte}]
  /\ nread \in 0..2^Width - 1 /\ nwrite \in 0..2^Width - 1
  /\ readopen \in {0, 1} /\ writeopen \in {0, 1}
  /\ freed \in Nat
  /\ lock \in Proc \union {NoProc}
  /\ fd \in [Proc -> SUBSET {"r", "w"}]
  /\ killed \in [Proc -> {0, 1}]
  /\ pc \in [Proc -> {"user", "write", "wsleep", "wasleep", "wwoken", "read", "copy",
                      "rsleep", "rasleep", "rwoken", "closew", "closer", "closed"}]
  /\ n \in [Proc -> Nat] /\ i \in [Proc -> Nat]
  /\ out \in Byte \union {NoByte}

Count == (nwrite - nread) % 2^Width
Queue == [k \in 1..Count |-> data[(nread + k - 1) % PIPESIZE]]

FifoSpec == INSTANCE Fifo WITH Size <- PIPESIZE, queue <- Queue

(* However reads and writes of several processes interleave, and where the *)
(* counters wrap around, the bytes come out in the order they went in.     *)
IsFifo == FifoSpec!Spec

(* With pi->lock free nobody sleeps for what is already there: no reader   *)
(* while there are bytes or no writer, no writer while there is room or no *)
(* reader.  The exception is what a killed writer leaves: pipewrite()      *)
(* returns -1 from a full pipe without a wakeup() for what it wrote.       *)
NoLostWakeup ==
  lock = NoProc =>
    \A p \in Proc :
      /\ pc[p] = "rasleep" => writeopen = 1 /\ (Empty \/ \E q \in Proc : killed[q] = 1)
      /\ pc[p] = "wasleep" => Full /\ readopen = 1

Reading == {"read", "copy", "rsleep", "rasleep", "rwoken"}
Writing == {"write", "wsleep", "wasleep", "wwoken"}
NobodyHas(end) == \A q \in Proc : end \notin fd[q]

(* Once nobody has the write end open any more, whoever is in piperead(),  *)
(* asleep, woken or not there yet, comes back from it, however the bytes   *)
(* left, kills and the close itself interleave; so does a writer from      *)
(* pipewrite() when nobody has the read end.                               *)
EofSeen ==
  \A p \in Proc :
    /\ NobodyHas("w") /\ pc[p] \in Reading ~> pc[p] = "user"
    /\ NobodyHas("r") /\ pc[p] \in Writing ~> pc[p] = "user"
=============================================================================
