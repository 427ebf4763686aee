------------------------------- MODULE Primes -------------------------------
(***************************************************************************)
(* user/primes.c: a sieve of processes.  Stage 0 is main(); stage s is the *)
(* process that the s-th call of prime() runs in.  Pipe s leads from stage *)
(* s to stage s + 1.                                                       *)
(*                                                                         *)
(* The kernel's part is that of modules Pipe and Ftable: fork() copies the *)
(* open ends, a read sees the end of file when no process has the write    *)
(* end, and a process has at most NOFILE descriptors, three of which it    *)
(* starts with.  A pipe has room for whole ints, so that an int is written *)
(* and read in one piece.                                                  *)
(***************************************************************************)
EXTENDS Integers, Sequences, FiniteSets, SequencesExt

CONSTANTS
  limit,
  NOFILE,
  PIPESIZE,      \* in ints
  NSTAGE         \* bound: stages in the model

PrimesConstants ==
  /\ limit \in Nat /\ NOFILE \in Nat /\ PIPESIZE \in Nat \ {0} /\ NSTAGE \in Nat \ {0}

Stage == 0..NSTAGE

VARIABLES
  queue,         \* the ints in a pipe
  ends,          \* of a process: the ends it has open, <<pipe, "r" or "w">>
  pc, n, temp,   \* of a process: label, its prime, the int it is at
  out            \* what was printed

vars == <<queue, ends, pc, n, temp, out>>

Init ==
  /\ queue = [s \in Stage |-> <<>>]
  /\ ends = [s \in Stage |-> {}]
  /\ pc = [s \in Stage |-> IF s = 0 THEN "pipe" ELSE "none"]
  /\ n = [s \in Stage |-> 0] /\ temp = [s \in Stage |-> 0]
  /\ out = <<>>

Goto(s, l) == pc' = [pc EXCEPT ![s] = l]
Open(s, e) == ends' = [ends EXCEPT ![s] = @ \union e]
Close(s, e) == ends' = [ends EXCEPT ![s] = @ \ {e}]
IsOpen(e) == \E s \in Stage : e \in ends[s]

(* pipe(): both ends, or -1, which nobody looks at.                        *)
pipe(s) ==
  /\ pc[s] = "pipe"
  /\ IF 3 + Cardinality(ends[s]) + 2 <= NOFILE
     THEN Open(s, {<<s, "r">>, <<s, "w">>}) ELSE UNCHANGED ends
  /\ Goto(s, IF s = 0 THEN "fork" ELSE "first")
  /\ UNCHANGED <<queue, n, temp, out>>

(* fork(): the child begins with prime(fd) of the pipe that s made.  When  *)
(* pipe() has failed, next_pipefd[] is uninitialized: anything may follow, *)
(* and a label from which nothing does stands for it.                      *)
fork(s) ==
  /\ pc[s] = "fork" /\ s + 1 \in Stage
  /\ ends' = [ends EXCEPT ![s + 1] = ends[s]]
  /\ pc' = IF {<<s, "r">>, <<s, "w">>} \subseteq ends[s]
           THEN [pc EXCEPT ![s] = "closer", ![s + 1] = "start"]
           ELSE [pc EXCEPT ![s] = "undefined"]
  /\ UNCHANGED <<queue, n, temp, out>>

(* The parent closes the end it does not read.                             *)
close_read(s) ==
  /\ pc[s] = "closer"
  /\ Close(s, <<s, "r">>)
  /\ IF s = 0
     THEN Goto(s, IF limit < 2 THEN "closew" ELSE "write") /\ temp' = [temp EXCEPT ![s] = 2]
     ELSE Goto(s, "read") /\ UNCHANGED temp
  /\ UNCHANGED <<queue, n, out>>

(* write(): waits for room; without a reader it fails, which nobody looks  *)
(* at.  main() goes on to the next int, a stage back to its read().        *)
write(s) ==
  /\ pc[s] = "write"
  /\ Len(queue[s]) < PIPESIZE \/ ~IsOpen(<<s, "r">>)
  /\ queue' = [queue EXCEPT ![s] =
                 IF IsOpen(<<s, "r">>) /\ <<s, "w">> \in ends[s] THEN Append(@, temp[s]) ELSE @]
  /\ IF s = 0
     THEN /\ temp' = [temp EXCEPT ![s] = @ + 1]
          /\ Goto(s, IF temp[s] = limit THEN "closew" ELSE "write")
     ELSE Goto(s, "read") /\ UNCHANGED temp
  /\ UNCHANGED <<ends, n, out>>

close_write(s) ==
  /\ pc[s] = "closew"
  /\ Close(s, <<s, "w">>)
  /\ Goto(s, "wait")
  /\ UNCHANGED <<queue, n, temp, out>>

(* wait() and exit(): all ends are closed.                                 *)
wait(s) ==
  /\ pc[s] = "wait" /\ pc[s + 1] = "exit"
  /\ ends' = [ends EXCEPT ![s] = {}]
  /\ Goto(s, "exit")
  /\ UNCHANGED <<queue, n, temp, out>>

-----------------------------------------------------------------------------
(* Mutant: the stage keeps the end it writes its own input with.           *)
start_open(s) == pc[s] = "start" /\ Goto(s, "pipe") /\ UNCHANGED <<queue, ends, n, temp, out>>

(* prime(): close(fd[1]).                                                  *)
start(s) ==
  /\ pc[s] = "start"
  /\ Close(s, <<s - 1, "w">>)
  /\ Goto(s, "pipe")
  /\ UNCHANGED <<queue, n, temp, out>>

Read(s) == /\ s > 0 /\ queue[s - 1] # <<>>
           /\ queue' = [queue EXCEPT ![s - 1] = Tail(@)]
Eof(s)  == s > 0 /\ queue[s - 1] = <<>> /\ ~IsOpen(<<s - 1, "w">>)

(* The first int is a prime ...                                            *)
first(s) ==
  /\ pc[s] = "first" /\ Read(s)
  /\ n' = [n EXCEPT ![s] = Head(queue[s - 1])]
  /\ out' = Append(out, Head(queue[s - 1]))
  /\ Goto(s, "fork")
  /\ UNCHANGED <<ends, temp>>

(* ... or there is none: the process ends.                                 *)
first_eof(s) ==
  /\ pc[s] = "first" /\ Eof(s)
  /\ ends' = [ends EXCEPT ![s] = {}]
  /\ Goto(s, "exit")
  /\ UNCHANGED <<queue, n, temp, out>>

(* Of the others the multiples of the first stay here.                     *)
read(s) ==
  /\ pc[s] = "read" /\ Read(s)
  /\ temp' = [temp EXCEPT ![s] = Head(queue[s - 1])]
  /\ Goto(s, IF Head(queue[s - 1]) % n[s] # 0 THEN "write" ELSE "read")
  /\ UNCHANGED <<ends, n, out>>

read_eof(s) ==
  /\ pc[s] = "read" /\ Eof(s)
  /\ Goto(s, "closew")
  /\ UNCHANGED <<queue, ends, n, temp, out>>

-----------------------------------------------------------------------------
Next ==
  \E s \in Stage :
    \/ pipe(s) \/ fork(s) \/ close_read(s) \/ write(s) \/ close_write(s) \/ wait(s)
    \/ start(s) \/ first(s) \/ first_eof(s) \/ read(s) \/ read_eof(s)

(* Some process that can run does.                                         *)
FairSpec == Init /\ [][Next]_vars /\ WF_vars(Next)

-----------------------------------------------------------------------------
IsPrime(m) == \A d \in 2..m - 1 : m % d # 0

(* main() has come to its exit(), after all stages, and exactly the primes *)
(* up to limit were printed, in order.                                     *)
Done ==
  /\ \A s \in Stage : pc[s] \in {"exit", "none"}
  /\ out = SetToSortSeq({m \in 2..limit : IsPrime(m)}, <)

(* However the stages are scheduled and wherever pipes are full, the sieve *)
(* ends with the primes: each reader sees the end of its pipe, and the     *)
(* descriptors, of which every stage inherits one more, suffice.           *)
Sieved == <>[]Done
=============================================================================
