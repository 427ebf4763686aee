------------------------------- MODULE MCUser -------------------------------
(***************************************************************************)
(* Pipes and the programs above them, for TLC: the kernel's pipe, the      *)
(* sieve of primes.c, malloc() and the shell.  They share no state here,   *)
(* so that one moves in a behaviour and the others stay in their initial   *)
(* states.                                                                 *)
(***************************************************************************)
EXTENDS Pipe

CONSTANTS
  limit, SieveFiles, SievePipe, NSTAGE,
  NUNITS, CORE, HDR, Requests, Gaps,
  MAXARGS, NOFILE, MaxLine

VARIABLES
  layer,
  queue, ends, stage, prime, temp, printed,
  ptr, size, freep, brk, core, used,
  buf, proc

sieveVars == <<queue, ends, stage, prime, temp, printed>>
heapVars == <<ptr, size, freep, brk, core, used>>
shellVars == <<buf, proc>>

P == INSTANCE Primes WITH
  NOFILE <- SieveFiles, PIPESIZE <- SievePipe,
  pc <- stage, n <- prime, out <- printed

M == INSTANCE Umalloc

(* All short lines, and longer ones that nest what they can.               *)
MCToken == {"a", "|", "(", ")", ";", "&", "<", ">"}
MCLines ==
  UNION {[1..len -> MCToken] : len \in 0..MaxLine} \union
  { <<"a", ">", "a", "|", "(", "a", ";", "a", ")", "<", "a">>,
    <<"(", "a", "|", "a", "|", "a", ")", "+", "a", ";", "a">>,
    <<"a", "&", ";", "a", "|", "a", "&">>,
    <<"a", ">", "a", "+", "a", "a", "<", "a">> }

S == INSTANCE Sh WITH Lines <- MCLines

ASSUME PrimesAssumption == P!PrimesConstants
ASSUME UmallocAssumption == M!UmallocConstants
ASSUME ShAssumption == S!ShConstants

userVars == <<layer, vars, sieveVars, heapVars, shellVars>>

MCInit ==
  /\ layer \in {"pipe", "primes", "malloc", "sh"}
  /\ Init /\ P!Init /\ M!Init
  /\ S!Init /\ (layer # "sh" => \A f \in 0..2 : proc[1].fd[f] = S!Console)

MCNext ==
  /\ UNCHANGED layer
  /\ \/ layer = "pipe"   /\ Next   /\ UNCHANGED <<sieveVars, heapVars, shellVars>>
     \/ layer = "primes" /\ P!Next /\ UNCHANGED <<vars, heapVars, shellVars>>
     \/ layer = "malloc" /\ M!Next /\ UNCHANGED <<vars, sieveVars, shellVars>>
     \/ layer = "sh"     /\ S!Next /\ UNCHANGED <<vars, sieveVars, heapVars>>

(* The fairness of Pipe, which asks for nothing when nobody is in a call,  *)
(* and of Primes.                                                          *)
MCFairSpec ==
  /\ MCInit /\ [][MCNext]_userVars
  /\ \A p \in Proc : SF_vars(KernelStep(p)) /\ WF_vars(exit(p))
  /\ WF_sieveVars(layer = "primes" /\ P!Next)

-----------------------------------------------------------------------------
(* primes.c prints the primes, and all its processes exit.                 *)
Sieved == <>[](layer = "primes" => P!Done)

(* The free list of malloc() and the program's blocks tile what sbrk() gave. *)
Tiled == M!Tiled

(* The shell parses a line to what it means.                               *)
ParsesBack == S!ParsesBack

(* The programs of a line have the descriptors it gives them, and no more. *)
Plumbed == S!Plumbed
=============================================================================
