------------------------------ MODULE Console ------------------------------
(***************************************************************************)
(* kernel/console.c, input: consoleintr() edits and commits lines, and     *)
(* processes read them with consoleread().                                 *)
(*                                                                         *)
(* consoleintr() holds cons.lock for all it does and is one step.  A step  *)
(* of consoleread() is one character; cons.lock is held from a step to the *)
(* next, because kill() does not take it.                                  *)
(***************************************************************************)
EXTENDS Integers, Sequences

CONSTANTS
  Reader, NoProc,
  INPUT_BUF,
  IdxMod,       \* cons.r, cons.w and cons.e are uints that wrap around here
  MaxN          \* bound: bytes of one read()

Char  == {"x", "nl", "^D"}
Typed == Char \union {"cr", "^H", "^U", "^P", "nul"}

ConsoleConstants ==
  /\ NoProc \notin Reader
  /\ INPUT_BUF \in Nat /\ IdxMod \in Nat /\ MaxN \in Nat
  /\ INPUT_BUF > 0 /\ IdxMod % INPUT_BUF = 0 /\ INPUT_BUF < IdxMod

VARIABLES
  buf, r, w, e, lock,      \* cons
  killed, pc, n, target,   \* the processes that read
  out                      \* what was delivered last

consVars == <<buf, r, w, e>>
vars == <<buf, r, w, e, lock, killed, pc, n, target, out>>

(* consoleinit(), and bss.                                                 *)
Init ==
  /\ buf = [k \in 0..INPUT_BUF - 1 |-> "nul"]
  /\ r = 0 /\ w = 0 /\ e = 0
  /\ lock = NoProc
  /\ killed = [p \in Reader |-> 0]
  /\ pc = [p \in Reader |-> "user"]
  /\ n = [p \in Reader |-> 0]
  /\ target = [p \in Reader |-> 0]
  /\ out = <<>>

Inc(x) == (x + 1) % IdxMod
Dec(x) == (x - 1) % IdxMod
At(x)  == buf[x % INPUT_BUF]

Goto(p, l) == pc' = [pc EXCEPT ![p] = l]

(* release(&cons.lock) and return.                                         *)
Return(p) ==
  /\ lock' = NoProc
  /\ n' = [n EXCEPT ![p] = 0]
  /\ target' = [target EXCEPT ![p] = 0]
  /\ Goto(p, "user")

-----------------------------------------------------------------------------
consoleread(p, k) ==
  /\ pc[p] = "user" /\ killed[p] = 0
  /\ lock = NoProc /\ lock' = p
  /\ n' = [n EXCEPT ![p] = k]
  /\ target' = [target EXCEPT ![p] = k]
  /\ Goto(p, "read")
  /\ UNCHANGED <<consVars, killed, out>>

read_done(p) ==
  /\ pc[p] = "read" /\ n[p] = 0
  /\ Return(p)
  /\ UNCHANGED <<consVars, killed, out>>

read_killed(p) ==
  /\ pc[p] = "read" /\ n[p] > 0 /\ r = w /\ killed[p] = 1
  /\ Return(p)
  /\ UNCHANGED <<consVars, killed, out>>

read_empty(p) ==
  /\ pc[p] = "read" /\ n[p] > 0 /\ r = w /\ killed[p] = 0
  /\ Goto(p, "sleep")
  /\ UNCHANGED <<consVars, lock, killed, n, target, out>>

(* sleep(&cons.r, &cons.lock): SLEEPING, and release; acquire when woken.  *)
sleep(p) ==
  /\ pc[p] = "sleep"
  /\ lock' = NoProc
  /\ Goto(p, "asleep")
  /\ UNCHANGED <<consVars, killed, n, target, out>>

reacquire(p) ==
  /\ pc[p] = "woken"
  /\ lock = NoProc /\ lock' = p
  /\ Goto(p, "read")
  /\ UNCHANGED <<consVars, killed, n, target, out>>

(* Mutant: the end of file is not saved for the next call.                 *)
read_eof_once(p) ==
  /\ pc[p] = "read" /\ n[p] > 0 /\ r # w /\ At(r) = "^D"
  /\ r' = Inc(r)
  /\ out' = IF n[p] < target[p] THEN out ELSE <<"^D">>
  /\ Return(p)
  /\ UNCHANGED <<buf, w, e, killed>>

(* ^D after other characters stays for the next call, which returns 0.     *)
read_eof(p) ==
  /\ pc[p] = "read" /\ n[p] > 0 /\ r # w /\ At(r) = "^D"
  /\ r' = IF n[p] < target[p] THEN r ELSE Inc(r)
  /\ out' = IF n[p] < target[p] THEN out ELSE <<"^D">>
  /\ Return(p)
  /\ UNCHANGED <<buf, w, e, killed>>

read_char(p) ==
  /\ pc[p] = "read" /\ n[p] > 0 /\ r # w /\ At(r) # "^D"
  /\ r' = Inc(r)
  /\ out' = <<At(r)>>
  /\ IF At(r) = "nl"
     THEN Return(p)
     ELSE n' = [n EXCEPT ![p] = @ - 1] /\ UNCHANGED <<lock, target, pc>>
  /\ UNCHANGED <<buf, w, e, killed>>

(* either_copyout() fails.                                                 *)
read_fault(p) ==
  /\ pc[p] = "read" /\ n[p] > 0 /\ r # w /\ At(r) # "^D"
  /\ r' = Inc(r)
  /\ Return(p)
  /\ UNCHANGED <<buf, w, e, killed, out>>

kill(p) ==
  /\ killed[p] = 0
  /\ killed' = [killed EXCEPT ![p] = 1]
  /\ pc' = [pc EXCEPT ![p] = IF @ = "asleep" THEN "woken" ELSE @]
  /\ UNCHANGED <<consVars, lock, n, target, out>>

-----------------------------------------------------------------------------
(* consoleintr(): ^U, back to the start of the line.                       *)
KillTo == CHOOSE x \in 0..IdxMod - 1 :
  LET len == (e - x) % IdxMod
  IN  /\ len <= (e - w) % IdxMod
      /\ \A k \in 1..len : At((e - k) % IdxMod) # "nl"
      /\ len = (e - w) % IdxMod \/ At(Dec(x)) = "nl"

intr_kill_line ==
  /\ lock = NoProc
  /\ e' = KillTo
  /\ UNCHANGED <<buf, r, w, lock, killed, pc, n, target, out>>

intr_erase ==
  /\ lock = NoProc /\ e # w
  /\ e' = Dec(e)
  /\ UNCHANGED <<buf, r, w, lock, killed, pc, n, target, out>>

(* wakeup(&cons.r).                                                        *)
WakeReaders == pc' = [p \in Reader |-> IF pc[p] = "asleep" THEN "woken" ELSE pc[p]]

(* "a whole line (or end-of-file) has arrived", or the buffer is full.     *)
EndsLine(c) == c \in {"nl", "^D"} \/ Inc(e) = (r + INPUT_BUF) % IdxMod

(* Mutant: the readers are not woken.                                      *)
intr_char_silent(c) ==
  /\ lock = NoProc
  /\ c \in Char \union {"cr"}
  /\ (e - r) % IdxMod < INPUT_BUF
  /\ LET d == IF c = "cr" THEN "nl" ELSE c
     IN  /\ buf' = [buf EXCEPT ![e % INPUT_BUF] = d]
         /\ w' = IF EndsLine(d) THEN Inc(e) ELSE w
  /\ e' = Inc(e)
  /\ UNCHANGED <<r, lock, killed, pc, n, target, out>>

(* Any other character, if there is room; ^P and 0 change nothing.         *)
intr_char(c) ==
  /\ lock = NoProc
  /\ c \in Char \union {"cr"}
  /\ (e - r) % IdxMod < INPUT_BUF
  /\ LET d == IF c = "cr" THEN "nl" ELSE c
     IN  /\ buf' = [buf EXCEPT ![e % INPUT_BUF] = d]
         /\ w' = IF EndsLine(d) THEN Inc(e) ELSE w
         /\ IF EndsLine(d) THEN WakeReaders ELSE UNCHANGED pc
  /\ e' = Inc(e)
  /\ UNCHANGED <<r, lock, killed, n, target, out>>

consoleintr(c) ==
  \/ c = "^U" /\ intr_kill_line
  \/ c = "^H" /\ intr_erase
  \/ intr_char(c)

-----------------------------------------------------------------------------
ReadStep(p) ==
  \/ read_done(p) \/ read_killed(p) \/ read_empty(p) \/ sleep(p) \/ reacquire(p)
  \/ read_eof(p) \/ read_char(p)

Next ==
  \/ \E p \in Reader : ReadStep(p) \/ read_fault(p) \/ kill(p)
  \/ \E p \in Reader, k \in 0..MaxN : consoleread(p, k)
  \/ \E c \in Typed : consoleintr(c)

Spec == Init /\ [][Next]_vars

-----------------------------------------------------------------------------
TypeOK ==
  /\ buf \in [0..INPUT_BUF - 1 -> Char \union {"nul"}]
  /\ r \in 0..IdxMod - 1 /\ w \in 0..IdxMod - 1 /\ e \in 0..IdxMod - 1
  /\ lock \in Reader \union {NoProc}
  /\ killed \in [Reader -> {0, 1}]
  /\ pc \in [Reader -> {"user", "read", "sleep", "asleep", "woken"}]
  /\ n \in [Reader -> 0..MaxN] /\ target \in [Reader -> 0..MaxN]
  /\ out \in Seq(Char)

Between(x, y) == [k \in 1..((y - x) % IdxMod) |-> At((x + k - 1) % IdxMod)]

Abstract == INSTANCE Tty WITH
  Ends <- {"nl", "^D"}, Eof <- "^D", Size <- INPUT_BUF,
  line <- Between(w, e), ready <- Between(r, w)

(* Whatever is typed, erased and read by whom, and where the indices wrap  *)
(* around: characters are read once, in order, by whole lines, an end of   *)
(* file is seen once, and no committed character is erased.                *)
IsTty == Abstract!Spec

(* Nobody sleeps in consoleread() beside a line.                           *)
NoLostLine == \A p \in Reader : pc[p] = "asleep" => r = w
=============================================================================
