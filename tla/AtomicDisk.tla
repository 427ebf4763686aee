----------------------------- MODULE AtomicDisk -----------------------------
(***************************************************************************)
(* What the logging layer promises to the file system: a set of blocks     *)
(* that system calls update in place, of which a crash keeps exactly a     *)
(* prefix made of whole system calls.  kernel/log.c is shown to implement  *)
(* this specification (module Log, MCLog, LogProofs).                      *)
(***************************************************************************)
CONSTANTS Proc, Block, Value

VARIABLES
  durable,   \* what a reboot would recover
  current,   \* what bread() returns to a system call
  active     \* processes between begin_op() and end_op()

vars == <<durable, current, active>>

Init ==
  /\ durable \in [Block -> Value]
  /\ current = durable
  /\ active = {}

Begin(p) ==
  /\ p \notin active
  /\ active' = active \union {p}
  /\ UNCHANGED <<durable, current>>

Write(p, b, v) ==
  /\ p \in active
  /\ current' = [current EXCEPT ![b] = v]
  /\ UNCHANGED <<durable, active>>

End(p) ==
  /\ p \in active
  /\ active' = active \ {p}
  /\ UNCHANGED <<durable, current>>

(* Everything written so far becomes durable at once, and only when no     *)
(* system call is half done.                                               *)
Commit ==
  /\ active = {}
  /\ durable' = current
  /\ UNCHANGED <<current, active>>

Crash ==
  /\ current' = durable
  /\ active' = {}
  /\ UNCHANGED durable

Next ==
  \/ \E p \in Proc : Begin(p) \/ End(p)
  \/ \E p \in Proc, b \in Block, v \in Value : Write(p, b, v)
  \/ Commit
  \/ Crash

Spec == Init /\ [][Next]_vars
=============================================================================
