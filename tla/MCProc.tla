------------------------------- MODULE MCProc -------------------------------
(***************************************************************************)
(* Proc for TLC.                                                           *)
(***************************************************************************)
EXTENDS ProcInv

(* Nothing reads the pids that kill() is not called with, p->killed once   *)
(* exit() is called, or a local variable outside of its loop.  In a loop   *)
(* the children ahead are what matters; init alone can be given new ones.  *)
View ==
  << state, parent, lock, nextpid, pc,
     [s \in Slot |-> IF pid[s] \in KillPids THEN pid[s] ELSE MAXPID + 1],
     [s \in Slot |-> IF state[s] # "ZOMBIE" /\ ~Exiting(s) THEN killed[s] ELSE 0],
     [s \in Slot |-> IF pc[s] \in {"lockparent", "lockself", "reparent"} THEN orig[s] ELSE None],
     [s \in Slot |-> IF pc[s] \in {"reparent", "scan"} THEN Ahead(s) ELSE {}],
     IF pc[initproc] = "scan" THEN i[initproc] ELSE 0,
     [s \in Slot |-> IF pc[s] = "scan" THEN kids[s] ELSE 0] >>
=============================================================================
