------------------------------- MODULE Mutex -------------------------------
(* What a sleep lock promises: one owner at a time, who alone gives it up. *)
CONSTANTS Proc, NoProc
VARIABLE owner

Init == owner = NoProc

Acquire(p) == owner = NoProc /\ owner' = p

Release(p) == owner = p /\ owner' = NoProc

Next == \E p \in Proc : Acquire(p) \/ Release(p)

Spec == Init /\ [][Next]_owner
=============================================================================
