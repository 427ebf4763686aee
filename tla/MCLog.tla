------------------------------- MODULE MCLog -------------------------------
(* Small instances of Log, with its inductive invariant, for TLC.          *)
EXTENDS LogInv, TLC

=============================================================================
