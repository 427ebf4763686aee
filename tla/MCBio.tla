------------------------------- MODULE MCBio -------------------------------
(* Small instances of Bio, with its inductive invariant, for TLC.          *)
EXTENDS BioInv, TLC

Symmetry == Permutations(Block) \union Permutations(Proc \ {initproc})
=============================================================================
