----------------------------- MODULE MCDenyList -----------------------------
(* A small instance of DenyList. *)
EXTENDS DenyList, TLC

Symmetry == Permutations(Callers)
=============================================================================
