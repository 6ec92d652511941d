--------------------------- MODULE MCListenerSet ---------------------------
(* Small instances of ListenerSet. *)
EXTENDS ListenerSet, TLC

Symmetry == Permutations(Reqs) \cup Permutations(Conns)
=============================================================================
