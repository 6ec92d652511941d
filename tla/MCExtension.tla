---------------------------- MODULE MCExtension -----------------------------
(* A small instance of Extension: two proxies, which are alike, as are the *)
(* requests.                                                               *)
EXTENDS Extension, TLC

Symmetric == Permutations(Proxies) \cup Permutations(Requests)
=============================================================================
