-------------------------------- MODULE MCHub --------------------------------
(* A small instance of Hub. *)
EXTENDS Hub
=============================================================================
