------------------------------ MODULE MCStore -------------------------------
(* A small instance of Store: a daemon and a command over one directory.   *)
EXTENDS Store
=============================================================================
