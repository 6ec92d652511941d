----------------------------- MODULE MCRegistry -----------------------------
(* A small instance of Registry.  No symmetry: the refinement is a temporal *)
(* property.                                                                *)
EXTENDS Registry
=============================================================================
