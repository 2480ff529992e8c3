----------------------------- MODULE MCForkPool -----------------------------
(* ForkPool on small instances: see the .cfg files for the sizes. *)
EXTENDS ForkPool
=============================================================================
