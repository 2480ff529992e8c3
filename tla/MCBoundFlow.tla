---------------------------- MODULE MCBoundFlow ----------------------------
(* BoundFlow on a small instance: see BoundFlow.cfg for the sizes. *)
EXTENDS BoundFlow
=============================================================================
