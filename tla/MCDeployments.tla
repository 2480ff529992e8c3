--------------------------- MODULE MCDeployments ---------------------------
(* Deployments on small instances: see the .cfg files for the sizes. *)
EXTENDS Deployments
============================================================================
