--------------------------- MODULE MCStandaloneKV ---------------------------
(* StandaloneKV on small instances: see the .cfg files for the sizes. *)
EXTENDS StandaloneKV
=============================================================================
