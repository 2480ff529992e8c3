----------------------------- MODULE MCK8sLease -----------------------------
(* K8sLease on small instances: see the .cfg files for the sizes. *)
EXTENDS K8sLease, TLC

CONSTANTS h1, h2, h3, r1, r2, r3

\* Three replicas that claim the name once each; the clock of r3 is ahead.
Apart == h1 :> r1 @@ h2 :> r2 @@ h3 :> r3
Ahead == r1 :> 0 @@ r2 :> 0 @@ r3 :> 1

\* r1 claims it twice.
Together == h1 :> r1 @@ h2 :> r1 @@ h3 :> r2
Agree == r1 :> 0 @@ r2 :> 0
=============================================================================
