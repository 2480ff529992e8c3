----------------------------- MODULE MCAgentRun -----------------------------
(* AgentRun on small instances: see the .cfg files for the sizes. *)
EXTENDS AgentRun, TLC

CONSTANTS m1, m2, s1, r1, r2

\* One message on each replica, and a stop on r2.
WithStop == m1 :> r1 @@ m2 :> r2 @@ s1 :> r2
=============================================================================
