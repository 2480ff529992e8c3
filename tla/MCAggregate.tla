---------------------------- MODULE MCAggregate ----------------------------
(* Aggregate on small instances: see the .cfg files for the sizes. *)
EXTENDS Aggregate, TLC

CONSTANTS a1, a2, a3, b1, r1, ga, gb

\* Messages a1, a2, a3 correlate to group ga, b1 to gb.
MCKey == [m \in Msgs |-> IF m = b1 THEN gb ELSE ga]

\* One replica; every group on a stripe of its own.
OneHome == [t \in Threads |-> 1]
OwnStripe == [g \in Groups |-> g]

\* Every goroutine on a replica of its own.
OwnHome == [t \in Threads |-> t]
============================================================================
