----------------------------- MODULE MCFlowCall -----------------------------
(* FlowCall on small instances: see the .cfg files for the sizes. *)
EXTENDS FlowCall, TLC

CONSTANTS m1, m2, m3, s1, s2, callee, last

\* s1 calls callee, callee calls last, and both wait; s2 sends to last and does not.
Configured == s1 :> 1 @@ callee :> 2 @@ s2 :> 3 @@ last :> 4
Chain == s1 :> callee @@ callee :> last @@ s2 :> last @@ last :> NoFlow
From == [m \in Msgs |-> IF m = m1 THEN s1 ELSE s2]
Through == [x \in Invs |->
    LET flow[d \in 0..Depth] ==
          IF d = 0 THEN Source[x[1]]
          ELSE IF flow[d - 1] = NoFlow THEN NoFlow ELSE Ref[flow[d - 1]]
    IN flow[x[2]]]
=============================================================================
