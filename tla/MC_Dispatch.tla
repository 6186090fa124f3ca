---------------------------- MODULE MC_Dispatch ----------------------------
(* Instances of Dispatch for TLC.  Request 1 is CRITICAL.                   *)
EXTENDS Dispatch, TLC

CONSTANTS b1, b2, d1, d2, g1, g2, g3

OneBase == {b1}
TwoBases == {b1, b2}
OneRequest == {1}
TwoRequests == {1, 2}
AllPriority == [r \in Request |-> IF r = 1 THEN 1 ELSE 2]
AllStamp == [r \in Request |-> r]
HomeOfAll == [d \in Drone |-> IF d = d1 \/ b2 \notin Base THEN b1 ELSE b2]

\* Attempts are interchangeable, and so are the two sectors (a base and its
\* drone).
Attempts == Permutations(Attempt)
Sectors == Attempts \cup {(b1 :> b2) @@ (b2 :> b1) @@ (d1 :> d2) @@ (d2 :> d1)}
=============================================================================
