------------------------------ MODULE MC_Fleet ------------------------------
(* Instances of Fleet for TLC: two bases, each the fallback of the other's  *)
(* drones, as in deploy/2-machines.  Every drone starts at the second.      *)
EXTENDS Fleet

CONSTANTS b1, b2, d1, d2

TwoBases == {b1, b2}
RankOfAll == [b \in Base |-> IF b = b1 THEN 1 ELSE 2]
HomeOfAll == [d \in Drone |-> b2]
FallbackOfAll == [d \in Drone |-> <<b1>>]
=============================================================================
