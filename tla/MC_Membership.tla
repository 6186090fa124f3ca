--------------------------- MODULE MC_Membership ---------------------------
(* Instances of Membership for TLC.                                         *)
EXTENDS Membership

CONSTANTS b1, b2, d1

TwoBases == {b1, b2}
OneRequest == {1}
AllPriority == [r \in Request |-> 2]
AllStamp == [r \in Request |-> r]
=============================================================================
