------------------------------ MODULE MC_Intake ------------------------------
(* Instances of Intake for TLC: the sensors' own broker is k1, k2 is the    *)
(* fallback, as in deploy.                                                  *)
EXTENDS Intake, TLC

CONSTANTS k1, k2

TwoBrokers == {k1, k2}
PrimaryOfAll == [s \in Sensor |-> k1]
PeersOfAll == [s \in Sensor |-> <<k2>>]
=============================================================================
