----------------------------- MODULE FleetTypes -----------------------------
(***************************************************************************)
(* The parties and values every other module speaks about: the sector      *)
(* bases (cmd/base), the drones (cmd/drone), the drone requests that the   *)
(* brokers create (cmd/broker), and the dispatch goroutines a base starts. *)
(* A request is identified by a natural number: the code orders requests   *)
(* of equal priority and timestamp by their ID.                            *)
(***************************************************************************)
EXTENDS Integers

CONSTANTS Base,      \* the sector bases
          Request,   \* IDs of the requests that may ever be created
          Drone,     \* the drones
          Attempt,   \* dispatch goroutines (slots, reused once retired)
          None       \* "" or a missing map entry

ASSUME RequestAssumption == Request \subseteq Nat
ASSUME NoneAssumption == None \notin Base \cup Request \cup Drone \cup Attempt
=============================================================================
