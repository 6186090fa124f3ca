---------------------------- MODULE LamportClock ----------------------------
(***************************************************************************)
(* internal/lamport: the logical clock every process keeps.  An operation  *)
(* holds the mutex throughout, so it is a function of the old value.       *)
(***************************************************************************)
EXTENDS Naturals

\* The value of New().
Start == 0

\* A local event, or the stamp of a message about to be sent.
Tick(clock) == clock + 1

Later(clock, received) == IF received > clock THEN received ELSE clock

\* (mutant: the greater value is kept as it is)
UpdateKeeping(clock, received) == Later(clock, received)

\* A message stamped "received" has come.
Update(clock, received) == Later(clock, received) + 1
=============================================================================
