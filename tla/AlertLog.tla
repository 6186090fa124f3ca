------------------------------ MODULE AlertLog ------------------------------
(***************************************************************************)
(* internal/alerts: the alerts a process keeps, the oldest dropped when    *)
(* there are MaxAlerts of them.  Each operation holds the mutex, so it is  *)
(* a function of the list.  No callback is ever registered with OnAlert.   *)
(***************************************************************************)
EXTENDS Naturals, Sequences

CONSTANT MaxAlerts

ASSUME MaxAlertsAssumption == MaxAlerts \in Nat \ {0}

\* (mutant: one alert too many is dropped when the list is full)
EmitShort(log, alert) ==
    IF Len(log) >= MaxAlerts
    THEN Append(SubSeq(log, 3, Len(log)), alert)
    ELSE Append(log, alert)

\* emit; Add does the same with an alert of another process.
Emit(log, alert) ==
    IF Len(log) >= MaxAlerts
    THEN Append(Tail(log), alert)
    ELSE Append(log, alert)

GetLast(log, n) == IF n >= Len(log) THEN log ELSE SubSeq(log, Len(log) - n + 1, Len(log))
=============================================================================
