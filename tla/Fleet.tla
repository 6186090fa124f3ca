-------------------------------- MODULE Fleet --------------------------------
(***************************************************************************)
(* Which base a drone belongs to: the drone's registration, its watch over *)
(* its base and its fallback (cmd/drone/main.go), the drone tables of the  *)
(* bases with their time-outs (cmd/base/state.go, heartbeat.go), DRONE_INFO *)
(* and the balancing of the fleet (drone_handler.go).                      *)
(*                                                                         *)
(* Requests are in Dispatch: here a base may send any drone it takes for   *)
(* its own and IDLE on a mission at any time.  A base's name is "base-B"   *)
(* in its own mouth and "BASE-B" in its peers' (heartbeat.go:41).          *)
(*                                                                         *)
(* baseAddr and baseID of a drone are written by its start, its watcher,   *)
(* its mission and any number of REASSIGN goroutines without a lock.  Each *)
(* write is a step of its own.                                             *)
(***************************************************************************)
EXTENDS FleetTypes, FiniteSets, Sequences

CONSTANTS Home,        \* Home[d]: BASE_ADDR of drone d
          Fallback,    \* Fallback[d]: its PEER_BASES, in order
          Rank,        \* Rank[b]: alphabetical order of the IDs
          TroubleKinds, \* the kinds of trouble that may happen
          MaxTroubles, \* bound: troubles of one behaviour
          MaxMoves     \* bound: moves of a drone under way at once

ASSUME HomeAssumption == Home \in [Drone -> Base]
ASSUME FallbackAssumption == Fallback \in [Drone -> Seq(Base)]
ASSUME RankAssumption == /\ Rank \in [Base -> Nat]
                         /\ \A b, c \in Base : Rank[b] = Rank[c] => b = c
ASSUME TroubleKindsAssumption ==
    TroubleKinds \subseteq {"crash", "death", "silence", "call", "clear"}
ASSUME MaxTroublesAssumption == MaxTroubles \in Nat
ASSUME MaxMovesAssumption == MaxMoves \in Nat

\* A base's name as it is spelt, and an entry of a drone table.
Name == Base \X {"lower", "UPPER"}
DroneEntry == [name : Name, status : {"IDLE", "BUSY", "LOST"}, overdue : BOOLEAN]

ASSUME NoEntryAssumption == None \notin DroneEntry

VARIABLES running,  \* the bases whose process runs
          online,   \* online[b]: peers b believes ONLINE
          table,    \* table[b][d]: what b knows of drone d, or None
          agent,    \* agent[d]: the drone's own state
          calls,    \* REGISTER calls, from the writes before to the writes after
          orders,   \* REASSIGN messages in flight
          calling,  \* <<b, d>>: a goroutine of b is calling d for a mission
          forgotten, \* history: <<b, d>>: b crashed or deleted d since d
                    \* registered with it
          adrift,   \* history: drones whose address was set and whose REGISTER
                    \* there then failed
          raced,    \* history: drones two of whose goroutines wrote the address
                    \* and the name at the same time
          troubles  \* how many so far

baseVars == <<running, online, table, calling, forgotten>>
droneVars == <<agent, calls, orders, adrift, raced>>
vars == <<baseVars, droneVars, troubles>>

Proper(b) == <<b, "lower">>
Shouted(b) == <<b, "UPPER">>

\* What registerDrone stores.  overdue: the time-out that applies has passed
\* since LastSeen, 3 s, or 15 s for a LOST drone.
Registered(name) == [name |-> name, status |-> "IDLE", overdue |-> FALSE]

Settled(d) == [up |-> TRUE, addr |-> Home[d], name |-> Proper(Home[d]), mission |-> "none"]

Others(b) == Base \ {b}

\* The fleet has started: every drone registered, every base told.
Init ==
    /\ running = Base
    /\ online = [b \in Base |-> Others(b)]
    /\ table = [b \in Base |-> [d \in Drone |-> Registered(Proper(Home[d]))]]
    /\ agent = [d \in Drone |-> Settled(d)]
    /\ calls = {}
    /\ orders = {}
    /\ calling = {}
    /\ forgotten = {}
    /\ adrift = {}
    /\ raced = {}
    /\ troubles = 0

Trouble(kind) == /\ kind \in TroubleKinds
                 /\ troubles < MaxTroubles
                 /\ troubles' = troubles + 1

-----------------------------------------------------------------------------
(* The drone table of a base.                                              *)

Known(b, d) == table[b][d] # None

\* registerDrone and its like: b's entry for d becomes e.
Store(b, d, e) == [table EXCEPT ![b][d] = e]

\* updateDroneStatus refreshes LastSeen; a drone that is unknown stays so.
StatusSet(b, d, s) ==
    IF Known(b, d)
    THEN Store(b, d, [table[b][d] EXCEPT !.status = s, !.overdue = FALSE])
    ELSE table

\* b stores e and propagateDroneInfo sends it to the peers, which keep what was
\* seen last (handleDroneInfo): the times were read on two machines, so either
\* may win.  (A DRONE_INFO that comes late is overtaken by the next heartbeat.)
Spread(b, d, e) ==
    LET peers == Others(b) \cap running
        wins == {P \in SUBSET peers : \A p \in peers \ P : Known(p, d)}
    IN {[x \in Base |-> IF x \in P \cup {b} THEN [table[x] EXCEPT ![d] = e] ELSE table[x]] :
            P \in wins}

-----------------------------------------------------------------------------
(* The drone: registration.                                                *)

\* One registerWithBase: "by" is the goroutine; the addresses of tryFallbackBases
\* still to be tried are in "todo".  Stages: "addressed" (REASSIGN has written
\* the address), "sent", "answered", "adopted" (the answer's address written).
Call(d, by, to, todo, stage) ==
    [drone |-> d, by |-> by, to |-> to, todo |-> todo, stage |-> stage]

CallsOf(d) == {c \in calls : c.drone = d}

\* Heartbeats, watcher and server start when the first registration has ended.
Ready(d) == agent[d].up /\ \A c \in CallsOf(d) : c.by # "start"

\* The loop of tryFallbackBases: the next address that is not the present one.
NextTries(d, by, todo) ==
    LET left == {i \in DOMAIN todo : todo[i] # agent[d].addr}
    IN {Call(d, by, todo[i], SubSeq(todo, i + 1, Len(todo)), "sent") :
            i \in {i \in left : \A j \in left : i <= j}}

\* Three dials in a row have failed, and the drone was not busy at the third.
WatchRound(d) ==
    /\ Ready(d)
    /\ agent[d].mission = "none"
    /\ agent[d].addr \notin running
    /\ \A c \in CallsOf(d) : c.by # "watch"
    /\ NextTries(d, "watch", Fallback[d]) # {}
    /\ calls' = calls \cup NextTries(d, "watch", Fallback[d])
    /\ UNCHANGED <<baseVars, agent, orders, adrift, raced, troubles>>

\* handleDroneRegister: the drone is the base's own, IDLE, and the peers learn.
HandleDroneRegister(c) ==
    LET e == Registered(Proper(c.to))
    IN /\ c.stage = "sent"
       /\ c.to \in running
       /\ table' \in Spread(c.to, c.drone, e)
       /\ forgotten' = forgotten \ {<<c.to, c.drone>>}
       /\ calls' = (calls \ {c}) \cup {[c EXCEPT !.stage = "answered"]}
       /\ UNCHANGED <<running, online, calling, agent, orders, adrift, raced, troubles>>

\* What a goroutine does when it gives up: a mission ends unreported.
GivenUp(c) == IF c.by = "mission"
              THEN [agent EXCEPT ![c.drone].mission = "none"]
              ELSE agent

\* No answer: the base is down, or (a trouble) the call was lost, before it was
\* handled or after.  The next address, if there is one.
RegisterFails(c) ==
    LET next == NextTries(c.drone, c.by, c.todo)
    IN /\ c.stage \in {"sent", "answered"}
       /\ IF c.to \notin running THEN UNCHANGED troubles ELSE Trouble("call")
       /\ calls' = (calls \ {c}) \cup next
       /\ agent' = IF next = {} THEN GivenUp(c) ELSE agent
       /\ adrift' = adrift \cup (IF agent[c.drone].addr = c.to THEN {c.drone} ELSE {})
       /\ UNCHANGED <<baseVars, orders, raced>>

\* (mutant: the address is not written)
KeepAddress(c) ==
    /\ c.stage = "answered"
    /\ calls' = (calls \ {c}) \cup {[c EXCEPT !.stage = "adopted"]}
    /\ UNCHANGED <<baseVars, agent, orders, adrift, raced, troubles>>

\* baseAddr = addr
AdoptAddress(c) ==
    LET d == c.drone
    IN /\ c.stage = "answered"
       /\ agent' = [agent EXCEPT ![d].addr = c.to]
       /\ calls' = (calls \ {c}) \cup {[c EXCEPT !.stage = "adopted"]}
       /\ adrift' = adrift \ {d}
       /\ raced' = IF CallsOf(d) = {c} THEN raced \ {d} ELSE raced \cup {d}
       /\ UNCHANGED <<baseVars, orders, troubles>>

\* baseID = reply.SenderID; a mission that was to be reported is, once.
AdoptName(c) ==
    LET d == c.drone
    IN /\ c.stage = "adopted"
       /\ agent' = [agent EXCEPT ![d].name = Proper(c.to),
                                 ![d].mission = IF c.by = "mission" THEN "last" ELSE @]
       /\ calls' = calls \ {c}
       /\ UNCHANGED <<baseVars, orders, adrift, raced, troubles>>

\* REASSIGN is obeyed at once, whatever the drone is doing.
HandleReassign(o) ==
    LET d == o.drone
    IN /\ Ready(d)
       /\ orders' = orders \ {o}
       /\ agent' = [agent EXCEPT ![d].addr = o.to]
       /\ calls' = calls \cup {Call(d, "reassign", o.to, <<>>, "addressed")}
       /\ raced' = IF CallsOf(d) = {} THEN raced ELSE raced \cup {d}
       /\ UNCHANGED <<baseVars, adrift, troubles>>

\* (mutant: the base's answer is not asked for)
ReassignUnregistered(c) ==
    /\ c.stage = "addressed"
    /\ agent' = [agent EXCEPT ![c.drone].name = Shouted(c.to)]
    /\ calls' = calls \ {c}
    /\ UNCHANGED <<baseVars, orders, adrift, raced, troubles>>

\* The name as the peers spell it, then REGISTER to what baseAddr says now.
ReassignName(c) ==
    LET d == c.drone
    IN /\ c.stage = "addressed"
       /\ agent' = [agent EXCEPT ![d].name = Shouted(c.to)]
       /\ calls' = (calls \ {c}) \cup {Call(d, c.by, agent[d].addr, <<>>, "sent")}
       /\ UNCHANGED <<baseVars, orders, adrift, raced, troubles>>

-----------------------------------------------------------------------------
(* Missions, as far as they keep a drone busy.                             *)

\* The dispatcher takes an IDLE drone that bears its base's exact name.
Reserve(b, d) ==
    /\ b \in running
    /\ Known(b, d)
    /\ table[b][d].name = Proper(b) /\ table[b][d].status = "IDLE"
    /\ calling' = calling \cup {<<b, d>>}
    /\ table' = StatusSet(b, d, "BUSY")
    /\ UNCHANGED <<running, online, forgotten, droneVars, troubles>>

TakeDispatch(b, d) ==
    /\ <<b, d>> \in calling
    /\ Ready(d) /\ agent[d].mission = "none"
    /\ calling' = calling \ {<<b, d>>}
    /\ agent' = [agent EXCEPT ![d].mission = "flying"]
    /\ UNCHANGED <<running, online, table, forgotten, calls, orders, adrift, raced,
                   troubles>>

DispatchFails(b, d) ==
    /\ <<b, d>> \in calling
    /\ IF Ready(d) /\ agent[d].mission = "none" THEN Trouble("call") ELSE UNCHANGED troubles
    /\ calling' = calling \ {<<b, d>>}
    /\ table' = StatusSet(b, d, "IDLE")
    /\ UNCHANGED <<running, online, forgotten, droneVars>>

\* A message of d to its base refreshes the entry, if there is one, and is
\* passed on.
Told(d, e) ==
    IF Known(agent[d].addr, d)
    THEN table' \in Spread(agent[d].addr, d, e)
    ELSE UNCHANGED table

\* DRONE_STATUS_UPDATE
StatusUpdate(d) ==
    /\ agent[d].mission = "flying"
    /\ agent[d].addr \in running
    /\ Told(d, [table[agent[d].addr][d] EXCEPT !.overdue = FALSE])
    /\ UNCHANGED <<running, online, calling, forgotten, droneVars, troubles>>

FlightEnds(d) ==
    /\ agent[d].mission = "flying"
    /\ agent' = [agent EXCEPT ![d].mission = "reporting"]
    /\ UNCHANGED <<baseVars, calls, orders, adrift, raced, troubles>>

\* MISSION_DONE reaches the base the address names now.
Report(d) ==
    /\ agent[d].mission \in {"reporting", "last"}
    /\ agent[d].addr \in running
    /\ agent' = [agent EXCEPT ![d].mission = "none"]
    /\ Told(d, [table[agent[d].addr][d] EXCEPT !.status = "IDLE", !.overdue = FALSE])
    /\ UNCHANGED <<running, online, calling, forgotten, calls, orders, adrift, raced, troubles>>

\* Three tries have failed: another base is looked for.  The report to that
\* one is tried once.
ReportFails(d) ==
    LET next == NextTries(d, "mission", Fallback[d])
    IN /\ \/ agent[d].mission = "last"
          \/ agent[d].mission = "reporting" /\ \A c \in CallsOf(d) : c.by # "mission"
       /\ IF agent[d].addr \notin running THEN UNCHANGED troubles ELSE Trouble("call")
       /\ IF agent[d].mission = "last" \/ next = {}
          THEN agent' = [agent EXCEPT ![d].mission = "none"] /\ UNCHANGED calls
          ELSE agent' = [agent EXCEPT ![d].mission = "fallback"] /\ calls' = calls \cup next
       /\ UNCHANGED <<baseVars, orders, adrift, raced>>

-----------------------------------------------------------------------------
(* Heartbeats and time-outs.                                               *)

Heartbeat(b, d) ==
    LET s == IF agent[d].mission = "none" THEN "IDLE" ELSE "BUSY"
    IN /\ Ready(d)
       /\ b \in running
       /\ Known(b, d)
       /\ table' = Store(b, d, [name |-> agent[d].name, status |-> s, overdue |-> FALSE])
       /\ UNCHANGED <<running, online, calling, forgotten, droneVars, troubles>>

\* Time passes without a heartbeat: the drone is dead, or (a trouble) its
\* datagrams are lost.
Silence(b, d) ==
    /\ b \in running
    /\ Known(b, d)
    /\ ~table[b][d].overdue
    /\ IF agent[d].up THEN Trouble("silence") ELSE UNCHANGED troubles
    /\ table' = [table EXCEPT ![b][d].overdue = TRUE]
    /\ UNCHANGED <<running, online, calling, forgotten, droneVars>>

\* (mutant: a drone that is LOST is declared LOST again, and so refreshed)
MarkLostAgain(b, d) ==
    /\ b \in running
    /\ Known(b, d)
    /\ table[b][d].overdue
    /\ table' = StatusSet(b, d, "LOST")
    /\ UNCHANGED <<running, online, calling, forgotten, droneVars, troubles>>

\* checkDroneHealth (the missions of a LOST drone are rescued: see Dispatch).
MarkLost(b, d) ==
    /\ b \in running
    /\ Known(b, d)
    /\ table[b][d].overdue /\ table[b][d].status # "LOST"
    /\ table' = StatusSet(b, d, "LOST")
    /\ UNCHANGED <<running, online, calling, forgotten, droneVars, troubles>>

RemoveDrone(b, d) ==
    /\ b \in running
    /\ Known(b, d)
    /\ table[b][d].overdue /\ table[b][d].status = "LOST"
    /\ table' = Store(b, d, None)
    /\ forgotten' = forgotten \cup {<<b, d>>}
    /\ UNCHANGED <<running, online, calling, droneVars, troubles>>

\* QUEUE_CLEAR deletes every drone that is LOST, whatever made it so.
PurgeLostDrones(b) ==
    LET lost == {d \in Drone : Known(b, d) /\ table[b][d].status = "LOST"}
    IN /\ b \in running
       /\ lost # {}
       /\ Trouble("clear")
       /\ table' = [table EXCEPT ![b] = [d \in Drone |-> IF d \in lost THEN None ELSE @[d]]]
       /\ forgotten' = forgotten \cup {<<b, d>> : d \in lost}
       /\ UNCHANGED <<running, online, calling, droneVars>>

Hear(p, b) ==
    /\ {p, b} \subseteq running /\ p # b
    /\ online' = [online EXCEPT ![p] = @ \cup {b}]
    /\ UNCHANGED <<running, table, calling, forgotten, droneVars, troubles>>

MarkOffline(p, b) ==
    /\ p \in running
    /\ b \in online[p] \ running
    /\ online' = [online EXCEPT ![p] = @ \ {b}]
    /\ UNCHANGED <<running, table, calling, forgotten, droneVars, troubles>>

-----------------------------------------------------------------------------
(* Balancing.                                                              *)

\* The drones b counts for base p, however the name is spelt.
Crew(b, p) == {d \in Drone : /\ Known(b, d)
                             /\ table[b][d].name[1] = p
                             /\ table[b][d].status # "LOST"}
Count(b, p) == Cardinality(Crew(b, p))

\* Peers with two drones fewer, or with one fewer and the lower name.
Poorer(b) == {p \in online[b] : \/ Count(b, b) - Count(b, p) > 1
                                \/ /\ Count(b, b) - Count(b, p) = 1
                                   /\ Rank[b] > Rank[p]}
\* The poorest of them, the lowest name first.
Neediest(b) == {p \in Poorer(b) : \A q \in Poorer(b) :
                    \/ Count(b, p) < Count(b, q)
                    \/ Count(b, p) = Count(b, q) /\ Rank[p] <= Rank[q]}

\* The moves under way.
Moves == Cardinality(orders) + Cardinality({c \in calls : c.by = "reassign"})

\* balanceDrones: after every health check, and again after every move.
BalanceDrones(b) ==
    /\ b \in running
    /\ Moves < MaxMoves
    /\ \E d \in Crew(b, b), p \in Neediest(b) :
          /\ table[b][d].status = "IDLE"
          /\ table' = StatusSet(b, d, "LOST")
          /\ orders' = orders \cup (IF Ready(d) THEN {[drone |-> d, to |-> p]} ELSE {})
    /\ UNCHANGED <<running, online, calling, forgotten, agent, calls, adrift, raced,
                   troubles>>

-----------------------------------------------------------------------------
(* Crashes and restarts.                                                   *)

Crash(b) ==
    /\ b \in running
    /\ Trouble("crash")
    /\ running' = running \ {b}
    /\ online' = [online EXCEPT ![b] = {}]
    /\ table' = [table EXCEPT ![b] = [d \in Drone |-> None]]
    /\ calling' = {x \in calling : x[1] # b}
    /\ forgotten' = forgotten \cup ({b} \X Drone)
    /\ UNCHANGED droneVars

Restart(b) ==
    /\ b \notin running
    /\ running' = running \cup {b}
    /\ UNCHANGED <<online, table, calling, forgotten, droneVars, troubles>>

DroneDies(d) ==
    /\ agent[d].up
    /\ Trouble("death")
    /\ agent' = [agent EXCEPT ![d] = [Settled(d) EXCEPT !.up = FALSE]]
    /\ calls' = calls \ CallsOf(d)
    /\ orders' = {o \in orders : o.drone # d}
    /\ adrift' = adrift \ {d}
    /\ raced' = raced \ {d}
    /\ UNCHANGED <<baseVars>>

\* main: registers with its base, or with the first of the others that answers.
DroneStarts(d) ==
    /\ ~agent[d].up
    /\ agent' = [agent EXCEPT ![d].up = TRUE]
    /\ calls' = calls \cup {Call(d, "start", Home[d], Fallback[d], "sent")}
    /\ UNCHANGED <<baseVars, orders, adrift, raced, troubles>>

-----------------------------------------------------------------------------
Registering(c) ==
    \/ HandleDroneRegister(c)
    \/ RegisterFails(c)
    \/ AdoptAddress(c)
    \/ AdoptName(c)
    \/ ReassignName(c)

Mission(d) ==
    \/ StatusUpdate(d)
    \/ FlightEnds(d)
    \/ Report(d)
    \/ ReportFails(d)

HealthCheck(b) ==
    \/ \E d \in Drone : MarkLost(b, d) \/ RemoveDrone(b, d)
    \/ BalanceDrones(b)

Next ==
    \/ \E d \in Drone : WatchRound(d)
    \/ \E c \in calls : Registering(c)
    \/ \E o \in orders : HandleReassign(o)
    \/ \E b \in Base, d \in Drone : Reserve(b, d) \/ TakeDispatch(b, d) \/ DispatchFails(b, d)
    \/ \E d \in Drone : Mission(d)
    \/ \E b \in Base, d \in Drone : Heartbeat(b, d) \/ Silence(b, d)
    \/ \E b \in Base : HealthCheck(b)
    \/ \E b \in Base : PurgeLostDrones(b)
    \/ \E p, b \in Base : Hear(p, b) \/ MarkOffline(p, b)
    \/ \E b \in Base : Crash(b) \/ Restart(b)
    \/ \E d \in Drone : DroneDies(d) \/ DroneStarts(d)

Spec == Init /\ [][Next]_vars
(***************************************************************************)
(* Goroutines run, calls end, the drones' tickers tick, and the health     *)
(* check of a base comes round every 5 s; a dead drone is silent.  Nothing *)
(* is assumed of troubles, restarts, missions begun or balancing.          *)
(***************************************************************************)
Goroutines == {"start", "watch", "mission", "reassign"}
Proceeds(c) == Registering(c) /\ UNCHANGED troubles

Fairness ==
    /\ \A d \in Drone :
          /\ WF_vars(WatchRound(d))
          /\ \A by \in Goroutines : WF_vars(\E c \in CallsOf(d) : c.by = by /\ Proceeds(c))
          /\ WF_vars(\E o \in orders : o.drone = d /\ HandleReassign(o))
          /\ WF_vars(FlightEnds(d))
          /\ WF_vars(Report(d) \/ (ReportFails(d) /\ UNCHANGED troubles))
    /\ \A b \in Base, d \in Drone :
          /\ WF_vars(TakeDispatch(b, d) \/ (DispatchFails(b, d) /\ UNCHANGED troubles))
          /\ WF_vars(Heartbeat(b, d))
          /\ WF_vars(Silence(b, d) /\ UNCHANGED troubles)
          /\ WF_vars(MarkLost(b, d) \/ RemoveDrone(b, d))

FairSpec == Spec /\ Fairness

-----------------------------------------------------------------------------
(* Properties.                                                             *)

Agent == [up : BOOLEAN, addr : Base, name : Name,
          mission : {"none", "flying", "reporting", "fallback", "last"}]
RegisterCall == [drone : Drone, by : Goroutines, to : Base, todo : Seq(Base),
                 stage : {"addressed", "sent", "answered", "adopted"}]

TypeOK ==
    /\ running \subseteq Base
    /\ online \in [Base -> SUBSET Base]
    /\ table \in [Base -> [Drone -> DroneEntry \cup {None}]]
    /\ agent \in [Drone -> Agent]
    /\ calls \subseteq RegisterCall
    /\ orders \subseteq [drone : Drone, to : Base]
    /\ calling \subseteq Base \X Drone
    /\ forgotten \subseteq Base \X Drone
    /\ adrift \subseteq Drone
    /\ raced \subseteq Drone
    /\ troubles \in 0..MaxTroubles

\* b knows d, or has lost what it knew.
Remembers(b, d) == Known(b, d) \/ <<b, d>> \in forgotten

\* What the next property rests on.  A base that has answered knows the drone;
\* the address was written by the goroutine that goes on to write the name.
AnsweredIsKnown ==
    \A c \in calls : c.stage \in {"answered", "adopted"} => Remembers(c.to, c.drone)

AdoptedIsAddressed ==
    \A c \in calls : (c.stage = "adopted" /\ c.drone \notin raced) =>
        agent[c.drone].addr = c.to

\* Calls that have written nothing, and are not to the base at the address.
OnlyAsking(d) ==
    \A c \in CallsOf(d) : c.stage \in {"sent", "answered"} /\ c.to # agent[d].addr

BelongsWell ==
    \A d \in Drone :
        /\ ~agent[d].up => /\ agent[d].addr = Home[d] /\ agent[d].mission = "none"
                           /\ CallsOf(d) = {}
        /\ (agent[d].up /\ OnlyAsking(d) /\ d \notin adrift \cup raced) =>
              /\ agent[d].name = Proper(agent[d].addr)
              /\ Remembers(agent[d].addr, d)

\* The inductive invariant of the proofs.
FleetInv == TypeOK /\ AnsweredIsKnown /\ AdoptedIsAddressed /\ BelongsWell

\* A drone at rest bears the exact name of the base at its address, and that
\* base knows it: nothing but a crash, a deletion, a failed REGISTER or two
\* goroutines of the drone at once (main.go:118-120, 226-227) breaks the two.
RegisteredIsKnown ==
    \A d \in Drone :
        LET b == agent[d].addr
        IN (agent[d].up /\ CallsOf(d) = {} /\ d \notin adrift \cup raced) =>
              /\ agent[d].name = Proper(b)
              /\ b \in running /\ <<b, d>> \notin forgotten => Known(b, d)

\* Its base may send d on a mission (state.go:128).
Dispatchable(d) ==
    LET b == agent[d].addr
    IN /\ b \in running
       /\ Known(b, d)
       /\ table[b][d].name = Proper(b) /\ table[b][d].status = "IDLE"

\* The cases the code has no remedy for: the base at d's address runs but does
\* not know it (any more), or no base d may turn to runs (main.go:126 skips
\* the present one, and PEER_BASES does not list the home base).
Stranded(d) ==
    LET b == agent[d].addr
    IN \/ d \in adrift \cup raced
       \/ b \in running /\ <<b, d>> \in forgotten
       \/ b \notin running /\ \A i \in DOMAIN Fallback[d] : Fallback[d][i] \notin running \ {b}

\* README.md:35: the neighbours inherit the drones of a fallen base.  A drone
\* that lives is again and again one its base may dispatch, unless it is
\* stranded or being moved for ever.
EveryDroneServes ==
    \A d \in Drone :
        []<>(~agent[d].up \/ Dispatchable(d) \/ Stranded(d) \/ \E o \in orders : o.drone = d)

\* A dead drone leaves every table (heartbeat.go:119-135), unless a base keeps
\* calling it: each failed call refreshes LastSeen (state.go:86).
DeadDronesVanish ==
    \A b \in Base, d \in Drone :
        \/ []<>(agent[d].up \/ b \notin running \/ ~Known(b, d))
        \/ []<>(<<b, d>> \in calling)

\* main.go:53-55 of cmd/base: drones are not sent back and forth any more, and
\* change bases only when one fails.  (Without troubles: a drone that has left
\* its first base does not come back.)
NoPingPong ==
    [][\A d \in Drone : agent[d].addr # Home[d] => agent'[d].addr # Home[d]]_vars
=============================================================================
