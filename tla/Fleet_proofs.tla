---------------------------- MODULE Fleet_proofs ----------------------------
(***************************************************************************)
(* A drone at rest bears the name its base dispatches by, and its base     *)
(* knows it or has lost what it knew (FleetInv), for every fleet and any   *)
(* number of troubles and moves.  The invariant speaks of each drone by    *)
(* itself: a step of the bases keeps it because nothing is forgotten       *)
(* unnoticed (KeepsMemory), a step of a drone because of its calls.        *)
(***************************************************************************)
EXTENDS Fleet, SequenceTheorems, TLAPS

\* What FleetInv says of drone d.
DroneOK(d) ==
    /\ \A c \in CallsOf(d) :
          /\ c.stage \in {"answered", "adopted"} => Remembers(c.to, d)
          /\ (c.stage = "adopted" /\ d \notin raced) => agent[d].addr = c.to
    /\ ~agent[d].up => /\ agent[d].addr = Home[d] /\ agent[d].mission = "none"
                       /\ CallsOf(d) = {}
    /\ (agent[d].up /\ OnlyAsking(d) /\ d \notin adrift \cup raced) =>
          /\ agent[d].name = Proper(agent[d].addr)
          /\ Remembers(agent[d].addr, d)

LEMMA OneByOne ==
    ASSUME FleetInv
    PROVE  \A d \in Drone : DroneOK(d)
BY DEF FleetInv, AnsweredIsKnown, AdoptedIsAddressed, BelongsWell, DroneOK, CallsOf

LEMMA AllTogether ==
    ASSUME TypeOK', \A d \in Drone : DroneOK(d)'
    PROVE  FleetInv'
<1>1. \A c \in calls' : c.drone \in Drone /\ c \in CallsOf(c.drone)'
  BY DEF TypeOK, RegisterCall, CallsOf
<1>2. AnsweredIsKnown'
  BY <1>1 DEF AnsweredIsKnown, DroneOK
<1>3. AdoptedIsAddressed'
  BY <1>1 DEF AdoptedIsAddressed, DroneOK
<1>4. BelongsWell'
  BY DEF BelongsWell, DroneOK
<1> QED BY <1>2, <1>3, <1>4 DEF FleetInv

-----------------------------------------------------------------------------
(* The drone tables.                                                       *)

Tables == [Base -> [Drone -> DroneEntry \cup {None}]]

\* The tables after a step: what is known is known or counted as forgotten.
KeepsMemory ==
    /\ table' \in Tables
    /\ forgotten' \subseteq Base \X Drone
    /\ \A b \in Base, d \in Drone : Remembers(b, d) => Remembers(b, d)'

\* registerDrone, touchDrone and their like (state.go:70-104).
LEMMA StoreKeeps ==
    ASSUME TypeOK, NEW b \in Base, NEW d \in Drone, NEW e \in DroneEntry,
           table' = Store(b, d, e), UNCHANGED forgotten
    PROVE  KeepsMemory
<1>1. table \in Tables /\ forgotten \subseteq Base \X Drone
  BY DEF TypeOK, Tables
<1>2. e # None
  BY NoEntryAssumption
<1>3. \A p \in Base, x \in Drone : table'[p][x] = IF p = b /\ x = d THEN e ELSE table[p][x]
  BY <1>1 DEF Store, Tables
<1>4. table' \in Tables
  BY <1>1 DEF Store, Tables
<1> QED BY <1>1, <1>2, <1>3, <1>4 DEF KeepsMemory, Remembers, Known

\* updateDroneStatus (state.go:81-88).
LEMMA StatusSetKeeps ==
    ASSUME TypeOK, NEW b \in Base, NEW d \in Drone, NEW s \in {"IDLE", "BUSY", "LOST"},
           table' = StatusSet(b, d, s), UNCHANGED forgotten
    PROVE  KeepsMemory
<1>1. CASE Known(b, d)
  <2>1. table[b][d] \in DroneEntry
    BY <1>1 DEF Known, TypeOK
  <2>2. [table[b][d] EXCEPT !.status = s, !.overdue = FALSE] \in DroneEntry
    BY <2>1 DEF DroneEntry
  <2> QED BY <1>1, <2>2, StoreKeeps DEF StatusSet
<1>2. CASE ~Known(b, d)
  BY <1>2 DEF StatusSet, KeepsMemory, Remembers, Known, TypeOK, Tables
<1> QED BY <1>1, <1>2

\* A record and the DRONE_INFO about it (drone_handler.go:73-77).
LEMMA SpreadKeeps ==
    ASSUME TypeOK, NEW b \in Base, NEW d \in Drone, NEW e \in DroneEntry,
           table' \in Spread(b, d, e)
    PROVE  /\ table' \in Tables
           /\ \A p \in Base, x \in Drone : Known(p, x) => Known(p, x)'
           /\ Known(b, d)'
<1>1. table \in Tables
  BY DEF TypeOK, Tables
<1>2. e # None
  BY NoEntryAssumption
<1>3. PICK P : table' = [x \in Base |->
                 IF x \in P \cup {b} THEN [table[x] EXCEPT ![d] = e] ELSE table[x]]
  BY DEF Spread
<1>4. \A p \in Base, x \in Drone :
         table'[p][x] = IF p \in P \cup {b} /\ x = d THEN e ELSE table[p][x]
  BY <1>1, <1>3 DEF Tables
<1>5. table' \in Tables
  BY <1>1, <1>3 DEF Tables
<1> QED BY <1>2, <1>4, <1>5 DEF Known

\* DRONE_STATUS_UPDATE and MISSION_DONE refresh what is known.
LEMMA ToldKeeps ==
    ASSUME TypeOK, NEW d \in Drone, NEW e,
           Known(agent[d].addr, d) => e \in DroneEntry,
           Told(d, e), UNCHANGED forgotten
    PROVE  KeepsMemory
<1>1. agent[d].addr \in Base
  BY DEF TypeOK, Agent
<1>2. CASE Known(agent[d].addr, d)
  <2>1. table' \in Tables /\ \A p \in Base, x \in Drone : Known(p, x) => Known(p, x)'
    BY <1>1, <1>2, SpreadKeeps DEF Told
  <2> QED BY <2>1 DEF KeepsMemory, Remembers, TypeOK
<1>3. CASE ~Known(agent[d].addr, d)
  BY <1>3 DEF Told, KeepsMemory, Remembers, Known, TypeOK, Tables
<1> QED BY <1>2, <1>3

\* Tables and history as they were.
LEMMA NothingForgotten ==
    ASSUME TypeOK, UNCHANGED <<table, forgotten>>
    PROVE  KeepsMemory
BY DEF KeepsMemory, Remembers, Known, TypeOK, Tables

-----------------------------------------------------------------------------
(* The calls and the drone's own state.                                    *)

\* Drone x keeps its base, and takes no mission if it is dead.
Stays(x) == /\ agent'[x].up = agent[x].up
            /\ agent'[x].addr = agent[x].addr
            /\ agent'[x].name = agent[x].name
            /\ ~agent[x].up => agent'[x].mission = "none"

\* The steps of the bases, and of a mission that makes no call: the drones stay
\* where they belong.
LEMMA DronesStay ==
    ASSUME FleetInv, KeepsMemory, UNCHANGED <<calls, adrift, raced>>,
           \A x \in Drone : Stays(x)
    PROVE  \A d \in Drone : DroneOK(d)'
<1> TAKE d \in Drone
<1>1. DroneOK(d)
  BY OneByOne
<1>2. /\ agent'[d].up = agent[d].up /\ agent'[d].addr = agent[d].addr
      /\ agent'[d].name = agent[d].name
      /\ ~agent[d].up => agent'[d].mission = "none"
  BY DEF Stays
<1>5. CallsOf(d)' = CallsOf(d)
  BY DEF CallsOf
<1>6. OnlyAsking(d)' <=> OnlyAsking(d)
  BY <1>2, <1>5 DEF OnlyAsking
<1>3. agent[d].addr \in Base /\ \A c \in CallsOf(d) : c.to \in Base
  BY DEF FleetInv, TypeOK, Agent, CallsOf, RegisterCall
<1>4. \A b \in Base : Remembers(b, d) => Remembers(b, d)'
  BY DEF KeepsMemory
<1>7. adrift' = adrift /\ raced' = raced
  OBVIOUS
<1> QED BY <1>1, <1>2, <1>3, <1>4, <1>5, <1>6, <1>7 DEF DroneOK

\* All that a step of drone d may touch.
Untouched(x) == /\ agent'[x] = agent[x]
                /\ CallsOf(x)' = CallsOf(x)
                /\ (x \in adrift' <=> x \in adrift)
                /\ (x \in raced' <=> x \in raced)
OnlyDrone(d) == \A x \in Drone \ {d} : Untouched(x)

\* The others stay where they belong.
LEMMA OthersStay ==
    ASSUME FleetInv, KeepsMemory, NEW d \in Drone, DroneOK(d)',
           OnlyDrone(d)
    PROVE  \A x \in Drone : DroneOK(x)'
<1> SUFFICES ASSUME NEW x \in Drone \ {d} PROVE DroneOK(x)'
  OBVIOUS
<1>1. DroneOK(x)
  BY OneByOne
<1>2. /\ CallsOf(x)' = CallsOf(x) /\ agent'[x] = agent[x]
      /\ (x \in adrift' <=> x \in adrift)
      /\ (x \in raced' <=> x \in raced)
  BY DEF OnlyDrone, Untouched
<1>3. OnlyAsking(x)' <=> OnlyAsking(x)
  BY <1>2 DEF OnlyAsking
<1>4. agent[x].addr \in Base /\ \A c \in CallsOf(x) : c.to \in Base
  BY DEF FleetInv, TypeOK, Agent, CallsOf, RegisterCall
<1>5. \A b \in Base : Remembers(b, x) => Remembers(b, x)'
  BY DEF KeepsMemory
<1> QED BY <1>1, <1>2, <1>3, <1>4, <1>5 DEF DroneOK

\* The calls of d are replaced in part, those of the others stay.
LEMMA CallsReplaced ==
    ASSUME NEW d \in Drone, NEW O, NEW N,
           \A c \in O : c.drone = d, \A c \in N : c.drone = d,
           calls' = (calls \ O) \cup N
    PROVE  /\ CallsOf(d)' = (CallsOf(d) \ O) \cup N
           /\ \A x \in Drone \ {d} : CallsOf(x)' = CallsOf(x)
BY DEF CallsOf

\* The loop of tryFallbackBases asks another base than the present one
\* (main.go:124-134).
LEMMA NextTriesElsewhere ==
    ASSUME TypeOK, NEW d \in Drone, NEW by \in Goroutines, NEW todo \in Seq(Base)
    PROVE  \A c \in NextTries(d, by, todo) :
               /\ c \in RegisterCall
               /\ c.drone = d /\ c.stage = "sent" /\ c.to # agent[d].addr
<1> SUFFICES ASSUME NEW c \in NextTries(d, by, todo)
             PROVE  /\ c \in RegisterCall
                    /\ c.drone = d /\ c.stage = "sent" /\ c.to # agent[d].addr
  OBVIOUS
<1>1. PICK i \in DOMAIN todo :
         /\ todo[i] # agent[d].addr
         /\ c = Call(d, by, todo[i], SubSeq(todo, i + 1, Len(todo)), "sent")
  BY DEF NextTries
<1>2. i \in 1..Len(todo) /\ Len(todo) \in Nat /\ todo[i] \in Base
  BY <1>1, LenProperties, ElementOfSeq
<1>3. i + 1 \in 1..Len(todo) + 1 /\ Len(todo) \in (i + 1) - 1..Len(todo)
  BY <1>2
<1>4. SubSeq(todo, i + 1, Len(todo)) \in Seq(Base)
  BY <1>3, SubSeqProperties
<1> QED BY <1>1, <1>2, <1>4 DEF Call, RegisterCall

-----------------------------------------------------------------------------
(* The steps of the bases and of the missions.                             *)

LEMMA TroubleType ==
    ASSUME TypeOK, NEW kind, Trouble(kind) \/ UNCHANGED troubles
    PROVE  troubles' \in 0..MaxTroubles
BY MaxTroublesAssumption DEF TypeOK, Trouble

\* The rest of the types is kept.
RestTypes ==
    /\ running' \subseteq Base /\ online' \in [Base -> SUBSET Base]
    /\ orders' \subseteq [drone : Drone, to : Base]
    /\ calling' \subseteq Base \X Drone
    /\ troubles' \in 0..MaxTroubles

LEMMA BaseKeeps ==
    ASSUME FleetInv, KeepsMemory, RestTypes, UNCHANGED <<calls, adrift, raced>>,
           agent' \in [Drone -> Agent], \A x \in Drone : Stays(x)
    PROVE  FleetInv'
<1>1. TypeOK'
  BY DEF FleetInv, TypeOK, KeepsMemory, Tables, RestTypes
<1> QED BY <1>1, DronesStay, AllTogether

\* When no drone does anything.
LEMMA DronesIdle ==
    ASSUME FleetInv, UNCHANGED agent
    PROVE  agent' \in [Drone -> Agent] /\ \A x \in Drone : Stays(x)
<1>1. agent' = agent /\ agent \in [Drone -> Agent]
  BY DEF FleetInv, TypeOK
<1>2. \A x \in Drone : ~agent[x].up => agent[x].mission = "none"
  BY DEF FleetInv, BelongsWell
<1> QED BY <1>1, <1>2 DEF Stays

\* The mission of a drone that is up changes.
LEMMA MissionMoves ==
    ASSUME FleetInv, NEW d \in Drone, NEW m \in {"none", "flying", "reporting", "fallback", "last"},
           agent[d].up \/ m = "none",
           agent' = [agent EXCEPT ![d].mission = m]
    PROVE  agent' \in [Drone -> Agent] /\ \A x \in Drone : Stays(x)
<1>1. agent \in [Drone -> Agent] /\ agent[d] \in Agent
  BY DEF FleetInv, TypeOK
<1>2. agent' = [agent EXCEPT ![d] = [agent[d] EXCEPT !.mission = m]]
  OBVIOUS
<1>3. /\ [agent[d] EXCEPT !.mission = m] \in Agent
      /\ [agent[d] EXCEPT !.mission = m].up = agent[d].up
      /\ [agent[d] EXCEPT !.mission = m].addr = agent[d].addr
      /\ [agent[d] EXCEPT !.mission = m].name = agent[d].name
      /\ [agent[d] EXCEPT !.mission = m].mission = m
  BY <1>1 DEF Agent
<1>4. \A x \in Drone : agent'[x] = IF x = d THEN [agent[d] EXCEPT !.mission = m] ELSE agent[x]
  BY <1>1, <1>2
<1>5. \A x \in Drone : ~agent[x].up => agent[x].mission = "none"
  BY DEF FleetInv, BelongsWell
<1>6. \A x \in Drone : Stays(x)
  BY <1>3, <1>4, <1>5 DEF Stays
<1> QED BY <1>1, <1>2, <1>3, <1>6

\* A drone that does anything is up.
LEMMA BusyIsUp ==
    ASSUME FleetInv, NEW d \in Drone, agent[d].mission # "none" \/ CallsOf(d) # {}
    PROVE  agent[d].up
BY DEF FleetInv, BelongsWell

\* checkDroneHealth and the heartbeats (heartbeat.go:114-137, state.go:90-104).
LEMMA TableStep ==
    ASSUME FleetInv, NEW b \in Base, NEW d \in Drone,
           Heartbeat(b, d) \/ Silence(b, d) \/ MarkLost(b, d) \/ RemoveDrone(b, d)
    PROVE  FleetInv'
<1>1. TypeOK /\ agent[d] \in Agent
  BY DEF FleetInv, TypeOK
<1>2. RestTypes /\ UNCHANGED droneVars
  BY <1>1, TroubleType DEF RestTypes, TypeOK, droneVars, Heartbeat, Silence, MarkLost, RemoveDrone
<1>3. KeepsMemory
  <2>1. CASE Heartbeat(b, d)
    <3>1. PICK s \in {"IDLE", "BUSY"} :
             table' = Store(b, d, [name |-> agent[d].name, status |-> s, overdue |-> FALSE])
      BY <2>1 DEF Heartbeat
    <3>2. [name |-> agent[d].name, status |-> s, overdue |-> FALSE] \in DroneEntry
      BY <1>1 DEF Agent, DroneEntry
    <3> QED BY <1>1, <2>1, <3>1, <3>2, StoreKeeps DEF Heartbeat
  <2>2. CASE Silence(b, d)
    <3>1. table[b][d] \in DroneEntry
      BY <1>1, <2>2 DEF Silence, Known, TypeOK
    <3>2. [table[b][d] EXCEPT !.overdue = TRUE] \in DroneEntry
      BY <3>1 DEF DroneEntry
    <3>3. table' = Store(b, d, [table[b][d] EXCEPT !.overdue = TRUE])
      BY <2>2 DEF Silence, Store
    <3> QED BY <1>1, <2>2, <3>2, <3>3, StoreKeeps DEF Silence
  <2>3. CASE MarkLost(b, d)
    BY <1>1, <2>3, StatusSetKeeps DEF MarkLost
  <2>4. CASE RemoveDrone(b, d)
    <3>1. table \in Tables /\ table' = [table EXCEPT ![b][d] = None]
      BY <1>1, <2>4 DEF RemoveDrone, Store, TypeOK, Tables
    <3>2. \A p \in Base, x \in Drone : (p # b \/ x # d) => table'[p][x] = table[p][x]
      BY <3>1 DEF Tables
    <3>3. table' \in Tables
      BY <3>1 DEF Tables
    <3>4. forgotten' = forgotten \cup {<<b, d>>}
      BY <2>4 DEF RemoveDrone
    <3> QED BY <1>1, <3>2, <3>3, <3>4 DEF KeepsMemory, Remembers, Known, TypeOK
  <2> QED BY <2>1, <2>2, <2>3, <2>4
<1> QED BY <1>2, <1>3, DronesIdle, BaseKeeps DEF droneVars

\* QUEUE_CLEAR, a crash and a restart (state.go:157-166, 11-32).
LEMMA BaseStep ==
    ASSUME FleetInv, NEW b \in Base,
           PurgeLostDrones(b) \/ Crash(b) \/ Restart(b)
    PROVE  FleetInv'
<1>1. TypeOK /\ table \in Tables
  BY DEF FleetInv, TypeOK, Tables
<1>2. RestTypes /\ UNCHANGED droneVars
  BY <1>1, TroubleType DEF RestTypes, TypeOK, droneVars, PurgeLostDrones, Crash, Restart
<1>3. KeepsMemory
  <2>1. CASE PurgeLostDrones(b)
    <3> DEFINE lost == {d \in Drone : Known(b, d) /\ table[b][d].status = "LOST"}
    <3>1. /\ table' = [table EXCEPT ![b] = [d \in Drone |-> IF d \in lost THEN None ELSE @[d]]]
          /\ forgotten' = forgotten \cup {<<b, d>> : d \in lost}
      BY <2>1 DEF PurgeLostDrones
    <3>2. lost \subseteq Drone
      OBVIOUS
    <3> HIDE DEF lost
    <3>3. \A p \in Base, x \in Drone :
             table'[p][x] = IF p = b /\ x \in lost THEN None ELSE table[p][x]
      BY <1>1, <3>1 DEF Tables
    <3>4. table' \in Tables
      BY <1>1, <3>1 DEF Tables
    <3>5. forgotten' \subseteq Base \X Drone
      BY <1>1, <3>1, <3>2 DEF TypeOK
    <3>6. ASSUME NEW p \in Base, NEW x \in Drone, Remembers(p, x)
          PROVE  Remembers(p, x)'
      BY <3>1, <3>3, <3>6 DEF Remembers, Known
    <3> QED BY <3>4, <3>5, <3>6 DEF KeepsMemory
  <2>2. CASE Crash(b)
    <3>1. /\ table' = [table EXCEPT ![b] = [d \in Drone |-> None]]
          /\ forgotten' = forgotten \cup ({b} \X Drone)
      BY <2>2 DEF Crash
    <3>2. \A p \in Base, x \in Drone : p # b => table'[p][x] = table[p][x]
      BY <1>1, <3>1 DEF Tables
    <3>3. table' \in Tables
      BY <1>1, <3>1 DEF Tables
    <3> QED BY <1>1, <3>1, <3>2, <3>3 DEF KeepsMemory, Remembers, Known, TypeOK
  <2>3. CASE Restart(b)
    BY <1>1, <2>3, NothingForgotten DEF Restart
  <2> QED BY <2>1, <2>2, <2>3
<1> QED BY <1>2, <1>3, DronesIdle, BaseKeeps DEF droneVars

\* The views of the peers (state.go:168-187).
LEMMA ViewStep ==
    ASSUME FleetInv, NEW p \in Base, NEW b \in Base, Hear(p, b) \/ MarkOffline(p, b)
    PROVE  FleetInv'
<1>1. TypeOK
  BY DEF FleetInv
<1>2. RestTypes /\ UNCHANGED droneVars
  BY <1>1 DEF RestTypes, TypeOK, droneVars, Hear, MarkOffline
<1>3. KeepsMemory
  BY <1>1, NothingForgotten DEF Hear, MarkOffline
<1> QED BY <1>2, <1>3, DronesIdle, BaseKeeps DEF droneVars

\* balanceDrones (drone_handler.go:79-140).
LEMMA BalanceStep ==
    ASSUME FleetInv, NEW b \in Base, BalanceDrones(b)
    PROVE  FleetInv'
<1>1. TypeOK
  BY DEF FleetInv
<1>2. PICK d \in Crew(b, b), p \in Neediest(b) :
         /\ table' = StatusSet(b, d, "LOST")
         /\ orders' = orders \cup (IF Ready(d) THEN {[drone |-> d, to |-> p]} ELSE {})
  BY DEF BalanceDrones
<1>3. d \in Drone /\ p \in Base
  BY <1>1 DEF Crew, Neediest, Poorer, TypeOK
<1>4. orders' \subseteq [drone : Drone, to : Base]
  BY <1>1, <1>2, <1>3 DEF TypeOK
<1>5. RestTypes /\ UNCHANGED <<agent, calls, adrift, raced>>
  BY <1>1, <1>4 DEF RestTypes, TypeOK, BalanceDrones
<1>6. KeepsMemory
  BY <1>1, <1>2, <1>3, StatusSetKeeps DEF BalanceDrones
<1> QED BY <1>5, <1>6, DronesIdle, BaseKeeps

\* A mission is given to a drone, or not (dispatcher.go:31-63).
LEMMA DispatchStep ==
    ASSUME FleetInv, NEW b \in Base, NEW d \in Drone,
           Reserve(b, d) \/ TakeDispatch(b, d) \/ DispatchFails(b, d)
    PROVE  FleetInv'
<1>1. TypeOK
  BY DEF FleetInv
<1>2. RestTypes /\ UNCHANGED <<calls, adrift, raced>>
  BY <1>1, TroubleType DEF RestTypes, TypeOK, droneVars, Reserve, TakeDispatch, DispatchFails
<1>3. KeepsMemory
  BY <1>1, StatusSetKeeps, NothingForgotten DEF Reserve, TakeDispatch, DispatchFails
<1>4. agent' \in [Drone -> Agent] /\ \A x \in Drone : Stays(x)
  <2>1. CASE TakeDispatch(b, d)
    BY <2>1, MissionMoves DEF TakeDispatch, Ready
  <2>2. CASE Reserve(b, d) \/ DispatchFails(b, d)
    BY <2>2, DronesIdle DEF Reserve, DispatchFails, droneVars
  <2> QED BY <2>1, <2>2
<1> QED BY <1>2, <1>3, <1>4, BaseKeeps

\* A flight and its report (drone main.go:164-214).
LEMMA FlightStep ==
    ASSUME FleetInv, NEW d \in Drone, StatusUpdate(d) \/ FlightEnds(d) \/ Report(d)
    PROVE  FleetInv'
<1>1. TypeOK /\ agent[d].addr \in Base
  BY DEF FleetInv, TypeOK, Agent
<1>2. RestTypes /\ UNCHANGED <<calls, adrift, raced>>
  BY <1>1 DEF RestTypes, TypeOK, droneVars, baseVars, StatusUpdate, FlightEnds, Report
<1>3. KeepsMemory
  <2> DEFINE e == table[agent[d].addr][d]
  <2>1. Known(agent[d].addr, d) => e \in DroneEntry
    BY <1>1 DEF Known, TypeOK
  <2>2. Known(agent[d].addr, d) =>
            /\ [e EXCEPT !.overdue = FALSE] \in DroneEntry
            /\ [e EXCEPT !.status = "IDLE", !.overdue = FALSE] \in DroneEntry
    BY <2>1 DEF DroneEntry
  <2>3. CASE StatusUpdate(d)
    BY <1>1, <2>2, <2>3, ToldKeeps DEF StatusUpdate
  <2>4. CASE FlightEnds(d)
    BY <1>1, <2>4, NothingForgotten DEF FlightEnds, baseVars
  <2>5. CASE Report(d)
    BY <1>1, <2>2, <2>5, ToldKeeps DEF Report
  <2> QED BY <2>3, <2>4, <2>5
<1>4. agent' \in [Drone -> Agent] /\ \A x \in Drone : Stays(x)
  <2>1. CASE StatusUpdate(d)
    BY <2>1, DronesIdle DEF StatusUpdate, droneVars
  <2>2. CASE FlightEnds(d)
    <3>1. agent[d].up
      BY <2>2, BusyIsUp DEF FlightEnds
    <3> QED BY <2>2, <3>1, MissionMoves DEF FlightEnds
  <2>3. CASE Report(d)
    BY <2>3, MissionMoves DEF Report
  <2> QED BY <2>1, <2>2, <2>3
<1> QED BY <1>2, <1>3, <1>4, BaseKeeps
-----------------------------------------------------------------------------
(* The steps of a drone.                                                   *)

DroneTypes == /\ agent' \in [Drone -> Agent]
              /\ calls' \subseteq RegisterCall
              /\ adrift' \subseteq Drone /\ raced' \subseteq Drone

LEMMA DroneKeeps ==
    ASSUME FleetInv, KeepsMemory, RestTypes, DroneTypes,
           NEW d \in Drone, OnlyDrone(d), DroneOK(d)'
    PROVE  FleetInv'
<1>1. TypeOK'
  BY DEF TypeOK, KeepsMemory, Tables, RestTypes, DroneTypes
<1>2. \A x \in Drone : DroneOK(x)'
  BY OthersStay
<1> QED BY <1>1, <1>2, AllTogether

\* Calls that ask elsewhere change nothing of what holds of d: the watcher, a
\* report that fails, and the next address (main.go:72-106, 124-134, 216-222).
LEMMA AskingElsewhere ==
    ASSUME FleetInv, KeepsMemory, NEW d \in Drone, NEW O, NEW N,
           calls' = (calls \ O) \cup N,
           \A c \in O : /\ c.drone = d /\ c.stage \in {"sent", "answered"}
                        /\ c.to = agent[d].addr => d \in adrift',
           \A c \in N : c.drone = d /\ c.stage = "sent" /\ c.to # agent[d].addr,
           agent[d].up, d \in adrift => d \in adrift', d \in raced' <=> d \in raced,
           agent'[d].up = agent[d].up, agent'[d].addr = agent[d].addr,
           agent'[d].name = agent[d].name
    PROVE  DroneOK(d)'
<1>1. DroneOK(d) /\ agent[d].addr \in Base
  BY OneByOne DEF FleetInv, TypeOK, Agent
<1>9. (\A c \in O : c.drone = d) /\ (\A c \in N : c.drone = d)
  OBVIOUS
<1>2. CallsOf(d)' = (CallsOf(d) \ O) \cup N
  BY <1>9 DEF CallsOf
<1>3. \A b \in Base : Remembers(b, d) => Remembers(b, d)'
  BY DEF KeepsMemory
<1>4. \A c \in CallsOf(d) : c.to \in Base
  BY DEF FleetInv, TypeOK, RegisterCall, CallsOf
<1>5. ASSUME NEW c \in CallsOf(d)'
      PROVE  /\ c.stage \in {"answered", "adopted"} => Remembers(c.to, d)'
             /\ (c.stage = "adopted" /\ d \notin raced') => agent'[d].addr = c.to
  BY <1>1, <1>2, <1>3, <1>4 DEF DroneOK
<1>6. (OnlyAsking(d)' /\ d \notin adrift') => OnlyAsking(d)
  BY <1>2 DEF OnlyAsking
<1>7. (OnlyAsking(d)' /\ d \notin adrift' \cup raced') =>
          /\ agent[d].name = Proper(agent[d].addr)
          /\ Remembers(agent[d].addr, d)'
  BY <1>1, <1>3, <1>6 DEF DroneOK
<1>8. agent'[d].up
  OBVIOUS
<1> QED BY <1>5, <1>7, <1>8 DEF DroneOK

\* The watcher and a mission look for another base.
LEMMA SearchStep ==
    ASSUME FleetInv, NEW d \in Drone, WatchRound(d) \/ ReportFails(d)
    PROVE  FleetInv'
<1>1. TypeOK /\ Fallback[d] \in Seq(Base)
  BY FallbackAssumption DEF FleetInv
<1>2. agent[d].up
  <2>1. CASE WatchRound(d)
    BY <2>1 DEF WatchRound, Ready
  <2>2. CASE ReportFails(d)
    BY <2>2, BusyIsUp DEF ReportFails
  <2> QED BY <2>1, <2>2
<1>3. PICK N : /\ calls' = calls \cup N
               /\ N = {} \/ \E by \in Goroutines : N = NextTries(d, by, Fallback[d])
  <2>1. CASE WatchRound(d)
    BY <2>1 DEF WatchRound, Goroutines
  <2>2. CASE ReportFails(d)
    <3>1. UNCHANGED calls \/ calls' = calls \cup NextTries(d, "mission", Fallback[d])
      BY <2>2 DEF ReportFails
    <3> QED BY <3>1 DEF Goroutines
  <2> QED BY <2>1, <2>2
<1>4. \A c \in N : c \in RegisterCall /\ c.drone = d /\ c.stage = "sent" /\ c.to # agent[d].addr
  BY <1>1, <1>3, NextTriesElsewhere
<1>5. agent' \in [Drone -> Agent] /\ \A x \in Drone : Stays(x)
  <2>1. CASE WatchRound(d)
    BY <2>1, DronesIdle DEF WatchRound
  <2>2. CASE ReportFails(d)
    <3>1. PICK m \in {"none", "fallback"} : agent' = [agent EXCEPT ![d].mission = m]
      BY <2>2 DEF ReportFails
    <3> QED BY <1>2, <3>1, MissionMoves
  <2> QED BY <2>1, <2>2
<1>6. \A x \in Drone \ {d} : agent'[x] = agent[x]
  BY <1>1 DEF WatchRound, ReportFails, TypeOK
<1>7. UNCHANGED <<adrift, raced, table, forgotten>> /\ RestTypes
  BY <1>1, TroubleType DEF WatchRound, ReportFails, baseVars, RestTypes, TypeOK
<1>8. KeepsMemory
  BY <1>1, <1>7, NothingForgotten
<1>9. DroneTypes
  BY <1>1, <1>3, <1>4, <1>5, <1>7 DEF DroneTypes, TypeOK
<1>10. calls' = (calls \ {}) \cup N
  BY <1>3
<1>13. \A x \in Drone \ {d} : CallsOf(x)' = CallsOf(x)
  BY <1>3, <1>4 DEF CallsOf
<1>11. OnlyDrone(d)
  BY <1>6, <1>7, <1>13 DEF OnlyDrone, Untouched
<1>12. DroneOK(d)'
  BY <1>2, <1>4, <1>5, <1>7, <1>8, <1>10, AskingElsewhere DEF Stays
<1> QED BY <1>7, <1>8, <1>9, <1>11, <1>12, DroneKeeps
\* What a call says of its drone.
LEMMA CallFacts ==
    ASSUME FleetInv, NEW c \in calls
    PROVE  /\ TypeOK /\ c \in RegisterCall
           /\ c.drone \in Drone /\ c.to \in Base
           /\ c \in CallsOf(c.drone)
           /\ agent[c.drone].up /\ agent[c.drone] \in Agent
           /\ DroneOK(c.drone)
<1>1. TypeOK /\ c \in RegisterCall
  BY DEF FleetInv, TypeOK
<1>2. c.drone \in Drone /\ c.to \in Base
  BY <1>1 DEF RegisterCall
<1>3. c \in CallsOf(c.drone)
  BY DEF CallsOf
<1>4. agent[c.drone].up
  BY <1>2, <1>3, BusyIsUp
<1>5. agent[c.drone] \in Agent
  BY <1>1, <1>2 DEF TypeOK
<1> QED BY <1>1, <1>2, <1>3, <1>4, <1>5, OneByOne

\* A call moves on to another stage, or to another address.
LEMMA NextCall ==
    ASSUME FleetInv, NEW c \in calls,
           NEW stage \in {"addressed", "sent", "answered", "adopted"}, NEW e,
           e = [c EXCEPT !.stage = stage], calls' = (calls \ {c}) \cup {e}
    PROVE  /\ e \in RegisterCall /\ e.drone = c.drone /\ e.to = c.to /\ e.stage = stage
           /\ calls' \subseteq RegisterCall
           /\ CallsOf(c.drone)' = (CallsOf(c.drone) \ {c}) \cup {e}
           /\ \A x \in Drone \ {c.drone} : CallsOf(x)' = CallsOf(x)
<1>1. c \in RegisterCall /\ calls \subseteq RegisterCall
  BY CallFacts DEF TypeOK
<1>2. e \in RegisterCall /\ e.drone = c.drone /\ e.to = c.to /\ e.stage = stage
  BY <1>1 DEF RegisterCall
<1>3. calls' \subseteq RegisterCall
  BY <1>1, <1>2
<1> QED BY <1>2, <1>3 DEF CallsOf

\* handleDroneRegister (drone_handler.go:12-37).
LEMMA RegisterStep ==
    ASSUME FleetInv, NEW c \in calls, HandleDroneRegister(c)
    PROVE  FleetInv'
<1> DEFINE d == c.drone
           e == [c EXCEPT !.stage = "answered"]
<1>1. /\ TypeOK /\ c \in RegisterCall /\ d \in Drone /\ c.to \in Base
      /\ c \in CallsOf(d) /\ agent[d].up /\ agent[d] \in Agent /\ DroneOK(d)
  BY CallFacts
<1>2. calls' = (calls \ {c}) \cup {e} /\ c.stage = "sent"
  BY DEF HandleDroneRegister
<1>3. /\ e \in RegisterCall /\ e.drone = d /\ e.to = c.to /\ e.stage = "answered"
      /\ calls' \subseteq RegisterCall
      /\ CallsOf(d)' = (CallsOf(d) \ {c}) \cup {e}
      /\ \A x \in Drone \ {d} : CallsOf(x)' = CallsOf(x)
  BY <1>2, NextCall
<1> HIDE DEF d, e
<1>4. Registered(Proper(c.to)) \in DroneEntry
  BY <1>1 DEF Registered, Proper, DroneEntry, Name
<1>5. table' \in Spread(c.to, d, Registered(Proper(c.to))) /\ forgotten' = forgotten \ {<<c.to, d>>}
  BY DEF HandleDroneRegister, d
<1>6. /\ table' \in Tables /\ \A p \in Base, x \in Drone : Known(p, x) => Known(p, x)'
      /\ Known(c.to, d)'
  BY <1>1, <1>4, <1>5, SpreadKeeps
<1>7. KeepsMemory /\ Remembers(c.to, d)'
  BY <1>1, <1>5, <1>6 DEF KeepsMemory, Remembers, TypeOK
<1>8. UNCHANGED <<agent, adrift, raced>> /\ RestTypes /\ DroneTypes
  BY <1>1, <1>3 DEF HandleDroneRegister, RestTypes, DroneTypes, TypeOK
<1>9. OnlyDrone(d)
  BY <1>3, <1>8 DEF OnlyDrone, Untouched
<1>10. DroneOK(d)'
  <2>1. OnlyAsking(d)' => OnlyAsking(d)
    BY <1>2, <1>3, <1>8 DEF OnlyAsking
  <2>2. \A f \in CallsOf(d) : f.to \in Base
    BY <1>1 DEF TypeOK, RegisterCall, CallsOf
  <2>3. agent[d].addr \in Base
    BY <1>1 DEF Agent
  <2>4. \A b \in Base : Remembers(b, d) => Remembers(b, d)'
    BY <1>1, <1>7 DEF KeepsMemory
  <2>5. ASSUME NEW f \in CallsOf(d)'
        PROVE  /\ f.stage \in {"answered", "adopted"} => Remembers(f.to, d)'
               /\ (f.stage = "adopted" /\ d \notin raced) => agent[d].addr = f.to
    BY <1>1, <1>3, <1>7, <2>2, <2>4 DEF DroneOK
  <2>6. ASSUME OnlyAsking(d), d \notin adrift \cup raced
        PROVE  agent[d].name = Proper(agent[d].addr) /\ Remembers(agent[d].addr, d)'
    <3>1. agent[d].name = Proper(agent[d].addr) /\ Remembers(agent[d].addr, d)
      BY <1>1, <2>6, Zenon DEF DroneOK
    <3> QED BY <1>8, <2>3, <2>4, <3>1
  <2> QED BY <1>1, <1>8, <2>1, <2>5, <2>6 DEF DroneOK
<1> QED BY <1>1, <1>7, <1>8, <1>9, <1>10, DroneKeeps

\* REGISTER fails, the next address is tried (drone main.go:108-134).
LEMMA RegisterFailsStep ==
    ASSUME FleetInv, NEW c \in calls, RegisterFails(c)
    PROVE  FleetInv'
<1> DEFINE d == c.drone
           N == NextTries(d, c.by, c.todo)
<1>1. /\ TypeOK /\ c \in RegisterCall /\ d \in Drone
      /\ c \in CallsOf(d) /\ agent[d].up /\ agent[d] \in Agent
  BY CallFacts
<1>2. c.by \in Goroutines /\ c.todo \in Seq(Base)
  BY <1>1 DEF RegisterCall
<1>3. \A f \in N : f \in RegisterCall /\ f.drone = d /\ f.stage = "sent" /\ f.to # agent[d].addr
  BY <1>1, <1>2, NextTriesElsewhere
<1>4. /\ calls' = (calls \ {c}) \cup N /\ c.stage \in {"sent", "answered"}
      /\ adrift' = adrift \cup (IF agent[d].addr = c.to THEN {d} ELSE {})
      /\ agent' = agent \/ agent' = [agent EXCEPT ![d].mission = "none"]
      /\ UNCHANGED <<baseVars, orders, raced>>
      /\ Trouble("call") \/ UNCHANGED troubles
  BY DEF RegisterFails, GivenUp
<1> HIDE DEF d, N
<1>5. agent' \in [Drone -> Agent] /\ \A x \in Drone : Stays(x)
  BY <1>1, <1>4, DronesIdle, MissionMoves
<1>6. \A x \in Drone \ {d} : agent'[x] = agent[x]
  BY <1>1, <1>4 DEF TypeOK
<1>7. KeepsMemory
  BY <1>1, <1>4, NothingForgotten DEF baseVars
<1>8. RestTypes /\ DroneTypes
  BY <1>1, <1>3, <1>4, <1>5, TroubleType DEF RestTypes, DroneTypes, TypeOK, baseVars
<1>9. c.drone = d /\ \A x \in Drone \ {d} : CallsOf(x)' = CallsOf(x)
  BY <1>1, <1>3, <1>4 DEF CallsOf, d
<1>10. OnlyDrone(d)
  BY <1>4, <1>6, <1>9 DEF OnlyDrone, Untouched
<1>11. DroneOK(d)'
  <2> DEFINE O == {c}
  <2>1. calls' = (calls \ O) \cup N
    BY <1>4
  <2>2. \A f \in O : /\ f.drone = d /\ f.stage \in {"sent", "answered"}
                     /\ f.to = agent[d].addr => d \in adrift'
    BY <1>4, <1>9
  <2>3. Stays(d) /\ (d \in adrift => d \in adrift') /\ (d \in raced' <=> d \in raced)
    BY <1>1, <1>4, <1>5
  <2>4. agent'[d].up = agent[d].up /\ agent'[d].addr = agent[d].addr /\ agent'[d].name = agent[d].name
    BY <2>3 DEF Stays
  <2>5. \A f \in N : f.drone = d /\ f.stage = "sent" /\ f.to # agent[d].addr
    BY <1>3
  <2> HIDE DEF O
  <2> QED BY <1>1, <1>7, <2>1, <2>2, <2>3, <2>4, <2>5, AskingElsewhere
<1> QED BY <1>1, <1>7, <1>8, <1>10, <1>11, DroneKeeps

\* The REGISTER calls drone d can make.
Its(d) == {c \in RegisterCall : c.drone = d}

\* Drone d becomes a, and a call of its own is made, ends or moves on.
OneMove(d, a, O, N) ==
    /\ agent' = [agent EXCEPT ![d] = a]
    /\ calls' = (calls \ O) \cup N
    /\ O \subseteq Its(d) /\ N \subseteq Its(d)
    /\ adrift' = adrift \/ adrift' = adrift \ {d}
    /\ raced' = raced \/ raced' = raced \cup {d} \/ raced' = raced \ {d}

Moved(d, a, O, N) ==
    /\ DroneTypes /\ OnlyDrone(d)
    /\ agent'[d] = a
    /\ CallsOf(d)' = (CallsOf(d) \ O) \cup N

LEMMA OneDroneMoves ==
    ASSUME TypeOK, NEW d \in Drone, NEW a \in Agent, NEW O, NEW N, OneMove(d, a, O, N)
    PROVE  Moved(d, a, O, N)
<1> USE DEF OneMove
<1>1. agent \in [Drone -> Agent]
  BY DEF TypeOK
<1>2. agent' \in [Drone -> Agent] /\ agent'[d] = a /\ \A x \in Drone \ {d} : agent'[x] = agent[x]
  BY <1>1
<1>6. \A c \in O \cup N : c.drone = d /\ c \in RegisterCall
  BY DEF Its
<1>3. DroneTypes
  BY <1>2, <1>6 DEF DroneTypes, TypeOK
<1>4. CallsOf(d)' = (CallsOf(d) \ O) \cup N /\ \A x \in Drone \ {d} : CallsOf(x)' = CallsOf(x)
  BY <1>6 DEF CallsOf
<1>5. \A x \in Drone \ {d} : (x \in adrift' <=> x \in adrift) /\ (x \in raced' <=> x \in raced)
  OBVIOUS
<1> QED BY <1>2, <1>3, <1>4, <1>5 DEF OnlyDrone, Untouched, Moved

\* baseAddr = addr (drone main.go:118).
LEMMA AdoptAddressStep ==
    ASSUME FleetInv, NEW c \in calls, AdoptAddress(c)
    PROVE  FleetInv'
<1> DEFINE d == c.drone
<1>1. /\ TypeOK /\ c \in RegisterCall /\ d \in Drone /\ c.to \in Base
      /\ c \in CallsOf(d) /\ agent[d].up /\ agent[d] \in Agent /\ DroneOK(d)
  BY CallFacts
<1>2. PICK a \in Agent : a = [agent[d] EXCEPT !.addr = c.to]
  BY <1>1 DEF Agent
<1>3. PICK e \in RegisterCall : e = [c EXCEPT !.stage = "adopted"]
  BY <1>1 DEF RegisterCall
<1>4. a.addr = c.to /\ a.up = agent[d].up
  BY <1>1, <1>2 DEF Agent
<1>5. c.drone = d /\ e.drone = d /\ e.to = c.to /\ e.stage = "adopted"
  BY <1>1, <1>3 DEF RegisterCall
<1>6. /\ c.stage = "answered" /\ agent' = [agent EXCEPT ![d] = a]
      /\ calls' = (calls \ {c}) \cup {e} /\ adrift' = adrift \ {d}
      /\ raced' = IF CallsOf(d) = {c} THEN raced \ {d} ELSE raced \cup {d}
      /\ UNCHANGED <<baseVars, orders, troubles>>
  BY <1>2, <1>3 DEF AdoptAddress
<1> HIDE DEF d
<1>7. {c} \subseteq Its(d) /\ {e} \subseteq Its(d)
  BY <1>1, <1>5 DEF Its
<1>9. DroneTypes /\ OnlyDrone(d) /\ agent'[d] = a /\ CallsOf(d)' = (CallsOf(d) \ {c}) \cup {e}
  <2>1. OneMove(d, a, {c}, {e}) /\ a \in Agent
    BY <1>2, <1>6, <1>7 DEF OneMove
  <2>2. Moved(d, a, {c}, {e})
    BY <1>1, <2>1, OneDroneMoves
  <2> QED BY <2>2 DEF Moved
<1>10. KeepsMemory /\ RestTypes
  BY <1>1, <1>6, NothingForgotten DEF baseVars, RestTypes, TypeOK
<1>11. DroneOK(d)'
  <2>1. \A b \in Base : Remembers(b, d) => Remembers(b, d)'
    BY <1>1, <1>10 DEF KeepsMemory
  <2>2. \A f \in CallsOf(d) : f.to \in Base
    BY <1>1 DEF TypeOK, RegisterCall, CallsOf
  <2>3. ASSUME NEW f \in CallsOf(d)', f.stage \in {"answered", "adopted"}
        PROVE  Remembers(f.to, d)'
    BY <1>1, <1>5, <1>6, <1>9, <2>1, <2>2, <2>3 DEF DroneOK
  <2>4. ASSUME NEW f \in CallsOf(d)', d \notin raced'
        PROVE  f = e
    BY <1>1, <1>6, <1>9, <2>4
  <2>5. ~OnlyAsking(d)'
    BY <1>5, <1>9 DEF OnlyAsking
  <2>6. agent'[d].up /\ agent'[d].addr = e.to
    BY <1>1, <1>4, <1>5, <1>9
  <2> QED BY <2>3, <2>4, <2>5, <2>6 DEF DroneOK
<1> QED BY <1>1, <1>9, <1>10, <1>11, DroneKeeps

\* baseID = reply.SenderID (drone main.go:119-120).
LEMMA AdoptNameStep ==
    ASSUME FleetInv, NEW c \in calls, AdoptName(c)
    PROVE  FleetInv'
<1> DEFINE d == c.drone
           m == IF c.by = "mission" THEN "last" ELSE agent[d].mission
           a == [agent[d] EXCEPT !.name = Proper(c.to), !.mission = m]
<1>1. /\ TypeOK /\ c \in RegisterCall /\ d \in Drone /\ c.to \in Base
      /\ c \in CallsOf(d) /\ agent[d].up /\ agent[d] \in Agent /\ DroneOK(d)
  BY CallFacts
<1>2. /\ c.stage = "adopted" /\ calls' = calls \ {c}
      /\ UNCHANGED <<baseVars, orders, adrift, raced, troubles>>
  BY DEF AdoptName
<1>3. agent' = [agent EXCEPT ![d] = a]
  BY DEF AdoptName
<1>4. Proper(c.to) \in Name /\ m \in {"none", "flying", "reporting", "fallback", "last"}
  BY <1>1 DEF Proper, Name, Agent
<1>5. c.drone = d
  OBVIOUS
<1> HIDE DEF m
<1>6. a \in Agent /\ a.addr = agent[d].addr /\ a.up = agent[d].up /\ a.name = Proper(c.to)
  BY <1>1, <1>4 DEF Agent
<1> HIDE DEF d, a
<1>7. DroneTypes /\ OnlyDrone(d) /\ agent'[d] = a /\ CallsOf(d)' = CallsOf(d) \ {c}
  <2>1. OneMove(d, a, {c}, {})
    BY <1>1, <1>2, <1>3, <1>5 DEF OneMove, Its
  <2>2. Moved(d, a, {c}, {})
    BY <1>1, <1>6, <2>1, OneDroneMoves
  <2> QED BY <2>2 DEF Moved
<1>8. KeepsMemory /\ RestTypes
  BY <1>1, <1>2, NothingForgotten DEF baseVars, RestTypes, TypeOK
<1>9. DroneOK(d)'
  <2>1. \A b \in Base : Remembers(b, d) => Remembers(b, d)'
    BY <1>1, <1>8 DEF KeepsMemory
  <2>2. \A f \in CallsOf(d) : f.to \in Base
    BY <1>1 DEF TypeOK, RegisterCall, CallsOf
  <2>3. \A f \in CallsOf(d)' : f.stage \in {"answered", "adopted"} => Remembers(f.to, d)'
    BY <1>1, <1>7, <2>1, <2>2 DEF DroneOK
  <2>4. \A f \in CallsOf(d)' : (f.stage = "adopted" /\ d \notin raced') => agent'[d].addr = f.to
    BY <1>1, <1>2, <1>6, <1>7 DEF DroneOK
  <2>5. Remembers(c.to, d)' /\ (d \notin raced => agent[d].addr = c.to)
    BY <1>1, <1>2, <2>1 DEF DroneOK
  <2>6. agent'[d].up /\ agent'[d].addr = agent[d].addr /\ agent'[d].name = Proper(c.to)
    BY <1>1, <1>6, <1>7
  <2>7. d \notin raced' => /\ agent'[d].name = Proper(agent'[d].addr)
                           /\ Remembers(agent[d].addr, d)'
    BY <1>2, <2>5, <2>6
  <2> QED BY <2>3, <2>4, <2>6, <2>7 DEF DroneOK
<1> QED BY <1>1, <1>7, <1>8, <1>9, DroneKeeps

\* baseID as the peers spell it, and REGISTER to what baseAddr says now (drone
\* main.go:226-228).
LEMMA ReassignNameStep ==
    ASSUME FleetInv, NEW c \in calls, ReassignName(c)
    PROVE  FleetInv'
<1> DEFINE d == c.drone
<1>1. /\ TypeOK /\ c \in RegisterCall /\ d \in Drone /\ c.to \in Base
      /\ c \in CallsOf(d) /\ agent[d].up /\ agent[d] \in Agent /\ DroneOK(d)
  BY CallFacts
<1>2. PICK a \in Agent : a = [agent[d] EXCEPT !.name = Shouted(c.to)]
  BY <1>1 DEF Agent, Shouted, Name
<1>3. PICK e \in RegisterCall : e = Call(d, c.by, agent[d].addr, <<>>, "sent")
  <2>1. <<>> \in Seq(Base)
    OBVIOUS
  <2>2. c.by \in Goroutines /\ agent[d].addr \in Base
    BY <1>1 DEF RegisterCall, Agent
  <2> QED BY <1>1, <2>1, <2>2 DEF RegisterCall, Call
<1>4. a.addr = agent[d].addr /\ a.up = agent[d].up
  BY <1>1, <1>2 DEF Agent
<1>5. c.drone = d /\ e.drone = d /\ e.to = agent[d].addr /\ e.stage = "sent"
  BY <1>1, <1>3 DEF RegisterCall, Call
<1>6. /\ c.stage = "addressed" /\ agent' = [agent EXCEPT ![d] = a]
      /\ calls' = (calls \ {c}) \cup {e}
      /\ UNCHANGED <<baseVars, orders, adrift, raced, troubles>>
  BY <1>2, <1>3 DEF ReassignName
<1> HIDE DEF d
<1>7. {c} \subseteq Its(d) /\ {e} \subseteq Its(d)
  BY <1>1, <1>3, <1>5 DEF Its
<1>8. DroneTypes /\ OnlyDrone(d) /\ agent'[d] = a /\ CallsOf(d)' = (CallsOf(d) \ {c}) \cup {e}
  <2>1. OneMove(d, a, {c}, {e}) /\ a \in Agent
    BY <1>2, <1>6, <1>7 DEF OneMove
  <2>2. Moved(d, a, {c}, {e})
    BY <1>1, <2>1, OneDroneMoves
  <2> QED BY <2>2 DEF Moved
<1>9. KeepsMemory /\ RestTypes
  BY <1>1, <1>6, NothingForgotten DEF baseVars, RestTypes, TypeOK
<1>10. DroneOK(d)'
  <2>1. \A b \in Base : Remembers(b, d) => Remembers(b, d)'
    BY <1>1, <1>9 DEF KeepsMemory
  <2>2. \A f \in CallsOf(d) : f.to \in Base
    BY <1>1 DEF TypeOK, RegisterCall, CallsOf
  <2>3. \A f \in CallsOf(d)' : f.stage \in {"answered", "adopted"} =>
            /\ Remembers(f.to, d)'
            /\ (f.stage = "adopted" /\ d \notin raced) => agent[d].addr = f.to
    BY <1>1, <1>5, <1>8, <2>1, <2>2 DEF DroneOK
  <2>4. ~OnlyAsking(d)'
    BY <1>4, <1>5, <1>8 DEF OnlyAsking
  <2>5. agent'[d].up /\ agent'[d].addr = agent[d].addr /\ raced' = raced
    BY <1>1, <1>4, <1>6, <1>8
  <2> QED BY <2>3, <2>4, <2>5 DEF DroneOK
<1> QED BY <1>1, <1>8, <1>9, <1>10, DroneKeeps

\* REASSIGN writes the address first (drone main.go:226).
LEMMA ReassignStep ==
    ASSUME FleetInv, NEW o \in orders, HandleReassign(o)
    PROVE  FleetInv'
<1> DEFINE d == o.drone
<1>1. TypeOK /\ d \in Drone /\ o.to \in Base /\ orders \subseteq [drone : Drone, to : Base]
  BY DEF FleetInv, TypeOK
<1>2. agent[d].up /\ agent[d] \in Agent /\ DroneOK(d)
  BY <1>1, OneByOne DEF HandleReassign, Ready, TypeOK
<1>3. PICK a \in Agent : a = [agent[d] EXCEPT !.addr = o.to]
  BY <1>1, <1>2 DEF Agent
<1>4. PICK e \in RegisterCall : e = Call(d, "reassign", o.to, <<>>, "addressed")
  <2>1. <<>> \in Seq(Base)
    OBVIOUS
  <2> QED BY <1>1, <2>1 DEF RegisterCall, Call, Goroutines
<1>5. a.addr = o.to /\ a.up = agent[d].up
  BY <1>2, <1>3 DEF Agent
<1>6. e.drone = d /\ e.to = o.to /\ e.stage = "addressed"
  BY <1>4 DEF Call
<1>7. /\ agent' = [agent EXCEPT ![d] = a] /\ calls' = calls \cup {e}
      /\ orders' = orders \ {o}
      /\ raced' = IF CallsOf(d) = {} THEN raced ELSE raced \cup {d}
      /\ UNCHANGED <<baseVars, adrift, troubles>>
  BY <1>3, <1>4 DEF HandleReassign
<1> HIDE DEF d
<1>8. DroneTypes /\ OnlyDrone(d) /\ agent'[d] = a /\ CallsOf(d)' = CallsOf(d) \cup {e}
  <2>1. OneMove(d, a, {}, {e}) /\ a \in Agent
    BY <1>3, <1>4, <1>6, <1>7 DEF OneMove, Its
  <2>2. Moved(d, a, {}, {e})
    BY <1>1, <2>1, OneDroneMoves
  <2> QED BY <2>2 DEF Moved
<1>9. KeepsMemory /\ RestTypes
  BY <1>1, <1>7, NothingForgotten DEF baseVars, RestTypes, TypeOK
<1>10. DroneOK(d)'
  <2>1. \A b \in Base : Remembers(b, d) => Remembers(b, d)'
    BY <1>1, <1>9 DEF KeepsMemory
  <2>2. \A f \in CallsOf(d) : f.to \in Base
    BY <1>1 DEF TypeOK, RegisterCall, CallsOf
  <2>3. \A f \in CallsOf(d)' : f.stage \in {"answered", "adopted"} => Remembers(f.to, d)'
    BY <1>2, <1>6, <1>8, <2>1, <2>2 DEF DroneOK
  <2>4. ASSUME NEW f \in CallsOf(d)', d \notin raced'
        PROVE  f = e
    BY <1>1, <1>7, <1>8, <2>4
  <2>5. ~OnlyAsking(d)'
    BY <1>6, <1>8 DEF OnlyAsking
  <2>6. agent'[d].up
    BY <1>2, <1>5, <1>8
  <2> QED BY <1>6, <2>3, <2>4, <2>5, <2>6 DEF DroneOK
<1> QED BY <1>1, <1>8, <1>9, <1>10, DroneKeeps

\* A drone dies, and starts again (drone main.go:33-75).
LEMMA DeathStep ==
    ASSUME FleetInv, NEW d \in Drone, DroneDies(d)
    PROVE  FleetInv'
<1>1. TypeOK /\ agent[d] \in Agent
  BY DEF FleetInv, TypeOK
<1>2. PICK a \in Agent : /\ a = [Settled(d) EXCEPT !.up = FALSE]
                         /\ ~a.up /\ a.addr = Home[d] /\ a.mission = "none"
  <2>1. Home[d] \in Base
    BY HomeAssumption
  <2>2. Settled(d) \in Agent /\ Settled(d).addr = Home[d] /\ Settled(d).mission = "none"
    BY <2>1 DEF Settled, Agent, Proper, Name
  <2>3. /\ [Settled(d) EXCEPT !.up = FALSE] \in Agent
        /\ ~[Settled(d) EXCEPT !.up = FALSE].up
        /\ [Settled(d) EXCEPT !.up = FALSE].addr = Home[d]
        /\ [Settled(d) EXCEPT !.up = FALSE].mission = "none"
    BY <2>2 DEF Agent
  <2> QED BY <2>3
<1>3. PICK O : O = CallsOf(d)
  OBVIOUS
<1>4. /\ agent' = [agent EXCEPT ![d] = a] /\ calls' = (calls \ O) \cup {}
      /\ orders' \subseteq orders
      /\ adrift' = adrift \ {d} /\ raced' = raced \ {d}
      /\ UNCHANGED baseVars
      /\ Trouble("death")
  BY <1>2, <1>3 DEF DroneDies
<1>5. OneMove(d, a, O, {})
  BY <1>1, <1>3, <1>4 DEF OneMove, Its, CallsOf, TypeOK
<1>6. Moved(d, a, O, {})
  BY <1>1, <1>5, OneDroneMoves
<1>7. KeepsMemory /\ RestTypes
  BY <1>1, <1>4, NothingForgotten, TroubleType DEF baseVars, RestTypes, TypeOK
<1>8. CallsOf(d)' = {} /\ ~agent'[d].up /\ agent'[d].addr = Home[d] /\ agent'[d].mission = "none"
  BY <1>2, <1>3, <1>6 DEF Moved
<1>9. DroneOK(d)'
  BY <1>8 DEF DroneOK
<1> QED BY <1>1, <1>6, <1>7, <1>9, DroneKeeps DEF Moved

LEMMA StartStep ==
    ASSUME FleetInv, NEW d \in Drone, DroneStarts(d)
    PROVE  FleetInv'
<1>1. TypeOK /\ agent[d] \in Agent /\ DroneOK(d)
  BY OneByOne DEF FleetInv, TypeOK
<1>2. PICK a \in Agent : a = [agent[d] EXCEPT !.up = TRUE] /\ a.up /\ a.addr = agent[d].addr
  <2>1. /\ [agent[d] EXCEPT !.up = TRUE] \in Agent
        /\ [agent[d] EXCEPT !.up = TRUE].up
        /\ [agent[d] EXCEPT !.up = TRUE].addr = agent[d].addr
    BY <1>1 DEF Agent
  <2> QED BY <2>1
<1>3. PICK e \in RegisterCall : e = Call(d, "start", Home[d], Fallback[d], "sent")
  BY HomeAssumption, FallbackAssumption DEF RegisterCall, Call, Goroutines
<1>4. e.drone = d /\ e.to = Home[d] /\ e.stage = "sent"
  BY <1>3 DEF Call
<1>5. ~agent[d].up /\ agent[d].addr = Home[d] /\ CallsOf(d) = {}
  BY <1>1 DEF DroneStarts, DroneOK
<1>6. /\ agent' = [agent EXCEPT ![d] = a] /\ calls' = (calls \ {}) \cup {e}
      /\ UNCHANGED <<baseVars, orders, adrift, raced, troubles>>
  BY <1>2, <1>3 DEF DroneStarts
<1>7. OneMove(d, a, {}, {e})
  BY <1>3, <1>4, <1>6 DEF OneMove, Its
<1>8. Moved(d, a, {}, {e})
  BY <1>1, <1>7, OneDroneMoves
<1>9. KeepsMemory /\ RestTypes
  BY <1>1, <1>6, NothingForgotten DEF baseVars, RestTypes, TypeOK
<1>10. CallsOf(d)' = {e} /\ agent'[d].up /\ agent'[d].addr = Home[d]
  BY <1>2, <1>5, <1>8 DEF Moved
<1>11. ~OnlyAsking(d)'
  BY <1>4, <1>10 DEF OnlyAsking
<1>12. DroneOK(d)'
  BY <1>4, <1>10, <1>11 DEF DroneOK
<1> QED BY <1>1, <1>8, <1>9, <1>12, DroneKeeps DEF Moved

-----------------------------------------------------------------------------
(* The theorems.                                                           *)

LEMMA InitialFleet == Init => FleetInv
<1> SUFFICES ASSUME Init PROVE FleetInv
  OBVIOUS
<1>1. \A d \in Drone : Home[d] \in Base
  BY HomeAssumption
<1>2. \A d \in Drone : Registered(Proper(Home[d])) \in DroneEntry /\ Settled(d) \in Agent
  BY <1>1 DEF Registered, Proper, DroneEntry, Name, Settled, Agent
<1>3. TypeOK
  <2>1. table \in [Base -> [Drone -> DroneEntry \cup {None}]] /\ agent \in [Drone -> Agent]
    BY <1>2 DEF Init
  <2> QED BY <2>1, MaxTroublesAssumption DEF Init, TypeOK, Others
<1>4. AnsweredIsKnown /\ AdoptedIsAddressed
  BY DEF Init, AnsweredIsKnown, AdoptedIsAddressed
<1>5. ASSUME NEW d \in Drone
      PROVE  /\ agent[d].up /\ agent[d].name = Proper(agent[d].addr)
             /\ Remembers(agent[d].addr, d)
  BY <1>1, <1>2, NoEntryAssumption DEF Init, Settled, Remembers, Known
<1>6. BelongsWell
  BY <1>5 DEF BelongsWell
<1> QED BY <1>3, <1>4, <1>6 DEF FleetInv

LEMMA FleetStep == FleetInv /\ [Next]_vars => FleetInv'
<1> SUFFICES ASSUME FleetInv, [Next]_vars PROVE FleetInv'
  OBVIOUS
<1>1. ASSUME NEW d \in Drone, WatchRound(d) \/ ReportFails(d) PROVE FleetInv'
  BY <1>1, SearchStep
<1>2. ASSUME NEW c \in calls, Registering(c) PROVE FleetInv'
  BY <1>2, RegisterStep, RegisterFailsStep, AdoptAddressStep, AdoptNameStep,
     ReassignNameStep DEF Registering
<1>3. ASSUME NEW o \in orders, HandleReassign(o) PROVE FleetInv'
  BY <1>3, ReassignStep
<1>4. ASSUME NEW b \in Base, NEW d \in Drone,
             Reserve(b, d) \/ TakeDispatch(b, d) \/ DispatchFails(b, d)
      PROVE  FleetInv'
  BY <1>4, DispatchStep
<1>5. ASSUME NEW d \in Drone, Mission(d) PROVE FleetInv'
  BY <1>1, <1>5, FlightStep DEF Mission
<1>6. ASSUME NEW b \in Base, NEW d \in Drone, Heartbeat(b, d) \/ Silence(b, d) PROVE FleetInv'
  BY <1>6, TableStep
<1>7. ASSUME NEW b \in Base, HealthCheck(b) PROVE FleetInv'
  BY <1>7, TableStep, BalanceStep DEF HealthCheck
<1>8. ASSUME NEW b \in Base, PurgeLostDrones(b) \/ Crash(b) \/ Restart(b) PROVE FleetInv'
  BY <1>8, BaseStep
<1>9. ASSUME NEW p \in Base, NEW b \in Base, Hear(p, b) \/ MarkOffline(p, b) PROVE FleetInv'
  BY <1>9, ViewStep
<1>10. ASSUME NEW d \in Drone, DroneDies(d) \/ DroneStarts(d) PROVE FleetInv'
  BY <1>10, DeathStep, StartStep
<1>11. CASE UNCHANGED vars
  BY <1>11 DEF vars, baseVars, droneVars, FleetInv, TypeOK, AnsweredIsKnown,
     AdoptedIsAddressed, BelongsWell, OnlyAsking, CallsOf, Remembers, Known
<1> QED BY <1>1, <1>2, <1>3, <1>4, <1>5, <1>6, <1>7, <1>8, <1>9, <1>10, <1>11 DEF Next

\* Every base that answered a REGISTER knows the drone or has lost what it knew;
\* of two goroutines of a drone that do not meet, the one that wrote the address
\* (main.go:118) writes the name; a drone none of whose calls has written half of
\* the two belongs to its base in both.
THEOREM FleetInvariant == Spec => []FleetInv
<1>1. Init => FleetInv
  BY InitialFleet
<1>2. FleetInv /\ [Next]_vars => FleetInv'
  BY FleetStep
<1> QED BY <1>1, <1>2, PTL DEF Spec

\* A drone at rest is dispatchable by name (state.go:128) and known to its base,
\* whatever crashes, deletions, moves and lost calls came before, unless a
\* REGISTER failed after the address was set (main.go:226-229) or two of its
\* goroutines wrote at once (main.go:118-120).
THEOREM RestingDroneIsKnown == Spec => []RegisteredIsKnown
<1>1. FleetInv => RegisteredIsKnown
  <2> SUFFICES ASSUME FleetInv, NEW d \in Drone,
                      agent[d].up, CallsOf(d) = {}, d \notin adrift \cup raced
               PROVE  /\ agent[d].name = Proper(agent[d].addr)
                      /\ Remembers(agent[d].addr, d)
    BY DEF RegisteredIsKnown, Remembers
  <2>1. OnlyAsking(d)
    BY DEF OnlyAsking
  <2> QED BY <2>1 DEF FleetInv, BelongsWell
<1> QED BY <1>1, FleetInvariant, PTL
=============================================================================
