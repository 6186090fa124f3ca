------------------------------ MODULE Dispatch ------------------------------
(***************************************************************************)
(* The life of a request from the broker's broadcast to MISSION_DONE: the  *)
(* dispatcher of every base (cmd/base/dispatcher.go), its request handlers *)
(* (servers.go, drone_handler.go), the detection of lost drones and the    *)
(* rescue of their missions (heartbeat.go), and the drone's side of a      *)
(* mission (cmd/drone/main.go), on top of the lock protocol.               *)
(*                                                                         *)
(* Timing taken from the code: a flight lasts at least 20 s (drone         *)
(* main.go:181-193), a call at most DialTimeout + WriteTimeout = 8 s and   *)
(* the answer WriteTimeout = 5 s more, and a dispatcher loops every 100 ms *)
(* (see FlightTakesLong).                                                  *)
(* Drones stay at their home base here (no REASSIGN, no fallback base).    *)
(***************************************************************************)
EXTENDS LockProtocol, RequestQueue

CONSTANTS Home,      \* Home[d]: the base drone d registered with
          FaultKinds, \* the kinds of disturbance that may happen
          MaxFaults  \* bound: disturbances of one behaviour

ASSUME HomeAssumption == Home \in [Drone -> Base]
ASSUME FaultKindsAssumption ==
    FaultKinds \subseteq {"call", "report", "suspect", "death", "return", "gossip", "lock"}
ASSUME MaxFaultsAssumption == MaxFaults \in Nat

VARIABLES queue,   \* queue[b]: pq of base b
          dtable,  \* dtable[b][d]: status of drone d in the table of base b
          picked,    \* picked[b]: mission and drone the dispatcher has picked, or None
          rescue,  \* rescue[b]: missions still to be rescued from a lost drone
          job,     \* job[g]: what goroutine g works on
          gossip,  \* queue messages in flight
          agent,   \* agent[d]: what drone d is doing
          radio,   \* DISPATCH calls the drones have not read yet
          done,    \* MISSION_DONE messages acknowledged and not yet handled
          served,  \* history: requests some drone has flown to the end
          faults   \* disturbances so far

baseVars == <<queue, dtable, picked, rescue>>
droneVars == <<agent, radio, done, served>>
vars == <<lockVars, baseVars, job, gossip, droneVars, faults>>

DroneStatus == {"IDLE", "BUSY", "LOST"}

NoJob == [entry |-> None, drone |-> None, call |-> "none"]
FreeDrone == [phase |-> "free", att |-> None, req |-> None]
DeadDrone == [phase |-> "dead", att |-> None, req |-> None]

NewRequest(e, b) == [type |-> "NEW_REQUEST", entry |-> e, from |-> None, to |-> b]
QueueAdds(b, e) ==
    {[type |-> "QUEUE_ADD", entry |-> e, from |-> b, to |-> p] : p \in Others(b)}
QueueUpdates(b, e) ==
    {[type |-> "QUEUE_UPDATE", entry |-> e, from |-> b, to |-> p] : p \in Others(b)}

\* Every request is on its way from its broker to every base.
Init ==
    /\ StableInit
    /\ queue = [b \in Base |-> EmptyQueue]
    /\ dtable = [b \in Base |-> [d \in Drone |-> "IDLE"]]
    /\ picked = [b \in Base |-> None]
    /\ rescue = [b \in Base |-> {}]
    /\ job = [g \in Attempt |-> NoJob]
    /\ gossip = {NewRequest(NewEntry(r), b) : r \in Request, b \in Base}
    /\ agent = [d \in Drone |-> FreeDrone]
    /\ radio = {}
    /\ done = {}
    /\ served = {}
    /\ faults = 0

Disturb(kind) == /\ kind \in FaultKinds
                 /\ faults < MaxFaults
                 /\ faults' = faults + 1

SetDrone(b, d, s) == [dtable EXCEPT ![b][d] = s]

-----------------------------------------------------------------------------
(* Queue messages.                                                         *)

\* The base that hears of a request first passes it on.
HandleNewRequest(m) ==
    LET b == m.to
        added == m.entry.id \notin queue[b].seen
    IN /\ m.type = "NEW_REQUEST"
       /\ queue' = [queue EXCEPT ![b] = Push(queue[b], m.entry)]
       /\ gossip' = (gossip \ {m}) \cup (IF added THEN QueueAdds(b, m.entry) ELSE {})
       /\ UNCHANGED <<lockVars, dtable, picked, rescue, job, droneVars, faults>>

HandleQueueAdd(m) ==
    /\ m.type = "QUEUE_ADD"
    /\ queue' = [queue EXCEPT ![m.to] = Push(queue[m.to], m.entry)]
    /\ gossip' = gossip \ {m}
    /\ UNCHANGED <<lockVars, dtable, picked, rescue, job, droneVars, faults>>

\* The sender's entry replaces ours; a request that is DONE leaves the queue
\* and its lock is released here.
HandleQueueUpdate(m) ==
    LET b == m.to
        r == m.entry.id
        replaced == Replace(queue[b], m.entry)
    IN /\ m.type = "QUEUE_UPDATE"
       /\ gossip' = gossip \ {m}
       /\ IF m.entry.status = "DONE"
          THEN /\ queue' = [queue EXCEPT ![b] = Remove(replaced, r)]
               /\ StrayRelease(b, r, {})
          ELSE /\ queue' = [queue EXCEPT ![b] = replaced]
               /\ UNCHANGED lockVars
       /\ UNCHANGED <<dtable, picked, rescue, job, droneVars, faults>>

-----------------------------------------------------------------------------
(* The dispatcher loop and the goroutine it starts.                        *)

\* Peek, idleDrone and IsDroneAssigned: three reads, each under its own lock.
PickMission(b, e, d) ==
    /\ picked[b] = None
    /\ e \in Peek(queue[b])
    /\ Home[d] = b
    /\ dtable[b][d] = "IDLE"
    /\ ~IsDroneAssigned(queue[b], d)
    /\ picked' = [picked EXCEPT ![b] = [entry |-> e, drone |-> d]]
    /\ UNCHANGED <<lockVars, queue, dtable, rescue, job, gossip, droneVars, faults>>

\* Nothing outside the lock protocol still refers to slot g.
Retired(g) ==
    /\ \A m \in radio \cup done : m.att # g
    /\ \A d \in Drone : agent[d].att # g

\* (mutant: lockedBy and assignedTo swapped)
ReserveSwapped(b, g) ==
    LET e == picked[b].entry
        d == picked[b].drone
    IN /\ picked[b] # None
       /\ Retired(g)
       /\ Spawn(g, b, e.id)
       /\ queue' = [queue EXCEPT ![b] = UpdateStatus(queue[b], e.id, "LOCKED", b)]
       /\ dtable' = SetDrone(b, d, "BUSY")
       /\ job' = [job EXCEPT ![g] = [entry |-> e, drone |-> d, call |-> "none"]]
       /\ picked' = [picked EXCEPT ![b] = None]
       /\ UNCHANGED <<rescue, gossip, droneVars, faults>>

\* Mission and drone are marked from what was read, however old it is, and
\* the goroutine starts with a copy of the request.
Reserve(b, g) ==
    LET e == picked[b].entry
        d == picked[b].drone
    IN /\ picked[b] # None
       /\ Retired(g)
       /\ Spawn(g, b, e.id)
       /\ queue' = [queue EXCEPT ![b] = UpdateStatus(queue[b], e.id, "LOCKED", d)]
       /\ dtable' = SetDrone(b, d, "BUSY")
       /\ job' = [job EXCEPT ![g] = [entry |-> e, drone |-> d, call |-> "none"]]
       /\ picked' = [picked EXCEPT ![b] = None]
       /\ UNCHANGED <<rescue, gossip, droneVars, faults>>

\* Inside acquireLock only the lock state moves.
Acquiring(g) ==
    /\ LocalRefusal(g) \/ LocalLock(g) \/ Unanimous(g) \/ Refused(g)
    /\ UNCHANGED <<baseVars, job, gossip, droneVars, faults>>

SendDispatch(g) ==
    /\ att[g].pc = "acquired"
    /\ job[g].call = "none"
    /\ job' = [job EXCEPT ![g].call = "out"]
    /\ radio' = radio \cup {[att |-> g, drone |-> job[g].drone, req |-> att[g].req]}
    /\ UNCHANGED <<lockVars, baseVars, gossip, agent, done, served, faults>>

\* (mutant: a deadline shorter than the drone's answer)
CallBrokenEarly(g) == job[g].call \in {"out", "nack"} /\ UNCHANGED faults

\* SendMessageWithReply returned an error: the drone was busy and closed the
\* connection, or it is dead, or the call was lost; or (a disturbance) the
\* answer was, or came too late.
CallBroken(g) ==
    \/ /\ \/ job[g].call = "nack"
          \/ job[g].call = "out" /\ \A m \in radio : m.att # g
          \/ job[g].call \in {"out", "ack"} /\ agent[job[g].drone].phase = "dead"
       /\ UNCHANGED faults
    \/ job[g].call \in {"out", "ack"} /\ Disturb("call")

\* The drone is freed and the lock released; the request goes back only when
\* the broadcast has ended.
DispatchFails(g) ==
    /\ LockDispatchFails(g)
    /\ CallBroken(g)
    /\ dtable' = SetDrone(att[g].base, job[g].drone, "IDLE")
    /\ job' = [job EXCEPT ![g].call = "failed"]
    /\ UNCHANGED <<queue, picked, rescue, gossip, droneVars>>

\* The request is marked here, and announced as it was when it was peeked.
ConfirmDispatch(g) ==
    LET b == att[g].base
        d == job[g].drone
        e == [job[g].entry EXCEPT !.status = "ASSIGNED", !.assigned = d]
    IN /\ LockConfirm(g)
       /\ job[g].call = "ack"
       /\ queue' = [queue EXCEPT ![b] = UpdateStatus(queue[b], e.id, "ASSIGNED", d)]
       /\ gossip' = gossip \cup QueueUpdates(b, e)
       /\ UNCHANGED <<dtable, picked, rescue, job, droneVars, faults>>

\* (mutant: only the drone is freed)
RequeueDroneOnly(g) ==
    /\ LockRequeue(g)
    /\ dtable' = IF job[g].call = "failed"
                 THEN dtable
                 ELSE SetDrone(att[g].base, job[g].drone, "IDLE")
    /\ job' = [job EXCEPT ![g] = NoJob]
    /\ UNCHANGED <<queue, picked, rescue, gossip, droneVars, faults>>

\* The request becomes PENDING again, whatever it is now; the drone is freed
\* unless DispatchFails has done so.
Requeue(g) ==
    LET b == att[g].base
    IN /\ LockRequeue(g)
       /\ queue' = [queue EXCEPT ![b] =
                        UpdateStatus(queue[b], att[g].req, "PENDING", None)]
       /\ dtable' = IF job[g].call = "failed"
                    THEN dtable
                    ELSE SetDrone(b, job[g].drone, "IDLE")
       /\ job' = [job EXCEPT ![g] = NoJob]
       /\ UNCHANGED <<picked, rescue, gossip, droneVars, faults>>

-----------------------------------------------------------------------------
(* The drone.                                                              *)

\* A busy drone closes the connection without an answer.
TakeDispatch(m) ==
    LET d == m.drone
        listening == att[m.att].pc = "acquired" /\ job[m.att].call = "out"
        answer == IF agent[d].phase = "free" THEN "ack" ELSE "nack"
    IN /\ agent[d].phase # "dead"
       /\ agent' = IF agent[d].phase = "free"
                   THEN [agent EXCEPT ![d] = [phase |-> "flying", att |-> m.att, req |-> m.req]]
                   ELSE agent
       /\ job' = IF listening THEN [job EXCEPT ![m.att].call = answer] ELSE job
       /\ radio' = radio \ {m}
       /\ UNCHANGED <<lockVars, baseVars, gossip, done, served, faults>>

\* Timing: a flight outlasts the call that started it, its news on their way,
\* and whatever a dispatcher had read of the request before it heard them.
\* (What was picked later delays the end of the flight by an instant.)
FlightTakesLong(d) ==
    LET r == agent[d].req
    IN /\ att[agent[d].att].pc # "acquired"
       /\ \A b \in Base : picked[b] # None => picked[b].entry.id # r
       /\ \A g \in Attempt : att[g].pc = "trying" => att[g].req # r
       /\ \A m \in gossip : m.entry.id = r =>
             /\ m.type = "QUEUE_UPDATE"
             /\ ~(m.entry.status = "ASSIGNED" /\ m.entry.assigned = d)

FinishMission(d) ==
    /\ agent[d].phase = "flying"
    /\ FlightTakesLong(d)
    /\ agent' = [agent EXCEPT ![d].phase = "reporting"]
    /\ served' = served \cup {agent[d].req}
    /\ UNCHANGED <<lockVars, baseVars, job, gossip, radio, done, faults>>

\* The base acknowledges MISSION_DONE before it handles it.
ReportReceived(d) ==
    /\ agent[d].phase = "reporting"
    /\ done' = done \cup {[att |-> agent[d].att, drone |-> d,
                           req |-> agent[d].req, base |-> Home[d]]}
    /\ agent' = [agent EXCEPT ![d].phase = "reported"]
    /\ UNCHANGED <<lockVars, baseVars, job, gossip, radio, served, faults>>

\* The acknowledgement ends the mission; until then the drone is busy, whether
\* or not the base has freed it.  Without it the drone reports again.
ReportAnswered(d) ==
    /\ agent[d].phase = "reported"
    /\ \/ agent' = [agent EXCEPT ![d] = FreeDrone] /\ UNCHANGED faults
       \/ agent' = [agent EXCEPT ![d].phase = "reporting"] /\ Disturb("report")
    /\ UNCHANGED <<lockVars, baseVars, job, gossip, radio, done, served>>

\* Every try has failed: the drone is free again and nobody knows.
ReportLost(d) ==
    /\ agent[d].phase = "reporting"
    /\ Disturb("report")
    /\ agent' = [agent EXCEPT ![d] = FreeDrone]
    /\ UNCHANGED <<lockVars, baseVars, job, gossip, radio, done, served>>

\* (mutants: the peers are not told; the request stays in the queue)
MissionDoneWith(x, q, told) ==
    /\ done' = done \ {x}
    /\ dtable' = SetDrone(x.base, x.drone, "IDLE")
    /\ queue' = [queue EXCEPT ![x.base] = q]
    /\ IF att[x.att].pc = "assigned"
       THEN EndTenure(x.att, x.base) /\ job' = [job EXCEPT ![x.att] = NoJob]
       ELSE StrayRelease(x.base, x.req, Others(x.base)) /\ UNCHANGED job
    /\ gossip' = gossip \cup told
    /\ UNCHANGED <<picked, rescue, agent, radio, served, faults>>
MissionDoneUntold(x) == MissionDoneWith(x, Remove(queue[x.base], x.req), {})
MissionDoneKept(x) == MissionDoneWith(x, queue[x.base], {})

\* handleMissionDone: the drone is idle, the request leaves the queue, its
\* lock is released everywhere, and everybody is told.
HandleMissionDone(x) ==
    LET b == x.base
        e == [id |-> x.req, status |-> "DONE", assigned |-> x.drone, rescued |-> FALSE]
    IN /\ done' = done \ {x}
       /\ dtable' = SetDrone(b, x.drone, "IDLE")
       /\ queue' = [queue EXCEPT ![b] =
                        Remove(UpdateStatus(queue[b], x.req, "DONE", x.drone), x.req)]
       /\ IF att[x.att].pc = "assigned"
          THEN /\ EndTenure(x.att, b)
               /\ job' = [job EXCEPT ![x.att] = NoJob]
          ELSE /\ StrayRelease(b, x.req, Others(b))
               /\ UNCHANGED job
       /\ gossip' = gossip \cup QueueUpdates(b, e)
       /\ UNCHANGED <<picked, rescue, agent, radio, served, faults>>

\* A heartbeat reaches one base (and DRONE_INFO carries the same to a peer).
\* Only the home base ever asks whether a drone is IDLE (idleDrone); in the
\* other tables a drone counts as IDLE unless it is LOST.
Heartbeat(b, d) ==
    LET s == IF Home[d] # b \/ agent[d].phase = "free" THEN "IDLE" ELSE "BUSY"
    IN /\ agent[d].phase # "dead"
       /\ dtable[b][d] # s
       /\ dtable' = SetDrone(b, d, s)
       /\ UNCHANGED <<lockVars, queue, picked, rescue, job, gossip, droneVars, faults>>

-----------------------------------------------------------------------------
(* Lost drones.                                                            *)

\* Three seconds without a heartbeat: the drone is dead, or its heartbeats
\* were (a disturbance).  The missions stuck to it are read once.
DetectLost(b, d) ==
    /\ rescue[b] = {}
    /\ dtable[b][d] # "LOST"
    /\ IF agent[d].phase = "dead" THEN UNCHANGED faults ELSE Disturb("suspect")
    /\ dtable' = SetDrone(b, d, "LOST")
    /\ rescue' = [rescue EXCEPT ![b] = {e \in queue[b].heap : e.assigned = d}]
    /\ UNCHANGED <<lockVars, queue, picked, job, gossip, droneVars>>

\* The mission goes back to the head of the queue, here and at every peer,
\* and its lock is released.
RescueMission(b, e) ==
    LET f == [e EXCEPT !.status = "PENDING", !.assigned = None, !.rescued = TRUE]
        Tenure(g) == /\ att[g].pc = "assigned"
                     /\ att[g].req = e.id
                     /\ job[g].drone = e.assigned
    IN /\ e \in rescue[b]
       /\ rescue' = [rescue EXCEPT ![b] = @ \ {e}]
       /\ queue' = [queue EXCEPT ![b] = Replace(queue[b], f)]
       /\ \/ \E g \in Attempt : /\ Tenure(g)
                                /\ EndTenure(g, b)
                                /\ job' = [job EXCEPT ![g] = NoJob]
          \/ /\ ~\E g \in Attempt : Tenure(g)
             /\ StrayRelease(b, e.id, Others(b))
             /\ UNCHANGED job
       /\ gossip' = gossip \cup QueueUpdates(b, f)
       /\ UNCHANGED <<dtable, picked, droneVars, faults>>

DroneDies(d) ==
    /\ agent[d].phase # "dead"
    /\ Disturb("death")
    /\ agent' = [agent EXCEPT ![d] = DeadDrone]
    /\ UNCHANGED <<lockVars, baseVars, job, gossip, radio, done, served>>

\* The drone's process is started again and registers (handleDroneRegister): its
\* base takes it for IDLE and puts its missions back, whose locks stay.  (In
\* Fleet a drone may also turn to another base.)  Timing: the connections of the
\* dead process are reset before the new one is up.
DroneReturns(d) ==
    LET b == Home[d]
    IN /\ "return" \in FaultKinds
       /\ agent[d].phase = "dead"
       /\ \A g \in Attempt : (att[g].pc = "acquired" /\ job[g].drone = d) =>
             job[g].call \notin {"out", "ack"}
       /\ agent' = [agent EXCEPT ![d] = FreeDrone]
       /\ radio' = {m \in radio : m.drone # d}
       /\ dtable' = SetDrone(b, d, "IDLE")
       /\ queue' = [queue EXCEPT ![b] = ClearDroneAssignments(queue[b], d)]
       /\ UNCHANGED <<lockVars, picked, rescue, job, gossip, done, served, faults>>

-----------------------------------------------------------------------------
(* Lost messages and wrong views.                                          *)

LoseGossip(m) ==
    /\ Disturb("gossip")
    /\ gossip' = gossip \ {m}
    /\ UNCHANGED <<lockVars, baseVars, job, droneVars>>

\* Also what becomes of a call to a dead drone.
LoseDispatch(m) ==
    /\ IF agent[m.drone].phase = "dead" THEN UNCHANGED faults ELSE Disturb("call")
    /\ radio' = radio \ {m}
    /\ UNCHANGED <<lockVars, baseVars, job, gossip, agent, done, served>>

DisturbLocks ==
    /\ \/ \E g \in Attempt, p \in Base : CallFails(g, p)
       \/ \E m \in net : Lose(m)
       \/ \E b \in Base, p \in Base : Suspect(b, p)
    /\ Disturb("lock")
    /\ UNCHANGED <<baseVars, job, gossip, droneVars>>

HearPeer(b, p) ==
    /\ Hear(b, p)
    /\ UNCHANGED <<baseVars, job, gossip, droneVars, faults>>

-----------------------------------------------------------------------------
HandleLockMessage ==
    /\ MessageStep
    /\ UNCHANGED <<baseVars, job, gossip, droneVars, faults>>

Goroutine(g) ==
    \/ Acquiring(g)
    \/ SendDispatch(g)
    \/ DispatchFails(g)
    \/ ConfirmDispatch(g)
    \/ Requeue(g)

Dispatcher(b) ==
    \/ \E e \in queue[b].heap, d \in Drone : PickMission(b, e, d)
    \/ \E g \in Attempt : Reserve(b, g)

HandleGossip(m) == HandleNewRequest(m) \/ HandleQueueAdd(m) \/ HandleQueueUpdate(m)

HealthCheck(b) ==
    \/ \E d \in Drone : DetectLost(b, d)
    \/ \E e \in rescue[b] : RescueMission(b, e)

Next ==
    \/ \E m \in gossip : HandleGossip(m)
    \/ \E b \in Base : Dispatcher(b)
    \/ \E g \in Attempt : Goroutine(g)
    \/ HandleLockMessage
    \/ \E m \in radio : TakeDispatch(m)
    \/ \E d \in Drone : FinishMission(d)
    \/ \E d \in Drone : ReportReceived(d)
    \/ \E d \in Drone : ReportAnswered(d)
    \/ \E x \in done : HandleMissionDone(x)
    \/ \E b \in Base, d \in Drone : Heartbeat(b, d)
    \/ \E b \in Base : HealthCheck(b)
    \/ \E d \in Drone : ReportLost(d)
    \/ \E d \in Drone : DroneDies(d) \/ DroneReturns(d)
    \/ \E m \in gossip : LoseGossip(m)
    \/ \E m \in radio : LoseDispatch(m)
    \/ DisturbLocks
    \/ \E b \in Base, p \in Base : HearPeer(b, p)

Spec == Init /\ [][Next]_vars

(***************************************************************************)
(* Every goroutine, server loop and drone keeps running: messages that     *)
(* arrived are handled, flights end, heartbeats are sent every second, a   *)
(* rescue that has begun goes on, a call to a dead drone ends at its       *)
(* deadline.  Nothing is assumed of the disturbances, of drones that come  *)
(* back, nor of DetectLost: a failed dispatch refreshes the drone's        *)
(* LastSeen (state.go:86), so a dead drone may never be found out.         *)
(* FinishMission is strongly fair: a dispatcher that keeps picking the     *)
(* request only postpones the end of the flight, which time brings anyway. *)
(***************************************************************************)
Fairness ==
    /\ WF_vars(\E m \in gossip : HandleGossip(m))
    /\ WF_vars(HandleLockMessage)
    /\ WF_vars(\E m \in radio : TakeDispatch(m))
    /\ WF_vars(\E m \in radio : agent[m.drone].phase = "dead" /\ LoseDispatch(m))
    /\ WF_vars(\E x \in done : HandleMissionDone(x))
    /\ \A b \in Base : WF_vars(Dispatcher(b))
    /\ \A b \in Base : WF_vars(\E e \in rescue[b] : RescueMission(b, e))
    /\ \A g \in Attempt : WF_vars(Goroutine(g))
    /\ \A d \in Drone : SF_vars(FinishMission(d))
    /\ \A d \in Drone : WF_vars(ReportReceived(d)) /\ WF_vars(ReportAnswered(d))
    /\ \A b \in Base, d \in Drone : WF_vars(Heartbeat(b, d))

FairSpec == Spec /\ Fairness

-----------------------------------------------------------------------------
(* Properties.                                                             *)

Job == [entry : Entry \cup {None}, drone : Drone \cup {None},
        call : {"none", "out", "ack", "nack", "failed"}]
GossipMessage == [type : {"NEW_REQUEST", "QUEUE_ADD", "QUEUE_UPDATE"},
                  entry : Entry, from : Base \cup {None}, to : Base]
Agent == [phase : {"free", "flying", "reporting", "reported", "dead"},
          att : Attempt \cup {None}, req : Request \cup {None}]
Call == [att : Attempt, drone : Drone, req : Request]

DispatchTypeOK ==
    /\ queue \in [Base -> Queue]
    /\ dtable \in [Base -> [Drone -> DroneStatus]]
    /\ picked \in [Base -> [entry : Entry, drone : Drone] \cup {None}]
    /\ rescue \in [Base -> SUBSET Entry]
    /\ job \in [Attempt -> Job]
    /\ gossip \subseteq GossipMessage
    /\ agent \in [Drone -> Agent]
    /\ radio \subseteq Call
    /\ done \subseteq [att : Attempt, drone : Drone, req : Request, base : Base]
    /\ served \subseteq Request
    /\ faults \in 0..MaxFaults

\* Every step of the dispatcher is a step of the lock protocol, or leaves it
\* alone: what is proved of LockProtocol holds here.  (A step of the proofs.)
ImplementsLock == StableInit /\ [][LockNext]_lockVars

QueuesWellFormed == \A b \in Base : WellFormed(queue[b])

\* A request is LOCKED in a queue only while a goroutine of that base works
\* on it: nothing else would ever unlock it.
LockedBacked ==
    \A b \in Base : \A e \in queue[b].heap : e.status = "LOCKED" =>
        \E g \in Attempt : /\ att[g].base = b /\ att[g].req = e.id
                           /\ att[g].pc \in {"trying", "asking", "acquired", "requeue"}

\* What the properties above and below rest on.  A goroutine knows its drone
\* and its request; so does a drone on a mission.
JobsMatch ==
    \A g \in Attempt : att[g].pc # "idle" =>
        job[g].drone \in Drone /\ job[g].entry \in Entry /\ job[g].entry.id = att[g].req

AgentsMatch ==
    \A d \in Drone : agent[d].phase \in {"flying", "reporting", "reported"} =>
        agent[d].att \in Attempt /\ agent[d].req \in Request

\* LOCKED is private to a base: no message carries it.
NewsUnlocked == \A m \in gossip : m.entry.status # "LOCKED"

\* Whoever says that a request is done says so of one that was flown.
DoneMeansServed ==
    /\ \A d \in Drone : agent[d].phase \in {"reporting", "reported"} =>
          agent[d].req \in served
    /\ \A x \in done : x.req \in served
    /\ \A m \in gossip : m.type = "QUEUE_UPDATE" /\ m.entry.status = "DONE" =>
          m.entry.id \in served

\* The inductive invariant of the proofs.
DispatchInv ==
    /\ TypeOK
    /\ DispatchTypeOK
    /\ QueuesWellFormed
    /\ JobsMatch
    /\ AgentsMatch
    /\ NewsUnlocked
    /\ DoneMeansServed
    /\ LockedBacked

Board == [b \in Base |-> [r \in Request |->
            IF r \notin queue[b].seen THEN "unknown"
            ELSE IF \E e \in queue[b].heap : e.id = r THEN "queued"
            ELSE "gone"]]

\* A flight has a goroutine that waits for it, or a confirmed mission, behind
\* it: without one, the mission could be given to a second drone.
FlightIsBacked ==
    \A d \in Drone : agent[d].phase = "flying" =>
        LET g == agent[d].att
        IN Holding(g) /\ att[g].req = agent[d].req /\ job[g].drone = d

\* Entry e of base b is on its way out of the queue: a drone flies it or reports
\* it, its report is being handled, its rescue has begun, or the news that it is
\* DONE or PENDING again is on its way here.
Moving(b, e) ==
    \/ agent[e.assigned].req = e.id
    \/ \E x \in done : x.req = e.id
    \/ \E f \in rescue[b] : f.id = e.id
    \/ \E m \in gossip : /\ m.type = "QUEUE_UPDATE" /\ m.to = b
                         /\ m.entry.id = e.id

\* No ASSIGNED request is stranded: nothing but the above moves one.
AssignedIsBacked ==
    \A b \in Base : \A e \in queue[b].heap : e.status = "ASSIGNED" => Moving(b, e)

\* The same where queue messages, which are sent once (servers.go:247-256), may
\* be lost.  The base of the drone still hears how the mission ends; what a
\* missed update strands is a copy at a peer.
AssignedIsBackedUnlessMissed ==
    \A b \in Base : \A e \in queue[b].heap : e.status = "ASSIGNED" =>
        \/ Moving(b, e)
        \/ Home[e.assigned] # b /\ faults > 0

\* The same where drones die and return (drone_handler.go:31-33): an ASSIGNED
\* request that nothing moves waits for a drone that is still dead; to be found
\* LOST, or to register, puts it back.
AssignedIsBackedOrDead ==
    \A b \in Base : \A e \in queue[b].heap : e.status = "ASSIGNED" =>
        agent[e.assigned].phase = "dead" \/ Moving(b, e)

Lifecycle == INSTANCE RequestLifecycle WITH board <- Board

\* A base that has put a request away never takes it up again, whatever is
\* lost, late or repeated, and puts it away only once it has been flown.
ImplementsLifecycle == Lifecycle!Spec

OnMission(d, r) == agent[d].phase = "flying" /\ agent[d].req = r

\* README.md:55: several bases never send several drones to one occurrence.
NoDoubleFlight ==
    \A d, e \in Drone, r \in Request : OnMission(d, r) /\ OnMission(e, r) => d = e

\* The same, but for a release that deleted a live lock: also where a peer has
\* missed that the request is ASSIGNED and keeps trying it.
NoDoubleFlightUnlessClobbered ==
    \A d, e \in Drone, r \in Request :
        OnMission(d, r) /\ OnMission(e, r) /\ r \notin clobbered => d = e

\* Every request is flown in the end, and every base puts it away for good.
Drains(r) == \A b \in Base : <>[](Board[b][r] = "gone")
EveryQueueDrains == \A r \in Request : Drains(r)

DronesLive == \A d \in Drone : agent[d].phase # "dead"

\* drone_handler.go:31-33: what is stuck on a drone is freed when it registers.
\* A mission that its drone has lost is flown in the end, if the drones live.
ClearedMissionsAreFlown == <>[]DronesLive => EveryQueueDrains

\* No base keeps a lock for ever.
EveryLockIsFreed == <>[](\A b \in Base, r \in Request : locks[b][r] = None)
=============================================================================
