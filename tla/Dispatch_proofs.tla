--------------------------- MODULE Dispatch_proofs ---------------------------
(***************************************************************************)
(* Proofs about Dispatch, for any fleet and any number of disturbances of  *)
(* any kind: every step is a step of the lock protocol, the inductive      *)
(* invariant DispatchInv holds, and the bases keep the promise of          *)
(* RequestLifecycle.                                                       *)
(***************************************************************************)
EXTENDS Dispatch, LockProtocol_proofs, RequestQueue_proofs

-----------------------------------------------------------------------------
(* Messages and records.                                                   *)

\* What handleNewRequest passes on (servers.go:236-245).
LEMMA QueueAddsType ==
    ASSUME NEW b \in Base, NEW e \in Entry
    PROVE  /\ QueueAdds(b, e) \subseteq GossipMessage
           /\ \A m \in QueueAdds(b, e) : m.type = "QUEUE_ADD" /\ m.entry = e
<1>1. \A p \in Base :
        /\ [type |-> "QUEUE_ADD", entry |-> e, from |-> b, to |-> p] \in GossipMessage
        /\ [type |-> "QUEUE_ADD", entry |-> e, from |-> b, to |-> p].type = "QUEUE_ADD"
        /\ [type |-> "QUEUE_ADD", entry |-> e, from |-> b, to |-> p].entry = e
  BY DEF GossipMessage
<1> QED BY <1>1, Zenon DEF QueueAdds, Others

\* What every change of status tells the peers (servers.go:247-256).
LEMMA QueueUpdatesType ==
    ASSUME NEW b \in Base, NEW e \in Entry
    PROVE  /\ QueueUpdates(b, e) \subseteq GossipMessage
           /\ \A m \in QueueUpdates(b, e) : m.type = "QUEUE_UPDATE" /\ m.entry = e
<1>1. \A p \in Base :
        /\ [type |-> "QUEUE_UPDATE", entry |-> e, from |-> b, to |-> p] \in GossipMessage
        /\ [type |-> "QUEUE_UPDATE", entry |-> e, from |-> b, to |-> p].type = "QUEUE_UPDATE"
        /\ [type |-> "QUEUE_UPDATE", entry |-> e, from |-> b, to |-> p].entry = e
  BY DEF GossipMessage
<1> QED BY <1>1, Zenon DEF QueueUpdates, Others

\* What a base puts in the queue of a peer is an entry.
LEMMA AnnouncedType ==
    ASSUME NEW e \in Entry, NEW d \in Drone
    PROVE  /\ [e EXCEPT !.status = "ASSIGNED", !.assigned = d] \in Entry
           /\ [e EXCEPT !.status = "ASSIGNED", !.assigned = d].status = "ASSIGNED"
           /\ [e EXCEPT !.status = "ASSIGNED", !.assigned = d].id = e.id
           /\ [e EXCEPT !.status = "PENDING", !.assigned = None, !.rescued = TRUE] \in Entry
           /\ [e EXCEPT !.status = "PENDING", !.assigned = None, !.rescued = TRUE].status
                 = "PENDING"
           /\ [e EXCEPT !.status = "PENDING", !.assigned = None, !.rescued = TRUE].id = e.id
BY DEF Entry, Status

\* What the base says of a mission that is over (drone_handler.go:47-58).
LEMMA DoneEntryType ==
    ASSUME NEW r \in Request, NEW d \in Drone
    PROVE  [id |-> r, status |-> "DONE", assigned |-> d, rescued |-> FALSE] \in Entry
BY DEF Entry, Status

\* A request as its broker sends it.
LEMMA NewRequestType ==
    ASSUME NEW r \in Request, NEW b \in Base
    PROVE  /\ NewRequest(NewEntry(r), b) \in GossipMessage
           /\ NewRequest(NewEntry(r), b).type = "NEW_REQUEST"
           /\ NewRequest(NewEntry(r), b).entry.status = "PENDING"
BY DEF NewRequest, NewEntry, GossipMessage, Entry, Status

-----------------------------------------------------------------------------
(* Every step is a step of the lock protocol.                              *)

LEMMA LockSimulation ==
    TypeOK /\ DispatchTypeOK /\ [Next]_vars => [LockNext]_lockVars
<1> SUFFICES ASSUME TypeOK, DispatchTypeOK, [Next]_vars
             PROVE  [LockNext]_lockVars
  OBVIOUS
<1>1. ASSUME NEW m \in gossip, HandleGossip(m)
      PROVE  [LockNext]_lockVars
  <2>1. m.to \in Base /\ m.entry.id \in Request
    BY <1>1 DEF DispatchTypeOK, GossipMessage, Entry
  <2>2. CASE HandleNewRequest(m) \/ HandleQueueAdd(m)
    BY <2>2 DEF HandleNewRequest, HandleQueueAdd
  <2>3. CASE HandleQueueUpdate(m)
    BY <2>1, <2>3 DEF HandleQueueUpdate, LockNext, Disturbance
  <2> QED BY <1>1, <2>2, <2>3 DEF HandleGossip
<1>2. ASSUME NEW b \in Base, Dispatcher(b)
      PROVE  [LockNext]_lockVars
  <2>1. ASSUME NEW g \in Attempt, Reserve(b, g)
        PROVE  LockNext
    <3>1. picked[b].entry.id \in Request
      BY <2>1 DEF Reserve, DispatchTypeOK, Entry
    <3> QED BY <2>1, <3>1 DEF Reserve, LockNext, StableNext, AttemptStep
  <2> QED BY <1>2, <2>1 DEF Dispatcher, PickMission
<1>3. ASSUME NEW g \in Attempt, Goroutine(g)
      PROVE  [LockNext]_lockVars
  BY <1>3 DEF Goroutine, Acquiring, SendDispatch, DispatchFails, ConfirmDispatch, Requeue,
     LockNext, StableNext, AttemptStep
<1>4. CASE HandleLockMessage
  BY <1>4 DEF HandleLockMessage, LockNext, StableNext
<1>5. ASSUME NEW x \in done, HandleMissionDone(x)
      PROVE  [LockNext]_lockVars
  <2>1. x.att \in Attempt /\ x.base \in Base /\ x.req \in Request
    BY DEF DispatchTypeOK
  <2> QED BY <1>5, <2>1 DEF HandleMissionDone, LockNext, StableNext, AttemptStep, Disturbance
<1>6. ASSUME NEW b \in Base, HealthCheck(b)
      PROVE  [LockNext]_lockVars
  <2>1. ASSUME NEW e \in rescue[b], RescueMission(b, e)
        PROVE  LockNext
    <3>1. e.id \in Request
      BY DEF DispatchTypeOK, Entry
    <3> QED BY <2>1, <3>1 DEF RescueMission, LockNext, StableNext, AttemptStep, Disturbance
  <2> QED BY <1>6, <2>1 DEF HealthCheck, DetectLost
<1>7. CASE DisturbLocks \/ (\E b \in Base, p \in Base : HearPeer(b, p))
  BY <1>7 DEF DisturbLocks, HearPeer, LockNext, Disturbance
<1>8. CASE \/ \E m \in radio : TakeDispatch(m) \/ LoseDispatch(m)
           \/ \E d \in Drone : \/ FinishMission(d) \/ ReportReceived(d) \/ ReportAnswered(d)
                               \/ ReportLost(d) \/ DroneDies(d) \/ DroneReturns(d)
           \/ \E b \in Base, d \in Drone : Heartbeat(b, d)
           \/ \E m \in gossip : LoseGossip(m)
  BY <1>8 DEF TakeDispatch, LoseDispatch, FinishMission, ReportReceived, ReportAnswered,
     ReportLost, DroneDies, DroneReturns, Heartbeat, LoseGossip
<1>9. CASE UNCHANGED vars
  BY <1>9 DEF vars
<1> QED BY <1>1, <1>2, <1>3, <1>4, <1>5, <1>6, <1>7, <1>8, <1>9 DEF Next

-----------------------------------------------------------------------------
(* Types.                                                                  *)

\* The type invariant holds at the start.
LEMMA DispatchTypeInit == Init => TypeOK /\ DispatchTypeOK
<1> SUFFICES ASSUME Init PROVE TypeOK /\ DispatchTypeOK
  OBVIOUS
<1>1. TypeOK
  BY TypeInit DEF Init
<1>2. queue \in [Base -> Queue]
  BY EmptyQueueWellFormed DEF Init
<1>3. gossip \subseteq GossipMessage
  BY NewRequestType DEF Init
<1>4. job \in [Attempt -> Job]
  BY DEF Init, NoJob, Job
<1>5. agent \in [Drone -> Agent]
  BY DEF Init, FreeDrone, Agent
<1>6. dtable \in [Base -> [Drone -> DroneStatus]]
  BY DEF Init, DroneStatus
<1>7. faults \in 0..MaxFaults
  BY MaxFaultsAssumption DEF Init
<1>8. picked \in [Base -> [entry : Entry, drone : Drone] \cup {None}] /\ rescue \in [Base -> SUBSET Entry]
  BY DEF Init
<1> QED BY <1>1, <1>2, <1>3, <1>4, <1>5, <1>6, <1>7, <1>8 DEF DispatchTypeOK, Init

\* A disturbance is counted up to the bound.
LEMMA DisturbType ==
    ASSUME DispatchTypeOK, NEW kind, UNCHANGED faults \/ Disturb(kind)
    PROVE  faults' \in 0..MaxFaults
BY MaxFaultsAssumption DEF DispatchTypeOK, Disturb

\* Writing a status into a drone table.
LEMMA SetDroneType ==
    ASSUME DispatchTypeOK, NEW b \in Base, NEW d \in Drone, NEW s \in DroneStatus
    PROVE  SetDrone(b, d, s) \in [Base -> [Drone -> DroneStatus]]
BY DEF DispatchTypeOK, SetDrone

\* Queue messages keep the types.
LEMMA GossipType ==
    ASSUME DispatchTypeOK, NEW m \in gossip, HandleGossip(m)
    PROVE  DispatchTypeOK'
<1>1. m \in GossipMessage /\ m.to \in Base /\ m.entry \in Entry
  BY DEF DispatchTypeOK, GossipMessage
<1>2. queue[m.to] \in Queue
  BY <1>1 DEF DispatchTypeOK
<1>3. CASE HandleNewRequest(m)
  <2>1. queue' \in [Base -> Queue]
    BY <1>1, <1>2, <1>3, PushType DEF HandleNewRequest, DispatchTypeOK
  <2>2. gossip' \subseteq GossipMessage
    BY <1>1, <1>3, QueueAddsType DEF HandleNewRequest, DispatchTypeOK
  <2> QED BY <1>3, <2>1, <2>2 DEF HandleNewRequest, DispatchTypeOK, droneVars
<1>4. CASE HandleQueueAdd(m)
  <2>1. queue' \in [Base -> Queue]
    BY <1>1, <1>2, <1>4, PushType DEF HandleQueueAdd, DispatchTypeOK
  <2> QED BY <1>4, <2>1 DEF HandleQueueAdd, DispatchTypeOK, droneVars
<1>5. CASE HandleQueueUpdate(m)
  <2>1. /\ Replace(queue[m.to], m.entry) \in Queue
        /\ Remove(Replace(queue[m.to], m.entry), m.entry.id) \in Queue
    BY <1>1, <1>2, ReplaceType, RemoveType
  <2>2. queue' \in [Base -> Queue]
    BY <1>1, <1>5, <2>1 DEF HandleQueueUpdate, DispatchTypeOK
  <2> QED BY <1>5, <2>2 DEF HandleQueueUpdate, DispatchTypeOK, droneVars
<1> QED BY <1>3, <1>4, <1>5 DEF HandleGossip

\* The dispatcher loop keeps the types.
LEMMA DispatcherType ==
    ASSUME DispatchTypeOK, NEW b \in Base, Dispatcher(b)
    PROVE  DispatchTypeOK'
<1>1. ASSUME NEW e \in queue[b].heap, NEW d \in Drone, PickMission(b, e, d)
      PROVE  DispatchTypeOK'
  <2>1. e \in Entry
    BY DEF DispatchTypeOK, Queue
  <2> QED BY <1>1, <2>1 DEF PickMission, DispatchTypeOK, droneVars
<1>2. ASSUME NEW g \in Attempt, Reserve(b, g)
      PROVE  DispatchTypeOK'
  <2> DEFINE e == picked[b].entry
             d == picked[b].drone
  <2>1. e \in Entry /\ d \in Drone
    BY <1>2 DEF Reserve, DispatchTypeOK
  <2>2. UpdateStatus(queue[b], e.id, "LOCKED", d) \in Queue
    BY <2>1, UpdateStatusType DEF DispatchTypeOK, Status
  <2>3. queue' \in [Base -> Queue]
    BY <1>2, <2>2 DEF Reserve, DispatchTypeOK
  <2>4. dtable' \in [Base -> [Drone -> DroneStatus]]
    BY <1>2, <2>1, SetDroneType DEF Reserve, DroneStatus
  <2>5. [entry |-> e, drone |-> d, call |-> "none"] \in Job
    BY <2>1 DEF Job
  <2>6. job' \in [Attempt -> Job]
    BY <1>2, <2>5 DEF Reserve, DispatchTypeOK
  <2>7. picked' \in [Base -> [entry : Entry, drone : Drone] \cup {None}]
    BY <1>2 DEF Reserve, DispatchTypeOK
  <2> QED BY <1>2, <2>3, <2>4, <2>6, <2>7 DEF Reserve, DispatchTypeOK, droneVars
<1> QED BY <1>1, <1>2 DEF Dispatcher

\* So does a dispatch goroutine.
LEMMA GoroutineType ==
    ASSUME TypeOK, DispatchTypeOK, JobsMatch, NEW g \in Attempt, Goroutine(g)
    PROVE  DispatchTypeOK'
<1> DEFINE b == att[g].base
           r == att[g].req
           d == job[g].drone
<1>1. CASE Acquiring(g)
  BY <1>1 DEF Acquiring, DispatchTypeOK, baseVars, droneVars
<1>2. CASE att[g].pc # "idle"
  <2>0. b \in Base /\ r \in Request /\ d \in Drone /\ job[g].entry \in Entry /\ job[g] \in Job
    BY <1>2 DEF TypeOK, JobsMatch, DispatchTypeOK
  <2>1. CASE SendDispatch(g)
    <3>1. [job[g] EXCEPT !.call = "out"] \in Job
      BY <2>0 DEF Job
    <3>2. job' \in [Attempt -> Job]
      BY <2>1, <3>1 DEF SendDispatch, DispatchTypeOK
    <3>3. radio' \subseteq Call
      BY <2>0, <2>1 DEF SendDispatch, DispatchTypeOK, Call
    <3> QED BY <2>1, <3>2, <3>3 DEF SendDispatch, DispatchTypeOK, baseVars
  <2>2. CASE DispatchFails(g)
    <3>1. [job[g] EXCEPT !.call = "failed"] \in Job
      BY <2>0 DEF Job
    <3>2. job' \in [Attempt -> Job]
      BY <2>2, <3>1 DEF DispatchFails, DispatchTypeOK
    <3>3. dtable' \in [Base -> [Drone -> DroneStatus]]
      BY <2>0, <2>2, SetDroneType DEF DispatchFails, DroneStatus
    <3>4. faults' \in 0..MaxFaults
      BY <2>2, DisturbType DEF DispatchFails, CallBroken
    <3> QED BY <2>2, <3>2, <3>3, <3>4 DEF DispatchFails, DispatchTypeOK, droneVars
  <2>3. CASE ConfirmDispatch(g)
    <3>1. UpdateStatus(queue[b], job[g].entry.id, "ASSIGNED", d) \in Queue
      BY <2>0, UpdateStatusType DEF DispatchTypeOK, Status
    <3>2. [job[g].entry EXCEPT !.status = "ASSIGNED", !.assigned = d] \in Entry
      BY <2>0, AnnouncedType
    <3>3. gossip' \subseteq GossipMessage
      BY <2>0, <2>3, <3>2, QueueUpdatesType DEF ConfirmDispatch, DispatchTypeOK
    <3>4. queue' \in [Base -> Queue]
      BY <2>0, <2>3, <3>1, AnnouncedType DEF ConfirmDispatch, DispatchTypeOK
    <3> QED BY <2>3, <3>3, <3>4 DEF ConfirmDispatch, DispatchTypeOK, droneVars
  <2>4. CASE Requeue(g)
    <3>1. UpdateStatus(queue[b], r, "PENDING", None) \in Queue
      BY <2>0, UpdateStatusType DEF DispatchTypeOK, Status
    <3>2. queue' \in [Base -> Queue]
      BY <2>4, <3>1 DEF Requeue, DispatchTypeOK
    <3>3. dtable' \in [Base -> [Drone -> DroneStatus]]
      BY <2>0, <2>4, SetDroneType DEF Requeue, DroneStatus, DispatchTypeOK
    <3>4. job' \in [Attempt -> Job]
      BY <2>4 DEF Requeue, DispatchTypeOK, NoJob, Job
    <3> QED BY <2>4, <3>2, <3>3, <3>4 DEF Requeue, DispatchTypeOK, droneVars
  <2> QED BY <1>1, <2>1, <2>2, <2>3, <2>4 DEF Goroutine
<1>3. SendDispatch(g) \/ DispatchFails(g) \/ ConfirmDispatch(g) \/ Requeue(g) =>
        att[g].pc # "idle"
  BY DEF SendDispatch, DispatchFails, LockDispatchFails, ConfirmDispatch, LockConfirm,
     Requeue, LockRequeue
<1> QED BY <1>1, <1>2, <1>3 DEF Goroutine

\* So does everything a drone does, and its heartbeats.
LEMMA DroneType ==
    ASSUME DispatchTypeOK, AgentsMatch, NEW d \in Drone,
           \/ FinishMission(d) \/ ReportReceived(d) \/ ReportAnswered(d)
           \/ ReportLost(d) \/ DroneDies(d) \/ DroneReturns(d)
           \/ \E b \in Base : Heartbeat(b, d)
           \/ \E m \in radio : TakeDispatch(m) \/ LoseDispatch(m)
    PROVE  DispatchTypeOK'
<1>0. FreeDrone \in Agent /\ DeadDrone \in Agent
  BY DEF FreeDrone, DeadDrone, Agent
<1>1. \A s \in {"reporting", "reported"} : [agent[d] EXCEPT !.phase = s] \in Agent
  BY DEF DispatchTypeOK, Agent
<1>2. CASE FinishMission(d)
  <2>1. agent[d].req \in Request
    BY <1>2 DEF FinishMission, AgentsMatch
  <2>2. agent' \in [Drone -> Agent]
    BY <1>1, <1>2 DEF FinishMission, DispatchTypeOK
  <2> QED BY <1>2, <2>1, <2>2 DEF FinishMission, DispatchTypeOK, baseVars
<1>3. CASE ReportReceived(d)
  <2>1. agent[d].att \in Attempt /\ agent[d].req \in Request /\ Home[d] \in Base
    BY <1>3, HomeAssumption DEF ReportReceived, AgentsMatch
  <2>2. agent' \in [Drone -> Agent]
    BY <1>1, <1>3 DEF ReportReceived, DispatchTypeOK
  <2>3. done' \subseteq [att : Attempt, drone : Drone, req : Request, base : Base]
    BY <1>3, <2>1 DEF ReportReceived, DispatchTypeOK
  <2> QED BY <1>3, <2>2, <2>3 DEF ReportReceived, DispatchTypeOK, baseVars
<1>4. CASE ReportAnswered(d) \/ ReportLost(d) \/ DroneDies(d)
  <2>1. agent' \in [Drone -> Agent]
    BY <1>0, <1>1, <1>4 DEF ReportAnswered, ReportLost, DroneDies, DispatchTypeOK
  <2>2. faults' \in 0..MaxFaults
    BY <1>4, DisturbType DEF ReportAnswered, ReportLost, DroneDies
  <2> QED BY <1>4, <2>1, <2>2 DEF ReportAnswered, ReportLost, DroneDies, DispatchTypeOK, baseVars
<1>5. ASSUME NEW b \in Base, Heartbeat(b, d)
      PROVE  DispatchTypeOK'
  <2>1. dtable' \in [Base -> [Drone -> DroneStatus]]
    BY <1>5, SetDroneType DEF Heartbeat, DroneStatus
  <2> QED BY <1>5, <2>1 DEF Heartbeat, DispatchTypeOK, droneVars
<1>6. ASSUME NEW m \in radio, TakeDispatch(m)
      PROVE  DispatchTypeOK'
  <2>1. m.att \in Attempt /\ m.drone \in Drone /\ m.req \in Request
    BY DEF DispatchTypeOK, Call
  <2>2. [phase |-> "flying", att |-> m.att, req |-> m.req] \in Agent
    BY <2>1 DEF Agent
  <2>3. agent' \in [Drone -> Agent]
    BY <1>6, <2>1, <2>2 DEF TakeDispatch, DispatchTypeOK
  <2>4. \A s \in {"ack", "nack"} : [job[m.att] EXCEPT !.call = s] \in Job
    BY <2>1 DEF DispatchTypeOK, Job
  <2>5. job' \in [Attempt -> Job]
    BY <1>6, <2>1, <2>4 DEF TakeDispatch, DispatchTypeOK
  <2> QED BY <1>6, <2>3, <2>5 DEF TakeDispatch, DispatchTypeOK, baseVars
<1>7. ASSUME NEW m \in radio, LoseDispatch(m)
      PROVE  DispatchTypeOK'
  <2>1. faults' \in 0..MaxFaults
    BY <1>7, DisturbType DEF LoseDispatch
  <2> QED BY <1>7, <2>1 DEF LoseDispatch, DispatchTypeOK, baseVars
<1>8. CASE DroneReturns(d)
  <2>1. Home[d] \in Base /\ queue[Home[d]] \in Queue
    BY HomeAssumption DEF DispatchTypeOK
  <2>2. queue' \in [Base -> Queue]
    BY <1>8, <2>1, ClearType DEF DroneReturns, DispatchTypeOK
  <2>3. dtable' \in [Base -> [Drone -> DroneStatus]]
    BY <1>8, <2>1, SetDroneType DEF DroneReturns, DroneStatus
  <2>4. agent' \in [Drone -> Agent] /\ radio' \subseteq Call
    BY <1>0, <1>8 DEF DroneReturns, DispatchTypeOK
  <2> QED BY <1>8, <2>2, <2>3, <2>4 DEF DroneReturns, DispatchTypeOK
<1> QED BY <1>2, <1>3, <1>4, <1>5, <1>6, <1>7, <1>8

\* So does the end of a mission at its base.
LEMMA MissionDoneType ==
    ASSUME DispatchTypeOK, NEW x \in done, HandleMissionDone(x)
    PROVE  DispatchTypeOK'
<1> DEFINE b == x.base
           e == [id |-> x.req, status |-> "DONE", assigned |-> x.drone, rescued |-> FALSE]
<1>1. b \in Base /\ x.drone \in Drone /\ x.req \in Request /\ x.att \in Attempt
  BY DEF DispatchTypeOK
<1>2. UpdateStatus(queue[b], x.req, "DONE", x.drone) \in Queue
  BY <1>1, UpdateStatusType DEF DispatchTypeOK, Status
<1>3. queue' \in [Base -> Queue]
  BY <1>1, <1>2, RemoveType DEF HandleMissionDone, DispatchTypeOK
<1>4. dtable' \in [Base -> [Drone -> DroneStatus]]
  BY <1>1, SetDroneType DEF HandleMissionDone, DroneStatus
<1>5. e \in Entry
  BY <1>1, DoneEntryType
<1>6. gossip' \subseteq GossipMessage
  BY <1>1, <1>5, QueueUpdatesType DEF HandleMissionDone, DispatchTypeOK
<1>7. job' \in [Attempt -> Job]
  BY DEF HandleMissionDone, DispatchTypeOK, NoJob, Job
<1> QED BY <1>3, <1>4, <1>6, <1>7 DEF HandleMissionDone, DispatchTypeOK

\* So do the detection of a lost drone and the rescue of its missions.
LEMMA HealthCheckType ==
    ASSUME DispatchTypeOK, NEW b \in Base, HealthCheck(b)
    PROVE  DispatchTypeOK'
<1>1. ASSUME NEW d \in Drone, DetectLost(b, d)
      PROVE  DispatchTypeOK'
  <2>1. dtable' \in [Base -> [Drone -> DroneStatus]]
    BY <1>1, SetDroneType DEF DetectLost, DroneStatus
  <2>2. faults' \in 0..MaxFaults
    BY <1>1, DisturbType DEF DetectLost
  <2>3. rescue' \in [Base -> SUBSET Entry]
    BY <1>1 DEF DetectLost, DispatchTypeOK, Queue
  <2> QED BY <1>1, <2>1, <2>2, <2>3 DEF DetectLost, DispatchTypeOK, droneVars
<1>2. ASSUME NEW e \in rescue[b], RescueMission(b, e)
      PROVE  DispatchTypeOK'
  <2> DEFINE f == [e EXCEPT !.status = "PENDING", !.assigned = None, !.rescued = TRUE]
  <2>1. e \in Entry
    BY DEF DispatchTypeOK
  <2>2. f \in Entry
    BY <2>1 DEF Entry, Status
  <2> HIDE DEF f
  <2>3. Replace(queue[b], f) \in Queue
    BY <2>2, ReplaceType DEF DispatchTypeOK
  <2>4. QueueUpdates(b, f) \subseteq GossipMessage
    BY <2>2, QueueUpdatesType
  <2>5. queue' = [queue EXCEPT ![b] = Replace(queue[b], f)] /\ gossip' = gossip \cup QueueUpdates(b, f)
    BY <1>2 DEF RescueMission, f
  <2>6. queue' \in [Base -> Queue] /\ gossip' \subseteq GossipMessage
    BY <2>3, <2>4, <2>5 DEF DispatchTypeOK
  <2>7. job' \in [Attempt -> Job]
    BY <1>2 DEF RescueMission, DispatchTypeOK, NoJob, Job
  <2>8. rescue' \in [Base -> SUBSET Entry]
    BY <1>2 DEF RescueMission, DispatchTypeOK
  <2> QED BY <1>2, <2>6, <2>7, <2>8 DEF RescueMission, DispatchTypeOK, droneVars
<1> QED BY <1>1, <1>2 DEF HealthCheck

\* Every step keeps the types.
LEMMA DispatchTypeStep ==
    TypeOK /\ DispatchTypeOK /\ JobsMatch /\ AgentsMatch /\ [Next]_vars
        => TypeOK' /\ DispatchTypeOK'
<1> SUFFICES ASSUME TypeOK, DispatchTypeOK, JobsMatch, AgentsMatch, [Next]_vars
             PROVE  TypeOK' /\ DispatchTypeOK'
  OBVIOUS
<1>1. TypeOK'
  BY LockSimulation, TypeStep
<1>2. CASE HandleLockMessage \/ DisturbLocks \/ \E b \in Base, p \in Base : HearPeer(b, p)
  <2>1. faults' \in 0..MaxFaults
    BY <1>2, DisturbType DEF HandleLockMessage, DisturbLocks, HearPeer
  <2> QED BY <1>1, <1>2, <2>1 DEF HandleLockMessage, DisturbLocks, HearPeer, DispatchTypeOK,
          baseVars, droneVars
<1>3. ASSUME NEW m \in gossip, LoseGossip(m)
      PROVE  DispatchTypeOK'
  <2>1. faults' \in 0..MaxFaults
    BY <1>3, DisturbType DEF LoseGossip
  <2> QED BY <1>3, <2>1 DEF LoseGossip, DispatchTypeOK, baseVars, droneVars
<1>4. CASE UNCHANGED vars
  <2>1. /\ queue' = queue /\ dtable' = dtable /\ picked' = picked /\ rescue' = rescue
        /\ job' = job /\ gossip' = gossip /\ agent' = agent /\ radio' = radio
        /\ done' = done /\ served' = served /\ faults' = faults
    BY <1>4 DEF vars, baseVars, droneVars
  <2> QED BY <1>1, <2>1 DEF DispatchTypeOK
<1>5. CASE \/ \E d \in Drone : \/ FinishMission(d) \/ ReportReceived(d) \/ ReportAnswered(d)
                               \/ ReportLost(d) \/ DroneDies(d) \/ DroneReturns(d)
           \/ \E b \in Base, d \in Drone : Heartbeat(b, d)
  BY <1>1, <1>5, DroneType
<1>6. ASSUME NEW m \in radio, TakeDispatch(m) \/ LoseDispatch(m)
      PROVE  DispatchTypeOK'
  <2>1. m.drone \in Drone
    BY DEF DispatchTypeOK, Call
  <2> QED BY <1>6, <2>1, DroneType
<1>7. ASSUME NEW g \in Attempt, Goroutine(g)
      PROVE  DispatchTypeOK'
  BY <1>7, GoroutineType
<1> QED BY <1>1, <1>2, <1>3, <1>4, <1>5, <1>6, <1>7, GossipType, DispatcherType,
        MissionDoneType, HealthCheckType DEF Next

-----------------------------------------------------------------------------
(* What a step does to an attempt.                                         *)

Working(g) == att[g].pc \in {"trying", "asking", "acquired", "requeue"}

\* Steps that neither start an attempt nor end its work.
SteadyStep ==
    \/ \E g \in Attempt : \/ LocalRefusal(g) \/ LocalLock(g) \/ Unanimous(g)
                          \/ Refused(g) \/ LockDispatchFails(g)
    \/ MessageStep
    \/ Disturbance
    \/ UNCHANGED lockVars

\* In such a step every attempt keeps its base and its request, and goes on.
LEMMA Steady ==
    ASSUME TypeOK, SteadyStep, NEW h \in Attempt
    PROVE  /\ att'[h].base = att[h].base
           /\ att'[h].req = att[h].req
           /\ att'[h].pc = "idle" => att[h].pc = "idle"
           /\ att[h].pc = "idle" => att'[h].pc = "idle"
           /\ Working(h) => att'[h].pc \in {"trying", "asking", "acquired", "requeue"}
<1>0. /\ att \in [Attempt -> AttemptState]
      /\ online \in [Base -> SUBSET Base]
      /\ \A g \in Attempt : att[g].pc # "idle" => att[g].base \in Base
      /\ \A m \in net : m.type # "LOCK_RELEASE" => m.att \in Attempt
  BY DEF TypeOK
<1>1. ASSUME NEW g \in Attempt,
             LocalRefusal(g) \/ Unanimous(g) \/ Refused(g) \/ LockDispatchFails(g)
      PROVE  \E s \in {"acquired", "requeue"} :
                att' = [att EXCEPT ![g].pc = s] /\ att[g].pc # "idle"
  BY <1>1 DEF LocalRefusal, Unanimous, Refused, LockDispatchFails, GiveBack
<1>2. ASSUME NEW g \in Attempt, NEW s \in {"acquired", "requeue"}, att[g].pc # "idle",
             att' = [att EXCEPT ![g].pc = s]
      PROVE  /\ att'[h].base = att[h].base /\ att'[h].req = att[h].req
             /\ att'[h].pc = att[h].pc \/ (g = h /\ att'[h].pc = s)
  BY <1>0, <1>2 DEF AttemptState
<1>3. ASSUME NEW g \in Attempt, LocalLock(g)
      PROVE  /\ att'[h].base = att[h].base /\ att'[h].req = att[h].req
             /\ att'[h].pc = att[h].pc \/ (att[h].pc = "trying" /\ att'[h].pc \in {"acquired", "asking"})
  <2>1. att[g].pc = "trying" /\ att' = [att EXCEPT ![g] = Asking(att[g], online[att[g].base])]
    BY <1>3 DEF LocalLock
  <2>2. /\ Asking(att[g], online[att[g].base]).base = att[g].base
        /\ Asking(att[g], online[att[g].base]).req = att[g].req
        /\ Asking(att[g], online[att[g].base]).pc \in {"acquired", "asking"}
    BY <1>0 DEF Asking, AttemptState
  <2> QED BY <1>0, <2>1, <2>2
<1>4. CASE MessageStep
  <2>1. PICK m \in net : HandleLockRequest(m) \/ ReceiveReply(m) \/ HandleLockRelease(m)
    BY <1>4 DEF MessageStep
  <2>2. CASE ReceiveReply(m)
    <3>1. m.att \in Attempt /\ att' = [att EXCEPT ![m.att] = Answered(att[m.att], m)]
      BY <1>0, <2>2 DEF ReceiveReply
    <3>2. /\ Answered(att[m.att], m).base = att[m.att].base
          /\ Answered(att[m.att], m).req = att[m.att].req
          /\ Answered(att[m.att], m).pc = att[m.att].pc
      BY <1>0, <3>1 DEF Answered, AttemptState
    <3> QED BY <1>0, <3>1, <3>2 DEF Working
  <2>3. CASE HandleLockRequest(m) \/ HandleLockRelease(m)
    BY <2>3 DEF HandleLockRequest, HandleLockRelease, Working
  <2> QED BY <2>1, <2>2, <2>3
<1>5. CASE Disturbance
  <2>1. ASSUME NEW g \in Attempt, NEW p \in Base, CallFails(g, p)
        PROVE  att'[h].base = att[h].base /\ att'[h].req = att[h].req /\ att'[h].pc = att[h].pc
    BY <1>0, <2>1 DEF CallFails, AttemptState
  <2>2. (\E g \in Attempt, p \in Base : CallFails(g, p)) \/ att' = att
    BY <1>5 DEF Disturbance, Lose, Hear, Suspect, StrayRelease
  <2> QED BY <2>1, <2>2 DEF Working
<1>6. CASE UNCHANGED lockVars
  BY <1>6 DEF lockVars, Working
<1>7. CASE \E g \in Attempt : \/ LocalRefusal(g) \/ LocalLock(g) \/ Unanimous(g)
                              \/ Refused(g) \/ LockDispatchFails(g)
  BY <1>1, <1>2, <1>3, <1>7 DEF Working
<1> QED BY <1>4, <1>5, <1>6, <1>7 DEF SteadyStep

\* The releases from outside the goroutines are steady, or end one attempt.
LEMMA MissionDoneAttempt ==
    ASSUME DispatchTypeOK, NEW x \in done, HandleMissionDone(x)
    PROVE  \/ SteadyStep /\ UNCHANGED job
           \/ /\ x.att \in Attempt
              /\ att[x.att].pc = "assigned"
              /\ att' = [att EXCEPT ![x.att] = Idle]
              /\ job' = [job EXCEPT ![x.att] = NoJob]
<1>1. x.att \in Attempt /\ x.base \in Base /\ x.req \in Request
  BY DEF DispatchTypeOK
<1> QED BY <1>1 DEF HandleMissionDone, SteadyStep, Disturbance, EndTenure

\* The same of the rescue of a mission.
LEMMA RescueAttempt ==
    ASSUME DispatchTypeOK, NEW b \in Base, NEW e \in rescue[b], RescueMission(b, e)
    PROVE  \/ SteadyStep /\ UNCHANGED job
           \/ \E g \in Attempt : /\ att[g].pc = "assigned"
                                 /\ att' = [att EXCEPT ![g] = Idle]
                                 /\ job' = [job EXCEPT ![g] = NoJob]
<1>1. e.id \in Request
  BY DEF DispatchTypeOK, Entry
<1> QED BY <1>1 DEF RescueMission, SteadyStep, Disturbance, EndTenure

\* The steps of Dispatch that are steady for the attempts and leave what the
\* goroutines work on alone.
LEMMA SteadySteps ==
    ASSUME DispatchTypeOK
    PROVE  /\ \A m \in gossip : HandleGossip(m) \/ LoseGossip(m) => SteadyStep /\ UNCHANGED job
           /\ \A b \in Base : (\E d \in Drone : DetectLost(b, d) \/ Heartbeat(b, d)
                                  \/ \E e \in queue[b].heap : PickMission(b, e, d))
                 => SteadyStep /\ UNCHANGED job
           /\ \A d \in Drone : \/ FinishMission(d) \/ ReportReceived(d) \/ ReportAnswered(d)
                               \/ ReportLost(d) \/ DroneDies(d) \/ DroneReturns(d)
                 => SteadyStep /\ UNCHANGED job
           /\ \A m \in radio : LoseDispatch(m) => SteadyStep /\ UNCHANGED job
           /\ HandleLockMessage => SteadyStep /\ UNCHANGED job
           /\ \/ DisturbLocks
              \/ \E b \in Base, p \in Base : HearPeer(b, p)
              \/ UNCHANGED vars
              => SteadyStep /\ UNCHANGED job
<1>1. ASSUME NEW m \in gossip, HandleGossip(m) \/ LoseGossip(m)
      PROVE  SteadyStep /\ UNCHANGED job
  <2>1. m.to \in Base /\ m.entry.id \in Request
    BY DEF DispatchTypeOK, GossipMessage, Entry
  <2> QED BY <1>1, <2>1 DEF HandleGossip, LoseGossip, HandleNewRequest, HandleQueueAdd,
          HandleQueueUpdate, SteadyStep, Disturbance
<1>2. CASE \/ DisturbLocks
           \/ \E b \in Base, p \in Base : HearPeer(b, p)
           \/ UNCHANGED vars
  BY <1>2 DEF DisturbLocks, HearPeer, vars, SteadyStep, Disturbance
<1>3. HandleLockMessage => SteadyStep /\ UNCHANGED job
  BY DEF HandleLockMessage, SteadyStep
<1> QED BY <1>1, <1>2, <1>3 DEF DetectLost, Heartbeat, PickMission, FinishMission,
        ReportReceived, ReportAnswered, ReportLost, DroneDies, DroneReturns, LoseDispatch,
        SteadyStep

-----------------------------------------------------------------------------
(* Goroutines and drones know their mission.                               *)

\* A goroutine that goes on with its request keeps its drone.
LEMMA JobsStep ==
    TypeOK /\ DispatchTypeOK /\ JobsMatch /\ [Next]_vars => JobsMatch'
<1> SUFFICES ASSUME TypeOK, DispatchTypeOK, JobsMatch, [Next]_vars,
                    NEW h \in Attempt, att'[h].pc # "idle"
             PROVE  /\ job'[h].drone \in Drone
                    /\ job'[h].entry \in Entry
                    /\ job'[h].entry.id = att'[h].req
  BY DEF JobsMatch
<1> DEFINE Goal == /\ job'[h].drone \in Drone
                   /\ job'[h].entry \in Entry
                   /\ job'[h].entry.id = att'[h].req
<1>0. att \in [Attempt -> AttemptState] /\ job \in [Attempt -> Job]
  BY DEF TypeOK, DispatchTypeOK
<1>1. ASSUME SteadyStep, job'[h].drone = job[h].drone, job'[h].entry = job[h].entry
      PROVE  Goal
  BY <1>1, Steady DEF JobsMatch
<1>2. ASSUME NEW g \in Attempt, att' = [att EXCEPT ![g] = Idle],
             job' = [job EXCEPT ![g] = NoJob]
      PROVE  Goal
  BY <1>0, <1>2 DEF JobsMatch, Idle
<1>3. ASSUME NEW b \in Base, NEW g \in Attempt, Reserve(b, g)
      PROVE  Goal
  <2>1. /\ picked[b].entry \in Entry /\ picked[b].drone \in Drone
        /\ att' = [att EXCEPT ![g] = Started(b, picked[b].entry.id)]
        /\ job' = [job EXCEPT ![g] = [entry |-> picked[b].entry, drone |-> picked[b].drone,
                                      call |-> "none"]]
    BY <1>3 DEF Reserve, Spawn, DispatchTypeOK
  <2>2. CASE g = h
    BY <1>0, <2>1, <2>2 DEF Started
  <2>3. CASE g # h
    BY <1>0, <2>1, <2>3 DEF JobsMatch
  <2> QED BY <2>2, <2>3
<1>4. ASSUME NEW g \in Attempt, Goroutine(g)
      PROVE  Goal
  <2>1. CASE Acquiring(g)
    BY <1>1, <2>1 DEF Acquiring, SteadyStep
  <2>2. CASE SendDispatch(g) \/ DispatchFails(g)
    <3>1. SteadyStep
      BY <2>2 DEF SendDispatch, DispatchFails, SteadyStep
    <3>2. job'[h].drone = job[h].drone /\ job'[h].entry = job[h].entry
      BY <1>0, <2>2 DEF SendDispatch, DispatchFails, Job
    <3> QED BY <1>1, <3>1, <3>2
  <2>3. CASE ConfirmDispatch(g)
    <3>1. /\ att' = [att EXCEPT ![g].pc = "assigned"] /\ att[g].pc = "acquired"
          /\ job' = job
      BY <2>3 DEF ConfirmDispatch, LockConfirm
    <3>2. att'[h].req = att[h].req /\ att[h].pc # "idle"
      BY <1>0, <3>1 DEF AttemptState
    <3> QED BY <3>1, <3>2 DEF JobsMatch
  <2>4. CASE Requeue(g)
    BY <1>2, <2>4 DEF Requeue, LockRequeue
  <2> QED BY <1>4, <2>1, <2>2, <2>3, <2>4 DEF Goroutine
<1>5. ASSUME NEW m \in radio, TakeDispatch(m)
      PROVE  Goal
  <2>1. m.att \in Attempt
    BY DEF DispatchTypeOK, Call
  <2>2. job'[h].drone = job[h].drone /\ job'[h].entry = job[h].entry
    BY <1>0, <1>5, <2>1 DEF TakeDispatch, Job
  <2> QED BY <1>1, <1>5, <2>2 DEF TakeDispatch, SteadyStep
<1>6. ASSUME NEW x \in done, HandleMissionDone(x)
      PROVE  Goal
  BY <1>1, <1>2, <1>6, MissionDoneAttempt
<1>7. ASSUME NEW b \in Base, NEW e \in rescue[b], RescueMission(b, e)
      PROVE  Goal
  BY <1>1, <1>2, <1>7, RescueAttempt
<1>8. CASE SteadyStep /\ UNCHANGED job
  BY <1>1, <1>8
<1> QED BY <1>3, <1>4, <1>5, <1>6, <1>7, <1>8, SteadySteps
        DEF Next, Dispatcher, HealthCheck

\* A drone's mission comes from the call that started it.
LEMMA AgentsStep ==
    DispatchTypeOK /\ AgentsMatch /\ [Next]_vars => AgentsMatch'
<1> SUFFICES ASSUME DispatchTypeOK, AgentsMatch, [Next]_vars, NEW d \in Drone,
                    agent'[d].phase \in {"flying", "reporting", "reported"}
             PROVE  agent'[d].att \in Attempt /\ agent'[d].req \in Request
  BY DEF AgentsMatch
<1> DEFINE Goal == agent'[d].att \in Attempt /\ agent'[d].req \in Request
<1>0. agent \in [Drone -> Agent]
  BY DEF DispatchTypeOK
<1>1. ASSUME NEW m \in radio, TakeDispatch(m)
      PROVE  Goal
  <2>1. m.att \in Attempt /\ m.drone \in Drone /\ m.req \in Request
    BY DEF DispatchTypeOK, Call
  <2> QED BY <1>0, <1>1, <2>1 DEF TakeDispatch, AgentsMatch
<1>2. ASSUME NEW c \in Drone,
             FinishMission(c) \/ ReportReceived(c) \/ ReportAnswered(c) \/ ReportLost(c)
                \/ DroneDies(c) \/ DroneReturns(c)
      PROVE  Goal
  <2>1. \/ agent' = [agent EXCEPT ![c] = FreeDrone]
        \/ agent' = [agent EXCEPT ![c] = DeadDrone]
        \/ /\ agent[c].phase \in {"flying", "reporting", "reported"}
           /\ \E s \in {"reporting", "reported"} : agent' = [agent EXCEPT ![c].phase = s]
    BY <1>2 DEF FinishMission, ReportReceived, ReportAnswered, ReportLost, DroneDies, DroneReturns
  <2>2. FreeDrone.phase = "free" /\ DeadDrone.phase = "dead"
    BY DEF FreeDrone, DeadDrone
  <2>3. CASE d = c /\ agent[c].phase \in {"flying", "reporting", "reported"}
    BY <1>0, <2>1, <2>2, <2>3 DEF AgentsMatch, Agent
  <2>4. CASE d = c /\ agent[c].phase \notin {"flying", "reporting", "reported"}
    BY <1>0, <2>1, <2>2, <2>4
  <2>5. CASE d # c
    BY <1>0, <2>1, <2>5 DEF AgentsMatch
  <2> QED BY <2>3, <2>4, <2>5
<1>3. CASE UNCHANGED agent
  BY <1>3 DEF AgentsMatch
<1>4. ASSUME NEW m \in gossip, HandleGossip(m) \/ LoseGossip(m)
      PROVE  UNCHANGED agent
  BY <1>4 DEF HandleGossip, HandleNewRequest, HandleQueueAdd, HandleQueueUpdate, LoseGossip,
     droneVars
<1>5. ASSUME NEW g \in Attempt, Goroutine(g)
      PROVE  UNCHANGED agent
  BY <1>5 DEF Goroutine, Acquiring, SendDispatch, DispatchFails, ConfirmDispatch, Requeue,
     droneVars
<1>6. ASSUME NEW b \in Base, Dispatcher(b) \/ HealthCheck(b) \/ \E c \in Drone : Heartbeat(b, c)
      PROVE  UNCHANGED agent
  BY <1>6 DEF Dispatcher, PickMission, Reserve, HealthCheck, DetectLost, RescueMission, Heartbeat,
     droneVars
<1>7. ASSUME \/ HandleLockMessage \/ DisturbLocks
             \/ \E b \in Base, p \in Base : HearPeer(b, p)
             \/ \E x \in done : HandleMissionDone(x)
             \/ \E m \in radio : LoseDispatch(m)
             \/ UNCHANGED vars
      PROVE  UNCHANGED agent
  BY <1>7 DEF HandleLockMessage, DisturbLocks, HearPeer, HandleMissionDone, LoseDispatch, vars,
     droneVars
<1> QED BY <1>1, <1>2, <1>3, <1>4, <1>5, <1>6, <1>7 DEF Next

-----------------------------------------------------------------------------
(* What the messages say.                                                  *)

\* A request is announced as PENDING, ASSIGNED or DONE, and as DONE only when
\* its mission is over.
LEMMA NewsStep ==
    TypeOK /\ DispatchTypeOK /\ JobsMatch /\ AgentsMatch /\ NewsUnlocked /\ DoneMeansServed
      /\ [Next]_vars => NewsUnlocked' /\ DoneMeansServed'
<1> SUFFICES ASSUME TypeOK, DispatchTypeOK, JobsMatch, AgentsMatch, NewsUnlocked,
                    DoneMeansServed, [Next]_vars
             PROVE  NewsUnlocked' /\ DoneMeansServed'
  OBVIOUS
<1> DEFINE Harmless(m) == /\ m.entry.status # "LOCKED"
                          /\ m.type = "QUEUE_UPDATE" /\ m.entry.status = "DONE" =>
                                m.entry.id \in served
<1>0. \A m \in gossip : Harmless(m)
  BY DEF NewsUnlocked, DoneMeansServed
<1>1. ASSUME \A m \in gossip' : m \in gossip \/ Harmless(m),
             UNCHANGED <<agent, served>>, done' \subseteq done
      PROVE  NewsUnlocked' /\ DoneMeansServed'
  BY <1>0, <1>1 DEF NewsUnlocked, DoneMeansServed
<1> HIDE DEF Harmless
<1>2. ASSUME NEW m \in gossip, HandleGossip(m) \/ LoseGossip(m)
      PROVE  NewsUnlocked' /\ DoneMeansServed'
  <2>1. m.to \in Base /\ m.entry \in Entry
    BY DEF DispatchTypeOK, GossipMessage
  <2>2. \A n \in QueueAdds(m.to, m.entry) : Harmless(n)
    BY <2>1, QueueAddsType DEF Harmless, NewsUnlocked
  <2>3. /\ \A n \in gossip' : n \in gossip \/ n \in QueueAdds(m.to, m.entry)
        /\ UNCHANGED <<agent, served, done>>
    BY <1>2 DEF HandleGossip, HandleNewRequest, HandleQueueAdd, HandleQueueUpdate, LoseGossip,
       droneVars
  <2> QED BY <1>1, <2>2, <2>3
<1>3. ASSUME NEW g \in Attempt, Goroutine(g)
      PROVE  NewsUnlocked' /\ DoneMeansServed'
  <2>1. CASE ConfirmDispatch(g)
    <3> DEFINE e == [job[g].entry EXCEPT !.status = "ASSIGNED", !.assigned = job[g].drone]
    <3>1. att[g].base \in Base /\ job[g].entry \in Entry /\ job[g].drone \in Drone
      BY <2>1 DEF ConfirmDispatch, LockConfirm, TypeOK, JobsMatch
    <3>2. e \in Entry /\ e.status = "ASSIGNED"
      BY <3>1, AnnouncedType
    <3> HIDE DEF e
    <3>3. \A n \in QueueUpdates(att[g].base, e) : Harmless(n)
      BY <3>1, <3>2, QueueUpdatesType DEF Harmless
    <3>4. gossip' = gossip \cup QueueUpdates(att[g].base, e) /\ UNCHANGED <<agent, served, done>>
      BY <2>1 DEF ConfirmDispatch, droneVars, e
    <3> QED BY <1>1, <3>3, <3>4
  <2>2. CASE Acquiring(g) \/ SendDispatch(g) \/ DispatchFails(g) \/ Requeue(g)
    BY <1>1, <2>2 DEF Acquiring, SendDispatch, DispatchFails, Requeue, droneVars
  <2> QED BY <1>3, <2>1, <2>2 DEF Goroutine
<1>4. ASSUME NEW x \in done, HandleMissionDone(x)
      PROVE  NewsUnlocked' /\ DoneMeansServed'
  <2> DEFINE e == [id |-> x.req, status |-> "DONE", assigned |-> x.drone, rescued |-> FALSE]
  <2>1. x.base \in Base /\ x.drone \in Drone /\ x.req \in Request /\ x.req \in served
    BY DEF DispatchTypeOK, DoneMeansServed
  <2>2. e \in Entry /\ e.id = x.req /\ e.status = "DONE"
    BY <2>1, DoneEntryType
  <2> HIDE DEF e
  <2>3. \A n \in QueueUpdates(x.base, e) : Harmless(n)
    BY <2>1, <2>2, QueueUpdatesType DEF Harmless
  <2>4. /\ gossip' = gossip \cup QueueUpdates(x.base, e)
        /\ UNCHANGED <<agent, served>> /\ done' \subseteq done
    BY <1>4 DEF HandleMissionDone, e
  <2> QED BY <1>1, <2>3, <2>4
<1>5. ASSUME NEW b \in Base, HealthCheck(b)
      PROVE  NewsUnlocked' /\ DoneMeansServed'
  <2>1. ASSUME NEW e \in rescue[b], RescueMission(b, e)
        PROVE  NewsUnlocked' /\ DoneMeansServed'
    <3> DEFINE f == [e EXCEPT !.status = "PENDING", !.assigned = None, !.rescued = TRUE]
    <3>1. e \in Entry
      BY DEF DispatchTypeOK
    <3>2. f \in Entry /\ f.status = "PENDING"
      BY <3>1 DEF Entry, Status
    <3> HIDE DEF f
    <3>3. \A n \in QueueUpdates(b, f) : Harmless(n)
      BY <3>2, QueueUpdatesType DEF Harmless
    <3>4. gossip' = gossip \cup QueueUpdates(b, f) /\ UNCHANGED <<agent, served, done>>
      BY <2>1 DEF RescueMission, droneVars, f
    <3> QED BY <1>1, <3>3, <3>4
  <2>2. ASSUME NEW d \in Drone, DetectLost(b, d)
        PROVE  NewsUnlocked' /\ DoneMeansServed'
    BY <1>1, <2>2 DEF DetectLost, droneVars
  <2> QED BY <1>5, <2>1, <2>2 DEF HealthCheck
<1>6. ASSUME NEW m \in radio, TakeDispatch(m) \/ LoseDispatch(m)
      PROVE  NewsUnlocked' /\ DoneMeansServed'
  <2>1. /\ UNCHANGED <<gossip, done, served>>
        /\ \/ UNCHANGED agent
           \/ agent' = [agent EXCEPT ![m.drone] =
                           [phase |-> "flying", att |-> m.att, req |-> m.req]]
    BY <1>6 DEF TakeDispatch, LoseDispatch
  <2>2. agent \in [Drone -> Agent]
    BY DEF DispatchTypeOK
  <2>3. \A d \in Drone : agent'[d].phase \in {"reporting", "reported"} =>
            agent'[d] = agent[d]
    BY <2>1, <2>2
  <2> QED BY <2>1, <2>3 DEF NewsUnlocked, DoneMeansServed
<1>7. ASSUME NEW c \in Drone,
             FinishMission(c) \/ ReportReceived(c) \/ ReportAnswered(c) \/ ReportLost(c)
                \/ DroneDies(c) \/ DroneReturns(c)
      PROVE  NewsUnlocked' /\ DoneMeansServed'
  <2>0. agent \in [Drone -> Agent]
    BY DEF DispatchTypeOK
  <2>1. gossip' = gossip /\ served \subseteq served'
    BY <1>7 DEF FinishMission, ReportReceived, ReportAnswered, ReportLost, DroneDies, DroneReturns
  <2>2. \A x \in done' : x.req \in served
    BY <1>7 DEF FinishMission, ReportReceived, ReportAnswered, ReportLost, DroneDies,
       DroneReturns, DoneMeansServed
  <2>3. FreeDrone.phase = "free" /\ DeadDrone.phase = "dead"
    BY DEF FreeDrone, DeadDrone
  <2>4. ASSUME NEW d \in Drone, agent'[d].phase \in {"reporting", "reported"}
        PROVE  agent'[d].req \in served'
    <3>1. CASE FinishMission(c)
      BY <2>0, <2>1, <2>4, <3>1 DEF FinishMission, DoneMeansServed, Agent
    <3>2. CASE ReportReceived(c) \/ ReportAnswered(c)
      BY <2>0, <2>1, <2>3, <2>4, <3>2 DEF ReportReceived, ReportAnswered, DoneMeansServed, Agent
    <3>3. CASE ReportLost(c) \/ DroneDies(c) \/ DroneReturns(c)
      BY <2>0, <2>1, <2>3, <2>4, <3>3 DEF ReportLost, DroneDies, DroneReturns, DoneMeansServed
    <3> QED BY <1>7, <3>1, <3>2, <3>3
  <2> QED BY <2>1, <2>2, <2>4 DEF NewsUnlocked, DoneMeansServed
<1>8. CASE \/ HandleLockMessage \/ DisturbLocks \/ UNCHANGED vars
           \/ \E b \in Base, p \in Base : HearPeer(b, p)
           \/ \E b \in Base : Dispatcher(b)
           \/ \E b \in Base, d \in Drone : Heartbeat(b, d)
  <2>1. UNCHANGED <<gossip, agent, done, served>>
    BY <1>8 DEF HandleLockMessage, DisturbLocks, HearPeer, Dispatcher, PickMission, Reserve,
       Heartbeat, droneVars, vars
  <2> QED BY <1>1, <2>1
<1> QED BY <1>2, <1>3, <1>4, <1>5, <1>6, <1>7, <1>8 DEF Next

-----------------------------------------------------------------------------
(* The queues.                                                             *)

\* What a step of a base may make of its queue q.
QueueStep(q, p) ==
    \/ \E e \in Entry : /\ e.status # "LOCKED"
                        /\ \/ p = Push(q, e)
                           \/ p = Replace(q, e)
                           \/ e.id \in served /\ p = Remove(Replace(q, e), e.id)
    \/ \E r \in Request, s \in Status, d \in Drone \cup {None} : p = UpdateStatus(q, r, s, d)
    \/ \E r \in served, d \in Drone : p = Remove(UpdateStatus(q, r, "DONE", d), r)
    \/ \E d \in Drone : p = ClearDroneAssignments(q, d)

\* One base changes its queue at a time, and in one of these ways.
LEMMA QueueMoves ==
    ASSUME TypeOK, DispatchTypeOK, JobsMatch, NewsUnlocked, DoneMeansServed, [Next]_vars
    PROVE  \/ UNCHANGED queue
           \/ /\ UNCHANGED served
              /\ \E b \in Base : \E p : /\ queue' = [queue EXCEPT ![b] = p]
                                        /\ QueueStep(queue[b], p)
<1> DEFINE Goal == \/ UNCHANGED queue
                   \/ /\ UNCHANGED served
                      /\ \E b \in Base : \E p : /\ queue' = [queue EXCEPT ![b] = p]
                                                /\ QueueStep(queue[b], p)
<1>1. ASSUME NEW m \in gossip, HandleGossip(m)
      PROVE  Goal
  <2>1. m.to \in Base /\ m.entry \in Entry /\ m.entry.status # "LOCKED"
    BY DEF DispatchTypeOK, GossipMessage, NewsUnlocked
  <2>2. CASE HandleNewRequest(m) \/ HandleQueueAdd(m)
    BY <2>1, <2>2 DEF HandleNewRequest, HandleQueueAdd, QueueStep, droneVars
  <2>3. CASE HandleQueueUpdate(m)
    <3>1. m.entry.status = "DONE" => m.entry.id \in served
      BY <2>3 DEF HandleQueueUpdate, DoneMeansServed
    <3> QED BY <2>1, <2>3, <3>1 DEF HandleQueueUpdate, QueueStep, droneVars
  <2> QED BY <1>1, <2>2, <2>3 DEF HandleGossip
<1>2. ASSUME NEW b \in Base, Dispatcher(b)
      PROVE  Goal
  <2>1. ASSUME NEW g \in Attempt, Reserve(b, g)
        PROVE  Goal
    <3>1. picked[b].entry.id \in Request /\ picked[b].drone \in Drone
      BY <2>1 DEF Reserve, DispatchTypeOK, Entry
    <3> QED BY <2>1, <3>1 DEF Reserve, QueueStep, droneVars, Status
  <2> QED BY <1>2, <2>1 DEF Dispatcher, PickMission
<1>3. ASSUME NEW g \in Attempt, Goroutine(g)
      PROVE  Goal
  <2>1. CASE ConfirmDispatch(g)
    <3>1. /\ att[g].base \in Base /\ job[g].entry \in Entry /\ job[g].drone \in Drone
          /\ job[g].entry.id \in Request
      BY <2>1 DEF ConfirmDispatch, LockConfirm, TypeOK, JobsMatch, Entry
    <3>2. queue' = [queue EXCEPT ![att[g].base] =
                       UpdateStatus(queue[att[g].base], job[g].entry.id, "ASSIGNED", job[g].drone)]
      BY <2>1, <3>1, AnnouncedType DEF ConfirmDispatch
    <3>3. UNCHANGED served
      BY <2>1 DEF ConfirmDispatch, droneVars
    <3> QED BY <3>1, <3>2, <3>3 DEF QueueStep, Status
  <2>2. CASE Requeue(g)
    <3>1. att[g].base \in Base /\ att[g].req \in Request
      BY <2>2 DEF Requeue, LockRequeue, TypeOK
    <3> QED BY <2>2, <3>1 DEF Requeue, QueueStep, droneVars, Status
  <2>3. CASE Acquiring(g) \/ SendDispatch(g) \/ DispatchFails(g)
    BY <2>3 DEF Acquiring, SendDispatch, DispatchFails, baseVars
  <2> QED BY <1>3, <2>1, <2>2, <2>3 DEF Goroutine
<1>4. ASSUME NEW x \in done, HandleMissionDone(x)
      PROVE  Goal
  <2>1. x.base \in Base /\ x.drone \in Drone /\ x.req \in served
    BY DEF DispatchTypeOK, DoneMeansServed
  <2> QED BY <1>4, <2>1 DEF HandleMissionDone, QueueStep
<1>5. ASSUME NEW b \in Base, HealthCheck(b)
      PROVE  Goal
  <2>1. ASSUME NEW e \in rescue[b], RescueMission(b, e)
        PROVE  Goal
    <3> DEFINE f == [e EXCEPT !.status = "PENDING", !.assigned = None, !.rescued = TRUE]
    <3>1. e \in Entry
      BY DEF DispatchTypeOK
    <3>2. f \in Entry /\ f.status # "LOCKED"
      BY <3>1 DEF Entry, Status
    <3> HIDE DEF f
    <3>3. queue' = [queue EXCEPT ![b] = Replace(queue[b], f)] /\ UNCHANGED served
      BY <2>1 DEF RescueMission, droneVars, f
    <3> QED BY <3>2, <3>3 DEF QueueStep
  <2> QED BY <1>5, <2>1 DEF HealthCheck, DetectLost
<1>6. CASE \/ HandleLockMessage \/ DisturbLocks \/ UNCHANGED vars
           \/ \E b \in Base, p \in Base : HearPeer(b, p)
           \/ \E b \in Base, d \in Drone : Heartbeat(b, d)
           \/ \E m \in gossip : LoseGossip(m)
           \/ \E m \in radio : TakeDispatch(m) \/ LoseDispatch(m)
           \/ \E d \in Drone : \/ FinishMission(d) \/ ReportReceived(d) \/ ReportAnswered(d)
                               \/ ReportLost(d) \/ DroneDies(d)
  BY <1>6 DEF HandleLockMessage, DisturbLocks, HearPeer, Heartbeat, LoseGossip, TakeDispatch,
     LoseDispatch, FinishMission, ReportReceived, ReportAnswered, ReportLost, DroneDies,
     baseVars, vars
<1>7. ASSUME NEW d \in Drone, DroneReturns(d)
      PROVE  Goal
  BY <1>7, HomeAssumption DEF DroneReturns, QueueStep
<1> QED BY <1>1, <1>2, <1>3, <1>4, <1>5, <1>6, <1>7 DEF Next

\* Each of these ways keeps a queue well formed.
LEMMA QueueStepWellFormed ==
    ASSUME DispatchTypeOK, NEW q \in Queue, NEW p, QueueStep(q, p), WellFormed(q)
    PROVE  WellFormed(p)
<1>1. ASSUME NEW e \in Entry,
             p = Push(q, e) \/ p = Replace(q, e) \/ p = Remove(Replace(q, e), e.id)
      PROVE  WellFormed(p)
  BY <1>1, PushWellFormed, ReplaceWellFormed, ReplaceType, RemoveWellFormed
<1>2. ASSUME NEW r \in Request, NEW s \in Status, NEW d \in Drone \cup {None},
             p = UpdateStatus(q, r, s, d) \/ p = Remove(UpdateStatus(q, r, s, d), r)
      PROVE  WellFormed(p)
  BY <1>2, UpdateStatusWellFormed, UpdateStatusType, RemoveWellFormed
<1>3. "DONE" \in Status /\ served \subseteq Request
  BY DEF Status, DispatchTypeOK
<1> QED BY <1>1, <1>2, <1>3, ClearWellFormed DEF QueueStep

\* Every step keeps every queue well formed.
LEMMA QueuesStep ==
    TypeOK /\ DispatchTypeOK /\ JobsMatch /\ NewsUnlocked /\ DoneMeansServed
      /\ QueuesWellFormed /\ [Next]_vars => QueuesWellFormed'
<1> SUFFICES ASSUME TypeOK, DispatchTypeOK, JobsMatch, NewsUnlocked, DoneMeansServed,
                    QueuesWellFormed, [Next]_vars
             PROVE  QueuesWellFormed'
  OBVIOUS
<1>1. CASE UNCHANGED queue
  BY <1>1 DEF QueuesWellFormed, WellFormed
<1>2. ASSUME NEW b \in Base, NEW p, queue' = [queue EXCEPT ![b] = p], QueueStep(queue[b], p)
      PROVE  QueuesWellFormed'
  <2>1. queue \in [Base -> Queue] /\ queue[b] \in Queue
    BY DEF DispatchTypeOK
  <2>2. WellFormed(p)
    BY <1>2, <2>1, QueueStepWellFormed DEF QueuesWellFormed
  <2> QED BY <1>2, <2>1, <2>2 DEF QueuesWellFormed
<1> QED BY <1>1, <1>2, QueueMoves

-----------------------------------------------------------------------------
(* Entries that are LOCKED.                                                *)

\* No step leaves an entry LOCKED without a goroutine that will move it.
LEMMA LockedStep ==
    TypeOK /\ DispatchTypeOK /\ JobsMatch /\ NewsUnlocked /\ LockedBacked /\ [Next]_vars
        => LockedBacked'
<1> SUFFICES ASSUME TypeOK, DispatchTypeOK, JobsMatch, NewsUnlocked, LockedBacked, [Next]_vars
             PROVE  LockedBacked'
  OBVIOUS
<1> DEFINE WorksOn(g, b, r) == att[g].base = b /\ att[g].req = r /\ Working(g)
           NothingLocked == \A b \in Base : \A x \in queue'[b].heap :
                                x.status = "LOCKED" => x \in queue[b].heap
<1>0. /\ queue \in [Base -> Queue]
      /\ att \in [Attempt -> AttemptState]
      /\ \A b \in Base : queue[b] \in Queue
  BY DEF TypeOK, DispatchTypeOK
<1>1. \A b \in Base : \A x \in queue[b].heap : x.status = "LOCKED" =>
          \E g \in Attempt : WorksOn(g, b, x.id)
  BY DEF LockedBacked, Working
<1>2. ASSUME SteadyStep, NothingLocked
      PROVE  LockedBacked'
  BY <1>1, <1>2, Steady DEF LockedBacked, Working
<1>3. ASSUME NEW g \in Attempt, NEW s \in AttemptState, att' = [att EXCEPT ![g] = s],
             \A b \in Base : \A x \in queue'[b].heap : x.status = "LOCKED" =>
                 \/ x \in queue[b].heap /\ ~WorksOn(g, b, x.id)
                 \/ /\ s.base = b /\ s.req = x.id
                    /\ s.pc \in {"trying", "asking", "acquired", "requeue"}
      PROVE  LockedBacked'
  <2> SUFFICES ASSUME NEW b \in Base, NEW x \in queue'[b].heap, x.status = "LOCKED"
               PROVE  \E h \in Attempt :
                         /\ att'[h].base = b /\ att'[h].req = x.id
                         /\ att'[h].pc \in {"trying", "asking", "acquired", "requeue"}
    BY DEF LockedBacked
  <2>1. CASE x \in queue[b].heap /\ ~WorksOn(g, b, x.id)
    <3>1. PICK h \in Attempt : WorksOn(h, b, x.id)
      BY <1>1, <2>1
    <3>2. att'[h] = att[h]
      BY <1>0, <1>3, <2>1, <3>1
    <3> QED BY <3>1, <3>2 DEF Working
  <2>2. CASE /\ s.base = b /\ s.req = x.id
             /\ s.pc \in {"trying", "asking", "acquired", "requeue"}
    <3>1. att'[g] = s
      BY <1>0, <1>3
    <3> QED BY <2>2, <3>1
  <2> QED BY <1>3, <2>1, <2>2
<1>4. ASSUME NEW m \in gossip, HandleGossip(m)
      PROVE  LockedBacked'
  <2>1. m.to \in Base /\ m.entry \in Entry /\ m.entry.status # "LOCKED"
    BY DEF DispatchTypeOK, GossipMessage, NewsUnlocked
  <2>2. Replace(queue[m.to], m.entry) \in Queue
    BY <1>0, <2>1, ReplaceType
  <2>3. \/ queue' = [queue EXCEPT ![m.to] = Push(queue[m.to], m.entry)]
        \/ queue' = [queue EXCEPT ![m.to] = Replace(queue[m.to], m.entry)]
        \/ queue' = [queue EXCEPT ![m.to] =
                        Remove(Replace(queue[m.to], m.entry), m.entry.id)]
    BY <1>4 DEF HandleGossip, HandleNewRequest, HandleQueueAdd, HandleQueueUpdate
  <2>4. NothingLocked
    BY <1>0, <2>1, <2>2, <2>3, PushLocksNothing, ReplaceLocksNothing, RemoveAddsNothing
  <2> QED BY <1>2, <1>4, <2>4, SteadySteps
<1>5. ASSUME NEW b \in Base, NEW g \in Attempt, Reserve(b, g)
      PROVE  LockedBacked'
  <2> DEFINE r == picked[b].entry.id
  <2>1. /\ r \in Request
        /\ att[g].pc = "idle"
        /\ att' = [att EXCEPT ![g] = Started(b, r)]
        /\ queue' = [queue EXCEPT ![b] = UpdateStatus(queue[b], r, "LOCKED", picked[b].drone)]
    BY <1>5 DEF Reserve, Spawn, DispatchTypeOK, Entry
  <2>2. /\ Started(b, r) \in AttemptState /\ Started(b, r).pc = "trying"
        /\ Started(b, r).base = b /\ Started(b, r).req = r
    BY <2>1, StartedType DEF Started
  <2>3. \A x \in queue'[b].heap : x.status = "LOCKED" => x \in queue[b].heap \/ x.id = r
    BY <1>0, <2>1, UpdateStatusLocks
  <2>4. \A c \in Base : c # b => queue'[c] = queue[c]
    BY <1>0, <2>1
  <2> HIDE DEF r
  <2>5. \A c, y : ~WorksOn(g, c, y)
    BY <2>1 DEF Working
  <2>6. \A c \in Base : \A x \in queue'[c].heap : x.status = "LOCKED" =>
            x \in queue[c].heap \/ (c = b /\ x.id = r)
    BY <2>3, <2>4
  <2> QED BY <1>3, <2>1, <2>2, <2>5, <2>6
<1>6. ASSUME NEW g \in Attempt, Goroutine(g)
      PROVE  LockedBacked'
  <2>1. CASE Acquiring(g) \/ SendDispatch(g) \/ DispatchFails(g)
    <3>1. SteadyStep /\ UNCHANGED queue
      BY <2>1 DEF Acquiring, SendDispatch, DispatchFails, SteadyStep, baseVars
    <3> QED BY <1>2, <3>1
  <2>2. CASE ConfirmDispatch(g)
    <3>1. /\ att[g].base \in Base /\ job[g].entry \in Entry /\ job[g].drone \in Drone
          /\ job[g].entry.id = att[g].req
      BY <2>2 DEF ConfirmDispatch, LockConfirm, TypeOK, JobsMatch
    <3>2. queue' = [queue EXCEPT ![att[g].base] =
                       UpdateStatus(queue[att[g].base], att[g].req, "ASSIGNED", job[g].drone)]
      BY <2>2, <3>1, AnnouncedType DEF ConfirmDispatch
    <3>3. \A x \in queue'[att[g].base].heap : x.status = "LOCKED" =>
              x \in queue[att[g].base].heap /\ x.id # att[g].req
      BY <1>0, <3>1, <3>2, UpdateStatusLocks
    <3>4. \A c \in Base : c # att[g].base => queue'[c] = queue[c]
      BY <1>0, <3>1, <3>2
    <3>5. att' = [att EXCEPT ![g] = [att[g] EXCEPT !.pc = "assigned"]]
      BY <2>2 DEF ConfirmDispatch, LockConfirm
    <3>6. [att[g] EXCEPT !.pc = "assigned"] \in AttemptState
      BY <1>0, MoveType DEF Phase
    <3> QED BY <1>3, <3>3, <3>4, <3>5, <3>6
  <2>3. CASE Requeue(g)
    <3>1. att[g].base \in Base /\ att' = [att EXCEPT ![g] = Idle]
      BY <2>3 DEF Requeue, LockRequeue, TypeOK
    <3>2. queue' = [queue EXCEPT ![att[g].base] =
                       UpdateStatus(queue[att[g].base], att[g].req, "PENDING", None)]
      BY <2>3 DEF Requeue
    <3>3. \A x \in queue'[att[g].base].heap : x.status = "LOCKED" =>
              x \in queue[att[g].base].heap /\ x.id # att[g].req
      BY <1>0, <3>1, <3>2, UpdateStatusLocks
    <3>4. \A c \in Base : c # att[g].base => queue'[c] = queue[c]
      BY <1>0, <3>1, <3>2
    <3> QED BY <1>3, <3>1, <3>3, <3>4, IdleType
  <2> QED BY <1>6, <2>1, <2>2, <2>3 DEF Goroutine
<1>7. ASSUME NothingLocked,
             \/ SteadyStep
             \/ \E g \in Attempt : att[g].pc = "assigned" /\ att' = [att EXCEPT ![g] = Idle]
      PROVE  LockedBacked'
  <2>1. ASSUME NEW g \in Attempt, att[g].pc = "assigned", att' = [att EXCEPT ![g] = Idle]
        PROVE  LockedBacked'
    BY <1>3, <1>7, <2>1, IdleType DEF Working
  <2> QED BY <1>2, <1>7, <2>1
<1>8. ASSUME NEW x \in done, HandleMissionDone(x)
      PROVE  LockedBacked'
  <2>1. x.base \in Base /\ x.drone \in Drone /\ x.req \in Request
    BY DEF DispatchTypeOK
  <2> DEFINE q == UpdateStatus(queue[x.base], x.req, "DONE", x.drone)
  <2>2. q \in Queue
    BY <1>0, <2>1, UpdateStatusType DEF Status
  <2>3. \A y \in q.heap : y.status = "LOCKED" => y \in queue[x.base].heap
    BY <1>0, <2>1, UpdateStatusLocks
  <2> HIDE DEF q
  <2>4. queue' = [queue EXCEPT ![x.base] = Remove(q, x.req)]
    BY <1>8 DEF HandleMissionDone, q
  <2>5. NothingLocked
    BY <1>0, <2>2, <2>3, <2>4, RemoveAddsNothing
  <2> QED BY <1>7, <1>8, <2>5, MissionDoneAttempt
<1>9. ASSUME NEW b \in Base, NEW e \in rescue[b], RescueMission(b, e)
      PROVE  LockedBacked'
  <2> DEFINE f == [e EXCEPT !.status = "PENDING", !.assigned = None, !.rescued = TRUE]
  <2>1. e \in Entry
    BY DEF DispatchTypeOK
  <2>2. f \in Entry /\ f.status # "LOCKED"
    BY <2>1 DEF Entry, Status
  <2> HIDE DEF f
  <2>3. queue' = [queue EXCEPT ![b] = Replace(queue[b], f)]
    BY <1>9 DEF RescueMission, f
  <2>4. NothingLocked
    BY <1>0, <2>2, <2>3, ReplaceLocksNothing
  <2> QED BY <1>7, <1>9, <2>4, RescueAttempt
<1>10. CASE \/ HandleLockMessage \/ DisturbLocks \/ UNCHANGED vars
            \/ \E b \in Base, p \in Base : HearPeer(b, p)
            \/ \E b \in Base, d \in Drone : \/ Heartbeat(b, d) \/ DetectLost(b, d)
                                            \/ \E e \in queue[b].heap : PickMission(b, e, d)
            \/ \E m \in gossip : LoseGossip(m)
            \/ \E m \in radio : TakeDispatch(m) \/ LoseDispatch(m)
            \/ \E d \in Drone : \/ FinishMission(d) \/ ReportReceived(d) \/ ReportAnswered(d)
                                \/ ReportLost(d) \/ DroneDies(d)
  <2>1. UNCHANGED queue
    BY <1>10 DEF HandleLockMessage, DisturbLocks, HearPeer, Heartbeat, DetectLost, PickMission,
       LoseGossip, TakeDispatch, LoseDispatch, FinishMission, ReportReceived, ReportAnswered,
       ReportLost, DroneDies, baseVars, vars
  <2>2. (\E m \in radio : TakeDispatch(m)) => SteadyStep
    BY DEF TakeDispatch, SteadyStep
  <2> QED BY <1>2, <1>10, <2>1, <2>2, SteadySteps
<1>11. ASSUME NEW d \in Drone, DroneReturns(d)
       PROVE  LockedBacked'
  <2>1. NothingLocked
    BY <1>0, <1>11, HomeAssumption, ClearLocksNothing DEF DroneReturns
  <2> QED BY <1>2, <1>11, <2>1, SteadySteps
<1> QED BY <1>4, <1>5, <1>6, <1>8, <1>9, <1>10, <1>11 DEF Next, Dispatcher, HealthCheck

-----------------------------------------------------------------------------
(* The invariant.                                                          *)

\* The invariant holds at the start.
LEMMA DispatchInvInit == Init => DispatchInv
<1> SUFFICES ASSUME Init PROVE DispatchInv
  OBVIOUS
<1>1. TypeOK /\ DispatchTypeOK
  BY DispatchTypeInit
<1>2. QueuesWellFormed /\ LockedBacked
  BY EmptyQueueWellFormed DEF Init, QueuesWellFormed, LockedBacked, EmptyQueue
<1>3. JobsMatch /\ AgentsMatch
  BY IdleType DEF Init, StableInit, JobsMatch, AgentsMatch, FreeDrone
<1>4. NewsUnlocked
  BY NewRequestType DEF Init, NewsUnlocked
<1>5. \A m \in gossip : m.type = "NEW_REQUEST"
  BY NewRequestType DEF Init
<1>6. DoneMeansServed
  BY <1>5 DEF Init, DoneMeansServed, FreeDrone
<1> QED BY <1>1, <1>2, <1>3, <1>4, <1>6 DEF DispatchInv

\* Every step keeps it.
LEMMA DispatchInvStep == DispatchInv /\ [Next]_vars => DispatchInv'
<1>1. DispatchInv /\ [Next]_vars => TypeOK' /\ DispatchTypeOK'
  BY DispatchTypeStep DEF DispatchInv
<1>2. DispatchInv /\ [Next]_vars => JobsMatch' /\ AgentsMatch'
  BY JobsStep, AgentsStep DEF DispatchInv
<1>3. DispatchInv /\ [Next]_vars => NewsUnlocked' /\ DoneMeansServed'
  BY NewsStep DEF DispatchInv
<1>4. DispatchInv /\ [Next]_vars => QueuesWellFormed' /\ LockedBacked'
  BY QueuesStep, LockedStep DEF DispatchInv
<1> QED BY <1>1, <1>2, <1>3, <1>4 DEF DispatchInv

\* Whatever is lost, late or repeated, and whichever drones die: goroutines,
\* drones, queues and messages agree as the handlers of cmd/base and cmd/drone
\* take for granted.
THEOREM DispatchInvariant == Spec => []DispatchInv
  BY DispatchInvInit, DispatchInvStep, PTL DEF Spec

\* No request is twice in a queue, and none is there that the queue has not
\* marked as seen (queue.go:52-160).
THEOREM WellFormedQueues == Spec => []QueuesWellFormed
<1>1. DispatchInv => QueuesWellFormed
  BY DEF DispatchInv
<1> QED BY <1>1, DispatchInvariant, PTL

\* No request stays LOCKED without a goroutine that will move it: each way
\* out of tryDispatch (dispatcher.go:36-73) marks the request again.
THEOREM NothingStaysLocked == Spec => []LockedBacked
<1>1. DispatchInv => LockedBacked
  BY DEF DispatchInv
<1> QED BY <1>1, DispatchInvariant, PTL

-----------------------------------------------------------------------------
(* The lock protocol is implemented.                                       *)

\* Dispatcher, handlers and rescue use the lock as LockProtocol says.
THEOREM RefinesLock == Spec => ImplementsLock
<1>1. Init => StableInit
  BY DEF Init
<1>2. DispatchInv /\ [Next]_vars => [LockNext]_lockVars
  BY LockSimulation DEF DispatchInv
<1> QED BY <1>1, <1>2, DispatchInvariant, PTL DEF Spec, ImplementsLock

\* So whenever two goroutines have the same request past acquireLock, a
\* release has deleted a live lock, or neither had asked the other's base.
THEOREM DispatchExclusive == Spec => []ExclusiveUnlessClobbered
<1>1. StableInit => LockInv
  BY InvInit
<1>2. LockInv /\ [LockNext]_lockVars => LockInv'
  BY InvStep
<1>3. LockInv => ExclusiveUnlessClobbered
  BY Exclusion
<1> QED BY <1>1, <1>2, <1>3, RefinesLock, PTL DEF ImplementsLock

-----------------------------------------------------------------------------
(* The promise of RequestLifecycle is kept.                                *)

StageOf(q, r) == IF r \notin q.seen THEN "unknown"
                 ELSE IF r \in Ids(q) THEN "queued"
                 ELSE "gone"

\* The board shows of every request how it stands in every queue.
LEMMA BoardShows ==
    /\ Board = [b \in Base |-> [r \in Request |-> StageOf(queue[b], r)]]
    /\ Board' = [b \in Base |-> [r \in Request |-> StageOf(queue'[b], r)]]
BY DEF Board, StageOf, Ids

\* One request moves on the board of one base.
LEMMA BoardMove ==
    ASSUME NEW b \in Base, NEW r \in Request, NEW s,
           \A c \in Base, x \in Request :
              StageOf(queue'[c], x) = IF c = b /\ x = r THEN s ELSE StageOf(queue[c], x)
    PROVE  Board' = [Board EXCEPT ![b][r] = s]
<1> DEFINE F == [c \in Base |-> [x \in Request |->
                    IF c = b /\ x = r THEN s ELSE StageOf(queue[c], x)]]
<1>1. Board' = F
  BY BoardShows
<1>2. [Board EXCEPT ![b][r] = s] = F
  <2>1. ASSUME NEW c \in Base
        PROVE  [Board EXCEPT ![b][r] = s][c] = F[c]
    <3>1. CASE c = b
      <4>1. [Board EXCEPT ![b][r] = s][c] = [Board[b] EXCEPT ![r] = s]
        BY <3>1, BoardShows
      <4>2. Board[b] = [x \in Request |-> StageOf(queue[b], x)]
        BY BoardShows
      <4> QED BY <3>1, <4>1, <4>2
    <3>2. CASE c # b
      BY <3>2, BoardShows
    <3> QED BY <3>1, <3>2
  <2> HIDE DEF F
  <2>2. DOMAIN [Board EXCEPT ![b][r] = s] = Base
    BY BoardShows
  <2>3. F = [c \in Base |-> F[c]]
    BY DEF F
  <2>4. [Board EXCEPT ![b][r] = s] = [c \in Base |-> [Board EXCEPT ![b][r] = s][c]]
    BY BoardShows
  <2> QED BY <2>1, <2>3, <2>4
<1> QED BY <1>1, <1>2

\* No request moves.
LEMMA BoardStays ==
    ASSUME \A c \in Base, x \in Request : StageOf(queue'[c], x) = StageOf(queue[c], x)
    PROVE  Board' = Board
BY BoardShows

\* A queue step leaves the stages, takes up an unknown request, or puts away
\* a request that was served.
LEMMA QueueStepStages ==
    ASSUME DispatchTypeOK, NEW q \in Queue, NEW p, QueueStep(q, p)
    PROVE  \/ \A x \in Request : StageOf(p, x) = StageOf(q, x)
           \/ \E r \in Request :
                 /\ StageOf(q, r) = "unknown"
                 /\ \A x \in Request :
                       StageOf(p, x) = IF x = r THEN "queued" ELSE StageOf(q, x)
           \/ \E r \in served :
                 /\ StageOf(q, r) # "gone"
                 /\ \A x \in Request :
                       StageOf(p, x) = IF x = r THEN "gone" ELSE StageOf(q, x)
<1> DEFINE Goal == \/ \A x \in Request : StageOf(p, x) = StageOf(q, x)
                   \/ \E r \in Request :
                         /\ StageOf(q, r) = "unknown"
                         /\ \A x \in Request :
                               StageOf(p, x) = IF x = r THEN "queued" ELSE StageOf(q, x)
                   \/ \E r \in served :
                         /\ StageOf(q, r) # "gone"
                         /\ \A x \in Request :
                               StageOf(p, x) = IF x = r THEN "gone" ELSE StageOf(q, x)
<1>1. ASSUME NEW e \in Entry, p = Push(q, e) \/ p = Replace(q, e)
      PROVE  Goal
  <2>1. e.id \in Request
    BY DEF Entry
  <2>2. /\ p.seen = q.seen \cup {e.id}
        /\ Ids(p) = IF e.id \in q.seen THEN Ids(q) ELSE Ids(q) \cup {e.id}
    BY <1>1, PushIds, ReplaceIds
  <2> QED BY <2>1, <2>2 DEF StageOf
<1>2. ASSUME NEW e \in Entry, e.id \in served, p = Remove(Replace(q, e), e.id)
      PROVE  Goal
  <2>1. /\ p.seen = q.seen \cup {e.id}
        /\ Ids(p) = (IF e.id \in q.seen THEN Ids(q) ELSE Ids(q) \cup {e.id}) \ {e.id}
    BY <1>2, ReplaceIds, ReplaceType, RemoveIds
  <2> QED BY <1>2, <2>1 DEF StageOf
<1>3. ASSUME NEW r \in Request, NEW s \in Status, NEW d \in Drone \cup {None},
             p = UpdateStatus(q, r, s, d)
      PROVE  Goal
  BY <1>3, UpdateStatusIds DEF StageOf
<1>4. ASSUME NEW r \in served, NEW d \in Drone, p = Remove(UpdateStatus(q, r, "DONE", d), r)
      PROVE  Goal
  <2>1. UpdateStatus(q, r, "DONE", d) \in Queue
    BY UpdateStatusType DEF Status
  <2>2. p.seen = q.seen /\ Ids(p) = Ids(q) \ {r}
    BY <1>4, <2>1, UpdateStatusIds, RemoveIds
  <2> QED BY <1>4, <2>2 DEF StageOf
<1>5. ASSUME NEW d \in Drone, p = ClearDroneAssignments(q, d)
      PROVE  Goal
  BY <1>5, ClearIds DEF StageOf
<1> QED BY <1>1, <1>2, <1>3, <1>4, <1>5 DEF QueueStep

\* Only the end of a flight adds to what has been served.
LEMMA ServedMoves ==
    ASSUME DispatchTypeOK, AgentsMatch, [Next]_vars
    PROVE  \/ UNCHANGED served
           \/ UNCHANGED queue /\ \E r \in Request : served' = served \cup {r}
<1>1. ASSUME NEW d \in Drone, FinishMission(d)
      PROVE  UNCHANGED queue /\ \E r \in Request : served' = served \cup {r}
  BY <1>1 DEF FinishMission, AgentsMatch, baseVars
<1>2. ASSUME NEW d \in Drone,
             ReportReceived(d) \/ ReportAnswered(d) \/ ReportLost(d) \/ DroneDies(d)
                \/ DroneReturns(d)
      PROVE  UNCHANGED served
  BY <1>2 DEF ReportReceived, ReportAnswered, ReportLost, DroneDies, DroneReturns
<1>3. ASSUME NEW m \in gossip, HandleGossip(m) \/ LoseGossip(m)
      PROVE  UNCHANGED served
  BY <1>3 DEF HandleGossip, HandleNewRequest, HandleQueueAdd, HandleQueueUpdate, LoseGossip,
     droneVars
<1>4. ASSUME NEW g \in Attempt, Goroutine(g)
      PROVE  UNCHANGED served
  BY <1>4 DEF Goroutine, Acquiring, SendDispatch, DispatchFails, ConfirmDispatch, Requeue,
     droneVars
<1>5. ASSUME NEW b \in Base, Dispatcher(b) \/ HealthCheck(b) \/ \E c \in Drone : Heartbeat(b, c)
      PROVE  UNCHANGED served
  BY <1>5 DEF Dispatcher, PickMission, Reserve, HealthCheck, DetectLost, RescueMission, Heartbeat,
     droneVars
<1>6. ASSUME \/ HandleLockMessage \/ DisturbLocks \/ UNCHANGED vars
             \/ \E b \in Base, p \in Base : HearPeer(b, p)
             \/ \E x \in done : HandleMissionDone(x)
             \/ \E m \in radio : TakeDispatch(m) \/ LoseDispatch(m)
      PROVE  UNCHANGED served
  BY <1>6 DEF HandleLockMessage, DisturbLocks, HearPeer, HandleMissionDone, TakeDispatch,
     LoseDispatch, vars, droneVars
<1> QED BY <1>1, <1>2, <1>3, <1>4, <1>5, <1>6 DEF Next

\* Every step maps to a step of RequestLifecycle, or to none.
LEMMA LifecycleSimulation ==
    DispatchInv /\ [Next]_vars => [Lifecycle!Next]_<<Board, served>>
<1> SUFFICES ASSUME DispatchInv, [Next]_vars
             PROVE  [Lifecycle!Next]_<<Board, served>>
  OBVIOUS
<1>1. CASE UNCHANGED queue
  <2>1. Board' = Board
    BY <1>1, BoardStays
  <2>2. UNCHANGED served \/ \E r \in Request : served' = served \cup {r}
    BY ServedMoves DEF DispatchInv
  <2> QED BY <2>1, <2>2 DEF Lifecycle!Next, Lifecycle!Serve
<1>2. ASSUME UNCHANGED served,
             NEW b \in Base, NEW p, queue' = [queue EXCEPT ![b] = p], QueueStep(queue[b], p)
      PROVE  [Lifecycle!Next]_<<Board, served>>
  <2>0. /\ queue \in [Base -> Queue] /\ queue[b] \in Queue /\ DispatchTypeOK
        /\ served \subseteq Request
    BY DEF DispatchInv, DispatchTypeOK
  <2>1. queue'[b] = p /\ \A c \in Base : c # b => queue'[c] = queue[c]
    BY <1>2, <2>0
  <2>2. \A x \in Request : Board[b][x] = StageOf(queue[b], x)
    BY BoardShows
  <2>3. CASE \A x \in Request : StageOf(p, x) = StageOf(queue[b], x)
    BY <1>2, <2>1, <2>3, BoardStays
  <2>4. ASSUME NEW r \in Request, StageOf(queue[b], r) = "unknown",
               \A x \in Request :
                  StageOf(p, x) = IF x = r THEN "queued" ELSE StageOf(queue[b], x)
        PROVE  Lifecycle!Next
    <3>1. Board' = [Board EXCEPT ![b][r] = "queued"]
      BY <2>1, <2>4, BoardMove
    <3> QED BY <1>2, <2>2, <2>4, <3>1 DEF Lifecycle!Next, Lifecycle!Accept
  <2>5. ASSUME NEW r \in served, StageOf(queue[b], r) # "gone",
               \A x \in Request :
                  StageOf(p, x) = IF x = r THEN "gone" ELSE StageOf(queue[b], x)
        PROVE  Lifecycle!Next
    <3>1. r \in Request
      BY <2>0
    <3>2. Board' = [Board EXCEPT ![b][r] = "gone"]
      BY <2>1, <2>5, <3>1, BoardMove
    <3> QED BY <1>2, <2>2, <2>5, <3>1, <3>2 DEF Lifecycle!Next, Lifecycle!Retire
  <2> QED BY <1>2, <2>0, <2>3, <2>4, <2>5, QueueStepStages
<1> QED BY <1>1, <1>2, QueueMoves DEF DispatchInv

\* A base that has put a request away never takes it up again, and puts it
\* away only once a drone has flown it, whatever is lost, late or repeated
\* (queue.go:52-80 and 144-160, servers.go:71-109, drone_handler.go:39-59).
THEOREM KeepsPromise == Spec => ImplementsLifecycle
<1>1. Init => Lifecycle!Init
  <2> SUFFICES ASSUME Init PROVE Lifecycle!Init
    OBVIOUS
  <2>1. \A b \in Base : queue[b] = EmptyQueue
    BY DEF Init
  <2>2. Board = [b \in Base |-> [r \in Request |-> "unknown"]]
    BY <2>1, BoardShows DEF StageOf, EmptyQueue
  <2> QED BY <2>2 DEF Init, Lifecycle!Init
<1>2. DispatchInv /\ [Next]_vars => [Lifecycle!Next]_<<Board, served>>
  BY LifecycleSimulation
<1> QED BY <1>1, <1>2, DispatchInvariant, PTL DEF Spec, ImplementsLifecycle, Lifecycle!Spec
=============================================================================
