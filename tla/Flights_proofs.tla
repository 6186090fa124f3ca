---------------------------- MODULE Flights_proofs ----------------------------
(***************************************************************************)
(* Proofs about the missions of Dispatch: what a flight, a report and an   *)
(* ASSIGNED request have behind them.  CallInv holds whatever goes wrong;  *)
(* the others hold as long as certain kinds of disturbance do not happen,  *)
(* which is a hypothesis on FaultKinds: the other kinds may happen any     *)
(* number of times.                                                        *)
(***************************************************************************)
EXTENDS Dispatch_proofs

-----------------------------------------------------------------------------
(* The locks, where lock messages are not disturbed.                       *)

\* Without disturbances of the kind "lock", Dispatch uses a network on which
\* no lock message is lost, no lock call times out and no base is suspected.
LEMMA TrustfulSimulation ==
    ASSUME "lock" \notin FaultKinds, TypeOK, DispatchTypeOK, [Next]_vars
    PROVE  [TrustfulNext]_lockVars
<1>1. ASSUME NEW m \in gossip, HandleGossip(m)
      PROVE  [TrustfulNext]_lockVars
  <2>1. m.to \in Base /\ m.entry.id \in Request
    BY <1>1 DEF DispatchTypeOK, GossipMessage, Entry
  <2>2. CASE HandleNewRequest(m) \/ HandleQueueAdd(m)
    BY <2>2 DEF HandleNewRequest, HandleQueueAdd
  <2>3. CASE HandleQueueUpdate(m)
    BY <2>1, <2>3 DEF HandleQueueUpdate, TrustfulNext
  <2> QED BY <1>1, <2>2, <2>3 DEF HandleGossip
<1>2. ASSUME NEW b \in Base, Dispatcher(b)
      PROVE  [TrustfulNext]_lockVars
  <2>1. ASSUME NEW g \in Attempt, Reserve(b, g)
        PROVE  TrustfulNext
    <3>1. picked[b].entry.id \in Request
      BY <2>1 DEF Reserve, DispatchTypeOK, Entry
    <3> QED BY <2>1, <3>1 DEF Reserve, TrustfulNext, StableNext, AttemptStep
  <2> QED BY <1>2, <2>1 DEF Dispatcher, PickMission
<1>3. ASSUME NEW g \in Attempt, Goroutine(g)
      PROVE  [TrustfulNext]_lockVars
  BY <1>3 DEF Goroutine, Acquiring, SendDispatch, DispatchFails, ConfirmDispatch, Requeue,
     TrustfulNext, StableNext, AttemptStep
<1>4. ASSUME NEW x \in done, HandleMissionDone(x)
      PROVE  [TrustfulNext]_lockVars
  <2>1. x.att \in Attempt /\ x.base \in Base /\ x.req \in Request
    BY DEF DispatchTypeOK
  <2> QED BY <1>4, <2>1 DEF HandleMissionDone, TrustfulNext, StableNext, AttemptStep
<1>5. ASSUME NEW b \in Base, HealthCheck(b)
      PROVE  [TrustfulNext]_lockVars
  <2>1. ASSUME NEW e \in rescue[b], RescueMission(b, e)
        PROVE  TrustfulNext
    <3>1. e.id \in Request
      BY DEF DispatchTypeOK, Entry
    <3> QED BY <2>1, <3>1 DEF RescueMission, TrustfulNext, StableNext, AttemptStep
  <2> QED BY <1>5, <2>1 DEF HealthCheck, DetectLost
<1>6. CASE HandleLockMessage \/ (\E b \in Base, p \in Base : HearPeer(b, p))
  BY <1>6 DEF HandleLockMessage, HearPeer, TrustfulNext, StableNext
<1>7. ~DisturbLocks
  BY DEF DisturbLocks, Disturb
<1>8. CASE \/ \E m \in radio : TakeDispatch(m) \/ LoseDispatch(m)
           \/ \E d \in Drone : \/ FinishMission(d) \/ ReportReceived(d) \/ ReportAnswered(d)
                               \/ ReportLost(d) \/ DroneDies(d) \/ DroneReturns(d)
           \/ \E b \in Base, d \in Drone : Heartbeat(b, d)
           \/ \E m \in gossip : LoseGossip(m)
           \/ UNCHANGED vars
  BY <1>8 DEF TakeDispatch, LoseDispatch, FinishMission, ReportReceived, ReportAnswered,
     ReportLost, DroneDies, DroneReturns, Heartbeat, LoseGossip, vars
<1> QED BY <1>1, <1>2, <1>3, <1>4, <1>5, <1>6, <1>7, <1>8 DEF Next

\* What a bases' network without lock disturbances keeps, together.
TrustfulInv == DispatchInv /\ OrphanInv /\ AsksEverybody

\* It holds at the start and after every step.
LEMMA TrustfulInvariant ==
    ASSUME "lock" \notin FaultKinds
    PROVE  Spec => []TrustfulInv
<1>1. Init => TrustfulInv
  BY DispatchInvInit, OrphanInit, AsksInit DEF Init, TrustfulInv
<1>2. TrustfulInv /\ [Next]_vars => TrustfulInv'
  <2> SUFFICES ASSUME TrustfulInv, [Next]_vars
               PROVE  TrustfulInv'
    OBVIOUS
  <2>1. [TrustfulNext]_lockVars
    BY TrustfulSimulation DEF TrustfulInv, DispatchInv
  <2>2. DispatchInv'
    BY DispatchInvStep DEF TrustfulInv
  <2>3. OrphanInv'
    BY <2>1, OrphanInvStep DEF TrustfulInv, ReliableNext
  <2>4. AsksEverybody'
    BY <2>1, TrustfulAsks DEF TrustfulInv, OrphanInv
  <2> QED BY <2>2, <2>3, <2>4 DEF TrustfulInv
<1> QED BY <1>1, <1>2, PTL DEF Spec

\* Whatever drones, brokers and the news between the queues suffer: as long as
\* the lock's own messages are delivered, no lock outlives its goroutine and
\* its mission (dispatcher.go:36-121, drone_handler.go:47-61, heartbeat.go:106-131).
THEOREM DispatchLeavesNoOrphan ==
    ASSUME "lock" \notin FaultKinds
    PROVE  Spec => []NoOrphanLock
<1>1. TrustfulInv => NoOrphanLock
  BY DEF TrustfulInv, OrphanInv
<1> QED BY <1>1, TrustfulInvariant, PTL

\* Under the same condition the only way left for two goroutines to be past
\* acquireLock with one request is that a release has deleted a live lock.
THEOREM DispatchFullView ==
    ASSUME "lock" \notin FaultKinds
    PROVE  Spec => []ExclusiveInFullView
<1>1. TrustfulInv => ExclusiveInFullView
  BY FullViewExclusion DEF TrustfulInv, OrphanInv
<1> QED BY <1>1, TrustfulInvariant, PTL

-----------------------------------------------------------------------------
(* What a step does to the attempts, the calls and the flights.            *)

\* Attempt h keeps its base and its request; it may get through acquireLock,
\* or fail to, and does not move otherwise.
Goes(h) ==
    /\ att'[h].base = att[h].base
    /\ att'[h].req = att[h].req
    /\ \/ att'[h].pc = att[h].pc
       \/ /\ att[h].pc \in {"trying", "asking"}
          /\ att'[h].pc \in {"trying", "asking", "acquired", "requeue"}

\* The steps of the lock protocol in which nothing else happens to an attempt.
CalmStep ==
    \/ \E g \in Attempt : LocalRefusal(g) \/ LocalLock(g) \/ Unanimous(g) \/ Refused(g)
    \/ MessageStep
    \/ Disturbance
    \/ UNCHANGED lockVars

\* What those steps do to every attempt.
LEMMA Calm ==
    ASSUME TypeOK, CalmStep
    PROVE  \A h \in Attempt : Goes(h)
<1> SUFFICES ASSUME NEW h \in Attempt PROVE Goes(h)
  OBVIOUS
<1>0. /\ att \in [Attempt -> AttemptState]
      /\ online \in [Base -> SUBSET Base]
      /\ \A g \in Attempt : att[g].pc # "idle" => att[g].base \in Base
      /\ \A m \in net : m.type # "LOCK_RELEASE" => m.att \in Attempt
  BY DEF TypeOK
<1>1. ASSUME NEW g \in Attempt, LocalRefusal(g) \/ Unanimous(g) \/ Refused(g)
      PROVE  Goes(h)
  <2>1. \E s \in {"acquired", "requeue"} :
           att' = [att EXCEPT ![g].pc = s] /\ att[g].pc \in {"trying", "asking"}
    BY <1>1 DEF LocalRefusal, Unanimous, Refused, GiveBack
  <2> QED BY <1>0, <2>1 DEF Goes, AttemptState
<1>2. ASSUME NEW g \in Attempt, LocalLock(g)
      PROVE  Goes(h)
  <2>1. att[g].pc = "trying" /\ att' = [att EXCEPT ![g] = Asking(att[g], online[att[g].base])]
    BY <1>2 DEF LocalLock
  <2>2. /\ Asking(att[g], online[att[g].base]).base = att[g].base
        /\ Asking(att[g], online[att[g].base]).req = att[g].req
        /\ Asking(att[g], online[att[g].base]).pc \in {"acquired", "asking"}
    BY <1>0 DEF Asking, AttemptState
  <2> QED BY <1>0, <2>1, <2>2 DEF Goes
<1>3. CASE MessageStep
  <2>1. PICK m \in net : HandleLockRequest(m) \/ ReceiveReply(m) \/ HandleLockRelease(m)
    BY <1>3 DEF MessageStep
  <2>2. CASE ReceiveReply(m)
    <3>1. m.att \in Attempt /\ att' = [att EXCEPT ![m.att] = Answered(att[m.att], m)]
      BY <1>0, <2>2 DEF ReceiveReply
    <3>2. /\ Answered(att[m.att], m).base = att[m.att].base
          /\ Answered(att[m.att], m).req = att[m.att].req
          /\ Answered(att[m.att], m).pc = att[m.att].pc
      BY <1>0, <3>1 DEF Answered, AttemptState
    <3> QED BY <1>0, <3>1, <3>2 DEF Goes
  <2>3. CASE HandleLockRequest(m) \/ HandleLockRelease(m)
    BY <2>3 DEF HandleLockRequest, HandleLockRelease, Goes
  <2> QED BY <2>1, <2>2, <2>3
<1>4. CASE Disturbance
  <2>1. ASSUME NEW g \in Attempt, NEW p \in Base, CallFails(g, p)
        PROVE  Goes(h)
    BY <1>0, <2>1 DEF CallFails, AttemptState, Goes
  <2>2. (\E g \in Attempt, p \in Base : CallFails(g, p)) \/ att' = att
    BY <1>4 DEF Disturbance, Lose, Hear, Suspect, StrayRelease
  <2> QED BY <2>1, <2>2 DEF Goes
<1>5. CASE UNCHANGED lockVars
  BY <1>5 DEF lockVars, Goes
<1> QED BY <1>1, <1>2, <1>3, <1>4, <1>5 DEF CalmStep

\* Steps in which no mission begins or moves: a call may be lost, and a report
\* handled.
QuietStep == /\ CalmStep
             /\ UNCHANGED <<job, agent>>
             /\ radio' \subseteq radio
             /\ done' \subseteq done

\* The reasons there are to end attempt g: it failed, the report of its mission
\* is there, or the mission is rescued from its drone.
Over(g) == \/ att[g].pc = "requeue"
           \/ \E x \in done : x.att = g
           \/ \E b \in Base : \E e \in rescue[b] : job[g].drone = e.assigned

\* Attempt g ends, and its slot is free.
Ends(g) == /\ att[g].pc \in {"assigned", "requeue"}
           /\ Over(g)
           /\ att' = [att EXCEPT ![g] = Idle]
           /\ job' = [job EXCEPT ![g] = NoJob]
           /\ UNCHANGED <<agent, radio>>
           /\ done' \subseteq done

\* Every step is quiet, ends an attempt, or is one of those that move a mission.
LEMMA StepKinds ==
    ASSUME DispatchTypeOK, [Next]_vars
    PROVE  \/ QuietStep
           \/ \E g \in Attempt : Ends(g)
           \/ \E b \in Base, g \in Attempt : Reserve(b, g)
           \/ \E g \in Attempt : SendDispatch(g) \/ DispatchFails(g) \/ ConfirmDispatch(g)
           \/ \E m \in radio : TakeDispatch(m)
           \/ \E d \in Drone : \/ FinishMission(d) \/ ReportReceived(d) \/ ReportAnswered(d)
                               \/ ReportLost(d) \/ DroneDies(d) \/ DroneReturns(d)
<1>1. ASSUME NEW m \in gossip, HandleGossip(m) \/ LoseGossip(m)
      PROVE  QuietStep
  <2>1. m.to \in Base /\ m.entry.id \in Request
    BY DEF DispatchTypeOK, GossipMessage, Entry
  <2> QED BY <1>1, <2>1 DEF HandleGossip, LoseGossip, HandleNewRequest, HandleQueueAdd,
          HandleQueueUpdate, QuietStep, CalmStep, Disturbance, droneVars
<1>2. CASE \/ DisturbLocks
           \/ \E b \in Base, p \in Base : HearPeer(b, p)
           \/ HandleLockMessage
           \/ \E m \in radio : LoseDispatch(m)
           \/ UNCHANGED vars
  BY <1>2 DEF DisturbLocks, HearPeer, HandleLockMessage, LoseDispatch, vars, QuietStep, CalmStep,
     Disturbance, droneVars
<1>3. ASSUME NEW b \in Base, NEW d \in Drone,
             \/ DetectLost(b, d) \/ Heartbeat(b, d)
             \/ \E e \in queue[b].heap : PickMission(b, e, d)
      PROVE  QuietStep
  BY <1>3 DEF DetectLost, Heartbeat, PickMission, QuietStep, CalmStep, droneVars
<1>4. ASSUME NEW g \in Attempt, Acquiring(g)
      PROVE  QuietStep
  BY <1>4 DEF Acquiring, QuietStep, CalmStep, droneVars
<1>5. ASSUME NEW g \in Attempt, Requeue(g)
      PROVE  Ends(g)
  BY <1>5 DEF Requeue, LockRequeue, Ends, Over, droneVars
<1>6. ASSUME NEW x \in done, HandleMissionDone(x)
      PROVE  QuietStep \/ \E g \in Attempt : Ends(g)
  <2>1. x.att \in Attempt /\ x.base \in Base /\ x.req \in Request
    BY DEF DispatchTypeOK
  <2> QED BY <1>6, <2>1 DEF HandleMissionDone, EndTenure, QuietStep, CalmStep, Disturbance, Ends,
          Over
<1>7. ASSUME NEW b \in Base, NEW e \in rescue[b], RescueMission(b, e)
      PROVE  QuietStep \/ \E g \in Attempt : Ends(g)
  <2>1. e.id \in Request
    BY DEF DispatchTypeOK, Entry
  <2> QED BY <1>7, <2>1 DEF RescueMission, EndTenure, QuietStep, CalmStep, Disturbance, Ends,
          Over, droneVars
<1> QED BY <1>1, <1>2, <1>3, <1>4, <1>5, <1>6, <1>7
        DEF Next, Dispatcher, Goroutine, HealthCheck

\* What a step may do to a drone.
LEMMA AgentMoves ==
    ASSUME DispatchTypeOK, [Next]_vars, NEW d \in Drone
    PROVE  \/ agent'[d] = agent[d]
           \/ agent[d].phase = "free" /\ agent'[d].phase = "flying"
           \/ FinishMission(d) \/ ReportReceived(d) \/ ReportAnswered(d)
           \/ ReportLost(d) \/ DroneDies(d) \/ DroneReturns(d)
<1>0. agent \in [Drone -> Agent]
  BY DEF DispatchTypeOK
<1>1. ASSUME NEW m \in radio, TakeDispatch(m)
      PROVE  agent'[d] = agent[d] \/ (agent[d].phase = "free" /\ agent'[d].phase = "flying")
  BY <1>0, <1>1 DEF TakeDispatch, DispatchTypeOK, Call
<1>2. ASSUME NEW c \in Drone, c # d,
             \/ FinishMission(c) \/ ReportReceived(c) \/ ReportAnswered(c)
             \/ ReportLost(c) \/ DroneDies(c) \/ DroneReturns(c)
      PROVE  agent'[d] = agent[d]
  BY <1>0, <1>2 DEF FinishMission, ReportReceived, ReportAnswered, ReportLost, DroneDies,
     DroneReturns
<1>3. ASSUME \/ \E b \in Base, g \in Attempt : Reserve(b, g)
             \/ \E g \in Attempt : SendDispatch(g) \/ DispatchFails(g) \/ ConfirmDispatch(g)
      PROVE  agent' = agent
  BY <1>3 DEF Reserve, SendDispatch, DispatchFails, ConfirmDispatch, droneVars
<1> QED BY <1>1, <1>2, <1>3, StepKinds DEF QuietStep, Ends

-----------------------------------------------------------------------------
(* A call starts at most one flight, whatever goes wrong.                  *)

\* A drone without a mission remembers none.
AgentsRest ==
    \A d \in Drone : agent[d].phase \notin {"flying", "reporting", "reported"} =>
        agent[d].att = None /\ agent[d].req = None

\* A call says what its goroutine meant, if the goroutine is still there.
CallsMatch ==
    \A m \in radio : att[m.att].pc # "idle" =>
        m.drone = job[m.att].drone /\ m.req = att[m.att].req

\* A goroutine calls its drone after acquireLock, and before the call nothing
\* of the mission is under way.
FreshCalls ==
    \A g \in Attempt : att[g].pc # "idle" =>
        /\ att[g].pc \in {"trying", "asking"} => job[g].call = "none"
        /\ job[g].call = "none" => Retired(g)

\* A call, the flight it starts and the report of that flight take each
\* other's place, and no two drones fly by the same call.
OneUse ==
    /\ \A m, n \in radio : m.att = n.att => m = n
    /\ \A m \in radio, d \in Drone : agent[d].att # m.att
    /\ \A d, e \in Drone : agent[d].att = agent[e].att /\ agent[d].att # None => d = e
    /\ \A x \in done : /\ \A m \in radio : m.att # x.att
                       /\ \A d \in Drone : agent[d].att = x.att => agent[d].phase # "flying"

CallInv == AgentsRest /\ CallsMatch /\ FreshCalls /\ OneUse

\* Nobody has called anybody at the start.
LEMMA CallInit == Init => CallInv
BY DEF Init, StableInit, Idle, FreeDrone, CallInv, AgentsRest, CallsMatch, FreshCalls, OneUse

\* Quiet steps keep it: they only take messages away.
LEMMA CallQuiet ==
    ASSUME TypeOK, DispatchTypeOK, CallInv, QuietStep
    PROVE  CallInv'
<1>1. \A h \in Attempt : Goes(h)
  BY Calm DEF QuietStep
<1>2. /\ job' = job /\ agent' = agent /\ radio' \subseteq radio /\ done' \subseteq done
      /\ \A m \in radio : m.att \in Attempt
  BY DEF QuietStep, DispatchTypeOK, Call
<1>3. AgentsRest'
  BY <1>2 DEF CallInv, AgentsRest
<1>4. CallsMatch'
  BY <1>1, <1>2 DEF CallInv, CallsMatch, Goes
<1>5. FreshCalls'
  BY <1>1, <1>2 DEF CallInv, FreshCalls, Goes, Retired
<1>6. OneUse'
  BY <1>2 DEF CallInv, OneUse
<1> QED BY <1>3, <1>4, <1>5, <1>6 DEF CallInv

\* So does the end of an attempt.
LEMMA CallEnds ==
    ASSUME TypeOK, DispatchTypeOK, CallInv, NEW g \in Attempt, Ends(g)
    PROVE  CallInv'
<1>1. /\ att \in [Attempt -> AttemptState] /\ job \in [Attempt -> Job]
      /\ att' = [att EXCEPT ![g] = Idle] /\ job' = [job EXCEPT ![g] = NoJob]
      /\ agent' = agent /\ radio' = radio /\ done' \subseteq done
      /\ \A m \in radio : m.att \in Attempt
  BY DEF Ends, TypeOK, DispatchTypeOK, Call
<1>2. att'[g].pc = "idle" /\ \A h \in Attempt : h # g => att'[h] = att[h] /\ job'[h] = job[h]
  BY <1>1 DEF Idle
<1>3. AgentsRest'
  BY <1>1 DEF CallInv, AgentsRest
<1>4. CallsMatch'
  BY <1>1, <1>2 DEF CallInv, CallsMatch
<1>5. FreshCalls'
  BY <1>1, <1>2 DEF CallInv, FreshCalls, Retired
<1>6. OneUse'
  BY <1>1 DEF CallInv, OneUse
<1> QED BY <1>3, <1>4, <1>5, <1>6 DEF CallInv

\* A new goroutine takes a slot nothing refers to.
LEMMA CallReserve ==
    ASSUME TypeOK, DispatchTypeOK, CallInv, NEW b \in Base, NEW g \in Attempt, Reserve(b, g)
    PROVE  CallInv'
<1>1. /\ att \in [Attempt -> AttemptState] /\ job \in [Attempt -> Job]
      /\ att' = [att EXCEPT ![g] = Started(b, picked[b].entry.id)]
      /\ job' = [job EXCEPT ![g] = [entry |-> picked[b].entry, drone |-> picked[b].drone,
                                    call |-> "none"]]
      /\ agent' = agent /\ radio' = radio /\ done' = done
      /\ Retired(g)
      /\ \A m \in radio : m.att \in Attempt
  BY DEF Reserve, Spawn, TypeOK, DispatchTypeOK, Call, droneVars
<1>2. \A h \in Attempt : h # g => att'[h] = att[h] /\ job'[h] = job[h]
  BY <1>1
<1>3. job'[g].call = "none" /\ Retired(g)'
  BY <1>1 DEF Retired
<1>4. AgentsRest'
  BY <1>1 DEF CallInv, AgentsRest
<1>5. CallsMatch'
  BY <1>1, <1>2 DEF CallInv, CallsMatch, Retired
<1>6. FreshCalls'
  BY <1>1, <1>2, <1>3 DEF CallInv, FreshCalls, Retired
<1>7. OneUse'
  BY <1>1 DEF CallInv, OneUse
<1> QED BY <1>4, <1>5, <1>6, <1>7 DEF CallInv

\* A goroutine that calls its drone, gives up or confirms.
LEMMA CallGoroutine ==
    ASSUME TypeOK, DispatchTypeOK, CallInv, NEW g \in Attempt,
           SendDispatch(g) \/ DispatchFails(g) \/ ConfirmDispatch(g)
    PROVE  CallInv'
<1>0. /\ att \in [Attempt -> AttemptState] /\ job \in [Attempt -> Job]
      /\ \A m \in radio : m.att \in Attempt
      /\ None \notin Attempt
  BY NoneAssumption DEF TypeOK, DispatchTypeOK, Call
<1>1. CASE SendDispatch(g)
  <2> DEFINE call == [att |-> g, drone |-> job[g].drone, req |-> att[g].req]
  <2>1. /\ att' = att /\ agent' = agent /\ done' = done
        /\ att[g].pc = "acquired" /\ job[g].call = "none"
        /\ job' = [job EXCEPT ![g].call = "out"]
        /\ radio' = radio \cup {call}
    BY <1>1 DEF SendDispatch, lockVars
  <2>2. Retired(g)
    BY <2>1 DEF CallInv, FreshCalls
  <2>3. /\ \A h \in Attempt : job'[h].drone = job[h].drone
        /\ \A h \in Attempt : h # g => job'[h] = job[h]
        /\ job'[g].call = "out"
    BY <1>0, <2>1 DEF Job
  <2>4. call.att = g /\ call.drone = job[g].drone /\ call.req = att[g].req
    OBVIOUS
  <2> HIDE DEF call
  <2>5. AgentsRest'
    BY <2>1 DEF CallInv, AgentsRest
  <2>6. CallsMatch'
    BY <1>0, <2>1, <2>3, <2>4 DEF CallInv, CallsMatch
  <2>7. FreshCalls'
    BY <1>0, <2>1, <2>3, <2>4 DEF CallInv, FreshCalls, Retired
  <2>8. OneUse'
    BY <2>1, <2>2, <2>4 DEF CallInv, OneUse, Retired
  <2> QED BY <2>5, <2>6, <2>7, <2>8 DEF CallInv
<1>2. CASE DispatchFails(g) \/ ConfirmDispatch(g)
  <2>1. /\ agent' = agent /\ done' = done /\ radio' = radio
        /\ att[g].pc = "acquired"
        /\ \E s \in {"requeue", "assigned"} : att' = [att EXCEPT ![g].pc = s]
        /\ \/ job' = job
           \/ job' = [job EXCEPT ![g].call = "failed"]
    BY <1>2 DEF DispatchFails, LockDispatchFails, GiveBack, ConfirmDispatch, LockConfirm, droneVars
  <2>2. /\ \A h \in Attempt : /\ job'[h].drone = job[h].drone /\ att'[h].req = att[h].req
                              /\ job'[h].call = "none" => job[h].call = "none"
        /\ \A h \in Attempt : h # g => job'[h] = job[h] /\ att'[h] = att[h]
        /\ att'[g].pc \in {"requeue", "assigned"}
    BY <1>0, <2>1 DEF Job, AttemptState
  <2>3. AgentsRest'
    BY <2>1 DEF CallInv, AgentsRest
  <2>4. CallsMatch'
    BY <1>0, <2>1, <2>2 DEF CallInv, CallsMatch
  <2>5. FreshCalls'
    BY <1>0, <2>1, <2>2 DEF CallInv, FreshCalls, Retired
  <2>6. OneUse'
    BY <2>1 DEF CallInv, OneUse
  <2> QED BY <2>3, <2>4, <2>5, <2>6 DEF CallInv
<1> QED BY <1>1, <1>2

\* A drone that reads a call.
LEMMA CallTaken ==
    ASSUME TypeOK, DispatchTypeOK, CallInv, NEW m \in radio, TakeDispatch(m)
    PROVE  CallInv'
<1>0. /\ agent \in [Drone -> Agent] /\ job \in [Attempt -> Job]
      /\ m.att \in Attempt /\ m.drone \in Drone
      /\ \A n \in radio : n.att \in Attempt
      /\ \A x \in done : x.att \in Attempt
      /\ None \notin Attempt
  BY NoneAssumption DEF DispatchTypeOK, Call
<1>1. /\ att' = att /\ done' = done /\ radio' = radio \ {m}
      /\ \/ agent' = agent
         \/ /\ agent[m.drone].phase = "free"
            /\ agent' = [agent EXCEPT ![m.drone] =
                            [phase |-> "flying", att |-> m.att, req |-> m.req]]
      /\ job' = job \/ \E s \in {"ack", "nack"} : job' = [job EXCEPT ![m.att].call = s]
  BY DEF TakeDispatch, lockVars
<1>2. /\ \A h \in Attempt : job'[h].drone = job[h].drone
      /\ \A h \in Attempt : job'[h].call = "none" => job[h].call = "none"
      /\ \A h \in Attempt : job[h].call = "none" /\ h # m.att => job'[h].call = "none"
  BY <1>0, <1>1 DEF Job
<1>3. \/ agent' = agent
      \/ /\ agent[m.drone].att = None
         /\ agent'[m.drone].phase = "flying" /\ agent'[m.drone].att = m.att
         /\ \A d \in Drone : d # m.drone => agent'[d] = agent[d]
  BY <1>0, <1>1 DEF CallInv, AgentsRest
<1>4. att[m.att].pc # "idle" => /\ job[m.att].call # "none"
                                /\ att[m.att].pc \notin {"trying", "asking"}
  BY <1>0 DEF CallInv, FreshCalls, Retired
<1>5. AgentsRest'
  BY <1>3 DEF CallInv, AgentsRest
<1>6. CallsMatch'
  BY <1>0, <1>1, <1>2 DEF CallInv, CallsMatch
<1>7. FreshCalls'
  BY <1>0, <1>1, <1>2, <1>3, <1>4 DEF CallInv, FreshCalls, Retired
<1>8. OneUse'
  <2>1. CASE agent' = agent
    BY <1>1, <2>1 DEF CallInv, OneUse
  <2>2. CASE agent' # agent
    <3>1. \A d \in Drone : agent[d].att # m.att
      BY DEF CallInv, OneUse
    <3>2. \A n \in radio' : n.att # m.att
      BY <1>1 DEF CallInv, OneUse
    <3>3. \A d \in Drone : agent'[d].att = IF d = m.drone THEN m.att ELSE agent[d].att
      BY <1>3, <2>2
    <3>4. \A d, e \in Drone : agent'[d].att = agent'[e].att /\ agent'[d].att # None => d = e
      BY <3>1, <3>3 DEF CallInv, OneUse
    <3>5. \A x \in done : x.att # m.att
      BY DEF CallInv, OneUse
    <3> QED BY <1>1, <1>3, <2>2, <3>2, <3>3, <3>4, <3>5 DEF CallInv, OneUse
  <2> QED BY <2>1, <2>2
<1> QED BY <1>5, <1>6, <1>7, <1>8 DEF CallInv

\* A drone that flies on, reports, is free again or dies.
LEMMA CallDrone ==
    ASSUME TypeOK, DispatchTypeOK, AgentsMatch, CallInv, NEW c \in Drone,
           \/ FinishMission(c) \/ ReportReceived(c) \/ ReportAnswered(c)
           \/ ReportLost(c) \/ DroneDies(c) \/ DroneReturns(c)
    PROVE  CallInv'
<1>0. /\ agent \in [Drone -> Agent]
      /\ \A n \in radio : n.att \in Attempt
      /\ None \notin Attempt
  BY NoneAssumption DEF DispatchTypeOK, Call
<1>1. /\ att' = att /\ job' = job /\ radio' \subseteq radio
      /\ \/ agent' = [agent EXCEPT ![c] = FreeDrone] /\ done' = done
         \/ agent' = [agent EXCEPT ![c] = DeadDrone] /\ done' = done
         \/ /\ agent[c].phase \in {"flying", "reporting", "reported"}
            /\ \E s \in {"reporting", "reported"} : agent' = [agent EXCEPT ![c].phase = s]
            /\ \/ done' = done
               \/ /\ agent[c].phase = "reporting"
                  /\ done' = done \cup {[att |-> agent[c].att, drone |-> c,
                                         req |-> agent[c].req, base |-> Home[c]]}
  BY DEF FinishMission, ReportReceived, ReportAnswered, ReportLost, DroneDies, DroneReturns,
     lockVars
<1>2. /\ \A d \in Drone : d # c => agent'[d] = agent[d]
      /\ \/ /\ agent'[c].phase \in {"free", "dead"}
            /\ agent'[c].att = None /\ agent'[c].req = None
         \/ /\ agent[c].phase \in {"flying", "reporting", "reported"}
            /\ agent'[c].phase \in {"reporting", "reported"}
            /\ agent'[c].att = agent[c].att /\ agent'[c].req = agent[c].req
  BY <1>0, <1>1 DEF FreeDrone, DeadDrone, Agent
<1>3. \A x \in done' : x \in done \/ (agent[c].phase = "reporting" /\ x.att = agent[c].att)
  BY <1>1
<1>4. \A d \in Drone : agent'[d].att \in {agent[d].att, None}
  BY <1>2
<1>5. agent[c].phase = "reporting" => agent[c].att \in Attempt
  BY DEF AgentsMatch
<1>6. AgentsRest'
  BY <1>2 DEF CallInv, AgentsRest
<1>7. CallsMatch'
  BY <1>1 DEF CallInv, CallsMatch
<1>8. FreshCalls'
  BY <1>0, <1>1, <1>3, <1>4 DEF CallInv, FreshCalls, Retired
<1>9. OneUse'
  <2>1. \A m, n \in radio' : m.att = n.att => m = n
    BY <1>1 DEF CallInv, OneUse
  <2>2. \A m \in radio', d \in Drone : agent'[d].att # m.att
    BY <1>0, <1>1, <1>4 DEF CallInv, OneUse
  <2>3. \A d, e \in Drone : agent'[d].att = agent'[e].att /\ agent'[d].att # None => d = e
    BY <1>4 DEF CallInv, OneUse
  <2>4. \A x \in done', m \in radio' : m.att # x.att
    BY <1>1, <1>3 DEF CallInv, OneUse
  <2>5. ASSUME NEW x \in done', NEW d \in Drone, agent'[d].att = x.att
        PROVE  agent'[d].phase # "flying"
    <3>1. x.att \in Attempt
      BY <1>3, <1>5 DEF DispatchTypeOK
    <3>2. agent[d].att = x.att
      BY <1>0, <1>4, <2>5, <3>1
    <3>3. agent[d].phase # "flying"
      <4>1. CASE x \in done
        BY <3>2, <4>1 DEF CallInv, OneUse
      <4>2. CASE x \notin done
        <5>1. agent[c].phase = "reporting" /\ x.att = agent[c].att
          BY <1>3, <4>2
        <5>2. d = c
          BY <1>0, <3>1, <3>2, <5>1 DEF CallInv, OneUse
        <5> QED BY <5>1, <5>2
      <4> QED BY <4>1, <4>2
    <3> QED BY <1>2, <3>3
  <2> QED BY <2>1, <2>2, <2>3, <2>4, <2>5 DEF OneUse
<1> QED BY <1>6, <1>7, <1>8, <1>9 DEF CallInv

\* Every step keeps it.
LEMMA CallStep ==
    TypeOK /\ DispatchTypeOK /\ AgentsMatch /\ CallInv /\ [Next]_vars => CallInv'
BY StepKinds, CallQuiet, CallEnds, CallReserve, CallGoroutine, CallTaken, CallDrone

-----------------------------------------------------------------------------
(* What a flight has behind it, where no call fails that the drone has     *)
(* heard, no living drone is taken for lost, and dead drones stay dead.    *)

\* A call that a drone may still read has a goroutine waiting for the answer.
RadioAwaited ==
    \A m \in radio : \/ agent[m.drone].phase = "dead"
                     \/ att[m.att].pc = "acquired" /\ job[m.att].call = "out"

\* A flight has its attempt behind it, which knows that the call was answered.
FlightBacked ==
    \A d \in Drone : agent[d].phase = "flying" =>
        LET g == agent[d].att
        IN /\ Holding(g)
           /\ att[g].req = agent[d].req
           /\ job[g].drone = d
           /\ att[g].pc = "acquired" => job[g].call = "ack"

\* Only missions of dead drones are rescued.
RescueDead ==
    \A b \in Base : \A e \in rescue[b] :
        e.assigned \in Drone /\ agent[e.assigned].phase = "dead"

FlightInv == RadioAwaited /\ FlightBacked /\ RescueDead

\* There is nothing to be said at the start.
LEMMA FlightInit == Init => FlightInv
BY DEF Init, FreeDrone, FlightInv, RadioAwaited, FlightBacked, RescueDead

\* Who comes to life again has been started again.
LEMMA DeadStayDead ==
    ASSUME DispatchTypeOK, [Next]_vars, "return" \notin FaultKinds, NEW d \in Drone,
           agent[d].phase = "dead"
    PROVE  agent'[d] = agent[d]
BY AgentMoves DEF FinishMission, ReportReceived, ReportAnswered, ReportLost, DroneDies,
   DroneReturns

\* A base starts to rescue the missions of a drone only when it takes it for
\* lost, and ends with one at a time.
LEMMA RescueMoves ==
    ASSUME DispatchTypeOK, [Next]_vars, "suspect" \notin FaultKinds,
           NEW b \in Base, NEW e \in rescue'[b]
    PROVE  e \in rescue[b] \/ (e.assigned \in Drone /\ agent[e.assigned].phase = "dead")
<1>0. rescue \in [Base -> SUBSET Entry]
  BY DEF DispatchTypeOK
<1>1. ASSUME NEW c \in Base, NEW d \in Drone, DetectLost(c, d)
      PROVE  e \in rescue[b] \/ (e.assigned \in Drone /\ agent[e.assigned].phase = "dead")
  BY <1>0, <1>1 DEF DetectLost, Disturb
<1>2. ASSUME NEW c \in Base, NEW f \in rescue[c], RescueMission(c, f)
      PROVE  e \in rescue[b]
  BY <1>0, <1>2 DEF RescueMission
<1>3. ASSUME UNCHANGED rescue
      PROVE  e \in rescue[b]
  BY <1>3
<1>4. ASSUME NEW m \in gossip, HandleGossip(m) \/ LoseGossip(m)
      PROVE  UNCHANGED rescue
  BY <1>4 DEF HandleGossip, HandleNewRequest, HandleQueueAdd, HandleQueueUpdate, LoseGossip,
     baseVars
<1>5. ASSUME NEW g \in Attempt, Goroutine(g)
      PROVE  UNCHANGED rescue
  BY <1>5 DEF Goroutine, Acquiring, SendDispatch, DispatchFails, ConfirmDispatch, Requeue,
     baseVars
<1>6. ASSUME NEW c \in Base, Dispatcher(c) \/ \E d \in Drone : Heartbeat(c, d)
      PROVE  UNCHANGED rescue
  BY <1>6 DEF Dispatcher, PickMission, Reserve, Heartbeat
<1>7. ASSUME \/ HandleLockMessage \/ DisturbLocks
             \/ \E c \in Base, p \in Base : HearPeer(c, p)
             \/ \E x \in done : HandleMissionDone(x)
             \/ \E m \in radio : LoseDispatch(m) \/ TakeDispatch(m)
             \/ \E d \in Drone : \/ FinishMission(d) \/ ReportReceived(d) \/ ReportAnswered(d)
                                 \/ ReportLost(d) \/ DroneDies(d) \/ DroneReturns(d)
             \/ UNCHANGED vars
      PROVE  UNCHANGED rescue
  BY <1>7 DEF HandleLockMessage, DisturbLocks, HearPeer, HandleMissionDone, LoseDispatch,
     TakeDispatch, FinishMission, ReportReceived, ReportAnswered, ReportLost, DroneDies,
     DroneReturns, vars, baseVars
<1> QED BY <1>1, <1>2, <1>3, <1>4, <1>5, <1>6, <1>7 DEF Next, HealthCheck

\* So a mission that is being rescued stays one of a dead drone.
LEMMA RescueStep ==
    ASSUME DispatchTypeOK, RescueDead, [Next]_vars,
           "suspect" \notin FaultKinds, "return" \notin FaultKinds
    PROVE  RescueDead'
BY RescueMoves, DeadStayDead DEF RescueDead

\* Quiet steps move no attempt that a flight or a call rests on.
LEMMA FlightQuiet ==
    ASSUME TypeOK, DispatchTypeOK, AgentsMatch, FlightInv, QuietStep
    PROVE  RadioAwaited' /\ FlightBacked'
<1>1. \A h \in Attempt : Goes(h)
  BY Calm DEF QuietStep
<1>2. /\ job' = job /\ agent' = agent /\ radio' \subseteq radio
      /\ \A m \in radio : m.att \in Attempt
      /\ \A d \in Drone : agent[d].phase = "flying" => agent[d].att \in Attempt
  BY DEF QuietStep, DispatchTypeOK, Call, AgentsMatch
<1>3. RadioAwaited'
  BY <1>1, <1>2 DEF FlightInv, RadioAwaited, Goes
<1>4. FlightBacked'
  BY <1>1, <1>2 DEF FlightInv, FlightBacked, Goes, Holding
<1> QED BY <1>3, <1>4

\* An attempt ends only when its flight has.
LEMMA FlightEnds ==
    ASSUME TypeOK, DispatchTypeOK, AgentsMatch, CallInv, FlightInv, NEW g \in Attempt, Ends(g)
    PROVE  RadioAwaited' /\ FlightBacked'
<1>1. /\ att \in [Attempt -> AttemptState] /\ job \in [Attempt -> Job]
      /\ att' = [att EXCEPT ![g] = Idle] /\ job' = [job EXCEPT ![g] = NoJob]
      /\ agent' = agent /\ radio' = radio
      /\ \A m \in radio : m.att \in Attempt
      /\ \A d \in Drone : agent[d].phase = "flying" => agent[d].att \in Attempt
  BY DEF Ends, TypeOK, DispatchTypeOK, Call, AgentsMatch
<1>2. \A h \in Attempt : h # g => att'[h] = att[h] /\ job'[h] = job[h]
  BY <1>1
<1>3. ASSUME NEW d \in Drone, agent[d].phase = "flying"
      PROVE  agent[d].att # g
  <2>1. SUFFICES ASSUME agent[d].att = g PROVE FALSE
    OBVIOUS
  <2>2. Holding(g) /\ job[g].drone = d
    BY <1>3, <2>1 DEF FlightInv, FlightBacked
  <2>3. att[g].pc # "requeue"
    BY <2>2 DEF Holding
  <2>4. \A x \in done : x.att # g
    BY <1>3, <2>1 DEF CallInv, OneUse
  <2>5. \A b \in Base : \A e \in rescue[b] : job[g].drone # e.assigned
    BY <1>3, <2>2 DEF FlightInv, RescueDead
  <2> QED BY <2>3, <2>4, <2>5 DEF Ends, Over
<1>4. RadioAwaited'
  BY <1>1, <1>2 DEF FlightInv, RadioAwaited, Ends
<1>5. FlightBacked'
  BY <1>1, <1>2, <1>3 DEF FlightInv, FlightBacked, Holding
<1> QED BY <1>4, <1>5

\* A new attempt has no flight yet.
LEMMA FlightReserve ==
    ASSUME TypeOK, DispatchTypeOK, AgentsMatch, FlightInv,
           NEW b \in Base, NEW g \in Attempt, Reserve(b, g)
    PROVE  RadioAwaited' /\ FlightBacked'
<1>1. /\ att \in [Attempt -> AttemptState] /\ job \in [Attempt -> Job]
      /\ \A h \in Attempt : h # g => att'[h] = att[h] /\ job'[h] = job[h]
      /\ agent' = agent /\ radio' = radio
      /\ Retired(g)
      /\ \A m \in radio : m.att \in Attempt
      /\ \A d \in Drone : agent[d].phase = "flying" => agent[d].att \in Attempt
  BY DEF Reserve, Spawn, TypeOK, DispatchTypeOK, Call, droneVars, AgentsMatch
<1>2. RadioAwaited'
  BY <1>1 DEF FlightInv, RadioAwaited, Retired
<1>3. FlightBacked'
  BY <1>1 DEF FlightInv, FlightBacked, Retired, Holding
<1> QED BY <1>2, <1>3

\* A goroutine gives up only a call that no drone flies by, or will.
LEMMA FlightGoroutine ==
    ASSUME TypeOK, DispatchTypeOK, AgentsMatch, CallInv, FlightInv, "call" \notin FaultKinds,
           NEW g \in Attempt, SendDispatch(g) \/ DispatchFails(g) \/ ConfirmDispatch(g)
    PROVE  RadioAwaited' /\ FlightBacked'
<1>0. /\ att \in [Attempt -> AttemptState] /\ job \in [Attempt -> Job]
      /\ \A m \in radio : m.att \in Attempt
      /\ \A d \in Drone : agent[d].phase = "flying" => agent[d].att \in Attempt
  BY DEF TypeOK, DispatchTypeOK, Call, AgentsMatch
<1>1. CASE SendDispatch(g)
  <2> DEFINE call == [att |-> g, drone |-> job[g].drone, req |-> att[g].req]
  <2>1. /\ att' = att /\ agent' = agent
        /\ att[g].pc = "acquired" /\ job[g].call = "none"
        /\ job' = [job EXCEPT ![g].call = "out"]
        /\ radio' = radio \cup {call}
    BY <1>1 DEF SendDispatch, lockVars
  <2>2. Retired(g)
    BY <2>1 DEF CallInv, FreshCalls
  <2>3. /\ \A h \in Attempt : h # g => job'[h] = job[h]
        /\ job'[g].call = "out"
        /\ call.att = g
    BY <1>0, <2>1 DEF Job
  <2> HIDE DEF call
  <2>4. RadioAwaited'
    BY <1>0, <2>1, <2>2, <2>3 DEF FlightInv, RadioAwaited, Retired
  <2>5. FlightBacked'
    BY <1>0, <2>1, <2>2, <2>3 DEF FlightInv, FlightBacked, Retired, Holding
  <2> QED BY <2>4, <2>5
<1>2. CASE DispatchFails(g)
  <2>1. /\ agent' = agent /\ radio' = radio
        /\ att[g].pc = "acquired"
        /\ \A h \in Attempt : h # g => job'[h] = job[h] /\ att'[h] = att[h]
        /\ \/ job[g].call = "nack"
           \/ job[g].call = "out" /\ \A m \in radio : m.att # g
           \/ agent[job[g].drone].phase = "dead"
    BY <1>0, <1>2 DEF DispatchFails, LockDispatchFails, GiveBack, CallBroken, Disturb, droneVars
  <2>2. \A m \in radio : m.att = g => agent[m.drone].phase = "dead"
    BY <2>1 DEF CallInv, CallsMatch, FlightInv, RadioAwaited
  <2>3. \A d \in Drone : agent[d].phase = "flying" => agent[d].att # g
    BY <2>1 DEF FlightInv, FlightBacked
  <2>4. RadioAwaited'
    BY <1>0, <2>1, <2>2 DEF FlightInv, RadioAwaited
  <2>5. FlightBacked'
    BY <1>0, <2>1, <2>3 DEF FlightInv, FlightBacked, Holding
  <2> QED BY <2>4, <2>5
<1>3. CASE ConfirmDispatch(g)
  <2>1. /\ agent' = agent /\ radio' = radio /\ job' = job
        /\ att[g].pc = "acquired" /\ job[g].call = "ack"
        /\ \A h \in Attempt : h # g => att'[h] = att[h]
        /\ att'[g].pc = "assigned" /\ att'[g].req = att[g].req
    BY <1>0, <1>3 DEF ConfirmDispatch, LockConfirm, droneVars, AttemptState
  <2>2. RadioAwaited'
    BY <1>0, <2>1 DEF FlightInv, RadioAwaited
  <2>3. FlightBacked'
    BY <1>0, <2>1 DEF FlightInv, FlightBacked, Holding
  <2> QED BY <2>2, <2>3
<1> QED BY <1>1, <1>2, <1>3

\* The flight a call starts has the goroutine that waits for the answer.
LEMMA FlightTaken ==
    ASSUME TypeOK, DispatchTypeOK, AgentsMatch, CallInv, FlightInv,
           NEW m \in radio, TakeDispatch(m)
    PROVE  RadioAwaited' /\ FlightBacked'
<1> DEFINE g == m.att
           d == m.drone
<1>0. /\ agent \in [Drone -> Agent] /\ job \in [Attempt -> Job]
      /\ g \in Attempt /\ d \in Drone
      /\ \A n \in radio : n.att \in Attempt
      /\ \A c \in Drone : agent[c].phase = "flying" => agent[c].att \in Attempt
  BY DEF DispatchTypeOK, Call, AgentsMatch
<1>1. att[g].pc = "acquired" /\ job[g].call = "out" /\ agent[d].phase # "dead"
  BY DEF TakeDispatch, FlightInv, RadioAwaited
<1>2. d = job[g].drone /\ m.req = att[g].req
  BY <1>1 DEF CallInv, CallsMatch
<1>3. /\ att' = att /\ radio' = radio \ {m}
      /\ \/ /\ agent[d].phase = "free"
            /\ agent' = [agent EXCEPT ![d] = [phase |-> "flying", att |-> g, req |-> m.req]]
            /\ job' = [job EXCEPT ![g].call = "ack"]
         \/ agent' = agent /\ job' = [job EXCEPT ![g].call = "nack"]
  BY <1>1 DEF TakeDispatch, lockVars
<1>4. /\ \A h \in Attempt : h # g => job'[h] = job[h]
      /\ job'[g].drone = job[g].drone
  BY <1>0, <1>3 DEF Job
<1>5. \A c \in Drone : agent'[c].phase = "dead" <=> agent[c].phase = "dead"
  BY <1>0, <1>1, <1>3
<1>6. \A n \in radio' : n \in radio /\ n.att # g /\ n.drone \in Drone
  BY <1>3 DEF CallInv, OneUse, DispatchTypeOK, Call
<1>7. RadioAwaited'
  BY <1>0, <1>3, <1>4, <1>5, <1>6 DEF FlightInv, RadioAwaited
<1>8. \A c \in Drone : agent[c].att # g
  BY DEF CallInv, OneUse
<1>9. FlightBacked'
  <2> SUFFICES ASSUME NEW c \in Drone, agent'[c].phase = "flying"
               PROVE  LET h == agent'[c].att
                      IN /\ att'[h].pc \in {"acquired", "assigned"}
                         /\ att'[h].req = agent'[c].req
                         /\ job'[h].drone = c
                         /\ att'[h].pc = "acquired" => job'[h].call = "ack"
    BY DEF FlightBacked, Holding
  <2>1. CASE agent'[c] = agent[c]
    BY <1>0, <1>3, <1>4, <1>8, <2>1 DEF FlightInv, FlightBacked, Holding
  <2>2. CASE agent'[c] # agent[c]
    <3>1. /\ c = d /\ agent'[c].att = g /\ agent'[c].req = m.req
          /\ job'[g].call = "ack"
      BY <1>0, <1>3, <2>2 DEF Job
    <3> QED BY <1>1, <1>2, <1>3, <1>4, <3>1
  <2> QED BY <2>1, <2>2
<1> QED BY <1>7, <1>9

\* A drone that flies on, reports or dies.
LEMMA FlightDrone ==
    ASSUME TypeOK, DispatchTypeOK, FlightInv, "return" \notin FaultKinds, NEW c \in Drone,
           \/ FinishMission(c) \/ ReportReceived(c) \/ ReportAnswered(c)
           \/ ReportLost(c) \/ DroneDies(c) \/ DroneReturns(c)
    PROVE  RadioAwaited' /\ FlightBacked'
<1>1. /\ agent \in [Drone -> Agent]
      /\ att' = att /\ job' = job /\ radio' = radio
      /\ agent[c].phase # "dead"
      /\ \/ agent' = [agent EXCEPT ![c] = FreeDrone]
         \/ agent' = [agent EXCEPT ![c] = DeadDrone]
         \/ \E s \in {"reporting", "reported"} : agent' = [agent EXCEPT ![c].phase = s]
  BY DEF FinishMission, ReportReceived, ReportAnswered, ReportLost, DroneDies, DroneReturns,
     lockVars, DispatchTypeOK
<1>2. /\ \A d \in Drone : d # c => agent'[d] = agent[d]
      /\ agent'[c].phase # "flying"
  BY <1>1 DEF FreeDrone, DeadDrone, Agent
<1>3. \A m \in radio : m.drone \in Drone
  BY DEF DispatchTypeOK, Call
<1>4. RadioAwaited'
  BY <1>1, <1>2, <1>3 DEF FlightInv, RadioAwaited
<1>5. FlightBacked'
  BY <1>1, <1>2 DEF FlightInv, FlightBacked, Holding
<1> QED BY <1>4, <1>5

\* Every step keeps it, where those disturbances are not among the kinds.
LEMMA FlightStep ==
    ASSUME TypeOK, DispatchTypeOK, AgentsMatch, CallInv, FlightInv, [Next]_vars,
           FaultKinds \cap {"call", "suspect", "return"} = {}
    PROVE  FlightInv'
<1>1. "call" \notin FaultKinds /\ "suspect" \notin FaultKinds /\ "return" \notin FaultKinds
  OBVIOUS
<1>2. RadioAwaited' /\ FlightBacked'
  BY <1>1, StepKinds, FlightQuiet, FlightEnds, FlightReserve, FlightGoroutine, FlightTaken,
     FlightDrone
<1>3. RescueDead'
  BY <1>1, RescueStep DEF FlightInv
<1> QED BY <1>2, <1>3 DEF FlightInv

\* The inductive invariant, from start to end.
LEMMA FlightInvariant ==
    ASSUME FaultKinds \cap {"call", "suspect", "return"} = {}
    PROVE  Spec => [](DispatchInv /\ CallInv /\ FlightInv)
<1>1. Init => DispatchInv /\ CallInv /\ FlightInv
  BY DispatchInvInit, CallInit, FlightInit
<1>2. DispatchInv /\ CallInv /\ FlightInv /\ [Next]_vars
        => (DispatchInv /\ CallInv /\ FlightInv)'
  BY DispatchInvStep, CallStep, FlightStep DEF DispatchInv
<1> QED BY <1>1, <1>2, PTL DEF Spec

\* Drones may die, reports, news and lock messages may get lost: as long as the
\* calls to the drones are answered in time and nobody takes a living drone for
\* lost, whatever flies is flown for an attempt that holds the request for that
\* drone (dispatcher.go:36-71, cmd/drone/main.go:156-200).
THEOREM FlightsBacked ==
    ASSUME FaultKinds \cap {"call", "suspect", "return"} = {}
    PROVE  Spec => []FlightIsBacked
<1>1. FlightInv => FlightIsBacked
  BY DEF FlightInv, FlightBacked, FlightIsBacked
<1> QED BY <1>1, FlightInvariant, PTL

\* README.md:55, as far as it is true: where in addition the lock's messages are
\* delivered, two drones fly for one request only after a release has deleted a
\* live lock.
THEOREM OneFlightUnlessClobbered ==
    ASSUME FaultKinds \cap {"call", "suspect", "return", "lock"} = {}
    PROVE  Spec => []NoDoubleFlightUnlessClobbered
<1>1. /\ FaultKinds \cap {"call", "suspect", "return"} = {}
      /\ "lock" \notin FaultKinds
  OBVIOUS
<1>2. DispatchInv /\ FlightInv /\ ExclusiveInFullView => NoDoubleFlightUnlessClobbered
  <2> SUFFICES ASSUME DispatchInv, FlightInv, ExclusiveInFullView,
                      NEW d \in Drone, NEW e \in Drone, NEW r \in Request,
                      OnMission(d, r), OnMission(e, r), r \notin clobbered
               PROVE  d = e
    BY DEF NoDoubleFlightUnlessClobbered
  <2>1. agent[d].att \in Attempt /\ agent[e].att \in Attempt
    BY DEF OnMission, DispatchInv, AgentsMatch
  <2>2. \A c \in {d, e} : /\ Holding(agent[c].att) /\ att[agent[c].att].req = r
                          /\ job[agent[c].att].drone = c
    BY DEF OnMission, FlightInv, FlightBacked
  <2>3. agent[d].att = agent[e].att
    BY <2>1, <2>2 DEF ExclusiveInFullView
  <2> QED BY <2>2, <2>3
<1>3. Spec => [](DispatchInv /\ CallInv /\ FlightInv)
  BY <1>1, FlightInvariant
<1>4. Spec => []ExclusiveInFullView
  BY <1>1, DispatchFullView
<1> QED BY <1>2, <1>3, <1>4, PTL

-----------------------------------------------------------------------------
(* What an ASSIGNED request has behind it, where no report and no news is  *)
(* lost.                                                                   *)

\* Drone d is on its way with request r, as far as it lives.
Aloft(d, r) ==
    /\ d \in Drone
    /\ \/ agent[d].phase = "dead"
       \/ agent[d].phase = "flying" /\ agent[d].req = r

\* The drone that has answered flies until the goroutine has read the answer.
AckFlies ==
    \A g \in Attempt : att[g].pc = "acquired" /\ job[g].call = "ack" =>
        LET d == job[g].drone
        IN \/ agent[d].phase = "dead"
           \/ agent[d].phase = "flying" /\ agent[d].att = g /\ agent[d].req = att[g].req

\* A request is passed on as PENDING, and a change told to others; who is said to
\* have a request flies it until the news has arrived.
NewsFlies ==
    \A m \in gossip :
        /\ m.type # "QUEUE_UPDATE" => m.entry.status = "PENDING"
        /\ m.type = "QUEUE_UPDATE" => m.from \in Base /\ m.to # m.from
        /\ m.entry.status = "ASSIGNED" => Aloft(m.entry.assigned, m.entry.id)

\* Drone d is dead, flies request r, or is about to report it.
Underway(d, r) ==
    \/ agent[d].phase = "dead"
    \/ agent[d].phase \in {"flying", "reporting"} /\ agent[d].req = r

\* The report, the rescue or the news that will move request r at base b.
Awaited(b, r) ==
    \/ \E x \in done : x.req = r
    \/ \E f \in rescue[b] : f.id = r
    \/ \E m \in gossip : m.type = "QUEUE_UPDATE" /\ m.to = b /\ m.entry.id = r

\* Each ASSIGNED request has one of these behind it.
AllBacked ==
    \A b \in Base : \A e \in queue[b].heap : e.status = "ASSIGNED" =>
        e.assigned \in Drone /\ (Underway(e.assigned, e.id) \/ Awaited(b, e.id))

AssignedInv == AckFlies /\ NewsFlies /\ AllBacked

\* Nothing is ASSIGNED at the start.
LEMMA AssignedInit == Init => AssignedInv
<1> SUFFICES ASSUME Init PROVE AssignedInv
  OBVIOUS
<1>1. AckFlies
  BY DEF Init, StableInit, Idle, AckFlies
<1>2. NewsFlies
  BY NewRequestType DEF Init, NewsFlies
<1>3. AllBacked
  BY DEF Init, EmptyQueue, AllBacked
<1> QED BY <1>1, <1>2, <1>3 DEF AssignedInv

\* A drone that is aloft stays so until its flight ends or it is started again.
LEMMA StaysAloft ==
    ASSUME DispatchTypeOK, [Next]_vars, NEW d, NEW r, Aloft(d, r),
           ~FinishMission(d), ~DroneReturns(d)
    PROVE  Aloft(d, r)'
<1>0. agent \in [Drone -> Agent] /\ d \in Drone
  BY DEF DispatchTypeOK, Aloft
<1> QED BY <1>0, AgentMoves DEF Aloft, ReportReceived, ReportAnswered, ReportLost, DroneDies,
        DeadDrone

\* One that has yet to report goes on until the report is there.
LEMMA StaysUnderway ==
    ASSUME DispatchTypeOK, [Next]_vars, "report" \notin FaultKinds, NEW d \in Drone, NEW r,
           Underway(d, r), ~DroneReturns(d)
    PROVE  Underway(d, r)' \/ \E x \in done' : x.req = r /\ x.base = Home[d]
<1>0. agent \in [Drone -> Agent]
  BY DEF DispatchTypeOK
<1>1. CASE FinishMission(d)
  <2>1. agent'[d].phase = "reporting" /\ agent'[d].req = agent[d].req
    BY <1>0, <1>1 DEF FinishMission, Agent
  <2> QED BY <1>1, <2>1 DEF Underway, FinishMission
<1>2. CASE ReportReceived(d)
  <2> DEFINE x == [att |-> agent[d].att, drone |-> d, req |-> agent[d].req, base |-> Home[d]]
  <2>1. x \in done' /\ x.req = agent[d].req /\ x.base = Home[d]
    BY <1>2 DEF ReportReceived
  <2> QED BY <1>2, <2>1 DEF Underway, ReportReceived
<1>3. ~ReportLost(d)
  BY DEF ReportLost, Disturb
<1>4. CASE DroneDies(d)
  BY <1>0, <1>4 DEF Underway, DroneDies, DeadDrone
<1> QED BY <1>1, <1>2, <1>3, <1>4, AgentMoves DEF Underway, ReportAnswered

\* A goroutine that has the answer has a flight, or a dead drone.
LEMMA AckStep ==
    ASSUME TypeOK, DispatchTypeOK, JobsMatch, CallInv, AckFlies, [Next]_vars
    PROVE  AckFlies'
<1> SUFFICES ASSUME NEW g \in Attempt, att'[g].pc = "acquired", job'[g].call = "ack"
             PROVE  LET d == job'[g].drone
                    IN \/ agent'[d].phase = "dead"
                       \/ /\ agent'[d].phase = "flying"
                          /\ agent'[d].att = g
                          /\ agent'[d].req = att'[g].req
  BY DEF AckFlies
<1> DEFINE Goal == LET d == job'[g].drone
                   IN \/ agent'[d].phase = "dead"
                      \/ /\ agent'[d].phase = "flying"
                         /\ agent'[d].att = g
                         /\ agent'[d].req = att'[g].req
<1>0. /\ att \in [Attempt -> AttemptState] /\ job \in [Attempt -> Job]
      /\ agent \in [Drone -> Agent]
  BY DEF TypeOK, DispatchTypeOK
<1>1. ASSUME agent' = agent, att[g].pc = "acquired", att'[g].req = att[g].req,
             job'[g].drone = job[g].drone, job[g].call = "ack"
      PROVE  Goal
  BY <1>1 DEF AckFlies
<1>2. CASE QuietStep
  <2>1. Goes(g) /\ job' = job /\ agent' = agent
    BY <1>2, Calm DEF QuietStep
  <2>2. att[g].pc = "acquired"
    BY <2>1 DEF Goes, CallInv, FreshCalls
  <2> QED BY <1>1, <2>1, <2>2 DEF Goes
<1>3. ASSUME NEW h \in Attempt, Ends(h)
      PROVE  Goal
  BY <1>0, <1>1, <1>3 DEF Ends, Idle
<1>4. ASSUME NEW b \in Base, NEW h \in Attempt, Reserve(b, h)
      PROVE  Goal
  BY <1>0, <1>1, <1>4 DEF Reserve, Spawn, Started, droneVars
<1>5. ASSUME NEW h \in Attempt, SendDispatch(h) \/ DispatchFails(h) \/ ConfirmDispatch(h)
      PROVE  Goal
  <2>1. /\ agent' = agent
        /\ h # g => att'[g] = att[g] /\ job'[g] = job[g]
        /\ att'[h].pc # "acquired" \/ job'[h].call # "ack"
    BY <1>0, <1>5 DEF SendDispatch, DispatchFails, LockDispatchFails, GiveBack, ConfirmDispatch,
       LockConfirm, lockVars, droneVars, Job, AttemptState
  <2> QED BY <1>1, <2>1
<1>6. ASSUME NEW m \in radio, TakeDispatch(m)
      PROVE  Goal
  <2>0. m.att \in Attempt /\ m.drone \in Drone /\ att' = att
    BY <1>6 DEF DispatchTypeOK, Call, TakeDispatch, lockVars
  <2>1. CASE job[g].call = "ack"
    <3>1. job'[g].drone = job[g].drone /\ job[g].drone \in Drone
      BY <1>0, <1>6, <2>0 DEF TakeDispatch, Job, JobsMatch
    <3>2. agent[job[g].drone].phase # "free"
      BY <2>0, <2>1 DEF AckFlies
    <3>3. agent'[job[g].drone] = agent[job[g].drone]
      BY <1>0, <1>6, <2>0, <3>2 DEF TakeDispatch
    <3> QED BY <2>0, <2>1, <3>1, <3>3 DEF AckFlies
  <2>2. CASE job[g].call # "ack"
    <3>1. g = m.att
      BY <1>0, <1>6, <2>0, <2>2 DEF TakeDispatch
    <3>2. agent[m.drone].phase = "free" /\ job'[g].drone = job[g].drone
      BY <1>0, <1>6, <2>0, <2>2, <3>1 DEF TakeDispatch, Job
    <3>3. agent' = [agent EXCEPT ![m.drone] = [phase |-> "flying", att |-> m.att, req |-> m.req]]
      BY <1>6, <3>2 DEF TakeDispatch
    <3>4. m.drone = job[g].drone /\ m.req = att[g].req
      BY <2>0, <3>1 DEF CallInv, CallsMatch
    <3> QED BY <1>0, <2>0, <3>1, <3>2, <3>3, <3>4
  <2> QED BY <2>1, <2>2
<1>7. ASSUME NEW c \in Drone,
             \/ FinishMission(c) \/ ReportReceived(c) \/ ReportAnswered(c)
             \/ ReportLost(c) \/ DroneDies(c) \/ DroneReturns(c)
      PROVE  Goal
  <2>0. att' = att /\ job' = job
    BY <1>7 DEF FinishMission, ReportReceived, ReportAnswered, ReportLost, DroneDies,
       DroneReturns, lockVars
  <2>1. CASE job[g].drone # c
    <3>1. job[g].drone \in Drone
      BY <2>0 DEF JobsMatch
    <3>2. agent'[job[g].drone] = agent[job[g].drone]
      BY <1>0, <1>7, <2>1, <3>1 DEF FinishMission, ReportReceived, ReportAnswered, ReportLost,
         DroneDies, DroneReturns
    <3> QED BY <2>0, <3>2 DEF AckFlies
  <2>2. CASE job[g].drone = c
    <3>1. ~FinishMission(c) /\ ~DroneReturns(c)
      BY <2>0, <2>2 DEF AckFlies, FinishMission, FlightTakesLong, DroneReturns
    <3>2. DroneDies(c)
      BY <1>7, <2>0, <2>2, <3>1 DEF AckFlies, ReportReceived, ReportAnswered, ReportLost
    <3> QED BY <1>0, <2>0, <2>2, <3>2 DEF DroneDies, DeadDrone
  <2> QED BY <2>1, <2>2
<1> QED BY <1>2, <1>3, <1>4, <1>5, <1>6, <1>7, StepKinds

\* What a step sends to the queues, and what it takes off the network.
LEMMA NewsMoves ==
    ASSUME DispatchTypeOK, TypeOK, JobsMatch, NewsFlies, [Next]_vars, NEW m \in gossip'
    PROVE  \/ m \in gossip
           \/ m.type = "QUEUE_ADD" /\ m.entry.status = "PENDING"
           \/ /\ m.type = "QUEUE_UPDATE" /\ m.from \in Base /\ m.to # m.from
              /\ m.entry.status = "ASSIGNED" =>
                    \E g \in Attempt : /\ ConfirmDispatch(g)
                                       /\ m.entry.assigned = job[g].drone
                                       /\ m.entry.id = att[g].req
<1> DEFINE Goal == \/ m \in gossip
                   \/ m.type = "QUEUE_ADD" /\ m.entry.status = "PENDING"
                   \/ /\ m.type = "QUEUE_UPDATE" /\ m.from \in Base /\ m.to # m.from
                      /\ m.entry.status = "ASSIGNED" =>
                            \E g \in Attempt : /\ ConfirmDispatch(g)
                                               /\ m.entry.assigned = job[g].drone
                                               /\ m.entry.id = att[g].req
<1>0. ASSUME NEW b \in Base, NEW e, m \in QueueUpdates(b, e)
      PROVE  m.type = "QUEUE_UPDATE" /\ m.entry = e /\ m.from = b /\ m.to # b
  BY <1>0 DEF QueueUpdates, Others
<1>1. ASSUME NEW n \in gossip, HandleGossip(n)
      PROVE  Goal
  <2>1. n.to \in Base /\ n.entry \in Entry
    BY DEF DispatchTypeOK, GossipMessage
  <2>2. CASE HandleNewRequest(n)
    <3>1. n.entry.status = "PENDING"
      BY <2>2 DEF HandleNewRequest, NewsFlies
    <3>2. m \in gossip \/ m \in QueueAdds(n.to, n.entry)
      BY <2>2 DEF HandleNewRequest
    <3> QED BY <2>1, <3>1, <3>2, QueueAddsType
  <2>3. CASE HandleQueueAdd(n) \/ HandleQueueUpdate(n)
    BY <2>3 DEF HandleQueueAdd, HandleQueueUpdate
  <2> QED BY <1>1, <2>2, <2>3 DEF HandleGossip
<1>2. ASSUME NEW g \in Attempt, Goroutine(g)
      PROVE  Goal
  <2>1. CASE ConfirmDispatch(g)
    <3> DEFINE e == [job[g].entry EXCEPT !.status = "ASSIGNED", !.assigned = job[g].drone]
    <3>1. /\ att[g].base \in Base /\ job[g].entry \in Entry /\ job[g].drone \in Drone
          /\ job[g].entry.id = att[g].req
      BY <2>1 DEF ConfirmDispatch, LockConfirm, TypeOK, JobsMatch
    <3>2. e.id = att[g].req /\ e.assigned = job[g].drone
      BY <3>1 DEF Entry
    <3>3. m \in gossip \/ m \in QueueUpdates(att[g].base, e)
      BY <2>1 DEF ConfirmDispatch
    <3> HIDE DEF e
    <3>4. CASE m \in QueueUpdates(att[g].base, e)
      BY <1>0, <2>1, <3>1, <3>2, <3>4
    <3> QED BY <3>3, <3>4
  <2>2. CASE Acquiring(g) \/ SendDispatch(g) \/ DispatchFails(g) \/ Requeue(g)
    BY <2>2 DEF Acquiring, SendDispatch, DispatchFails, Requeue
  <2> QED BY <1>2, <2>1, <2>2 DEF Goroutine
<1>3. ASSUME NEW x \in done, HandleMissionDone(x)
      PROVE  Goal
  <2> DEFINE e == [id |-> x.req, status |-> "DONE", assigned |-> x.drone, rescued |-> FALSE]
  <2>1. x.base \in Base /\ e.status = "DONE"
    BY DEF DispatchTypeOK
  <2>2. m \in gossip \/ m \in QueueUpdates(x.base, e)
    BY <1>3 DEF HandleMissionDone
  <2> HIDE DEF e
  <2> QED BY <1>0, <2>1, <2>2
<1>4. ASSUME NEW b \in Base, NEW e \in rescue[b], RescueMission(b, e)
      PROVE  Goal
  <2> DEFINE f == [e EXCEPT !.status = "PENDING", !.assigned = None, !.rescued = TRUE]
  <2>1. f.status = "PENDING"
    BY DEF DispatchTypeOK, Entry
  <2>2. m \in gossip \/ m \in QueueUpdates(b, f)
    BY <1>4 DEF RescueMission
  <2> HIDE DEF f
  <2> QED BY <1>0, <2>1, <2>2
<1>5. ASSUME \/ HandleLockMessage \/ DisturbLocks
             \/ \E b \in Base : Dispatcher(b) \/ \E d \in Drone : DetectLost(b, d)
             \/ \E b \in Base, p \in Base : HearPeer(b, p)
             \/ \E b \in Base, d \in Drone : Heartbeat(b, d)
             \/ \E n \in gossip : LoseGossip(n)
             \/ \E n \in radio : LoseDispatch(n) \/ TakeDispatch(n)
             \/ \E d \in Drone : \/ FinishMission(d) \/ ReportReceived(d) \/ ReportAnswered(d)
                                 \/ ReportLost(d) \/ DroneDies(d) \/ DroneReturns(d)
             \/ UNCHANGED vars
      PROVE  m \in gossip
  BY <1>5 DEF HandleLockMessage, DisturbLocks, Dispatcher, PickMission, Reserve, DetectLost,
     HearPeer, Heartbeat, LoseGossip, LoseDispatch, TakeDispatch, FinishMission, ReportReceived,
     ReportAnswered, ReportLost, DroneDies, DroneReturns, vars
<1> QED BY <1>1, <1>2, <1>3, <1>4, <1>5 DEF Next, HealthCheck

\* Who is said to have a request flies it until the news has arrived.
LEMMA NewsFliesStep ==
    ASSUME TypeOK, DispatchTypeOK, JobsMatch, AckFlies, NewsFlies, [Next]_vars,
           \A d \in Drone : DroneReturns(d) => \A b, c \in Base : b = c
    PROVE  NewsFlies'
<1> SUFFICES ASSUME NEW m \in gossip'
             PROVE  /\ m.type # "QUEUE_UPDATE" => m.entry.status = "PENDING"
                    /\ m.type = "QUEUE_UPDATE" => m.from \in Base /\ m.to # m.from
                    /\ m.entry.status = "ASSIGNED" => Aloft(m.entry.assigned, m.entry.id)'
  BY Zenon DEF NewsFlies
<1>1. CASE m \in gossip
  <2> SUFFICES ASSUME m.entry.status = "ASSIGNED"
               PROVE  Aloft(m.entry.assigned, m.entry.id)'
    BY <1>1 DEF NewsFlies
  <2> DEFINE d == m.entry.assigned
             r == m.entry.id
  <2>1. /\ m.type = "QUEUE_UPDATE" /\ Aloft(d, r)
        /\ m.from \in Base /\ m.to \in Base /\ m.to # m.from
    BY <1>1 DEF NewsFlies, DispatchTypeOK, GossipMessage
  <2>2. ~FinishMission(d)
    BY <1>1, <2>1 DEF FinishMission, FlightTakesLong, Aloft
  <2>3. ~DroneReturns(d)
    BY <2>1 DEF Aloft
  <2> HIDE DEF d, r
  <2>4. Aloft(d, r)'
    BY <2>1, <2>2, <2>3, StaysAloft
  <2> QED BY <2>4 DEF d, r
<1>2. ASSUME NEW g \in Attempt, ConfirmDispatch(g), m.entry.assigned = job[g].drone,
             m.entry.id = att[g].req
      PROVE  Aloft(m.entry.assigned, m.entry.id)'
  <2>1. att[g].pc = "acquired" /\ job[g].call = "ack" /\ agent' = agent
    BY <1>2 DEF ConfirmDispatch, LockConfirm, droneVars
  <2>2. job[g].drone \in Drone
    BY <2>1 DEF JobsMatch
  <2> QED BY <1>2, <2>1, <2>2 DEF AckFlies, Aloft
<1>3. CASE m \notin gossip
  BY <1>2, <1>3, NewsMoves
<1> QED BY <1>1, <1>3

\* A report, a rescue and a queue message stay until they are dealt with.
LEMMA Leavings ==
    ASSUME DispatchTypeOK, [Next]_vars
    PROVE  /\ \A x \in done : x \in done' \/ HandleMissionDone(x)
           /\ \A b \in Base : \A f \in rescue[b] : f \in rescue'[b] \/ RescueMission(b, f)
           /\ \A m \in gossip : m \in gossip' \/ HandleGossip(m) \/ LoseGossip(m)
<1> DEFINE Goal ==
             /\ \A x \in done : x \in done' \/ HandleMissionDone(x)
             /\ \A b \in Base : \A f \in rescue[b] : f \in rescue'[b] \/ RescueMission(b, f)
             /\ \A m \in gossip : m \in gossip' \/ HandleGossip(m) \/ LoseGossip(m)
<1>0. rescue \in [Base -> SUBSET Entry]
  BY DEF DispatchTypeOK
<1>1. ASSUME NEW m \in gossip, HandleGossip(m) \/ LoseGossip(m)
      PROVE  Goal
  <2>1. done' = done /\ rescue' = rescue /\ gossip \ {m} \subseteq gossip'
    BY <1>1 DEF HandleGossip, HandleNewRequest, HandleQueueAdd, HandleQueueUpdate, LoseGossip,
       baseVars, droneVars
  <2> QED BY <1>1, <2>1
<1>2. ASSUME NEW x \in done, HandleMissionDone(x)
      PROVE  Goal
  <2>1. done \ {x} \subseteq done' /\ rescue' = rescue /\ gossip \subseteq gossip'
    BY <1>2 DEF HandleMissionDone
  <2> QED BY <1>2, <2>1
<1>3. ASSUME NEW b \in Base, NEW e \in rescue[b], RescueMission(b, e)
      PROVE  Goal
  <2>1. /\ done' = done /\ gossip \subseteq gossip'
        /\ rescue' = [rescue EXCEPT ![b] = @ \ {e}]
    BY <1>3 DEF RescueMission, droneVars
  <2>2. \A c \in Base : \A f \in rescue[c] : f \in rescue'[c] \/ (c = b /\ f = e)
    BY <1>0, <2>1
  <2> QED BY <1>3, <2>1, <2>2
<1>4. ASSUME NEW b \in Base, NEW d \in Drone, DetectLost(b, d)
      PROVE  Goal
  <2>1. /\ done' = done /\ gossip' = gossip
        /\ \A c \in Base : rescue[c] \subseteq rescue'[c]
    BY <1>0, <1>4 DEF DetectLost, droneVars
  <2> QED BY <2>1
<1>5. ASSUME NEW g \in Attempt, Goroutine(g)
      PROVE  Goal
  <2>1. done' = done /\ rescue' = rescue /\ gossip \subseteq gossip'
    BY <1>5 DEF Goroutine, Acquiring, SendDispatch, DispatchFails, ConfirmDispatch, Requeue,
       baseVars, droneVars
  <2> QED BY <2>1
<1>6. ASSUME \/ HandleLockMessage \/ DisturbLocks
             \/ \E b \in Base : Dispatcher(b)
             \/ \E b \in Base, p \in Base : HearPeer(b, p)
             \/ \E b \in Base, d \in Drone : Heartbeat(b, d)
             \/ \E n \in radio : LoseDispatch(n) \/ TakeDispatch(n)
             \/ \E d \in Drone : \/ FinishMission(d) \/ ReportReceived(d) \/ ReportAnswered(d)
                                 \/ ReportLost(d) \/ DroneDies(d) \/ DroneReturns(d)
             \/ UNCHANGED vars
      PROVE  Goal
  <2>1. rescue' = rescue /\ gossip' = gossip
    BY <1>6 DEF HandleLockMessage, DisturbLocks, Dispatcher, PickMission, Reserve, HearPeer,
       Heartbeat, LoseDispatch, TakeDispatch, FinishMission, ReportReceived, ReportAnswered,
       ReportLost, DroneDies, DroneReturns, vars, baseVars
  <2>2. done \subseteq done'
    BY <1>6 DEF HandleLockMessage, DisturbLocks, Dispatcher, PickMission, Reserve, HearPeer,
       Heartbeat, LoseDispatch, TakeDispatch, FinishMission, ReportReceived, ReportAnswered,
       ReportLost, DroneDies, DroneReturns, vars, droneVars
  <2> QED BY <2>1, <2>2
<1> QED BY <1>1, <1>2, <1>3, <1>4, <1>5, <1>6 DEF Next, HealthCheck

\* An ASSIGNED entry comes with the news, with the confirmation of its mission,
\* or was there before.
LEMMA AssignedComes ==
    ASSUME TypeOK, DispatchTypeOK, JobsMatch, NewsFlies, [Next]_vars,
           NEW b \in Base, NEW e \in queue'[b].heap, e.status = "ASSIGNED"
    PROVE  \/ e \in queue[b].heap
           \/ \E m \in gossip : HandleQueueUpdate(m) /\ m.to = b /\ e = m.entry
           \/ \E g \in Attempt : /\ ConfirmDispatch(g)
                                 /\ e.id = att[g].req /\ e.assigned = job[g].drone
<1> DEFINE Goal == \/ e \in queue[b].heap
                   \/ \E m \in gossip : HandleQueueUpdate(m) /\ m.to = b /\ e = m.entry
                   \/ \E g \in Attempt : /\ ConfirmDispatch(g)
                                         /\ e.id = att[g].req /\ e.assigned = job[g].drone
<1>0. queue \in [Base -> Queue] /\ queue[b] \in Queue /\ \A x \in queue[b].heap : x \in Entry
  BY DEF DispatchTypeOK, Queue
<1>1. ASSUME NEW c \in Base, NEW q, queue' = [queue EXCEPT ![c] = q], c # b
      PROVE  Goal
  BY <1>0, <1>1
<1>2. ASSUME NEW r, NEW s, NEW d,
             queue' = [queue EXCEPT ![b] = UpdateStatus(queue[b], r, s, d)],
             s # "ASSIGNED"
      PROVE  Goal
  BY <1>0, <1>2 DEF UpdateStatus, Queue, Entry
<1>3. ASSUME NEW m \in gossip, HandleGossip(m)
      PROVE  Goal
  <2>1. m.to \in Base /\ (m.type # "QUEUE_UPDATE" => m.entry.status = "PENDING")
    BY DEF DispatchTypeOK, GossipMessage, NewsFlies
  <2>2. CASE HandleNewRequest(m) \/ HandleQueueAdd(m)
    <3>1. m.entry.status = "PENDING" /\ queue' = [queue EXCEPT ![m.to] = Push(queue[m.to], m.entry)]
      BY <2>1, <2>2 DEF HandleNewRequest, HandleQueueAdd
    <3>2. CASE m.to = b
      BY <1>0, <3>1, <3>2 DEF Push, Queue
    <3> QED BY <1>1, <2>1, <3>1, <3>2
  <2>3. CASE HandleQueueUpdate(m)
    <3>1. \/ queue' = [queue EXCEPT ![m.to] = Remove(Replace(queue[m.to], m.entry), m.entry.id)]
          \/ queue' = [queue EXCEPT ![m.to] = Replace(queue[m.to], m.entry)]
      BY <2>3 DEF HandleQueueUpdate
    <3>2. CASE m.to = b
      <4>1. e \in Replace(queue[b], m.entry).heap
        BY <1>0, <3>1, <3>2 DEF Remove, Replace, Push, Queue
      <4>2. e \in queue[b].heap \/ e = m.entry
        BY <1>0, <4>1 DEF Replace, Push, Queue
      <4> QED BY <2>3, <3>2, <4>2
    <3> QED BY <1>1, <2>1, <3>1, <3>2
  <2> QED BY <1>3, <2>2, <2>3 DEF HandleGossip
<1>4. ASSUME NEW c \in Base, Dispatcher(c)
      PROVE  Goal
  <2>1. \/ queue' = queue
        \/ queue' = [queue EXCEPT ![c] =
                        UpdateStatus(queue[c], picked[c].entry.id, "LOCKED", picked[c].drone)]
    BY <1>4 DEF Dispatcher, PickMission, Reserve
  <2> QED BY <1>1, <1>2, <2>1
<1>5. ASSUME NEW g \in Attempt, Goroutine(g)
      PROVE  Goal
  <2>1. CASE ConfirmDispatch(g)
    <3>1. /\ att[g].base \in Base /\ job[g].drone \in Drone /\ job[g].entry \in Entry
          /\ job[g].entry.id = att[g].req
      BY <2>1 DEF ConfirmDispatch, LockConfirm, TypeOK, JobsMatch
    <3>2. queue' = [queue EXCEPT ![att[g].base] =
                      UpdateStatus(queue[att[g].base], att[g].req, "ASSIGNED", job[g].drone)]
      BY <2>1, <3>1, AnnouncedType DEF ConfirmDispatch
    <3>3. CASE att[g].base = b
      <4>1. job[g].drone # None
        BY <3>1, NoneAssumption
      <4>2. e \in queue[b].heap \/ (e.id = att[g].req /\ e.assigned = job[g].drone)
        BY <1>0, <3>2, <3>3, <4>1 DEF UpdateStatus, Queue, Entry
      <4> QED BY <2>1, <4>2
    <3> QED BY <1>1, <3>1, <3>2, <3>3
  <2>2. CASE Requeue(g)
    <3>1. /\ att[g].base \in Base
          /\ queue' = [queue EXCEPT ![att[g].base] =
                          UpdateStatus(queue[att[g].base], att[g].req, "PENDING", None)]
      BY <2>2 DEF Requeue, LockRequeue, TypeOK
    <3> QED BY <1>1, <1>2, <3>1
  <2>3. CASE Acquiring(g) \/ SendDispatch(g) \/ DispatchFails(g)
    BY <2>3 DEF Acquiring, SendDispatch, DispatchFails, baseVars
  <2> QED BY <1>5, <2>1, <2>2, <2>3 DEF Goroutine
<1>6. ASSUME NEW x \in done, HandleMissionDone(x)
      PROVE  Goal
  <2>1. /\ x.base \in Base
        /\ queue' = [queue EXCEPT ![x.base] =
                        Remove(UpdateStatus(queue[x.base], x.req, "DONE", x.drone), x.req)]
    BY <1>6 DEF DispatchTypeOK, HandleMissionDone
  <2>2. CASE x.base = b
    <3>1. e \in UpdateStatus(queue[b], x.req, "DONE", x.drone).heap
      BY <1>0, <2>1, <2>2 DEF Remove, UpdateStatus, Queue
    <3> QED BY <1>0, <3>1 DEF UpdateStatus, Queue, Entry
  <2> QED BY <1>1, <2>1, <2>2
<1>7. ASSUME NEW c \in Base, NEW f \in rescue[c], RescueMission(c, f)
      PROVE  Goal
  <2> DEFINE p == [f EXCEPT !.status = "PENDING", !.assigned = None, !.rescued = TRUE]
  <2>1. p.status = "PENDING"
    BY DEF DispatchTypeOK, Entry
  <2>2. queue' = [queue EXCEPT ![c] = Replace(queue[c], p)]
    BY <1>7 DEF RescueMission
  <2> HIDE DEF p
  <2>3. CASE c = b
    BY <1>0, <2>1, <2>2, <2>3 DEF Replace, Push, Queue
  <2> QED BY <1>1, <2>2, <2>3
<1>8. ASSUME NEW d \in Drone, DroneReturns(d)
      PROVE  Goal
  <2>1. /\ Home[d] \in Base
        /\ queue' = [queue EXCEPT ![Home[d]] = ClearDroneAssignments(queue[Home[d]], d)]
    BY <1>8, HomeAssumption DEF DroneReturns
  <2>2. CASE Home[d] = b
    BY <1>0, <2>1, <2>2 DEF ClearDroneAssignments, Queue, Entry
  <2> QED BY <1>1, <2>1, <2>2
<1>9. ASSUME \/ HandleLockMessage \/ DisturbLocks
             \/ \E c \in Base, p \in Base : HearPeer(c, p)
             \/ \E c \in Base, d \in Drone : Heartbeat(c, d) \/ DetectLost(c, d)
             \/ \E n \in gossip : LoseGossip(n)
             \/ \E n \in radio : LoseDispatch(n) \/ TakeDispatch(n)
             \/ \E d \in Drone : \/ FinishMission(d) \/ ReportReceived(d) \/ ReportAnswered(d)
                                 \/ ReportLost(d) \/ DroneDies(d)
             \/ UNCHANGED vars
      PROVE  e \in queue[b].heap
  BY <1>9 DEF HandleLockMessage, DisturbLocks, HearPeer, Heartbeat, DetectLost, LoseGossip,
     LoseDispatch, TakeDispatch, FinishMission, ReportReceived, ReportAnswered, ReportLost,
     DroneDies, vars, baseVars
<1> QED BY <1>3, <1>4, <1>5, <1>6, <1>7, <1>8, <1>9 DEF Next, HealthCheck

\* What takes its report, its rescue, its news or its drone away from an entry
\* takes the entry away, or changes it.
LEMMA AssignedGoes ==
    ASSUME TypeOK, DispatchTypeOK, QueuesWellFormed,
           NEW b \in Base, NEW e \in queue'[b].heap, e.status = "ASSIGNED", e \in queue[b].heap
    PROVE  /\ \A m \in gossip : HandleQueueUpdate(m) /\ m.to = b /\ m.entry.id = e.id => e = m.entry
           /\ \A x \in done : HandleMissionDone(x) /\ x.base = b => x.req # e.id
           /\ \A f \in rescue[b] : RescueMission(b, f) => f.id # e.id
           /\ \A d \in Drone : DroneReturns(d) /\ Home[d] = b => e.assigned # d
<1>0. /\ queue \in [Base -> Queue] /\ queue[b] \in Queue /\ \A x \in queue[b].heap : x \in Entry
      /\ e.id \in queue[b].seen
  BY DEF DispatchTypeOK, Queue, QueuesWellFormed, WellFormed
<1>1. ASSUME NEW m \in gossip, HandleQueueUpdate(m), m.to = b, m.entry.id = e.id
      PROVE  e = m.entry
  <2>1. CASE queue' = [queue EXCEPT ![b] = Remove(Replace(queue[b], m.entry), m.entry.id)]
    <3>1. e \in Remove(Replace(queue[b], m.entry), m.entry.id).heap
      BY <1>0, <2>1
    <3> QED BY <1>1, <3>1 DEF Remove
  <2>2. CASE queue' = [queue EXCEPT ![b] = Replace(queue[b], m.entry)]
    <3>1. e \in Replace(queue[b], m.entry).heap
      BY <1>0, <2>2
    <3>2. e \in {IF x.id = m.entry.id THEN m.entry ELSE x : x \in queue[b].heap}
      BY <1>0, <1>1, <3>1 DEF Replace, Queue
    <3> QED BY <1>1, <3>2
  <2> QED BY <1>1, <2>1, <2>2 DEF HandleQueueUpdate
<1>2. ASSUME NEW x \in done, HandleMissionDone(x), x.base = b
      PROVE  x.req # e.id
  BY <1>0, <1>2 DEF HandleMissionDone, Remove
<1>3. ASSUME NEW f \in rescue[b], RescueMission(b, f)
      PROVE  f.id # e.id
  <2> DEFINE p == [f EXCEPT !.status = "PENDING", !.assigned = None, !.rescued = TRUE]
  <2>1. p.status = "PENDING" /\ p.id = f.id
    BY DEF DispatchTypeOK, Entry
  <2>2. queue' = [queue EXCEPT ![b] = Replace(queue[b], p)]
    BY <1>3 DEF RescueMission
  <2> HIDE DEF p
  <2> QED BY <1>0, <2>1, <2>2 DEF Replace, Queue
<1>4. ASSUME NEW d \in Drone, DroneReturns(d), Home[d] = b
      PROVE  e.assigned # d
  <2>1. e \in ClearDroneAssignments(queue[b], d).heap
    BY <1>0, <1>4 DEF DroneReturns
  <2>2. e \in {IF x.status = "ASSIGNED" /\ x.assigned = d
               THEN [x EXCEPT !.status = "PENDING", !.assigned = None]
               ELSE x : x \in queue[b].heap}
    BY <1>0, <2>1 DEF ClearDroneAssignments, Queue
  <2>3. \A x \in queue[b].heap : [x EXCEPT !.status = "PENDING", !.assigned = None].status # "ASSIGNED"
    BY <1>0 DEF Entry
  <2> QED BY <2>2, <2>3
<1> QED BY <1>1, <1>2, <1>3, <1>4

\* Each ASSIGNED request keeps something behind it.
LEMMA BackedStep ==
    ASSUME TypeOK, DispatchTypeOK, JobsMatch, QueuesWellFormed, AssignedInv, [Next]_vars,
           "report" \notin FaultKinds, \A m \in gossip : ~LoseGossip(m),
           \A d \in Drone : DroneReturns(d) => \A b, c \in Base : b = c
    PROVE  AllBacked'
<1> SUFFICES ASSUME NEW b \in Base, NEW e \in queue'[b].heap, e.status = "ASSIGNED"
             PROVE  /\ e.assigned \in Drone
                    /\ Underway(e.assigned, e.id)' \/ Awaited(b, e.id)'
  BY Zenon DEF AllBacked
<1> DEFINE Goal == /\ e.assigned \in Drone
                   /\ Underway(e.assigned, e.id)' \/ Awaited(b, e.id)'
<1>0. /\ \A m \in gossip : m.to \in Base
      /\ \A x \in done : x.base \in Base
  BY DEF DispatchTypeOK, GossipMessage
<1>1. ASSUME NEW m \in gossip, HandleQueueUpdate(m), e = m.entry
      PROVE  Goal
  <2>1. Aloft(e.assigned, e.id) /\ agent' = agent
    BY <1>1 DEF AssignedInv, NewsFlies, HandleQueueUpdate, droneVars
  <2> QED BY <2>1 DEF Aloft, Underway
<1>2. ASSUME NEW g \in Attempt, ConfirmDispatch(g), e.id = att[g].req, e.assigned = job[g].drone
      PROVE  Goal
  <2>1. att[g].pc = "acquired" /\ job[g].call = "ack" /\ agent' = agent
    BY <1>2 DEF ConfirmDispatch, LockConfirm, droneVars
  <2>2. job[g].drone \in Drone
    BY <2>1 DEF JobsMatch
  <2> QED BY <1>2, <2>1, <2>2 DEF AssignedInv, AckFlies, Underway
<1>3. ASSUME e \in queue[b].heap, ~\E m \in gossip : HandleQueueUpdate(m) /\ e = m.entry
      PROVE  Goal
  <2>0. e.assigned \in Drone /\ (Underway(e.assigned, e.id) \/ Awaited(b, e.id))
    BY <1>3 DEF AssignedInv, AllBacked
  <2>1. CASE Underway(e.assigned, e.id)
    <3>1. ~DroneReturns(e.assigned)
      <4>1. SUFFICES ASSUME DroneReturns(e.assigned) PROVE FALSE
        OBVIOUS
      <4>2. Home[e.assigned] = b
        BY <2>0, <4>1, HomeAssumption
      <4> QED BY <1>3, <2>0, <4>1, <4>2, AssignedGoes
    <3>2. Underway(e.assigned, e.id)' \/ \E x \in done' : x.req = e.id
      BY <2>0, <2>1, <3>1, StaysUnderway
    <3> QED BY <2>0, <3>2 DEF Awaited
  <2>2. ASSUME NEW x \in done, x.req = e.id
        PROVE  Goal
    <3>1. CASE x \in done'
      BY <2>0, <2>2, <3>1 DEF Awaited
    <3>2. CASE HandleMissionDone(x)
      <4> DEFINE f == [id |-> x.req, status |-> "DONE", assigned |-> x.drone, rescued |-> FALSE]
                 m == [type |-> "QUEUE_UPDATE", entry |-> f, from |-> x.base, to |-> b]
      <4>1. x.base # b
        BY <1>3, <2>2, <3>2, AssignedGoes
      <4>2. m \in QueueUpdates(x.base, f)
        BY <4>1 DEF QueueUpdates, Others
      <4>3. m \in gossip'
        BY <3>2, <4>2 DEF HandleMissionDone
      <4>4. m.type = "QUEUE_UPDATE" /\ m.to = b /\ m.entry.id = e.id
        BY <2>2
      <4> HIDE DEF m
      <4> QED BY <2>0, <4>3, <4>4 DEF Awaited
    <3> QED BY <3>1, <3>2, Leavings
  <2>3. ASSUME NEW f \in rescue[b], f.id = e.id
        PROVE  Goal
    <3>1. ~RescueMission(b, f)
      BY <1>3, <2>3, AssignedGoes
    <3> QED BY <2>0, <2>3, <3>1, Leavings DEF Awaited
  <2>4. ASSUME NEW m \in gossip, m.type = "QUEUE_UPDATE", m.to = b, m.entry.id = e.id
        PROVE  Goal
    <3>1. ~HandleQueueUpdate(m)
      BY <1>3, <2>4, AssignedGoes
    <3>2. ~LoseGossip(m) /\ ~HandleNewRequest(m) /\ ~HandleQueueAdd(m)
      BY <2>4 DEF HandleNewRequest, HandleQueueAdd
    <3>3. m \in gossip'
      BY <3>1, <3>2, Leavings DEF HandleGossip
    <3> QED BY <2>0, <2>4, <3>3 DEF Awaited
  <2> QED BY <2>0, <2>1, <2>2, <2>3, <2>4 DEF Awaited
<1> QED BY <1>1, <1>2, <1>3, AssignedComes DEF AssignedInv

\* Every step keeps AssignedInv, if a drone that is started again has told every
\* base that holds an entry of its: the only one.
LEMMA AssignedStep ==
    ASSUME DispatchInv, CallInv, AssignedInv, [Next]_vars,
           FaultKinds \cap {"report", "gossip"} = {},
           \A d \in Drone : DroneReturns(d) => \A b, c \in Base : b = c
    PROVE  AssignedInv'
<1>1. AckFlies'
  BY AckStep DEF DispatchInv, AssignedInv
<1>2. NewsFlies'
  BY NewsFliesStep DEF DispatchInv, AssignedInv
<1>3. \A m \in gossip : ~LoseGossip(m)
  BY DEF LoseGossip, Disturb
<1>4. AllBacked'
  BY <1>3, BackedStep DEF DispatchInv
<1> QED BY <1>1, <1>2, <1>4 DEF AssignedInv

\* Calls may fail, lock messages get lost, living drones be taken for lost and
\* drones die: as long as reports and the news between the queues arrive, no
\* ASSIGNED request is stranded, unless on a dead drone (dispatcher.go:36-71,
\* drone_handler.go:24-61, heartbeat.go:106-131).  A drone may also be started again
\* if there is no second base, whom nobody would tell that the mission went back.
THEOREM AssignedBackedOrDead ==
    ASSUME FaultKinds \cap {"report", "gossip"} = {},
           "return" \in FaultKinds => \A b, c \in Base : b = c
    PROVE  Spec => []AssignedIsBackedOrDead
<1>1. Init => DispatchInv /\ CallInv /\ AssignedInv
  BY DispatchInvInit, CallInit, AssignedInit
<1>2. DispatchInv /\ CallInv /\ AssignedInv /\ [Next]_vars
        => (DispatchInv /\ CallInv /\ AssignedInv)'
  <2> SUFFICES ASSUME DispatchInv, CallInv, AssignedInv, [Next]_vars
               PROVE  (DispatchInv /\ CallInv /\ AssignedInv)'
    OBVIOUS
  <2>1. \A d \in Drone : DroneReturns(d) => \A b, c \in Base : b = c
    BY DEF DroneReturns
  <2>2. DispatchInv' /\ CallInv'
    BY DispatchInvStep, CallStep DEF DispatchInv
  <2> QED BY <2>1, <2>2, AssignedStep
<1>3. AssignedInv => AssignedIsBackedOrDead
  BY DEF AssignedInv, AllBacked, Underway, Awaited, AssignedIsBackedOrDead, Moving
<1> QED BY <1>1, <1>2, <1>3, PTL DEF Spec

\* Where no drone dies, all live.
LEMMA DronesLiveStep ==
    ASSUME DispatchTypeOK, DronesLive, [Next]_vars, "death" \notin FaultKinds
    PROVE  DronesLive'
<1> SUFFICES ASSUME NEW d \in Drone PROVE agent'[d].phase # "dead"
  BY DEF DronesLive
<1>1. agent[d].phase # "dead" /\ agent \in [Drone -> Agent]
  BY DEF DronesLive, DispatchTypeOK
<1>2. ASSUME \/ FinishMission(d) \/ ReportReceived(d) \/ ReportAnswered(d)
             \/ ReportLost(d) \/ DroneDies(d) \/ DroneReturns(d)
      PROVE  agent'[d].phase # "dead"
  <2>1. \/ agent' = [agent EXCEPT ![d] = FreeDrone]
        \/ \E s \in {"reporting", "reported"} : agent' = [agent EXCEPT ![d].phase = s]
    BY <1>1, <1>2 DEF FinishMission, ReportReceived, ReportAnswered, ReportLost, DroneDies,
       DroneReturns, Disturb
  <2> QED BY <1>1, <2>1 DEF FreeDrone, Agent
<1> QED BY <1>1, <1>2, AgentMoves

\* And then no ASSIGNED request is stranded at all.
THEOREM AssignedBacked ==
    ASSUME FaultKinds \cap {"report", "gossip", "death"} = {}
    PROVE  Spec => []AssignedIsBacked
<1>1. Init => DispatchInv /\ CallInv /\ AssignedInv /\ DronesLive
  BY DispatchInvInit, CallInit, AssignedInit DEF Init, FreeDrone, DronesLive
<1>2. DispatchInv /\ CallInv /\ AssignedInv /\ DronesLive /\ [Next]_vars
        => (DispatchInv /\ CallInv /\ AssignedInv /\ DronesLive)'
  <2> SUFFICES ASSUME DispatchInv, CallInv, AssignedInv, DronesLive, [Next]_vars
               PROVE  (DispatchInv /\ CallInv /\ AssignedInv /\ DronesLive)'
    OBVIOUS
  <2>1. \A d \in Drone : ~DroneReturns(d)
    BY DEF DroneReturns, DronesLive
  <2>2. DispatchInv' /\ CallInv' /\ DronesLive'
    BY DispatchInvStep, CallStep, DronesLiveStep DEF DispatchInv
  <2> QED BY <2>1, <2>2, AssignedStep
<1>3. AssignedInv /\ DronesLive => AssignedIsBacked
  BY DEF AssignedInv, AllBacked, Underway, Awaited, AssignedIsBacked, Moving, DronesLive
<1> QED BY <1>1, <1>2, <1>3, PTL DEF Spec

-----------------------------------------------------------------------------
(* The same where the news may be lost.                                    *)

\* The report or the rescue that will move request r at base b, whatever
\* becomes of the news.
HomeAwaited(b, r) ==
    \/ \E x \in done : x.req = r /\ x.base = b
    \/ \E f \in rescue[b] : f.id = r

HomeBacked ==
    \A b \in Base : \A e \in queue[b].heap : e.status = "ASSIGNED" =>
        /\ e.assigned \in Drone
        /\ Home[e.assigned] = b => Underway(e.assigned, e.id) \/ HomeAwaited(b, e.id)

LossyInv == /\ AckFlies
            /\ NewsFlies
            /\ HomeBacked
            /\ faults = 0 => AllBacked

\* Disturbances are counted.
LEMMA FaultsGrow ==
    ASSUME [Next]_vars
    PROVE  /\ faults' = faults \/ faults' = faults + 1
           /\ \A m \in gossip : LoseGossip(m) => faults' = faults + 1
<1>1. ASSUME NEW g \in Attempt, Goroutine(g)
      PROVE  faults' = faults \/ faults' = faults + 1
  BY <1>1 DEF Goroutine, Acquiring, SendDispatch, DispatchFails, CallBroken, ConfirmDispatch,
     Requeue, Disturb
<1>2. ASSUME \/ HandleLockMessage \/ DisturbLocks
             \/ \E b \in Base : Dispatcher(b) \/ HealthCheck(b)
             \/ \E b \in Base, p \in Base : HearPeer(b, p)
             \/ \E b \in Base, d \in Drone : Heartbeat(b, d)
             \/ \E n \in gossip : HandleGossip(n) \/ LoseGossip(n)
             \/ \E x \in done : HandleMissionDone(x)
             \/ UNCHANGED vars
      PROVE  faults' = faults \/ faults' = faults + 1
  BY <1>2 DEF HandleLockMessage, DisturbLocks, Dispatcher, PickMission, Reserve, HealthCheck,
     DetectLost, RescueMission, HearPeer, Heartbeat, HandleGossip, HandleNewRequest,
     HandleQueueAdd, HandleQueueUpdate, LoseGossip, HandleMissionDone, Disturb, vars
<1>3. ASSUME \/ \E n \in radio : LoseDispatch(n) \/ TakeDispatch(n)
             \/ \E d \in Drone : \/ FinishMission(d) \/ ReportReceived(d) \/ ReportAnswered(d)
                                 \/ ReportLost(d) \/ DroneDies(d) \/ DroneReturns(d)
      PROVE  faults' = faults \/ faults' = faults + 1
  BY <1>3 DEF LoseDispatch, TakeDispatch, FinishMission, ReportReceived, ReportAnswered,
     ReportLost, DroneDies, DroneReturns, Disturb
<1>4. \A m \in gossip : LoseGossip(m) => faults' = faults + 1
  BY DEF LoseGossip, Disturb
<1> QED BY <1>1, <1>2, <1>3, <1>4 DEF Next

\* At the base of its drone an ASSIGNED request needs no news.
LEMMA HomeStep ==
    ASSUME TypeOK, DispatchTypeOK, JobsMatch, QueuesWellFormed, AckFlies, NewsFlies,
           HomeBacked, [Next]_vars,
           "report" \notin FaultKinds, \A d \in Drone : ~DroneReturns(d)
    PROVE  HomeBacked'
<1> SUFFICES ASSUME NEW b \in Base, NEW e \in queue'[b].heap, e.status = "ASSIGNED"
             PROVE  /\ e.assigned \in Drone
                    /\ Home[e.assigned] = b =>
                          Underway(e.assigned, e.id)' \/ HomeAwaited(b, e.id)'
  BY Zenon DEF HomeBacked
<1> DEFINE Goal == /\ e.assigned \in Drone
                   /\ Home[e.assigned] = b =>
                         Underway(e.assigned, e.id)' \/ HomeAwaited(b, e.id)'
<1>1. ASSUME NEW m \in gossip, HandleQueueUpdate(m), e = m.entry
      PROVE  Goal
  <2>1. Aloft(e.assigned, e.id) /\ agent' = agent
    BY <1>1 DEF NewsFlies, HandleQueueUpdate, droneVars
  <2> QED BY <2>1 DEF Aloft, Underway
<1>2. ASSUME NEW g \in Attempt, ConfirmDispatch(g), e.id = att[g].req, e.assigned = job[g].drone
      PROVE  Goal
  <2>1. att[g].pc = "acquired" /\ job[g].call = "ack" /\ agent' = agent
    BY <1>2 DEF ConfirmDispatch, LockConfirm, droneVars
  <2>2. job[g].drone \in Drone
    BY <2>1 DEF JobsMatch
  <2> QED BY <1>2, <2>1, <2>2 DEF AckFlies, Underway
<1>3. CASE e \in queue[b].heap
  <2>1. e.assigned \in Drone
    BY <1>3 DEF HomeBacked
  <2>2. SUFFICES ASSUME Home[e.assigned] = b
                 PROVE  Underway(e.assigned, e.id)' \/ HomeAwaited(b, e.id)'
    BY <2>1
  <2>3. Underway(e.assigned, e.id) \/ HomeAwaited(b, e.id)
    BY <1>3, <2>2 DEF HomeBacked
  <2>4. CASE Underway(e.assigned, e.id)
    BY <2>1, <2>2, <2>4, StaysUnderway DEF HomeAwaited
  <2>5. ASSUME NEW x \in done, x.req = e.id, x.base = b
        PROVE  HomeAwaited(b, e.id)'
    <3>1. ~HandleMissionDone(x)
      BY <1>3, <2>5, AssignedGoes
    <3> QED BY <2>5, <3>1, Leavings DEF HomeAwaited
  <2>6. ASSUME NEW f \in rescue[b], f.id = e.id
        PROVE  HomeAwaited(b, e.id)'
    <3>1. ~RescueMission(b, f)
      BY <1>3, <2>6, AssignedGoes
    <3> QED BY <2>6, <3>1, Leavings DEF HomeAwaited
  <2> QED BY <2>3, <2>4, <2>5, <2>6 DEF HomeAwaited
<1> QED BY <1>1, <1>2, <1>3, AssignedComes

\* Queue messages are sent once (servers.go:247-256).  Whichever of them are
\* lost, and whatever becomes of calls and locks: the base of a drone keeps no
\* request ASSIGNED to it that nothing will move, and a peer does so only after a
\* disturbance.
THEOREM AssignedBackedUnlessMissed ==
    ASSUME FaultKinds \cap {"report", "death"} = {}
    PROVE  Spec => []AssignedIsBackedUnlessMissed
<1> DEFINE Inv == DispatchInv /\ CallInv /\ LossyInv /\ DronesLive
<1>1. Init => Inv
  BY DispatchInvInit, CallInit, AssignedInit
     DEF Init, FreeDrone, DronesLive, LossyInv, AssignedInv, HomeBacked, EmptyQueue
<1>2. Inv /\ [Next]_vars => Inv'
  <2> SUFFICES ASSUME DispatchInv, CallInv, LossyInv, DronesLive, [Next]_vars
               PROVE  Inv'
    OBVIOUS
  <2>1. \A d \in Drone : ~DroneReturns(d)
    BY DEF DroneReturns, DronesLive
  <2>2. DispatchInv' /\ CallInv' /\ DronesLive'
    BY DispatchInvStep, CallStep, DronesLiveStep DEF DispatchInv
  <2>3. AckFlies' /\ NewsFlies' /\ HomeBacked'
    BY <2>1, AckStep, NewsFliesStep, HomeStep DEF DispatchInv, LossyInv
  <2>4. ASSUME faults' = 0
        PROVE  AllBacked'
    <3>1. faults = 0 /\ \A m \in gossip : ~LoseGossip(m)
      BY <2>4, FaultsGrow DEF DispatchInv, DispatchTypeOK
    <3> QED BY <2>1, <3>1, BackedStep DEF DispatchInv, LossyInv, AssignedInv
  <2> QED BY <2>2, <2>3, <2>4 DEF LossyInv
<1>3. Inv => AssignedIsBackedUnlessMissed
  <2> SUFFICES ASSUME DispatchInv, LossyInv, DronesLive,
                      NEW b \in Base, NEW e \in queue[b].heap, e.status = "ASSIGNED"
               PROVE  Moving(b, e) \/ (Home[e.assigned] # b /\ faults > 0)
    BY DEF AssignedIsBackedUnlessMissed
  <2>1. faults \in Nat
    BY MaxFaultsAssumption DEF DispatchInv, DispatchTypeOK
  <2>2. CASE Home[e.assigned] = b
    BY <2>2 DEF LossyInv, HomeBacked, HomeAwaited, Underway, Moving, DronesLive
  <2>3. CASE faults = 0
    BY <2>3 DEF LossyInv, AllBacked, Underway, Awaited, Moving, DronesLive
  <2> QED BY <2>1, <2>2, <2>3
<1> QED BY <1>1, <1>2, <1>3, PTL DEF Spec
=============================================================================
