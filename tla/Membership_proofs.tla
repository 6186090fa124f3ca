------------------------- MODULE Membership_proofs -------------------------
(***************************************************************************)
(* Whatever crashes, restarts, snapshots and clears do, a queue keeps no   *)
(* request twice and takes back none it has put away.  Every change of a   *)
(* queue is one of the operations of RequestQueue; the lemmas say what     *)
(* each leaves behind, and the steps of Membership are reduced to them.    *)
(* Nobody is left behind either, while there are at most two bases or none *)
(* crashes: BookInv is what both proofs have in common.                    *)
(***************************************************************************)
EXTENDS Membership, RequestQueue_proofs

\* n is a proper successor of queue q: a queue, without duplicates, and
\* without any ID that q had seen and no longer held.
Follows(q, n) ==
    /\ n \in Queue
    /\ WellFormed(n)
    /\ \A r \in q.seen : r \in Ids(n) => r \in Ids(q)

\* The inductive invariant.
QueueInv == TypeOK /\ QueuesWellFormed /\ SnapshotsWellFormed

-----------------------------------------------------------------------------
(* What the operations leave behind.                                       *)

\* Push and Replace (queue.go:52-80).
LEMMA ArrivalFollows ==
    ASSUME NEW q \in Queue, WellFormed(q), NEW e \in Entry
    PROVE  Follows(q, Push(q, e)) /\ Follows(q, Replace(q, e))
<1>1. Push(q, e) \in Queue /\ Replace(q, e) \in Queue
  BY PushType, ReplaceType
<1>2. WellFormed(Push(q, e)) /\ WellFormed(Replace(q, e))
  BY PushWellFormed, ReplaceWellFormed
<1>3. \A r \in q.seen : /\ r \in Ids(Push(q, e)) => r \in Ids(q)
                        /\ r \in Ids(Replace(q, e)) => r \in Ids(q)
  BY PushIds, ReplaceIds
<1> QED BY <1>1, <1>2, <1>3 DEF Follows

\* Remove, also right after Replace (servers.go:103-106).
LEMMA RemovalFollows ==
    ASSUME NEW q \in Queue, WellFormed(q), NEW n, Follows(q, n), NEW r
    PROVE  Follows(q, Remove(n, r))
<1>1. n \in Queue /\ WellFormed(n) /\ \A s \in q.seen : s \in Ids(n) => s \in Ids(q)
  BY DEF Follows
<1>2. Remove(n, r) \in Queue /\ WellFormed(Remove(n, r)) /\ Ids(Remove(n, r)) = Ids(n) \ {r}
  BY <1>1, RemoveType, RemoveWellFormed, RemoveIds
<1> QED BY <1>1, <1>2 DEF Follows

\* UpdateStatus (queue.go:103-130).
LEMMA StatusFollows ==
    ASSUME NEW q \in Queue, WellFormed(q), NEW r, NEW s \in Status, NEW d \in Drone \cup {None}
    PROVE  Follows(q, UpdateStatus(q, r, s, d))
<1>1. UpdateStatus(q, r, s, d) \in Queue
  BY UpdateStatusType
<1>2. WellFormed(UpdateStatus(q, r, s, d)) /\ Ids(UpdateStatus(q, r, s, d)) = Ids(q)
  BY UpdateStatusWellFormed, UpdateStatusIds
<1> QED BY <1>1, <1>2 DEF Follows

\* SyncFrom a snapshot without duplicates (queue.go:266-277).
LEMMA SyncFollows ==
    ASSUME NEW q \in Queue, WellFormed(q), NEW S \in SUBSET Entry,
           \A e, f \in S : e.id = f.id => e = f
    PROVE  Follows(q, SyncFrom(q, S))
<1>1. SyncFrom(q, S) \in Queue /\ WellFormed(SyncFrom(q, S))
  BY SyncFromType, SyncFromWellFormed
<1> QED BY <1>1, SyncFromIds DEF Follows

\* ClearAll, a crash, and no change at all.
LEMMA NothingFollows ==
    ASSUME NEW q \in Queue, WellFormed(q)
    PROVE  Follows(q, EmptyQueue) /\ Follows(q, q)
<1>1. Ids(EmptyQueue) = {}
  BY DEF Ids, EmptyQueue
<1> QED BY <1>1, EmptyQueueWellFormed DEF Follows

-----------------------------------------------------------------------------
(* Messages.                                                               *)

\* What a broadcast adds to the messages in flight (tcp.go:131-155).
LEMMA BroadcastType ==
    ASSUME NEW type \in MessageType, NEW from \in Base \cup {None}, NEW P,
           NEW S \in SUBSET Entry, running \subseteq Base
    PROVE  /\ Broadcast(type, from, P, S) \subseteq Message
           /\ \A m \in Broadcast(type, from, P, S) : m.entries = S
<1>1. \A p \in Base :
        /\ [type |-> type, from |-> from, to |-> p, entries |-> S] \in Message
        /\ [type |-> type, from |-> from, to |-> p, entries |-> S].entries = S
  BY DEF Message
<1> QED BY <1>1, Zenon DEF Broadcast

\* Messages without duplicates are added to messages without duplicates.
LEMMA WireGrows ==
    ASSUME QueueInv, NEW type \in MessageType, NEW from \in Base \cup {None}, NEW P,
           NEW S \in SUBSET Entry, \A e, f \in S : e.id = f.id => e = f,
           wire' \subseteq wire \cup Broadcast(type, from, P, S)
    PROVE  wire' \subseteq Message /\ SnapshotsWellFormed'
<1>1. /\ Broadcast(type, from, P, S) \subseteq Message
      /\ \A m \in Broadcast(type, from, P, S) : m.entries = S
  BY BroadcastType DEF QueueInv, TypeOK
<1>2. wire \subseteq Message /\ \A m \in wire : \A e, f \in m.entries : e.id = f.id => e = f
  BY DEF QueueInv, TypeOK, SnapshotsWellFormed
<1> HIDE DEF Message
<1> QED BY <1>1, <1>2 DEF SnapshotsWellFormed

\* The same when messages are only taken away.
LEMMA WireShrinks ==
    ASSUME QueueInv, wire' \subseteq wire
    PROVE  wire' \subseteq Message /\ SnapshotsWellFormed'
BY DEF QueueInv, TypeOK, SnapshotsWellFormed

\* One queue moves on: all stay well formed.
LEMMA QueueMovesOn ==
    ASSUME QueueInv, NEW b \in Base, NEW q, Follows(queue[b], q), Enqueue(b, q)
    PROVE  /\ queue' \in [Base -> Queue]
           /\ QueuesWellFormed'
           /\ \A c \in Base : Follows(queue[c], queue'[c])
<1>1. queue \in [Base -> Queue] /\ \A c \in Base : WellFormed(queue[c])
  BY DEF QueueInv, TypeOK, QueuesWellFormed
<1>2. \A c \in Base : Follows(queue[c], queue[c])
  BY <1>1, NothingFollows
<1>3. q \in Queue /\ WellFormed(q)
  BY DEF Follows
<1>4. \A c \in Base : queue'[c] = IF c = b THEN q ELSE queue[c]
  BY <1>1 DEF Enqueue
<1>5. queue' \in [Base -> Queue]
  BY <1>1, <1>3 DEF Enqueue
<1>6. \A c \in Base : WellFormed(queue'[c])
  BY <1>1, <1>3, <1>4
<1> QED BY <1>2, <1>4, <1>5, <1>6 DEF QueuesWellFormed

\* No queue moves.
LEMMA QueuesStay ==
    ASSUME QueueInv, UNCHANGED queue
    PROVE  /\ queue' \in [Base -> Queue]
           /\ QueuesWellFormed'
           /\ \A c \in Base : Follows(queue[c], queue'[c])
<1>1. queue \in [Base -> Queue] /\ \A c \in Base : WellFormed(queue[c])
  BY DEF QueueInv, TypeOK, QueuesWellFormed
<1> QED BY <1>1, NothingFollows DEF QueuesWellFormed

-----------------------------------------------------------------------------
(* The steps.                                                              *)

\* What every step has to bring about.
StepOK == QueueInv' /\ \A c \in Base : Follows(queue[c], queue'[c])

\* Heartbeats, the health check and the snapshots sent (heartbeat.go:39-112).
LEMMA HeartbeatStep ==
    ASSUME QueueInv, NEW p \in Base, NEW b \in Base,
           HandleBaseHeartbeat(p, b) \/ MarkOffline(p, b) \/ SendFullQueueSync(p, b)
    PROVE  StepOK
<1>1. CASE HandleBaseHeartbeat(p, b) \/ MarkOffline(p, b)
  <2>1. UNCHANGED queue /\ wire' \subseteq wire /\ UNCHANGED workVars /\ UNCHANGED <<running, cleared>>
    BY <1>1 DEF HandleBaseHeartbeat, MarkOffline
  <2>2. \A s \in PeerStatus : [peers EXCEPT ![p][b] = s] \in [Base -> [Base -> PeerStatus]]
    BY DEF QueueInv, TypeOK
  <2>3. peers' \in [Base -> [Base -> PeerStatus]]
    BY <1>1, <2>2 DEF HandleBaseHeartbeat, MarkOffline, PeerStatus
  <2>4. syncing' \subseteq Base \X Base /\ overlooked' \subseteq Base \X Base
    BY <1>1 DEF HandleBaseHeartbeat, MarkOffline, QueueInv, TypeOK
  <2>5. troubles' \in 0..MaxTroubles
    BY <1>1, MaxTroublesAssumption DEF HandleBaseHeartbeat, MarkOffline, Trouble, QueueInv, TypeOK
  <2>6. TypeOK'
    BY <2>1, <2>3, <2>4, <2>5, WireShrinks, QueuesStay DEF workVars, QueueInv, TypeOK
  <2> QED BY <2>1, <2>6, WireShrinks, QueuesStay DEF StepOK, QueueInv
<1>2. CASE SendFullQueueSync(p, b)
  <2>1. queue[p] \in Queue /\ WellFormed(queue[p])
    BY DEF QueueInv, TypeOK, QueuesWellFormed
  <2>2. queue[p].heap \in SUBSET Entry /\ \A e, f \in queue[p].heap : e.id = f.id => e = f
    BY <2>1 DEF Queue, WellFormed
  <2>3. /\ wire' = wire \cup Broadcast("QUEUE_SYNC", p, {b}, queue[p].heap)
        /\ UNCHANGED <<running, peers, overlooked, queue, workVars, cleared, troubles>>
        /\ syncing' \subseteq syncing
    BY <1>2 DEF SendFullQueueSync
  <2>4. wire' \subseteq Message /\ SnapshotsWellFormed'
    BY <2>2, <2>3, WireGrows DEF MessageType
  <2>5. TypeOK'
    BY <2>3, <2>4 DEF workVars, QueueInv, TypeOK
  <2> QED BY <2>3, <2>4, <2>5, QueuesStay DEF StepOK, QueueInv
<1> QED BY <1>1, <1>2

\* The handlers of the main server (servers.go:71-115).
LEMMA HandlerStep ==
    ASSUME QueueInv, NEW m \in wire, Handle(m)
    PROVE  StepOK
<1> DEFINE b == m.to
           q == queue[b]
<1>1. b \in Base /\ m.entries \in SUBSET Entry
  BY DEF QueueInv, TypeOK, Message
<1>2. q \in Queue /\ WellFormed(q)
  BY <1>1 DEF QueueInv, TypeOK, QueuesWellFormed
<1>3. \A e, f \in m.entries : e.id = f.id => e = f
  BY DEF QueueInv, SnapshotsWellFormed
<1>4. UNCHANGED <<nodeVars, workVars, troubles>> /\ cleared' \subseteq Base
  BY <1>1 DEF Handle, HandleNewRequest, HandleQueueAdd, HandleQueueUpdate, HandleQueueSync,
              HandleQueueClear, nodeVars, QueueInv, TypeOK
<1>5. wire' \subseteq Message /\ SnapshotsWellFormed'
  <2>1. CASE HandleNewRequest(m)
    <3> DEFINE added == {e \in m.entries : e.id \notin q.seen}
    <3>1. wire' \subseteq wire \cup Broadcast("QUEUE_ADD", b, Others(b), added)
      BY <2>1 DEF HandleNewRequest
    <3>2. added \in SUBSET Entry /\ \A e, f \in added : e.id = f.id => e = f
      BY <1>1, <1>3
    <3> HIDE DEF added
    <3> QED BY <1>1, <3>1, <3>2, WireGrows DEF MessageType
  <2>2. CASE ~HandleNewRequest(m)
    BY <2>2, WireShrinks DEF Handle, HandleQueueAdd, HandleQueueUpdate, HandleQueueSync, HandleQueueClear
  <2> QED BY <2>1, <2>2
<1>6. \E n : Follows(q, n) /\ Enqueue(b, n)
  <2>1. CASE HandleNewRequest(m) \/ HandleQueueAdd(m)
    <3>1. PICK e \in m.entries : Enqueue(b, Push(q, e))
      BY <2>1 DEF HandleNewRequest, HandleQueueAdd
    <3> QED BY <1>1, <1>2, <3>1, ArrivalFollows
  <2>2. CASE HandleQueueUpdate(m)
    <3>1. PICK e \in m.entries :
              Enqueue(b, IF e.status = "DONE" THEN Remove(Replace(q, e), e.id) ELSE Replace(q, e))
      BY <2>2 DEF HandleQueueUpdate
    <3>2. Follows(q, Replace(q, e))
      BY <1>1, <1>2, ArrivalFollows
    <3>3. Follows(q, Remove(Replace(q, e), e.id))
      BY <1>2, <3>2, RemovalFollows
    <3> QED BY <3>1, <3>2, <3>3
  <2>3. CASE HandleQueueSync(m)
    <3>1. Enqueue(b, SyncFrom(q, m.entries))
      BY <2>3 DEF HandleQueueSync
    <3> QED BY <1>1, <1>2, <1>3, <3>1, SyncFollows
  <2>4. CASE HandleQueueClear(m)
    <3>1. Enqueue(b, EmptyQueue)
      BY <2>4 DEF HandleQueueClear
    <3> QED BY <1>2, <3>1, NothingFollows
  <2> QED BY <2>1, <2>2, <2>3, <2>4 DEF Handle
<1>7. /\ queue' \in [Base -> Queue] /\ QueuesWellFormed'
      /\ \A c \in Base : Follows(queue[c], queue'[c])
  BY <1>1, <1>6, QueueMovesOn
<1>8. TypeOK'
  BY <1>4, <1>5, <1>7 DEF nodeVars, workVars, QueueInv, TypeOK
<1> QED BY <1>5, <1>7, <1>8 DEF StepOK, QueueInv

\* A copy of an entry with another status is an entry.
LEMMA CopyType ==
    ASSUME NEW e \in Entry, NEW d \in Drone
    PROVE  /\ [e EXCEPT !.status = "ASSIGNED", !.assigned = d] \in Entry
           /\ e.id \in Request
BY DEF Entry, Status

\* So are a new request and one that is over.
LEMMA NewEntryType ==
    ASSUME NEW r \in Request
    PROVE  NewEntry(r) \in Entry /\ [NewEntry(r) EXCEPT !.status = "DONE"] \in Entry
BY DEF NewEntry, Entry, Status

\* The brokers, the dispatchers and the drones' reports (dispatcher.go:19-73,
\* drone_handler.go:39-59).
LEMMA WorkStep ==
    ASSUME QueueInv,
           \/ \E r \in Request, P \in SUBSET Base : BrokerSends(r, P)
           \/ \E b \in Base, d \in Drone : \E e \in queue[b].heap : Reserve(b, e, d)
           \/ \E b \in Base : \E w \in working[b] : Requeue(b, w) \/ Confirm(b, w)
           \/ \E b \in Base, r \in Request : HandleMissionDone(b, r)
    PROVE  StepOK
<1>1. \A b \in Base : queue[b] \in Queue /\ WellFormed(queue[b])
  BY DEF QueueInv, TypeOK, QueuesWellFormed
<1>2. working \in [Base -> SUBSET Work]
  BY DEF QueueInv, TypeOK
<1>3. ASSUME NEW r \in Request, NEW P \in SUBSET Base, BrokerSends(r, P)
      PROVE  StepOK
  <2>1. {NewEntry(r)} \in SUBSET Entry /\ \A e, f \in {NewEntry(r)} : e.id = f.id => e = f
    BY NewEntryType
  <2>2. /\ wire' = wire \cup Broadcast("NEW_REQUEST", None, P, {NewEntry(r)})
        /\ created' \subseteq Request
        /\ UNCHANGED <<nodeVars, queue, working, flying, cleared, troubles>>
    BY <1>3 DEF BrokerSends, QueueInv, TypeOK
  <2>3. wire' \subseteq Message /\ SnapshotsWellFormed'
    BY <2>1, <2>2, WireGrows DEF MessageType
  <2>4. TypeOK'
    BY <2>2, <2>3 DEF nodeVars, QueueInv, TypeOK
  <2> QED BY <2>2, <2>3, <2>4, QueuesStay DEF StepOK, QueueInv
<1>4. ASSUME NEW b \in Base, NEW d \in Drone, NEW e \in queue[b].heap, Reserve(b, e, d)
      PROVE  StepOK
  <2> DEFINE n == UpdateStatus(queue[b], e.id, "LOCKED", d)
  <2>1. Follows(queue[b], n)
    BY <1>1, StatusFollows DEF Status
  <2>2. /\ Enqueue(b, n)
        /\ working' = [working EXCEPT ![b] = @ \cup {[entry |-> e, drone |-> d]}]
        /\ UNCHANGED <<nodeVars, wire, flying, created, cleared, troubles>>
    BY <1>4 DEF Reserve
  <2> HIDE DEF n
  <2>3. [entry |-> e, drone |-> d] \in Work
    BY <1>1 DEF Queue, Work
  <2>4. working' \in [Base -> SUBSET Work]
    BY <1>2, <2>2, <2>3
  <2>5. /\ queue' \in [Base -> Queue] /\ QueuesWellFormed'
        /\ \A c \in Base : Follows(queue[c], queue'[c])
    BY <2>1, <2>2, QueueMovesOn
  <2>6. wire' \subseteq Message /\ SnapshotsWellFormed'
    BY <2>2, WireShrinks
  <2>7. TypeOK'
    BY <2>2, <2>4, <2>5 DEF nodeVars, QueueInv, TypeOK
  <2> QED BY <2>5, <2>6, <2>7 DEF StepOK, QueueInv
<1>5. ASSUME NEW b \in Base, NEW w \in working[b], Requeue(b, w)
      PROVE  StepOK
  <2> DEFINE n == UpdateStatus(queue[b], w.entry.id, "PENDING", None)
  <2>1. Follows(queue[b], n)
    BY <1>1, StatusFollows DEF Status
  <2>2. /\ Enqueue(b, n)
        /\ working' = [working EXCEPT ![b] = @ \ {w}]
        /\ UNCHANGED <<nodeVars, wire, flying, created, cleared, troubles>>
    BY <1>5 DEF Requeue
  <2> HIDE DEF n
  <2>3. working' \in [Base -> SUBSET Work]
    BY <1>2, <2>2
  <2>4. /\ queue' \in [Base -> Queue] /\ QueuesWellFormed'
        /\ \A c \in Base : Follows(queue[c], queue'[c])
    BY <2>1, <2>2, QueueMovesOn
  <2>5. wire' \subseteq Message /\ SnapshotsWellFormed'
    BY <2>2, WireShrinks
  <2>6. TypeOK'
    BY <2>2, <2>3, <2>4 DEF nodeVars, QueueInv, TypeOK
  <2> QED BY <2>4, <2>5, <2>6 DEF StepOK, QueueInv
<1>6. ASSUME NEW b \in Base, NEW w \in working[b], Confirm(b, w)
      PROVE  StepOK
  <2> DEFINE n == UpdateStatus(queue[b], w.entry.id, "ASSIGNED", w.drone)
             copy == [w.entry EXCEPT !.status = "ASSIGNED", !.assigned = w.drone]
  <2>1. w.entry \in Entry /\ w.drone \in Drone
    BY <1>2 DEF Work
  <2>2. Follows(queue[b], n)
    BY <1>1, <2>1, StatusFollows DEF Status
  <2>3. copy \in Entry /\ w.entry.id \in Request
    BY <2>1, CopyType
  <2>4. /\ Enqueue(b, n)
        /\ working' = [working EXCEPT ![b] = @ \ {w}]
        /\ flying' = flying \cup {w.entry.id}
        /\ wire' = wire \cup Broadcast("QUEUE_UPDATE", b, Others(b), {copy})
        /\ UNCHANGED <<nodeVars, created, cleared, troubles>>
    BY <1>6 DEF Confirm
  <2> HIDE DEF n, copy
  <2>5. working' \in [Base -> SUBSET Work] /\ flying' \subseteq Request
    BY <1>2, <2>3, <2>4 DEF QueueInv, TypeOK
  <2>6. /\ queue' \in [Base -> Queue] /\ QueuesWellFormed'
        /\ \A c \in Base : Follows(queue[c], queue'[c])
    BY <2>2, <2>4, QueueMovesOn
  <2>7. {copy} \in SUBSET Entry /\ \A e, f \in {copy} : e.id = f.id => e = f
    BY <2>3
  <2>8. wire' \subseteq Message /\ SnapshotsWellFormed'
    BY <2>4, <2>7, WireGrows DEF MessageType
  <2>9. TypeOK'
    BY <2>4, <2>5, <2>6, <2>8 DEF nodeVars, QueueInv, TypeOK
  <2> QED BY <2>6, <2>8, <2>9 DEF StepOK, QueueInv
<1>7. ASSUME NEW b \in Base, NEW r \in Request, HandleMissionDone(b, r)
      PROVE  StepOK
  <2> DEFINE n == Remove(queue[b], r)
             over == [NewEntry(r) EXCEPT !.status = "DONE"]
  <2>1. Follows(queue[b], n)
    BY <1>1, NothingFollows, RemovalFollows
  <2>2. over \in Entry
    BY NewEntryType
  <2>3. /\ Enqueue(b, n)
        /\ flying' = flying \ {r}
        /\ wire' = wire \cup Broadcast("QUEUE_UPDATE", b, Others(b), {over})
        /\ UNCHANGED <<nodeVars, working, created, cleared, troubles>>
    BY <1>7 DEF HandleMissionDone
  <2> HIDE DEF n, over
  <2>4. /\ queue' \in [Base -> Queue] /\ QueuesWellFormed'
        /\ \A c \in Base : Follows(queue[c], queue'[c])
    BY <2>1, <2>3, QueueMovesOn
  <2>5. {over} \in SUBSET Entry /\ \A e, f \in {over} : e.id = f.id => e = f
    BY <2>2
  <2>6. wire' \subseteq Message /\ SnapshotsWellFormed'
    BY <2>3, <2>5, WireGrows DEF MessageType
  <2>7. TypeOK'
    BY <2>3, <2>4, <2>6 DEF nodeVars, QueueInv, TypeOK
  <2> QED BY <2>4, <2>6, <2>7 DEF StepOK, QueueInv
<1> QED BY <1>3, <1>4, <1>5, <1>6, <1>7

\* Crashes, restarts and the clear button (main.go:37-60, servers.go:111).
LEMMA LifeStep ==
    ASSUME QueueInv, (\E b \in Base : Crash(b) \/ Restart(b)) \/ ClearRequests
    PROVE  StepOK
<1>1. \A b \in Base : queue[b] \in Queue /\ WellFormed(queue[b])
  BY DEF QueueInv, TypeOK, QueuesWellFormed
<1>2. ASSUME NEW b \in Base, Crash(b)
      PROVE  StepOK
  <2>1. Enqueue(b, EmptyQueue) /\ wire' \subseteq wire
    BY <1>2 DEF Crash, Enqueue
  <2>2. /\ queue' \in [Base -> Queue] /\ QueuesWellFormed'
        /\ \A c \in Base : Follows(queue[c], queue'[c])
    BY <1>1, <2>1, NothingFollows, QueueMovesOn
  <2>3. Nobody \in [Base -> PeerStatus]
    BY DEF Nobody, PeerStatus
  <2>4. peers' \in [Base -> [Base -> PeerStatus]] /\ working' \in [Base -> SUBSET Work]
    BY <1>2, <2>3 DEF Crash, QueueInv, TypeOK
  <2>5. /\ running' \subseteq Base /\ syncing' \subseteq Base \X Base
        /\ overlooked' \subseteq Base \X Base /\ cleared' \subseteq Base
        /\ UNCHANGED <<flying, created>>
    BY <1>2 DEF Crash, QueueInv, TypeOK
  <2>6. troubles' \in 0..MaxTroubles
    BY <1>2, MaxTroublesAssumption DEF Crash, Trouble, QueueInv, TypeOK
  <2>7. wire' \subseteq Message /\ SnapshotsWellFormed'
    BY <2>1, WireShrinks
  <2>8. TypeOK'
    BY <2>2, <2>4, <2>5, <2>6, <2>7 DEF QueueInv, TypeOK
  <2> QED BY <2>2, <2>7, <2>8 DEF StepOK, QueueInv
<1>3. ASSUME NEW b \in Base, Restart(b)
      PROVE  StepOK
  <2>1. running' \subseteq Base /\ overlooked' \subseteq Base \X Base
    BY <1>3 DEF Restart, QueueInv, TypeOK
  <2>2. UNCHANGED <<peers, syncing, queue, wire, workVars, cleared, troubles>>
    BY <1>3 DEF Restart
  <2>3. TypeOK'
    BY <2>1, <2>2 DEF workVars, QueueInv, TypeOK
  <2> QED BY <2>2, <2>3, QueuesStay, WireShrinks DEF StepOK, QueueInv
<1>4. ASSUME ClearRequests
      PROVE  StepOK
  <2>1. /\ wire' = wire \cup Broadcast("QUEUE_CLEAR", None, Base, {})
        /\ UNCHANGED <<nodeVars, queue, workVars, cleared>>
    BY <1>4 DEF ClearRequests
  <2>2. troubles' \in 0..MaxTroubles
    BY <1>4, MaxTroublesAssumption DEF ClearRequests, Trouble, QueueInv, TypeOK
  <2>3. wire' \subseteq Message /\ SnapshotsWellFormed'
    BY <2>1, WireGrows DEF MessageType
  <2>4. TypeOK'
    BY <2>1, <2>2, <2>3 DEF nodeVars, workVars, QueueInv, TypeOK
  <2> QED BY <2>1, <2>3, <2>4, QueuesStay DEF StepOK, QueueInv
<1> QED BY <1>2, <1>3, <1>4

\* Every step keeps the invariant, and every queue follows itself.
LEMMA QueueInvStep ==
    QueueInv /\ [Next]_vars => StepOK
<1> SUFFICES ASSUME QueueInv, [Next]_vars
             PROVE  StepOK
  OBVIOUS
<1>1. CASE UNCHANGED vars
  <2>1. UNCHANGED <<nodeVars, queue, wire, workVars, cleared, troubles>>
    BY <1>1 DEF vars
  <2>2. TypeOK'
    BY <2>1 DEF nodeVars, workVars, QueueInv, TypeOK
  <2> QED BY <2>1, <2>2, QueuesStay, WireShrinks DEF StepOK, QueueInv
<1>2. CASE \/ \E p, b \in Base : HandleBaseHeartbeat(p, b)
           \/ \E p, b \in Base : MarkOffline(p, b)
           \/ \E p, b \in Base : SendFullQueueSync(p, b)
  BY <1>2, HeartbeatStep
<1>3. CASE \E m \in wire : Handle(m)
  BY <1>3, HandlerStep
<1>4. CASE \/ \E r \in Request, P \in SUBSET Base : BrokerSends(r, P)
           \/ \E b \in Base, d \in Drone : \E e \in queue[b].heap : Reserve(b, e, d)
           \/ \E b \in Base : \E w \in working[b] : Requeue(b, w) \/ Confirm(b, w)
           \/ \E b \in Base, r \in Request : HandleMissionDone(b, r)
  BY <1>4, WorkStep
<1>5. CASE (\E b \in Base : Crash(b) \/ Restart(b)) \/ ClearRequests
  BY <1>5, LifeStep
<1> QED BY <1>1, <1>2, <1>3, <1>4, <1>5 DEF Next

\* It holds at the start.
LEMMA QueueInvInit == Init => QueueInv
<1> SUFFICES ASSUME Init
             PROVE  QueueInv
  OBVIOUS
<1>1. queue \in [Base -> Queue] /\ QueuesWellFormed
  BY EmptyQueueWellFormed DEF Init, QueuesWellFormed
<1>2. peers \in [Base -> [Base -> PeerStatus]]
  BY DEF Init, Everybody, PeerStatus
<1>3. troubles \in 0..MaxTroubles
  BY MaxTroublesAssumption DEF Init
<1> QED BY <1>1, <1>2, <1>3 DEF Init, QueueInv, TypeOK, SnapshotsWellFormed

-----------------------------------------------------------------------------
(* Theorems.                                                               *)

\* Whatever crashes, restarts, snapshots and clears there are, no request is
\* twice in a queue or in a snapshot (queue.go:266-277).
THEOREM MembershipQueues == Spec => [](TypeOK /\ QueuesWellFormed /\ SnapshotsWellFormed)
<1>1. Init => QueueInv
  BY QueueInvInit
<1>2. QueueInv /\ [Next]_vars => QueueInv'
  BY QueueInvStep DEF StepOK
<1>3. QueueInv => TypeOK /\ QueuesWellFormed /\ SnapshotsWellFormed
  BY DEF QueueInv
<1> QED BY <1>1, <1>2, <1>3, PTL DEF Spec

\* What a running base has put away no message brings back (queue.go:152).
THEOREM NoGhosts == Spec => GhostsStayAway
<1> DEFINE Stays == \A b \in running, r \in Request :
                        Knows(b, r) /\ ~Queues(b, r) => ~Queues(b, r)'
<1>1. Init => QueueInv
  BY QueueInvInit
<1>2. QueueInv /\ [Next]_vars => QueueInv'
  BY QueueInvStep DEF StepOK
<1>3. QueueInv /\ [Next]_vars => [Stays]_vars
  <2> SUFFICES ASSUME QueueInv, [Next]_vars, NEW b \in running, NEW r \in Request,
                      Knows(b, r), Queues(b, r)'
               PROVE  Queues(b, r)
    BY DEF Stays
  <2>1. b \in Base
    BY DEF QueueInv, TypeOK
  <2>2. Follows(queue[b], queue'[b])
    BY <2>1, QueueInvStep DEF StepOK
  <2>3. r \in queue[b].seen /\ r \in Ids(queue'[b])
    BY DEF Knows, Queues, IdsOf, Ids
  <2>4. r \in Ids(queue[b])
    BY <2>2, <2>3 DEF Follows
  <2> QED BY <2>4 DEF Queues, IdsOf, Ids
<1> QED BY <1>1, <1>2, <1>3, PTL DEF Spec, GhostsStayAway, Stays

-----------------------------------------------------------------------------
(* Nobody is left behind: what messages, goroutines and bases that are down *)
(* have to do with each other, for any number of bases.                     *)

\* The news that a request is over.
Over(m, e) == m.type = "QUEUE_UPDATE" /\ e.status = "DONE"

\* A message is on its way to a base that runs; it carries one request, or it
\* is a snapshot; and it comes from another base, which still knows what it said
\* if it has not been cleared, or from outside.
Sound(m) ==
    /\ m.to \in running
    /\ m.type \in {"NEW_REQUEST", "QUEUE_ADD", "QUEUE_UPDATE"} =>
          \A e, f \in m.entries : e = f
    /\ m.type \notin {"NEW_REQUEST", "QUEUE_CLEAR"} => m.from \in Base /\ m.from # m.to
    /\ m.from \in running \ cleared => \A e \in m.entries : Over(m, e) \/ Knows(m.from, e.id)

\* A goroutine works on a request its base knows, if it was not cleared.
WorkersKnow ==
    \A b \in running \ cleared : \A w \in working[b] : Knows(b, w.entry.id)

\* A base that is down has nothing; nobody synchronises itself.
DownRest == \A b \in Base \ running : queue[b] = EmptyQueue /\ working[b] = {}
SyncPairs == \A s \in syncing : s[1] # s[2]

BookInv == (\A m \in wire : Sound(m)) /\ WorkersKnow /\ DownRest /\ SyncPairs

\* What Broadcast puts on the wire.
LEMMA BroadcastSays ==
    ASSUME NEW type, NEW from, NEW P, NEW S, NEW m \in Broadcast(type, from, P, S)
    PROVE  m.type = type /\ m.from = from /\ m.to \in P \cap running /\ m.entries = S
BY DEF Broadcast

\* And who gets it.
LEMMA BroadcastReaches ==
    ASSUME NEW type, NEW from, NEW P, NEW S, NEW b \in P \cap running
    PROVE  \E m \in Broadcast(type, from, P, S) : m.to = b /\ m.entries = S
<1> DEFINE m == [type |-> type, from |-> from, to |-> b, entries |-> S]
<1>1. m \in Broadcast(type, from, P, S) /\ m.to = b /\ m.entries = S
  BY DEF Broadcast
<1> QED BY <1>1

\* A broker's request is passed on at once (servers.go:71-80).
PassedOn(m, r) ==
    m.type = "NEW_REQUEST" => \A c \in running : c # m.to => OnItsWay(c, r)'

\* What the handler of message m makes of the queue of its base.
Handled(m) ==
    /\ UNCHANGED <<nodeVars, workVars>>
    /\ \A c \in Base : c # m.to => queue'[c] = queue[c]
    /\ \/ m.type = "QUEUE_CLEAR" /\ cleared' = cleared \cup {m.to} /\ queue'[m.to] = EmptyQueue
       \/ /\ m.type # "QUEUE_CLEAR" /\ cleared' = cleared
          /\ queue[m.to].seen \subseteq queue'[m.to].seen
          /\ IdsOf(m.entries) \subseteq queue'[m.to].seen
          /\ \A r \in queue'[m.to].seen \ queue[m.to].seen :
                r \in IdsOf(m.entries) /\ PassedOn(m, r)
          /\ \A r \in Ids(queue'[m.to]) \ Ids(queue[m.to]) :
                (\E e \in m.entries : e.id = r /\ ~Over(m, e)) /\ PassedOn(m, r)

\* The handlers of the main server do that (servers.go:71-115).
LEMMA HandlerMoves ==
    ASSUME QueueInv, BookInv, NEW m \in wire, Handle(m)
    PROVE  Handled(m)
<1> DEFINE b == m.to
           q == queue[b]
<1>1. /\ b \in Base /\ m.entries \in SUBSET Entry /\ m.type \in MessageType
      /\ queue \in [Base -> Queue] /\ q \in Queue
      /\ running \subseteq Base
  BY DEF QueueInv, TypeOK, Message
<1>2. m.type \in {"NEW_REQUEST", "QUEUE_ADD", "QUEUE_UPDATE"} => \A e, f \in m.entries : e = f
  BY DEF BookInv, Sound
<1>3. CASE HandleNewRequest(m)
  <2> DEFINE added == {e \in m.entries : e.id \notin q.seen}
  <2>1. PICK e \in m.entries : queue' = [queue EXCEPT ![b] = Push(q, e)]
    BY <1>3 DEF HandleNewRequest, Enqueue
  <2>2. m.entries = {e} /\ m.type = "NEW_REQUEST"
    BY <1>2, <1>3 DEF HandleNewRequest
  <2>3. /\ queue'[b].seen = q.seen \cup {e.id}
        /\ Ids(queue'[b]) = IF e.id \in q.seen THEN Ids(q) ELSE Ids(q) \cup {e.id}
    BY <1>1, <2>1, PushIds
  <2>4. ASSUME e.id \notin q.seen, NEW c \in running, c # b
        PROVE  OnItsWay(c, e.id)'
    <3>1. wire' = (wire \ {m}) \cup Broadcast("QUEUE_ADD", b, Others(b), added) /\ e \in added
      BY <1>3, <2>4 DEF HandleNewRequest
    <3>2. c \in Others(b) \cap running
      BY <1>1, <2>4 DEF Others
    <3> HIDE DEF added
    <3>3. PICK n \in Broadcast("QUEUE_ADD", b, Others(b), added) : n.to = c /\ n.entries = added
      BY <3>2, BroadcastReaches
    <3> QED BY <3>1, <3>3 DEF OnItsWay, IdsOf
  <2>5. IdsOf(m.entries) \subseteq queue'[b].seen
    BY <2>2, <2>3 DEF IdsOf
  <2>6. ASSUME NEW r, r \in queue'[b].seen \ q.seen \/ r \in Ids(queue'[b]) \ Ids(q)
        PROVE  (\E f \in m.entries : f.id = r /\ ~Over(m, f)) /\ PassedOn(m, r)
    <3>1. r = e.id /\ e.id \notin q.seen
      BY <2>3, <2>6
    <3> QED BY <2>2, <2>4, <3>1 DEF Over, PassedOn
  <2>7. /\ UNCHANGED <<nodeVars, workVars, cleared>>
        /\ \A c \in Base : c # b => queue'[c] = queue[c]
    BY <1>1, <1>3, <2>1 DEF HandleNewRequest
  <2>8. \A r \in queue'[b].seen \ q.seen : r \in IdsOf(m.entries) /\ PassedOn(m, r)
    BY <2>6 DEF IdsOf
  <2>9. \A r \in Ids(queue'[b]) \ Ids(q) :
            (\E f \in m.entries : f.id = r /\ ~Over(m, f)) /\ PassedOn(m, r)
    BY <2>6
  <2> QED BY <2>2, <2>3, <2>5, <2>7, <2>8, <2>9 DEF Handled
<1>4. CASE HandleQueueAdd(m)
  <2>1. PICK e \in m.entries : queue' = [queue EXCEPT ![b] = Push(q, e)]
    BY <1>4 DEF HandleQueueAdd, Enqueue
  <2>2. m.entries = {e} /\ m.type = "QUEUE_ADD" /\ ~Over(m, e)
    BY <1>2, <1>4 DEF HandleQueueAdd, Over
  <2>3. /\ queue'[b].seen = q.seen \cup {e.id}
        /\ Ids(queue'[b]) = IF e.id \in q.seen THEN Ids(q) ELSE Ids(q) \cup {e.id}
    BY <1>1, <2>1, PushIds
  <2>4. /\ UNCHANGED <<nodeVars, workVars, cleared>>
        /\ \A c \in Base : c # b => queue'[c] = queue[c]
    BY <1>1, <1>4, <2>1 DEF HandleQueueAdd
  <2> QED BY <2>2, <2>3, <2>4 DEF Handled, IdsOf, PassedOn
<1>5. CASE HandleQueueUpdate(m)
  <2>1. PICK e \in m.entries :
           queue' = [queue EXCEPT ![b] = IF e.status = "DONE" THEN Remove(Replace(q, e), e.id)
                                                              ELSE Replace(q, e)]
    BY <1>5 DEF HandleQueueUpdate, Enqueue
  <2>2. m.entries = {e} /\ m.type = "QUEUE_UPDATE"
    BY <1>2, <1>5 DEF HandleQueueUpdate
  <2>3. /\ Replace(q, e) \in Queue
        /\ Replace(q, e).seen = q.seen \cup {e.id}
        /\ Ids(Replace(q, e)) = IF e.id \in q.seen THEN Ids(q) ELSE Ids(q) \cup {e.id}
        /\ Remove(Replace(q, e), e.id).seen = Replace(q, e).seen
        /\ Ids(Remove(Replace(q, e), e.id)) = Ids(Replace(q, e)) \ {e.id}
    BY <1>1, ReplaceIds, ReplaceType, RemoveIds
  <2>4. /\ queue'[b].seen = q.seen \cup {e.id}
        /\ \A r \in Ids(queue'[b]) : r \in Ids(q) \/ (r = e.id /\ e.status # "DONE")
    BY <1>1, <2>1, <2>3
  <2>5. /\ UNCHANGED <<nodeVars, workVars, cleared>>
        /\ \A c \in Base : c # b => queue'[c] = queue[c]
    BY <1>1, <1>5, <2>1 DEF HandleQueueUpdate
  <2> QED BY <2>2, <2>4, <2>5 DEF Handled, IdsOf, Over, PassedOn
<1>6. CASE HandleQueueSync(m)
  <2>1. queue' = [queue EXCEPT ![b] = SyncFrom(q, m.entries)] /\ m.type = "QUEUE_SYNC"
    BY <1>6 DEF HandleQueueSync, Enqueue
  <2>2. /\ SyncFrom(q, m.entries).seen = q.seen \cup IdsOf(m.entries)
        /\ Ids(SyncFrom(q, m.entries)) \subseteq Ids(q) \cup IdsOf(m.entries)
    BY <1>1 DEF SyncFrom, Ids, IdsOf, Queue
  <2>3. /\ UNCHANGED <<nodeVars, workVars, cleared>>
        /\ \A c \in Base : c # b => queue'[c] = queue[c]
        /\ queue'[b] = SyncFrom(q, m.entries)
    BY <1>1, <1>6, <2>1 DEF HandleQueueSync
  <2> QED BY <2>1, <2>2, <2>3 DEF Handled, IdsOf, Over, PassedOn
<1>7. CASE HandleQueueClear(m)
  <2>1. queue' = [queue EXCEPT ![b] = EmptyQueue]
    BY <1>7 DEF HandleQueueClear, Enqueue
  <2> QED BY <1>1, <1>7, <2>1 DEF HandleQueueClear, Handled, nodeVars
<1> QED BY <1>3, <1>4, <1>5, <1>6, <1>7 DEF Handle

\* A message stays sound while its sender forgets nothing, or is cleared.
LEMMA SoundStays ==
    ASSUME NEW m, Sound(m), m.to \in running',
           m.from \in running' \ cleared' =>
              m.from \in running \ cleared /\ queue[m.from].seen \subseteq queue'[m.from].seen
    PROVE  Sound(m)'
BY DEF Sound, Knows

\* The handlers: what they forward is what they have just learnt.
LEMMA HandlerBook ==
    ASSUME QueueInv, BookInv, NEW m \in wire, Handle(m)
    PROVE  BookInv'
<1> DEFINE b == m.to
<1>1. Handled(m)
  BY HandlerMoves
<1>2. /\ b \in running /\ running \subseteq Base /\ UNCHANGED <<running, syncing, working>>
      /\ m.type = "NEW_REQUEST" => \A e, f \in m.entries : e = f
  BY <1>1 DEF BookInv, Sound, QueueInv, TypeOK, Handled, nodeVars, workVars
<1>3. \A c \in running' \ cleared' :
         c \in running \ cleared /\ queue[c].seen \subseteq queue'[c].seen
  BY <1>1, <1>2 DEF Handled
<1>4. ASSUME NEW n \in wire', n \notin wire
      PROVE  /\ n.type = "QUEUE_ADD" /\ n.from = b /\ n.to \in running \ {b}
             /\ n.entries \subseteq m.entries
             /\ m.type = "NEW_REQUEST"
  <2> DEFINE added == {e \in m.entries : e.id \notin queue[b].seen}
  <2>1. n \in Broadcast("QUEUE_ADD", b, Others(b), added) /\ m.type = "NEW_REQUEST"
    BY <1>4 DEF Handle, HandleNewRequest, HandleQueueAdd, HandleQueueUpdate, HandleQueueSync,
                HandleQueueClear
  <2>2. n.type = "QUEUE_ADD" /\ n.from = b /\ n.to \in Others(b) \cap running /\ n.entries = added
    BY <2>1, BroadcastSays
  <2> QED BY <2>1, <2>2 DEF Others
<1>5. ASSUME NEW n \in wire'
      PROVE  Sound(n)'
  <2>1. CASE n \in wire
    <3>1. Sound(n)
      BY <2>1 DEF BookInv
    <3>2. n.to \in running'
      BY <1>2, <3>1 DEF Sound
    <3> QED BY <1>3, <3>1, <3>2, SoundStays
  <2>2. CASE n \notin wire
    <3>1. /\ n.type = "QUEUE_ADD" /\ n.from = b /\ n.to \in running' \ {b}
          /\ \A e, f \in n.entries : e = f
          /\ n.entries \subseteq m.entries
          /\ m.type = "NEW_REQUEST"
      BY <1>2, <1>4, <2>2
    <3>2. \A e \in n.entries : e.id \in queue'[b].seen
      BY <1>1, <3>1 DEF Handled, IdsOf
    <3> QED BY <1>2, <3>1, <3>2 DEF Sound, Knows
  <2> QED BY <2>1, <2>2
<1>6. WorkersKnow'
  BY <1>2, <1>3 DEF BookInv, WorkersKnow, Knows
<1>7. DownRest' /\ SyncPairs'
  BY <1>1, <1>2 DEF BookInv, DownRest, SyncPairs, Handled
<1> QED BY <1>5, <1>6, <1>7 DEF BookInv

\* What the brokers, the dispatchers and the reports do to the rest.
Worked ==
    /\ UNCHANGED <<nodeVars, cleared>>
    /\ \A c \in Base : queue'[c].seen = queue[c].seen /\ Ids(queue'[c]) \subseteq Ids(queue[c])
    /\ \A c \in Base : \A w \in working'[c] : w \in working[c] \/ Knows(c, w.entry.id)
    /\ \A c \in Base \ running : queue'[c] = queue[c] /\ working'[c] = working[c]
    /\ wire \subseteq wire'
    /\ \A n \in wire' \ wire : Sound(n)

LEMMA WorkMoves ==
    ASSUME QueueInv, BookInv,
           \/ \E r \in Request, P \in SUBSET Base : BrokerSends(r, P)
           \/ \E b \in Base, d \in Drone : \E e \in queue[b].heap : Reserve(b, e, d)
           \/ \E b \in Base : \E w \in working[b] : Requeue(b, w) \/ Confirm(b, w)
           \/ \E b \in Base, r \in Request : HandleMissionDone(b, r)
    PROVE  Worked
<1>1. /\ queue \in [Base -> Queue] /\ \A c \in Base : queue[c] \in Queue /\ WellFormed(queue[c])
      /\ working \in [Base -> SUBSET Work]
      /\ running \subseteq Base /\ None \notin Base
  BY NoneAssumption DEF QueueInv, TypeOK, QueuesWellFormed
<1>2. ASSUME NEW r \in Request, NEW P \in SUBSET Base, BrokerSends(r, P)
      PROVE  Worked
  <2>1. /\ wire' = wire \cup Broadcast("NEW_REQUEST", None, P, {NewEntry(r)})
        /\ UNCHANGED <<nodeVars, queue, working, cleared>>
    BY <1>2 DEF BrokerSends
  <2>2. ASSUME NEW n \in Broadcast("NEW_REQUEST", None, P, {NewEntry(r)})
        PROVE  Sound(n)
    <3>1. n.type = "NEW_REQUEST" /\ n.from = None /\ n.to \in running /\ n.entries = {NewEntry(r)}
      BY <2>2, BroadcastSays
    <3> QED BY <1>1, <3>1 DEF Sound
  <2> QED BY <2>1, <2>2 DEF Worked
<1>3. ASSUME NEW b \in Base, NEW d \in Drone, NEW e \in queue[b].heap, Reserve(b, e, d)
      PROVE  Worked
  <2>1. /\ queue' = [queue EXCEPT ![b] = UpdateStatus(queue[b], e.id, "LOCKED", d)]
        /\ working' = [working EXCEPT ![b] = @ \cup {[entry |-> e, drone |-> d]}]
        /\ UNCHANGED <<nodeVars, wire, cleared>> /\ b \in running
    BY <1>3 DEF Reserve, Enqueue
  <2>2. Knows(b, e.id)
    BY <1>1 DEF WellFormed, Knows
  <2>3. \A c \in Base : queue'[c].seen = queue[c].seen /\ Ids(queue'[c]) = Ids(queue[c])
    BY <1>1, <2>1, UpdateStatusIds
  <2>4. \A c \in Base : \A w \in working'[c] : w \in working[c] \/ Knows(c, w.entry.id)
    BY <1>1, <2>1, <2>2
  <2> QED BY <1>1, <2>1, <2>3, <2>4 DEF Worked
<1>4. ASSUME NEW b \in Base, NEW w \in working[b]
      PROVE  b \in running /\ w.entry \in Entry /\ w.drone \in Drone
  <2>1. b \in running
    BY DEF BookInv, DownRest
  <2> QED BY <1>1, <2>1 DEF Work
<1>5. ASSUME NEW b \in Base, NEW w \in working[b], Requeue(b, w)
      PROVE  Worked
  <2>1. /\ queue' = [queue EXCEPT ![b] = UpdateStatus(queue[b], w.entry.id, "PENDING", None)]
        /\ working' = [working EXCEPT ![b] = @ \ {w}]
        /\ UNCHANGED <<nodeVars, wire, cleared>>
    BY <1>5 DEF Requeue, Enqueue
  <2>2. \A c \in Base : queue'[c].seen = queue[c].seen /\ Ids(queue'[c]) = Ids(queue[c])
    BY <1>1, <2>1, UpdateStatusIds
  <2> QED BY <1>1, <1>4, <2>1, <2>2 DEF Worked
<1>6. ASSUME NEW b \in Base, NEW w \in working[b], Confirm(b, w)
      PROVE  Worked
  <2> DEFINE copy == [w.entry EXCEPT !.status = "ASSIGNED", !.assigned = w.drone]
  <2>1. /\ queue' = [queue EXCEPT ![b] = UpdateStatus(queue[b], w.entry.id, "ASSIGNED", w.drone)]
        /\ working' = [working EXCEPT ![b] = @ \ {w}]
        /\ wire' = wire \cup Broadcast("QUEUE_UPDATE", b, Others(b), {copy})
        /\ UNCHANGED <<nodeVars, cleared>>
    BY <1>6 DEF Confirm, Enqueue
  <2>2. copy.id = w.entry.id
    BY <1>4 DEF Entry
  <2> HIDE DEF copy
  <2>3. \A c \in Base : queue'[c].seen = queue[c].seen /\ Ids(queue'[c]) = Ids(queue[c])
    BY <1>1, <2>1, UpdateStatusIds
  <2>4. b \in running \ cleared => Knows(b, copy.id)
    BY <2>2 DEF BookInv, WorkersKnow
  <2>5. ASSUME NEW n \in Broadcast("QUEUE_UPDATE", b, Others(b), {copy})
        PROVE  Sound(n)
    <3>1. n.type = "QUEUE_UPDATE" /\ n.from = b /\ n.to \in Others(b) \cap running /\ n.entries = {copy}
      BY <2>5, BroadcastSays
    <3> QED BY <2>4, <3>1 DEF Sound, Others
  <2> QED BY <1>1, <1>4, <2>1, <2>3, <2>5 DEF Worked
<1>7. ASSUME NEW b \in Base, NEW r \in Request, HandleMissionDone(b, r)
      PROVE  Worked
  <2> DEFINE over == [NewEntry(r) EXCEPT !.status = "DONE"]
  <2>1. /\ queue' = [queue EXCEPT ![b] = Remove(queue[b], r)]
        /\ wire' = wire \cup Broadcast("QUEUE_UPDATE", b, Others(b), {over})
        /\ UNCHANGED <<nodeVars, working, cleared>> /\ b \in running
    BY <1>7 DEF HandleMissionDone, Enqueue
  <2>2. over.status = "DONE"
    BY DEF NewEntry
  <2> HIDE DEF over
  <2>3. \A c \in Base : queue'[c].seen = queue[c].seen /\ Ids(queue'[c]) \subseteq Ids(queue[c])
    BY <1>1, <2>1, RemoveIds
  <2>4. ASSUME NEW n \in Broadcast("QUEUE_UPDATE", b, Others(b), {over})
        PROVE  Sound(n)
    <3>1. n.type = "QUEUE_UPDATE" /\ n.from = b /\ n.to \in Others(b) \cap running /\ n.entries = {over}
      BY <2>4, BroadcastSays
    <3> QED BY <2>2, <3>1 DEF Sound, Others, Over
  <2> QED BY <1>1, <2>1, <2>3, <2>4 DEF Worked
<1> QED BY <1>2, <1>3, <1>5, <1>6, <1>7

LEMMA WorkBook ==
    ASSUME QueueInv, BookInv, Worked
    PROVE  BookInv'
<1>1. running \subseteq Base
  BY DEF QueueInv, TypeOK
<1>2. /\ UNCHANGED <<running, syncing, cleared>>
      /\ \A c \in Base : queue'[c].seen = queue[c].seen
  BY DEF Worked, nodeVars
<1>3. ASSUME NEW n \in wire'
      PROVE  Sound(n)'
  <2>1. Sound(n)
    BY DEF BookInv, Worked
  <2>2. n.to \in running'
    BY <1>2, <2>1 DEF Sound
  <2> QED BY <1>1, <1>2, <2>1, <2>2, SoundStays
<1>4. WorkersKnow'
  BY <1>1, <1>2 DEF BookInv, WorkersKnow, Knows, Worked
<1>5. DownRest' /\ SyncPairs'
  BY <1>2 DEF BookInv, DownRest, SyncPairs, Worked
<1> QED BY <1>3, <1>4, <1>5 DEF BookInv

\* Nothing the messages and goroutines depend on changes, but those on the wire.
LEMMA BookStays ==
    ASSUME BookInv, UNCHANGED <<running, queue, working, cleared>>,
           SyncPairs', \A n \in wire' : n \in wire \/ Sound(n)
    PROVE  BookInv'
<1>1. \A n \in wire' : Sound(n)
  BY DEF BookInv
<1>2. \A n \in wire' : Sound(n)'
  BY <1>1 DEF Sound, Knows
<1> QED BY <1>2 DEF BookInv, WorkersKnow, DownRest, Knows

\* Heartbeats, the health check and the snapshots: a base knows what it queues.
LEMMA HeartbeatBook ==
    ASSUME QueueInv, BookInv, NEW p \in Base, NEW b \in Base,
           HandleBaseHeartbeat(p, b) \/ MarkOffline(p, b) \/ SendFullQueueSync(p, b)
    PROVE  BookInv'
<1>1. CASE HandleBaseHeartbeat(p, b) \/ MarkOffline(p, b)
  <2>1. UNCHANGED <<running, queue, wire, working, cleared>>
    BY <1>1 DEF HandleBaseHeartbeat, MarkOffline, workVars
  <2>2. SyncPairs'
    BY <1>1 DEF HandleBaseHeartbeat, MarkOffline, BookInv, SyncPairs
  <2> QED BY <2>1, <2>2, BookStays
<1>2. CASE SendFullQueueSync(p, b)
  <2>1. /\ wire' = wire \cup Broadcast("QUEUE_SYNC", p, {b}, queue[p].heap)
        /\ UNCHANGED <<running, queue, working, cleared>>
    BY <1>2 DEF SendFullQueueSync, workVars
  <2>2. SyncPairs' /\ p # b
    BY <1>2 DEF SendFullQueueSync, BookInv, SyncPairs
  <2>3. \A e \in queue[p].heap : Knows(p, e.id)
    BY DEF QueueInv, QueuesWellFormed, WellFormed, Knows
  <2>4. ASSUME NEW n \in Broadcast("QUEUE_SYNC", p, {b}, queue[p].heap)
        PROVE  Sound(n)
    <3>1. n.type = "QUEUE_SYNC" /\ n.from = p /\ n.to \in {b} \cap running /\ n.entries = queue[p].heap
      BY <2>4, BroadcastSays
    <3> QED BY <2>2, <2>3, <3>1 DEF Sound
  <2> QED BY <2>1, <2>2, <2>4, BookStays
<1> QED BY <1>1, <1>2

\* Crashes, restarts and the clear button: no message outlives the life of its
\* sender that knew what it says.
LEMMA LifeBook ==
    ASSUME QueueInv, BookInv, (\E b \in Base : Crash(b) \/ Restart(b)) \/ ClearRequests
    PROVE  BookInv'
<1>1. /\ queue \in [Base -> Queue] /\ working \in [Base -> SUBSET Work]
      /\ running \subseteq Base /\ None \notin Base
  BY NoneAssumption DEF QueueInv, TypeOK
<1>2. ASSUME NEW b \in Base, Crash(b)
      PROVE  BookInv'
  <2>1. /\ running' = running \ {b} /\ cleared' = cleared \ {b}
        /\ queue' = [queue EXCEPT ![b] = EmptyQueue]
        /\ working' = [working EXCEPT ![b] = {}]
        /\ wire' = {m \in wire : m.to # b}
        /\ syncing' \subseteq syncing
    BY <1>2 DEF Crash
  <2>2. \A c \in running' \ cleared' : c \in running \ cleared /\ queue'[c] = queue[c] /\ working'[c] = working[c]
    BY <1>1, <2>1
  <2>3. ASSUME NEW n \in wire'
        PROVE  Sound(n)'
    <3>1. n \in wire /\ n.to # b
      BY <2>1
    <3>2. Sound(n)
      BY <3>1 DEF BookInv
    <3>3. n.to \in running'
      BY <2>1, <3>1, <3>2 DEF Sound
    <3> QED BY <2>2, <3>2, <3>3, SoundStays
  <2>4. WorkersKnow'
    BY <2>2 DEF BookInv, WorkersKnow, Knows
  <2>5. DownRest' /\ SyncPairs'
    BY <1>1, <2>1 DEF BookInv, DownRest, SyncPairs
  <2> QED BY <2>3, <2>4, <2>5 DEF BookInv
<1>3. ASSUME NEW b \in Base, Restart(b)
      PROVE  BookInv'
  <2>1. /\ running' = running \cup {b} /\ b \notin running
        /\ \A m \in wire : m.from # b
        /\ UNCHANGED <<syncing, queue, wire, working, cleared>>
    BY <1>3 DEF Restart, workVars
  <2>2. ASSUME NEW n \in wire
        PROVE  Sound(n)'
    <3>1. Sound(n) /\ n.from # b
      BY <2>1 DEF BookInv
    <3> QED BY <2>1, <3>1, SoundStays DEF Sound
  <2>3. working[b] = {}
    BY <2>1 DEF BookInv, DownRest
  <2>4. WorkersKnow'
    BY <2>1, <2>3 DEF BookInv, WorkersKnow, Knows
  <2>5. DownRest' /\ SyncPairs'
    BY <2>1 DEF BookInv, DownRest, SyncPairs
  <2> QED BY <2>1, <2>2, <2>4, <2>5 DEF BookInv
<1>4. ASSUME ClearRequests
      PROVE  BookInv'
  <2>1. /\ wire' = wire \cup Broadcast("QUEUE_CLEAR", None, Base, {})
        /\ UNCHANGED <<running, queue, working, cleared, syncing>>
    BY <1>4 DEF ClearRequests, nodeVars, workVars
  <2>2. ASSUME NEW n \in Broadcast("QUEUE_CLEAR", None, Base, {})
        PROVE  Sound(n)
    <3>1. n.type = "QUEUE_CLEAR" /\ n.from = None /\ n.to \in running
      BY <2>2, BroadcastSays
    <3> QED BY <1>1, <3>1 DEF Sound
  <2>3. SyncPairs'
    BY <2>1 DEF BookInv, SyncPairs
  <2> QED BY <2>1, <2>2, <2>3, BookStays
<1> QED BY <1>2, <1>3, <1>4

\* Every step keeps the books.
LEMMA BookInvStep ==
    QueueInv /\ BookInv /\ [Next]_vars => BookInv'
<1> SUFFICES ASSUME QueueInv, BookInv, [Next]_vars
             PROVE  BookInv'
  OBVIOUS
<1>1. CASE UNCHANGED vars
  <2>1. UNCHANGED <<running, queue, working, cleared, wire, syncing>>
    BY <1>1 DEF vars, nodeVars, workVars
  <2>2. SyncPairs'
    BY <2>1 DEF BookInv, SyncPairs
  <2> QED BY <2>1, <2>2, BookStays
<1>2. CASE \/ \E p, b \in Base : HandleBaseHeartbeat(p, b)
           \/ \E p, b \in Base : MarkOffline(p, b)
           \/ \E p, b \in Base : SendFullQueueSync(p, b)
  BY <1>2, HeartbeatBook
<1>3. CASE \E m \in wire : Handle(m)
  BY <1>3, HandlerBook
<1>4. CASE \/ \E r \in Request, P \in SUBSET Base : BrokerSends(r, P)
           \/ \E b \in Base, d \in Drone : \E e \in queue[b].heap : Reserve(b, e, d)
           \/ \E b \in Base : \E w \in working[b] : Requeue(b, w) \/ Confirm(b, w)
           \/ \E b \in Base, r \in Request : HandleMissionDone(b, r)
  BY <1>4, WorkMoves, WorkBook
<1>5. CASE (\E b \in Base : Crash(b) \/ Restart(b)) \/ ClearRequests
  BY <1>5, LifeBook
<1> QED BY <1>1, <1>2, <1>3, <1>4, <1>5 DEF Next

-----------------------------------------------------------------------------
(* Two bases: what one has queued the other knows, or will.                 *)

\* b knows request r of p, or will hear of it, or was overlooked.
Covered(p, b, r) ==
    \/ Knows(b, r)
    \/ OnItsWay(b, r)
    \/ <<p, b>> \in syncing \cup overlooked
    \/ peers[p][b] # "ONLINE"

PairInv == \A p \in running, b \in running \ cleared :
              p # b => \A r \in Ids(queue[p]) : Covered(p, b, r)

AtMostTwo == \A a, b, c \in Base : a = b \/ b = c \/ a = c

\* The heartbeats: a base that is back is synchronised.
LEMMA HeartbeatPairs ==
    ASSUME QueueInv, PairInv, NEW q \in Base, NEW c \in Base,
           HandleBaseHeartbeat(q, c) \/ MarkOffline(q, c) \/ SendFullQueueSync(q, c)
    PROVE  PairInv'
<1>1. /\ peers \in [Base -> [Base -> PeerStatus]] /\ running \subseteq Base
  BY DEF QueueInv, TypeOK
<1>2. UNCHANGED <<running, queue, cleared>>
  BY DEF HandleBaseHeartbeat, MarkOffline, SendFullQueueSync
<1> SUFFICES ASSUME NEW p \in running, NEW b \in running \ cleared, p # b,
                    NEW r \in Ids(queue[p])
             PROVE  Covered(p, b, r)'
  BY <1>2 DEF PairInv
<1>3. Covered(p, b, r)
  BY DEF PairInv
<1>4. CASE HandleBaseHeartbeat(q, c)
  <2>1. UNCHANGED wire /\ peers' = [peers EXCEPT ![q][c] = "ONLINE"]
    BY <1>4 DEF HandleBaseHeartbeat
  <2>2. CASE p = q /\ b = c
    <3>1. CASE peers[q][c] = "ONLINE"
      <4>1. UNCHANGED <<syncing, overlooked>>
        BY <1>4, <3>1 DEF HandleBaseHeartbeat
      <4> QED BY <1>2, <1>3, <2>1, <2>2, <3>1, <4>1 DEF Covered, Knows, OnItsWay
    <3>2. CASE peers[q][c] # "ONLINE"
      <4>1. <<p, b>> \in syncing'
        BY <1>4, <2>2, <3>2 DEF HandleBaseHeartbeat
      <4> QED BY <4>1 DEF Covered
    <3> QED BY <3>1, <3>2
  <2>3. CASE p # q \/ b # c
    <3>1. peers'[p][b] = peers[p][b]
      BY <1>1, <2>1, <2>3
    <3>2. <<p, b>> \in syncing \cup overlooked => <<p, b>> \in syncing' \cup overlooked'
      BY <1>4, <2>3 DEF HandleBaseHeartbeat
    <3> QED BY <1>2, <1>3, <2>1, <3>1, <3>2 DEF Covered, Knows, OnItsWay
  <2> QED BY <2>2, <2>3
<1>5. CASE MarkOffline(q, c)
  <2>1. UNCHANGED <<wire, syncing, overlooked>> /\ peers' = [peers EXCEPT ![q][c] = "OFFLINE"]
    BY <1>5 DEF MarkOffline
  <2>2. peers[p][b] # "ONLINE" => peers'[p][b] # "ONLINE"
    BY <1>1, <2>1
  <2> QED BY <1>2, <1>3, <2>1, <2>2 DEF Covered, Knows, OnItsWay
<1>6. CASE SendFullQueueSync(q, c)
  <2>1. /\ wire' = wire \cup Broadcast("QUEUE_SYNC", q, {c}, queue[q].heap)
        /\ syncing' = syncing \ {<<q, c>>}
        /\ UNCHANGED <<peers, overlooked>>
    BY <1>6 DEF SendFullQueueSync
  <2>2. CASE p = q /\ b = c
    <3>1. PICK n \in Broadcast("QUEUE_SYNC", q, {c}, queue[q].heap) :
              n.to = b /\ n.entries = queue[p].heap
      BY <2>2, BroadcastReaches
    <3>2. r \in IdsOf(n.entries)
      BY <3>1 DEF Ids, IdsOf
    <3> QED BY <2>1, <3>1, <3>2 DEF Covered, OnItsWay
  <2>3. CASE p # q \/ b # c
    <3>1. <<p, b>> \in syncing => <<p, b>> \in syncing'
      BY <2>1, <2>3
    <3> QED BY <1>2, <1>3, <2>1, <3>1 DEF Covered, Knows, OnItsWay
  <2> QED BY <2>2, <2>3
<1> QED BY <1>4, <1>5, <1>6

\* The handlers: what one of two bases hears of comes from the other, or goes
\* there next.
LEMMA HandlerPairs ==
    ASSUME AtMostTwo, QueueInv, BookInv, PairInv, NEW m \in wire, Handle(m)
    PROVE  PairInv'
<1>1. Handled(m)
  BY HandlerMoves
<1>2. /\ m.to \in running /\ running \subseteq Base
      /\ UNCHANGED <<running, peers, syncing, overlooked>>
      /\ wire \ {m} \subseteq wire'
  <2>1. Sound(m) /\ running \subseteq Base
    BY DEF BookInv, QueueInv, TypeOK
  <2>2. wire \ {m} \subseteq wire'
    BY DEF Handle, HandleNewRequest, HandleQueueAdd, HandleQueueUpdate, HandleQueueSync,
           HandleQueueClear
  <2> QED BY <1>1, <2>1, <2>2 DEF Sound, Handled, nodeVars
<1> SUFFICES ASSUME NEW p \in running, NEW b \in running \ cleared', p # b,
                    NEW r \in Ids(queue'[p])
             PROVE  Covered(p, b, r)'
  BY <1>2 DEF PairInv
<1>3. b \notin cleared /\ queue[b].seen \subseteq queue'[b].seen
  BY <1>1, <1>2 DEF Handled
<1>4. CASE r \in Ids(queue[p])
  <2>1. Covered(p, b, r)
    BY <1>3, <1>4 DEF PairInv
  <2>2. CASE OnItsWay(b, r)
    <3>1. PICK n \in wire : n.to = b /\ r \in IdsOf(n.entries)
      BY <2>2 DEF OnItsWay
    <3>2. CASE n = m
      <4>1. m.type # "QUEUE_CLEAR" /\ IdsOf(m.entries) \subseteq queue'[b].seen
        BY <1>1, <3>1, <3>2 DEF Handled
      <4> QED BY <3>1, <3>2, <4>1 DEF Covered, Knows
    <3>3. CASE n # m
      BY <1>2, <3>1, <3>3 DEF Covered, OnItsWay
    <3> QED BY <3>2, <3>3
  <2>3. CASE ~OnItsWay(b, r)
    BY <1>2, <1>3, <2>1, <2>3 DEF Covered, Knows
  <2> QED BY <2>2, <2>3
<1>5. CASE r \notin Ids(queue[p])
  <2>1. p = m.to
    BY <1>1, <1>2, <1>5 DEF Handled
  <2>2. m.type # "QUEUE_CLEAR"
    BY <1>1, <2>1 DEF Handled, Ids, EmptyQueue
  <2>3. PICK e \in m.entries : e.id = r /\ ~Over(m, e)
    BY <1>1, <1>5, <2>1, <2>2 DEF Handled
  <2>4. CASE m.type = "NEW_REQUEST"
    <3>1. OnItsWay(b, r)'
      BY <1>1, <1>5, <2>1, <2>2, <2>4 DEF Handled, PassedOn
    <3> QED BY <3>1 DEF Covered
  <2>5. CASE m.type # "NEW_REQUEST"
    <3>1. m.from \in Base /\ m.from # p
      BY <2>1, <2>2, <2>5 DEF BookInv, Sound
    <3>2. m.from = b
      BY <1>2, <3>1 DEF AtMostTwo
    <3>3. Knows(b, r)
      BY <1>3, <2>3, <3>2 DEF BookInv, Sound
    <3> QED BY <1>3, <3>3 DEF Covered, Knows
  <2> QED BY <2>4, <2>5
<1> QED BY <1>4, <1>5

\* Brokers, dispatchers and reports queue nothing.
LEMMA WorkPairs ==
    ASSUME QueueInv, PairInv, Worked
    PROVE  PairInv'
<1>1. /\ running \subseteq Base /\ wire \subseteq wire'
      /\ UNCHANGED <<running, peers, syncing, overlooked, cleared>>
      /\ \A c \in Base : queue'[c].seen = queue[c].seen /\ Ids(queue'[c]) \subseteq Ids(queue[c])
  BY DEF QueueInv, TypeOK, Worked, nodeVars
<1> SUFFICES ASSUME NEW p \in running, NEW b \in running \ cleared, p # b,
                    NEW r \in Ids(queue'[p])
             PROVE  Covered(p, b, r)'
  BY <1>1 DEF PairInv
<1>2. Covered(p, b, r)
  BY <1>1 DEF PairInv
<1> QED BY <1>1, <1>2 DEF Covered, Knows, OnItsWay

\* A base that starts again is not ONLINE to the other, or is overlooked.
LEMMA LifePairs ==
    ASSUME QueueInv, BookInv, PairInv,
           (\E c \in Base : Crash(c) \/ Restart(c)) \/ ClearRequests
    PROVE  PairInv'
<1>1. /\ queue \in [Base -> Queue] /\ peers \in [Base -> [Base -> PeerStatus]]
      /\ running \subseteq Base
  BY DEF QueueInv, TypeOK
<1>2. ASSUME NEW c \in Base, Crash(c)
      PROVE  PairInv'
  <2>1. /\ running' = running \ {c} /\ cleared' = cleared \ {c}
        /\ queue' = [queue EXCEPT ![c] = EmptyQueue]
        /\ peers' = [peers EXCEPT ![c] = Nobody]
        /\ wire' = {m \in wire : m.to # c}
        /\ syncing' = {s \in syncing : s[1] # c}
        /\ overlooked' = {s \in overlooked : s[1] # c}
    BY <1>2 DEF Crash
  <2> SUFFICES ASSUME NEW p \in running', NEW b \in running' \ cleared', p # b,
                      NEW r \in Ids(queue'[p])
               PROVE  Covered(p, b, r)'
    BY DEF PairInv
  <2>2. /\ p \in running /\ p # c /\ b \in running \ cleared /\ b # c
        /\ queue'[p] = queue[p] /\ queue'[b] = queue[b] /\ peers'[p] = peers[p]
    BY <1>1, <2>1
  <2>3. Covered(p, b, r)
    BY <2>2 DEF PairInv
  <2>4. OnItsWay(b, r) => OnItsWay(b, r)'
    BY <2>1, <2>2 DEF OnItsWay
  <2>5. <<p, b>> \in syncing \cup overlooked => <<p, b>> \in syncing' \cup overlooked'
    BY <2>1, <2>2
  <2> QED BY <2>2, <2>3, <2>4, <2>5 DEF Covered, Knows
<1>3. ASSUME NEW c \in Base, Restart(c)
      PROVE  PairInv'
  <2>1. /\ running' = running \cup {c} /\ c \notin running
        /\ overlooked' = overlooked \cup
              {<<q, c>> : q \in {q \in running : peers[q][c] = "ONLINE"}}
        /\ UNCHANGED <<peers, syncing, queue, wire, cleared>>
    BY <1>3 DEF Restart
  <2> SUFFICES ASSUME NEW p \in running', NEW b \in running' \ cleared', p # b,
                      NEW r \in Ids(queue[p])
               PROVE  Covered(p, b, r)'
    BY <2>1 DEF PairInv
  <2>2. p # c
    BY <2>1 DEF BookInv, DownRest, Ids, EmptyQueue
  <2>3. CASE b = c
    BY <2>1, <2>2, <2>3 DEF Covered
  <2>4. CASE b # c
    <3>1. Covered(p, b, r)
      BY <2>1, <2>2, <2>4 DEF PairInv
    <3> QED BY <2>1, <3>1 DEF Covered, Knows, OnItsWay
  <2> QED BY <2>3, <2>4
<1>4. ASSUME ClearRequests
      PROVE  PairInv'
  <2>1. wire \subseteq wire' /\ UNCHANGED <<running, peers, syncing, overlooked, queue, cleared>>
    BY <1>4 DEF ClearRequests, nodeVars
  <2> QED BY <2>1 DEF PairInv, Covered, Knows, OnItsWay
<1> QED BY <1>2, <1>3, <1>4

\* Every step of two bases.
LEMMA PairInvStep ==
    AtMostTwo /\ QueueInv /\ BookInv /\ PairInv /\ [Next]_vars => PairInv'
<1> SUFFICES ASSUME AtMostTwo, QueueInv, BookInv, PairInv, [Next]_vars
             PROVE  PairInv'
  OBVIOUS
<1>1. CASE UNCHANGED vars
  BY <1>1 DEF vars, nodeVars, PairInv, Covered, Knows, OnItsWay
<1>2. CASE \/ \E p, b \in Base : HandleBaseHeartbeat(p, b)
           \/ \E p, b \in Base : MarkOffline(p, b)
           \/ \E p, b \in Base : SendFullQueueSync(p, b)
  BY <1>2, HeartbeatPairs
<1>3. CASE \E m \in wire : Handle(m)
  BY <1>3, HandlerPairs
<1>4. CASE \/ \E r \in Request, P \in SUBSET Base : BrokerSends(r, P)
           \/ \E b \in Base, d \in Drone : \E e \in queue[b].heap : Reserve(b, e, d)
           \/ \E b \in Base : \E w \in working[b] : Requeue(b, w) \/ Confirm(b, w)
           \/ \E b \in Base, r \in Request : HandleMissionDone(b, r)
  BY <1>4, WorkMoves, WorkPairs
<1>5. CASE (\E b \in Base : Crash(b) \/ Restart(b)) \/ ClearRequests
  BY <1>5, LifePairs
<1> QED BY <1>1, <1>2, <1>3, <1>4, <1>5 DEF Next

\* Of at most two bases, whatever crashes, restarts, false alarms and clears
\* there are, one knows what the other has queued, or will be told of it, or
\* was overlooked or cleared; three bases can break that (heartbeat.go:59,
\* servers.go:112).
THEOREM TwoBasesLeaveNobodyBehind ==
    ASSUME AtMostTwo
    PROVE  Spec => []MembershipInv
<1>1. Init => QueueInv /\ BookInv /\ PairInv
  <2>1. ASSUME Init
        PROVE  BookInv /\ PairInv
    <3>1. \A b \in Base : Ids(queue[b]) = {}
      BY <2>1 DEF Init, EmptyQueue, Ids
    <3> QED BY <2>1, <3>1 DEF Init, BookInv, WorkersKnow, DownRest, SyncPairs, PairInv
  <2> QED BY <2>1, QueueInvInit
<1>2. QueueInv /\ BookInv /\ PairInv /\ [Next]_vars => (QueueInv /\ BookInv /\ PairInv)'
  BY QueueInvStep, BookInvStep, PairInvStep DEF StepOK
<1>3. QueueInv /\ BookInv /\ PairInv => MembershipInv
  <2> SUFFICES ASSUME QueueInv, BookInv, PairInv
               PROVE  NobodyLeftBehind
    BY DEF QueueInv, MembershipInv
  <2> SUFFICES ASSUME NEW p \in running, NEW b \in running \ cleared,
                      NEW r \in IdsOf(queue[p].heap)
               PROVE  \/ Knows(b, r)
                      \/ OnItsWay(b, r)
                      \/ \E q \in running \ {b} :
                            WillSync(q, b, r) \/ (Queues(q, r) /\ <<q, b>> \in overlooked)
    BY DEF NobodyLeftBehind
  <2>1. CASE p = b
    BY <2>1 DEF QueueInv, TypeOK, QueuesWellFormed, WellFormed, Knows, IdsOf
  <2>2. CASE p # b
    <3>1. Covered(p, b, r)
      BY <2>2 DEF PairInv, Ids, IdsOf
    <3>2. Queues(p, r)
      BY DEF Queues
    <3> QED BY <2>2, <3>1, <3>2 DEF Covered, WillSync
  <2> QED BY <2>1, <2>2
<1> QED BY <1>1, <1>2, <1>3, PTL DEF Spec

-----------------------------------------------------------------------------
(* Any number of bases, none of which crashes: what one has heard of every  *)
(* other has heard of, or will.                                             *)

\* Some base knows of r, works on it, has it flown, or tells of it.
News(r) ==
    \/ \E p \in Base : Knows(p, r) \/ \E w \in working[p] : w.entry.id = r
    \/ \E m \in wire : m.type # "NEW_REQUEST" /\ r \in IdsOf(m.entries)
    \/ r \in flying

Told(b, r) == Knows(b, r) \/ OnItsWay(b, r)

ToldInv == \A r \in Request : News(r) => \A b \in Base \ cleared : Told(b, r)

\* The handlers: news is passed on by the base that hears it first.
LEMMA HandlerTold ==
    ASSUME QueueInv, BookInv, ToldInv, running = Base, NEW m \in wire, Handle(m)
    PROVE  ToldInv'
<1>1. Handled(m)
  BY HandlerMoves
<1>2. /\ m.to \in Base /\ UNCHANGED <<working, flying>>
      /\ wire \ {m} \subseteq wire' /\ cleared \subseteq cleared'
  <2>1. m.to \in Base
    BY DEF QueueInv, TypeOK, Message
  <2>2. wire \ {m} \subseteq wire'
    BY DEF Handle, HandleNewRequest, HandleQueueAdd, HandleQueueUpdate, HandleQueueSync,
           HandleQueueClear
  <2> QED BY <1>1, <2>1, <2>2 DEF Handled, workVars
<1> SUFFICES ASSUME NEW r \in Request, News(r)', NEW b \in Base \ cleared'
             PROVE  Told(b, r)'
  BY DEF ToldInv
<1>3. b \notin cleared /\ queue[b].seen \subseteq queue'[b].seen
  BY <1>1, <1>2 DEF Handled
<1>4. CASE News(r)
  <2>1. Told(b, r)
    BY <1>3, <1>4 DEF ToldInv
  <2>2. CASE Knows(b, r)
    BY <1>3, <2>2 DEF Told, Knows
  <2>3. CASE OnItsWay(b, r)
    <3>1. PICK n \in wire : n.to = b /\ r \in IdsOf(n.entries)
      BY <2>3 DEF OnItsWay
    <3>2. CASE n = m
      <4>1. m.type # "QUEUE_CLEAR" /\ IdsOf(m.entries) \subseteq queue'[b].seen
        BY <1>1, <3>1, <3>2 DEF Handled
      <4> QED BY <3>1, <3>2, <4>1 DEF Told, Knows
    <3>3. CASE n # m
      BY <1>2, <3>1, <3>3 DEF Told, OnItsWay
    <3> QED BY <3>2, <3>3
  <2> QED BY <2>1, <2>2, <2>3 DEF Told
<1>5. CASE ~News(r)
  <2>1. \A p \in Base : r \notin queue[p].seen
    BY <1>5 DEF News, Knows
  <2>2. m.type # "NEW_REQUEST" => r \notin IdsOf(m.entries)
    BY <1>5 DEF News
  <2>3. r \in queue'[m.to].seen
    <3>1. CASE \E p \in Base : Knows(p, r)'
      BY <1>1, <2>1, <3>1 DEF Handled, Knows
    <3>2. CASE \E n \in wire' : n.type # "NEW_REQUEST" /\ r \in IdsOf(n.entries)
      <4>1. PICK n \in wire' : n.type # "NEW_REQUEST" /\ r \in IdsOf(n.entries)
        BY <3>2
      <4>2. n \notin wire
        BY <1>5, <4>1 DEF News
      <4> DEFINE added == {e \in m.entries : e.id \notin queue[m.to].seen}
      <4>3. n \in Broadcast("QUEUE_ADD", m.to, Others(m.to), added)
        BY <4>2 DEF Handle, HandleNewRequest, HandleQueueAdd, HandleQueueUpdate,
                    HandleQueueSync, HandleQueueClear
      <4>4. n.entries = added
        BY <4>3, BroadcastSays
      <4>5. r \in IdsOf(m.entries)
        BY <4>1, <4>4 DEF IdsOf
      <4> QED BY <1>1, <2>2, <4>5 DEF Handled
    <3> QED BY <1>2, <1>5, <3>1, <3>2 DEF News
  <2>4. m.type # "QUEUE_CLEAR" /\ r \in IdsOf(m.entries) /\ PassedOn(m, r)
    BY <1>1, <1>2, <2>1, <2>3 DEF Handled, EmptyQueue
  <2>5. m.type = "NEW_REQUEST"
    BY <2>2, <2>4
  <2> QED BY <2>3, <2>4, <2>5 DEF Told, Knows, PassedOn
<1> QED BY <1>4, <1>5

\* Steps that start no news, and forget and lose nothing.
LEMMA ToldStays ==
    ASSUME QueueInv, ToldInv, UNCHANGED cleared, wire \subseteq wire',
           \A c \in Base : queue[c].seen \subseteq queue'[c].seen,
           \A r \in Request : News(r)' => News(r)
    PROVE  ToldInv'
<1> SUFFICES ASSUME NEW r \in Request, News(r)', NEW b \in Base \ cleared
             PROVE  Told(b, r)'
  BY DEF ToldInv
<1>1. Told(b, r)
  BY DEF ToldInv
<1> QED BY <1>1 DEF Told, Knows, OnItsWay

\* The snapshots tell what their sender knows (heartbeat.go:103-112).
LEMMA HeartbeatTold ==
    ASSUME QueueInv, ToldInv, NEW p \in Base, NEW b \in Base,
           HandleBaseHeartbeat(p, b) \/ MarkOffline(p, b) \/ SendFullQueueSync(p, b)
    PROVE  ToldInv'
<1>1. UNCHANGED <<queue, working, flying, cleared>> /\ wire \subseteq wire'
  BY DEF HandleBaseHeartbeat, MarkOffline, SendFullQueueSync, workVars
<1>2. ASSUME NEW n \in wire', n \notin wire, NEW r \in IdsOf(n.entries)
      PROVE  Knows(p, r)
  <2>1. n \in Broadcast("QUEUE_SYNC", p, {b}, queue[p].heap)
    BY <1>2 DEF HandleBaseHeartbeat, MarkOffline, SendFullQueueSync
  <2>2. r \in IdsOf(queue[p].heap)
    BY <1>2, <2>1, BroadcastSays
  <2> QED BY <2>2 DEF IdsOf, QueueInv, QueuesWellFormed, WellFormed, Knows
<1>3. \A r \in Request : News(r)' => News(r)
  BY <1>1, <1>2 DEF News, Knows
<1> QED BY <1>1, <1>3, ToldStays

\* Brokers start no news before a base hears them; dispatchers and reports
\* repeat what is known.
LEMMA WorkTold ==
    ASSUME QueueInv, BookInv, ToldInv,
           \/ \E r \in Request, P \in SUBSET Base : BrokerSends(r, P)
           \/ \E b \in Base, d \in Drone : \E e \in queue[b].heap : Reserve(b, e, d)
           \/ \E b \in Base : \E w \in working[b] : Requeue(b, w) \/ Confirm(b, w)
           \/ \E b \in Base, r \in Request : HandleMissionDone(b, r)
    PROVE  ToldInv'
<1>1. Worked
  BY WorkMoves
<1>2. /\ UNCHANGED cleared /\ wire \subseteq wire'
      /\ \A c \in Base : queue'[c].seen = queue[c].seen
      /\ \A c \in Base : \A w \in working'[c] : w \in working[c] \/ Knows(c, w.entry.id)
  BY <1>1 DEF Worked
<1>3. ASSUME NEW r \in Request, r \in flying', r \notin flying
      PROVE  \E b \in Base : \E w \in working[b] : w.entry.id = r
  BY <1>3 DEF BrokerSends, Reserve, Requeue, Confirm, HandleMissionDone
<1>4. ASSUME NEW n \in wire', n \notin wire, n.type # "NEW_REQUEST", NEW r \in IdsOf(n.entries)
      PROVE  News(r)
  <2>1. ASSUME NEW s \in Request, NEW P \in SUBSET Base, BrokerSends(s, P)
        PROVE  FALSE
    BY <1>4, <2>1, BroadcastSays DEF BrokerSends
  <2>2. ASSUME NEW b \in Base, NEW w \in working[b], Confirm(b, w)
        PROVE  News(r)
    <3> DEFINE copy == [w.entry EXCEPT !.status = "ASSIGNED", !.assigned = w.drone]
    <3>1. n \in Broadcast("QUEUE_UPDATE", b, Others(b), {copy})
      BY <1>4, <2>2 DEF Confirm
    <3>2. n.entries = {copy}
      BY <3>1, BroadcastSays
    <3>3. w.entry \in Entry
      BY DEF QueueInv, TypeOK, Work
    <3>4. r = w.entry.id
      BY <1>4, <3>2, <3>3 DEF IdsOf, Entry
    <3> QED BY <3>4 DEF News
  <2>3. ASSUME NEW b \in Base, NEW s \in Request, HandleMissionDone(b, s)
        PROVE  News(r)
    <3> DEFINE over == [NewEntry(s) EXCEPT !.status = "DONE"]
    <3>1. n \in Broadcast("QUEUE_UPDATE", b, Others(b), {over}) /\ s \in flying
      BY <1>4, <2>3 DEF HandleMissionDone
    <3>2. over.id = s
      BY DEF NewEntry
    <3> HIDE DEF over
    <3>3. n.entries = {over}
      BY <3>1, BroadcastSays
    <3> QED BY <1>4, <3>1, <3>2, <3>3 DEF IdsOf, News
  <2> QED BY <1>4, <2>1, <2>2, <2>3 DEF Reserve, Requeue
<1>5. \A r \in Request : News(r)' => News(r)
  BY <1>2, <1>3, <1>4 DEF News, Knows
<1> QED BY <1>2, <1>5, ToldStays

\* Every step in which all bases run.
LEMMA ToldInvStep ==
    /\ QueueInv /\ BookInv /\ ToldInv /\ [Next]_vars
    /\ running = Base /\ running' = Base
    => ToldInv'
<1> SUFFICES ASSUME QueueInv, BookInv, ToldInv, [Next]_vars, running = Base, running' = Base
             PROVE  ToldInv'
  OBVIOUS
<1>1. CASE UNCHANGED vars
  BY <1>1 DEF vars, nodeVars, workVars, ToldInv, News, Told, Knows, OnItsWay
<1>2. CASE \/ \E p, b \in Base : HandleBaseHeartbeat(p, b)
           \/ \E p, b \in Base : MarkOffline(p, b)
           \/ \E p, b \in Base : SendFullQueueSync(p, b)
  BY <1>2, HeartbeatTold
<1>3. CASE \E m \in wire : Handle(m)
  BY <1>3, HandlerTold
<1>4. CASE \/ \E r \in Request, P \in SUBSET Base : BrokerSends(r, P)
           \/ \E b \in Base, d \in Drone : \E e \in queue[b].heap : Reserve(b, e, d)
           \/ \E b \in Base : \E w \in working[b] : Requeue(b, w) \/ Confirm(b, w)
           \/ \E b \in Base, r \in Request : HandleMissionDone(b, r)
  BY <1>4, WorkTold
<1>5. CASE \E b \in Base : Crash(b) \/ Restart(b)
  BY <1>5 DEF Crash, Restart
<1>6. CASE ClearRequests
  <2>1. /\ wire' = wire \cup Broadcast("QUEUE_CLEAR", None, Base, {})
        /\ UNCHANGED <<queue, working, flying, cleared>>
    BY <1>6 DEF ClearRequests, workVars
  <2>2. \A n \in wire' : n \in wire \/ IdsOf(n.entries) = {}
    BY <2>1, BroadcastSays DEF IdsOf
  <2>3. \A r \in Request : News(r)' => News(r)
    BY <2>1, <2>2 DEF News, Knows
  <2> QED BY <2>1, <2>3, ToldStays
<1> QED BY <1>1, <1>2, <1>3, <1>4, <1>5, <1>6 DEF Next

\* While no base crashes, a request that one of any number of bases has queued
\* is known to every other that was not cleared, or on its way: nothing depends
\* on heartbeats and snapshots then, and no false alarm disturbs it
\* (servers.go:71-105, dispatcher.go:62-73).
THEOREM RunningBasesLeaveNobodyBehind ==
    Spec /\ [](running = Base) => []MembershipInv
<1>1. Init => QueueInv /\ BookInv /\ ToldInv
  <2>1. ASSUME Init
        PROVE  BookInv /\ ToldInv
    <3>1. \A b \in Base : queue[b].seen = {}
      BY <2>1 DEF Init, EmptyQueue
    <3> QED BY <2>1, <3>1
            DEF Init, BookInv, WorkersKnow, DownRest, SyncPairs, ToldInv, News, Knows
  <2> QED BY <2>1, QueueInvInit
<1>2. /\ QueueInv /\ BookInv /\ ToldInv /\ [Next]_vars
      /\ running = Base /\ (running = Base)'
      => (QueueInv /\ BookInv /\ ToldInv)'
  BY QueueInvStep, BookInvStep, ToldInvStep DEF StepOK
<1>3. QueueInv /\ ToldInv /\ running = Base => MembershipInv
  <2> SUFFICES ASSUME QueueInv, ToldInv, running = Base
               PROVE  NobodyLeftBehind
    BY DEF QueueInv, MembershipInv
  <2> SUFFICES ASSUME NEW p \in running, NEW b \in running \ cleared,
                      NEW r \in IdsOf(queue[p].heap)
               PROVE  Knows(b, r) \/ OnItsWay(b, r)
    BY DEF NobodyLeftBehind
  <2>1. r \in Request /\ Knows(p, r)
    BY DEF QueueInv, TypeOK, QueuesWellFormed, WellFormed, Queue, Entry, Knows, IdsOf
  <2> QED BY <2>1 DEF ToldInv, News, Told
<1> QED BY <1>1, <1>2, <1>3, PTL DEF Spec
=============================================================================
