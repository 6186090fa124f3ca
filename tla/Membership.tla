----------------------------- MODULE Membership -----------------------------
(***************************************************************************)
(* Bases that crash, restart with an empty memory and get their queue back *)
(* from the others: the heartbeats and the health check of the peers       *)
(* (cmd/base/heartbeat.go), QUEUE_SYNC, and QUEUE_CLEAR from the web       *)
(* dashboard, against the traffic that fills the queues meanwhile.         *)
(*                                                                         *)
(* The dispatch of a request is kept as far as the queues see it: any base *)
(* may try any pending request at any time, and give it back or confirm    *)
(* it.  Lock and drone tables are in LockProtocol and Dispatch: clearLocks *)
(* of QUEUE_CLEAR is StrayRelease there, and PurgeLostDrones touches LOST  *)
(* drones only.  Rescued missions are left to Dispatch too.  Between bases *)
(* that run TCP delivers; a message to a base that is down is gone.        *)
(***************************************************************************)
EXTENDS RequestQueue

CONSTANT MaxTroubles  \* bound: crashes, uses of the "clear" button, and running
                      \* bases taken for dead, of one behaviour

ASSUME MaxTroublesAssumption == MaxTroubles \in Nat

VARIABLES running,   \* the bases whose process runs
          queue,     \* queue[b]: pq of base b
          peers,     \* peers[p][b]: status of b in the table of p
          syncing,   \* <<p, b>>: p's goroutine that will send its queue to b
          wire,      \* messages to the main servers
          working,   \* working[b]: missions b's goroutines are acquiring
          flying,    \* requests a drone is flying
          created,   \* requests the brokers have sent
          overlooked, \* history: <<p, b>> such that b restarted while p held
                      \* it ONLINE, and p has not begun a sync since
          cleared,   \* history: the bases cleared in their present life
          troubles   \* how many so far

nodeVars == <<running, peers, syncing, overlooked>>
workVars == <<working, flying, created>>
vars == <<nodeVars, queue, wire, workVars, cleared, troubles>>

PeerStatus == {"UNKNOWN", "ONLINE", "OFFLINE"}

MessageType == {"NEW_REQUEST", "QUEUE_ADD", "QUEUE_UPDATE", "QUEUE_SYNC", "QUEUE_CLEAR"}

Message == [type : MessageType,
            from : Base \cup {None}, to : Base, entries : SUBSET Entry]

\* One message to each of P that is up; the others never get it.
Broadcast(type, from, P, entries) ==
    {[type |-> type, from |-> from, to |-> p, entries |-> entries] : p \in P \cap running}

Others(b) == Base \ {b}
IdsOf(S) == {e.id : e \in S}
Nobody == [b \in Base |-> "UNKNOWN"]
Everybody(p) == [b \in Base |-> IF b = p THEN "UNKNOWN" ELSE "ONLINE"]

\* The bases know each other: a start from nothing is a restart of some.
Init ==
    /\ running = Base
    /\ queue = [b \in Base |-> EmptyQueue]
    /\ peers = [b \in Base |-> Everybody(b)]
    /\ syncing = {}
    /\ wire = {}
    /\ working = [b \in Base |-> {}]
    /\ flying = {}
    /\ created = {}
    /\ overlooked = {}
    /\ cleared = {}
    /\ troubles = 0

Trouble == troubles < MaxTroubles /\ troubles' = troubles + 1

-----------------------------------------------------------------------------
(* Heartbeats, and what p makes of them.                                   *)

\* (mutant: only a base never heard of is synchronised)
HearStranger(p, b) ==
    /\ {p, b} \subseteq running /\ p # b
    /\ peers' = [peers EXCEPT ![p][b] = "ONLINE"]
    /\ syncing' = IF peers[p][b] = "UNKNOWN" THEN syncing \cup {<<p, b>>} ELSE syncing
    /\ overlooked' = IF peers[p][b] = "UNKNOWN" THEN overlooked \ {<<p, b>>} ELSE overlooked
    /\ UNCHANGED <<running, queue, wire, workVars, cleared, troubles>>

\* A heartbeat of b reaches p.  handleBaseHeartbeat reads the old status from
\* a copy of the table and writes later: a health check in between is undone,
\* which is as if it had not happened.
HandleBaseHeartbeat(p, b) ==
    /\ {p, b} \subseteq running /\ p # b
    /\ peers' = [peers EXCEPT ![p][b] = "ONLINE"]
    /\ IF peers[p][b] = "ONLINE"
       THEN UNCHANGED <<syncing, overlooked>>
       ELSE /\ syncing' = syncing \cup {<<p, b>>}
            /\ overlooked' = overlooked \ {<<p, b>>}
    /\ UNCHANGED <<running, queue, wire, workVars, cleared, troubles>>

\* checkPeersHealth.  A base that runs may be found silent too: it sends a
\* heartbeat every 3 s and the timeout is 3 s.
MarkOffline(p, b) ==
    /\ p \in running
    /\ peers[p][b] = "ONLINE"
    /\ IF b \in running
       THEN Trouble
       ELSE UNCHANGED troubles
    /\ peers' = [peers EXCEPT ![p][b] = "OFFLINE"]
    /\ UNCHANGED <<running, syncing, overlooked, queue, wire, workVars, cleared>>

\* (mutant: only the pending requests are sent)
SendPending(p, b) ==
    /\ <<p, b>> \in syncing
    /\ syncing' = syncing \ {<<p, b>>}
    /\ wire' = wire \cup Broadcast("QUEUE_SYNC", p, {b}, Pending(queue[p]))
    /\ UNCHANGED <<running, peers, overlooked, queue, workVars, cleared, troubles>>

\* sendFullQueueSync reads the queue when its goroutine runs; an error of
\* SendMessage is not looked at.
SendFullQueueSync(p, b) ==
    /\ <<p, b>> \in syncing
    /\ syncing' = syncing \ {<<p, b>>}
    /\ wire' = wire \cup Broadcast("QUEUE_SYNC", p, {b}, queue[p].heap)
    /\ UNCHANGED <<running, peers, overlooked, queue, workVars, cleared, troubles>>

-----------------------------------------------------------------------------
(* The main server: one handler per message type.                          *)

Enqueue(b, q) == queue' = [queue EXCEPT ![b] = q]

HandleNewRequest(m) ==
    LET added == {e \in m.entries : e.id \notin queue[m.to].seen}
    IN /\ m.type = "NEW_REQUEST"
       /\ \E e \in m.entries : Enqueue(m.to, Push(queue[m.to], e))
       /\ wire' = (wire \ {m}) \cup
              (IF added = {} THEN {} ELSE Broadcast("QUEUE_ADD", m.to, Others(m.to), added))
       /\ UNCHANGED <<nodeVars, workVars, cleared, troubles>>

HandleQueueAdd(m) ==
    /\ m.type = "QUEUE_ADD"
    /\ \E e \in m.entries : Enqueue(m.to, Push(queue[m.to], e))
    /\ wire' = wire \ {m}
    /\ UNCHANGED <<nodeVars, workVars, cleared, troubles>>

HandleQueueUpdate(m) ==
    /\ m.type = "QUEUE_UPDATE"
    /\ \E e \in m.entries :
          LET replaced == Replace(queue[m.to], e)
          IN Enqueue(m.to, IF e.status = "DONE" THEN Remove(replaced, e.id) ELSE replaced)
    /\ wire' = wire \ {m}
    /\ UNCHANGED <<nodeVars, workVars, cleared, troubles>>

HandleQueueSync(m) ==
    /\ m.type = "QUEUE_SYNC"
    /\ Enqueue(m.to, SyncFrom(queue[m.to], m.entries))
    /\ wire' = wire \ {m}
    /\ UNCHANGED <<nodeVars, workVars, cleared, troubles>>

\* ClearAll empties the queue and forgets the IDs it has seen.
HandleQueueClear(m) ==
    /\ m.type = "QUEUE_CLEAR"
    /\ Enqueue(m.to, EmptyQueue)
    /\ cleared' = cleared \cup {m.to}
    /\ wire' = wire \ {m}
    /\ UNCHANGED <<running, peers, syncing, overlooked, workVars, troubles>>

Handle(m) == \/ HandleNewRequest(m)
             \/ HandleQueueAdd(m)
             \/ HandleQueueUpdate(m)
             \/ HandleQueueSync(m)
             \/ HandleQueueClear(m)

-----------------------------------------------------------------------------
(* What fills and empties the queues.                                      *)

\* propagateRequest: the broker reaches the bases P.
BrokerSends(r, P) ==
    /\ r \notin created
    /\ created' = created \cup {r}
    /\ wire' = wire \cup Broadcast("NEW_REQUEST", None, P, {NewEntry(r)})
    /\ UNCHANGED <<nodeVars, queue, working, flying, cleared, troubles>>

\* The dispatcher of b takes its most urgent request for drone d (the time
\* between its reads and writes is in Dispatch).
Reserve(b, e, d) ==
    /\ b \in running
    /\ e \in Peek(queue[b])
    /\ Enqueue(b, UpdateStatus(queue[b], e.id, "LOCKED", d))
    /\ working' = [working EXCEPT ![b] = @ \cup {[entry |-> e, drone |-> d]}]
    /\ UNCHANGED <<nodeVars, wire, flying, created, cleared, troubles>>

\* No lock, or no drone: back to PENDING, here only.
Requeue(b, w) ==
    /\ w \in working[b]
    /\ working' = [working EXCEPT ![b] = @ \ {w}]
    /\ Enqueue(b, UpdateStatus(queue[b], w.entry.id, "PENDING", None))
    /\ UNCHANGED <<nodeVars, wire, flying, created, cleared, troubles>>

\* The drone has acknowledged: ASSIGNED here, and the goroutine's copy of the
\* request to the peers.
Confirm(b, w) ==
    LET assigned == [w.entry EXCEPT !.status = "ASSIGNED", !.assigned = w.drone]
    IN /\ w \in working[b]
       /\ working' = [working EXCEPT ![b] = @ \ {w}]
       /\ flying' = flying \cup {w.entry.id}
       /\ Enqueue(b, UpdateStatus(queue[b], w.entry.id, "ASSIGNED", w.drone))
       /\ wire' = wire \cup Broadcast("QUEUE_UPDATE", b, Others(b), {assigned})
       /\ UNCHANGED <<nodeVars, created, cleared, troubles>>

\* The drone reports to b: its base, or the one it fell back to.
HandleMissionDone(b, r) ==
    LET over == [NewEntry(r) EXCEPT !.status = "DONE"]
    IN /\ b \in running
       /\ r \in flying
       /\ flying' = flying \ {r}
       /\ Enqueue(b, Remove(queue[b], r))
       /\ wire' = wire \cup Broadcast("QUEUE_UPDATE", b, Others(b), {over})
       /\ UNCHANGED <<nodeVars, working, created, cleared, troubles>>

-----------------------------------------------------------------------------
(* Crashes, restarts and the clear button.                                 *)

\* The process ends: memory, goroutines and unread messages are lost.
Crash(b) ==
    /\ b \in running
    /\ Trouble
    /\ running' = running \ {b}
    /\ queue' = [queue EXCEPT ![b] = EmptyQueue]
    /\ peers' = [peers EXCEPT ![b] = Nobody]
    /\ syncing' = {s \in syncing : s[1] # b}
    /\ wire' = {m \in wire : m.to # b}
    /\ working' = [working EXCEPT ![b] = {}]
    /\ overlooked' = {s \in overlooked : s[1] # b}
    /\ cleared' = cleared \ {b}
    /\ UNCHANGED <<flying, created>>

\* The process starts again.  Starting takes longer than what its former life
\* has sent takes to be read by those that run.
Restart(b) ==
    /\ b \notin running
    /\ \A m \in wire : m.from # b
    /\ running' = running \cup {b}
    /\ overlooked' = overlooked \cup
          {<<p, b>> : p \in {p \in running : peers[p][b] = "ONLINE"}}
    /\ UNCHANGED <<peers, syncing, queue, wire, workVars, cleared, troubles>>

\* POST /api/clear-requests: one QUEUE_CLEAR per base.
ClearRequests ==
    /\ Trouble
    /\ wire' = wire \cup Broadcast("QUEUE_CLEAR", None, Base, {})
    /\ UNCHANGED <<nodeVars, queue, workVars, cleared>>

Next ==
    \/ \E p, b \in Base : HandleBaseHeartbeat(p, b)
    \/ \E p, b \in Base : MarkOffline(p, b)
    \/ \E p, b \in Base : SendFullQueueSync(p, b)
    \/ \E m \in wire : Handle(m)
    \/ \E r \in Request, P \in SUBSET Base : BrokerSends(r, P)
    \/ \E b \in Base, d \in Drone : \E e \in queue[b].heap : Reserve(b, e, d)
    \/ \E b \in Base : \E w \in working[b] : Requeue(b, w) \/ Confirm(b, w)
    \/ \E b \in Base, r \in Request : HandleMissionDone(b, r)
    \/ \E b \in Base : Crash(b) \/ Restart(b)
    \/ ClearRequests

Spec == Init /\ [][Next]_vars

\* Bases that run send heartbeats, and what has begun is carried on; nothing
\* is assumed of dispatch, crashes, restarts, or the health check.
Fairness ==
    /\ \A p, b \in Base :
          /\ WF_vars(HandleBaseHeartbeat(p, b))
          /\ WF_vars(SendFullQueueSync(p, b))
    /\ \A b \in Base, type \in MessageType :
          WF_vars(\E m \in wire : m.to = b /\ m.type = type /\ Handle(m))

FairSpec == Spec /\ Fairness

-----------------------------------------------------------------------------
(* Properties.                                                             *)

Work == [entry : Entry, drone : Drone]

TypeOK ==
    /\ running \subseteq Base
    /\ queue \in [Base -> Queue]
    /\ peers \in [Base -> [Base -> PeerStatus]]
    /\ syncing \subseteq Base \X Base
    /\ wire \subseteq Message
    /\ working \in [Base -> SUBSET Work]
    /\ flying \subseteq Request
    /\ created \subseteq Request
    /\ overlooked \subseteq Base \X Base
    /\ cleared \subseteq Base
    /\ troubles \in 0..MaxTroubles

Knows(b, r) == r \in queue[b].seen
Queues(b, r) == r \in IdsOf(queue[b].heap)
OnItsWay(b, r) == \E m \in wire : m.to = b /\ r \in IdsOf(m.entries)

\* q will bring r to b: it is about to send its queue, or will when it next
\* hears b.
WillSync(q, b, r) ==
    /\ Queues(q, r)
    /\ <<q, b>> \in syncing \/ peers[q][b] # "ONLINE"

\* A request one running base has queued is known to every other one, or on
\* its way, or some base will bring it - unless the other one was cleared, or
\* has restarted before the 3 s time-out, while a base with the request held
\* it ONLINE (heartbeat.go:59, servers.go:112).  With three bases and a crash
\* it can fail: one that learns of a request forwards it to nobody, and the one
\* it has it from may be gone (servers.go:82-87).
NobodyLeftBehind ==
    \A p \in running, b \in running \ cleared : \A r \in IdsOf(queue[p].heap) :
        \/ Knows(b, r)
        \/ OnItsWay(b, r)
        \/ \E q \in running \ {b} : WillSync(q, b, r) \/ (Queues(q, r) /\ <<q, b>> \in overlooked)

\* No request is twice in a queue, or in a snapshot of one on its way.
QueuesWellFormed == \A b \in Base : WellFormed(queue[b])
SnapshotsWellFormed == \A m \in wire : \A e, f \in m.entries : e.id = f.id => e = f

\* The three together, with the types: what a snapshot, a restart or a clear
\* may do to the queues (queue.go:162-167, 266-277).
MembershipInv ==
    /\ TypeOK
    /\ QueuesWellFormed
    /\ SnapshotsWellFormed
    /\ NobodyLeftBehind

\* "No late base will manage to inject it back" (queue.go:152): a request a
\* running base has seen and removed is not put back into its queue by any
\* snapshot, update or addition, however old.
GhostsStayAway ==
    [][\A b \in running, r \in Request :
          Knows(b, r) /\ ~Queues(b, r) => ~Queues(b, r)']_vars

\* A running base learns of every request another one keeps queued, after
\* crashes and restarts too, unless it was overlooked or cleared.
EveryBaseCatchesUp ==
    \A b \in Base, r \in Request :
        (b \in running /\ \E p \in running : Queues(p, r))
            ~> \/ b \notin running \/ b \in cleared
               \/ Knows(b, r)
               \/ \A p \in running : ~Queues(p, r)
               \/ \E p \in running : <<p, b>> \in overlooked
=============================================================================
