---------------------------- MODULE LockProtocol ----------------------------
(***************************************************************************)
(* The distributed lock on a request: acquireLock and broadcastLockRelease *)
(* of cmd/base/dispatcher.go, the lock table of cmd/base/state.go, and the *)
(* gossip handlers of cmd/base/servers.go.                                 *)
(*                                                                         *)
(* An element g of Attempt is one dispatch goroutine.  The code stores the *)
(* base's name in the lock table and never reads it; the model stores the  *)
(* attempt instead, so that a property can tell whose lock an entry is.    *)
(* A slot g is used again only when nothing in flight mentions it, so an   *)
(* attempt is as good as fresh and retries are unbounded.                  *)
(***************************************************************************)
EXTENDS FleetTypes

VARIABLES locks,     \* locks[b][r]: the attempt base b has locked r for
          online,    \* online[b]: the peers b believes ONLINE
          att,       \* att[g]: where attempt g stands
          net,       \* lock messages in flight
          clobbered  \* history: requests one of whose live locks was deleted
                     \* by a release of somebody else

lockVars == <<locks, online, att, net, clobbered>>

(***************************************************************************)
(* pc "trying": before tryLock; "asking": wg.Wait() on the peers' replies; *)
(* "acquired": acquireLock returned true, the drone is being called;       *)
(* "assigned": the mission is confirmed, the goroutine is gone and its     *)
(* locks stay; "requeue": the goroutine is about to put the request back.  *)
(***************************************************************************)
Phase == {"idle", "trying", "asking", "acquired", "assigned", "requeue"}

Idle == [pc |-> "idle", base |-> None, req |-> None,
         peers |-> {}, waiting |-> {}, granted |-> {}]

Started(b, r) == [pc |-> "trying", base |-> b, req |-> r,
                  peers |-> {}, waiting |-> {}, granted |-> {}]

AttemptState ==
    [pc : Phase, base : Base \cup {None}, req : Request \cup {None},
     peers : SUBSET Base, waiting : SUBSET Base, granted : SUBSET Base]

\* "peer" is the base at the other end of g's message.
Message ==
    [type : {"LOCK_REQUEST", "LOCK_REPLY", "LOCK_RELEASE"},
     att : Attempt \cup {None}, req : Request, peer : Base, granted : BOOLEAN]

LockRequest(g, r, p) ==
    [type |-> "LOCK_REQUEST", att |-> g, req |-> r, peer |-> p, granted |-> FALSE]
LockReply(g, r, p, ok) ==
    [type |-> "LOCK_REPLY", att |-> g, req |-> r, peer |-> p, granted |-> ok]
LockRelease(g, r, p) ==
    [type |-> "LOCK_RELEASE", att |-> g, req |-> r, peer |-> p, granted |-> FALSE]

\* g keeps locks: it is collecting grants, or it has the request.
Owning(g) == att[g].pc \in {"asking", "acquired", "assigned"}
\* g's acquireLock returned true and the request has not been given back.
Holding(g) == att[g].pc \in {"acquired", "assigned"}
\* Attempt g's lock on r would be missed.
Live(g, r) == g # None /\ Owning(g) /\ att[g].req = r

LockInit ==
    /\ locks = [b \in Base |-> [r \in Request |-> None]]
    /\ online = [b \in Base |-> {}]
    /\ att = [g \in Attempt |-> Idle]
    /\ net = {}
    /\ clobbered = {}

Others(b) == Base \ {b}

\* Every base knows every other one: the state the heartbeats establish.
StableInit ==
    /\ locks = [b \in Base |-> [r \in Request |-> None]]
    /\ online = [b \in Base |-> Others(b)]
    /\ att = [g \in Attempt |-> Idle]
    /\ net = {}
    /\ clobbered = {}

-----------------------------------------------------------------------------
(* The lock table.                                                         *)

\* (mutant: an entry that exists is overwritten)
TryLockAnyway(b, r, g) == locks' = [locks EXCEPT ![b][r] = g]

\* tryLock: only an absent entry is taken, whoever it belongs to.
TryLock(b, r, g) ==
    /\ locks[b][r] = None
    /\ locks' = [locks EXCEPT ![b][r] = g]

\* releaseLock deletes the entry whoever it belongs to; g is the attempt on
\* whose behalf it is called.
ReleaseLock(b, r, g) ==
    /\ locks' = [locks EXCEPT ![b][r] = None]
    /\ clobbered' = IF locks[b][r] # g /\ Live(locks[b][r], r)
                    THEN clobbered \cup {r}
                    ELSE clobbered

\* broadcastLockRelease: one message to every address of cfg.peerGossip.
ReleaseMsgs(P, r, g) == {LockRelease(g, r, p) : p \in P}

-----------------------------------------------------------------------------
(* The goroutine of tryDispatch, as far as the lock goes.                  *)

Quiet(g) == \A m \in net : m.att # g

Spawn(g, b, r) ==
    /\ att[g].pc = "idle"
    /\ Quiet(g)
    /\ att' = [att EXCEPT ![g] = Started(b, r)]
    /\ UNCHANGED <<locks, online, net, clobbered>>

\* acquireLock fails on the base's own table: nothing is released.
LocalRefusal(g) ==
    /\ att[g].pc = "trying"
    /\ locks[att[g].base][att[g].req] # None
    /\ att' = [att EXCEPT ![g].pc = "requeue"]
    /\ UNCHANGED <<locks, online, net, clobbered>>

RequestMsgs(P, r, g) == {LockRequest(g, r, p) : p \in P}

Asking(s, peers) ==
    [s EXCEPT !.pc = IF peers = {} THEN "acquired" ELSE "asking",
              !.peers = peers, !.waiting = peers]

\* tryLock succeeds and the peers are read once; without any the lock is won,
\* otherwise all are asked at the same time.
LocalLock(g) ==
    LET b == att[g].base
        peers == online[b]
    IN /\ att[g].pc = "trying"
       /\ TryLock(b, att[g].req, g)
       /\ att' = [att EXCEPT ![g] = Asking(att[g], peers)]
       /\ net' = net \cup RequestMsgs(peers, att[g].req, g)
       /\ UNCHANGED <<online, clobbered>>

\* A peer answers; if the caller has timed out meanwhile the answer has
\* nowhere to go, but the lock is taken all the same.
HandleLockRequest(m) ==
    LET p == m.peer
        free == locks[p][m.req] = None
        listening == att[m.att].pc = "asking" /\ p \in att[m.att].waiting
    IN /\ m.type = "LOCK_REQUEST"
       /\ locks' = IF free THEN [locks EXCEPT ![p][m.req] = m.att] ELSE locks
       /\ net' = (net \ {m}) \cup
                 (IF listening THEN {LockReply(m.att, m.req, p, free)} ELSE {})
       /\ UNCHANGED <<online, att, clobbered>>

Answered(s, m) ==
    [s EXCEPT !.waiting = s.waiting \ {m.peer},
              !.granted = s.granted \cup (IF m.granted THEN {m.peer} ELSE {})]

ReceiveReply(m) ==
    LET g == m.att
    IN /\ m.type = "LOCK_REPLY"
       /\ att' = [att EXCEPT ![g] = Answered(att[g], m)]
       /\ net' = net \ {m}
       /\ UNCHANGED <<locks, online, clobbered>>

\* SendMessageWithReply returns an error: dial or deadline.  The request may
\* still be on its way, or handled with its answer never read.
CallFails(g, p) ==
    /\ att[g].pc = "asking"
    /\ p \in att[g].waiting
    /\ att' = [att EXCEPT ![g].waiting = @ \ {p}]
    /\ net' = {m \in net : ~(m.type = "LOCK_REPLY" /\ m.att = g /\ m.peer = p)}
    /\ UNCHANGED <<locks, online, clobbered>>

\* (mutant: one refusal is tolerated)
AllButOne(g) ==
    /\ att[g].pc = "asking"
    /\ att[g].waiting = {}
    /\ \E p \in Base : att[g].peers \ att[g].granted \subseteq {p}
    /\ att' = [att EXCEPT ![g].pc = "acquired"]
    /\ UNCHANGED <<locks, online, net, clobbered>>

\* granted == len(peers)
Unanimous(g) ==
    /\ att[g].pc = "asking"
    /\ att[g].waiting = {}
    /\ att[g].granted = att[g].peers
    /\ att' = [att EXCEPT ![g].pc = "acquired"]
    /\ UNCHANGED <<locks, online, net, clobbered>>

GiveBack(g) ==
    LET b == att[g].base
        r == att[g].req
    IN /\ ReleaseLock(b, r, g)
       /\ net' = net \cup ReleaseMsgs(Others(b), r, g)
       /\ att' = [att EXCEPT ![g].pc = "requeue"]
       /\ UNCHANGED online

\* Somebody refused or did not answer: every base is told to release,
\* the ones that refused included.
Refused(g) ==
    /\ att[g].pc = "asking"
    /\ att[g].waiting = {}
    /\ att[g].granted # att[g].peers
    /\ GiveBack(g)

\* The drone did not acknowledge the dispatch.
LockDispatchFails(g) ==
    /\ att[g].pc = "acquired"
    /\ GiveBack(g)

\* (mutant: the lock is released as soon as the news of the mission goes out)
LockConfirmReleasing(g) ==
    /\ att[g].pc = "acquired"
    /\ locks' = [locks EXCEPT ![att[g].base][att[g].req] = None]
    /\ net' = net \cup ReleaseMsgs(Others(att[g].base), att[g].req, g)
    /\ att' = [att EXCEPT ![g].pc = "assigned"]
    /\ UNCHANGED <<online, clobbered>>

LockConfirm(g) ==
    /\ att[g].pc = "acquired"
    /\ att' = [att EXCEPT ![g].pc = "assigned"]
    /\ UNCHANGED <<locks, online, net, clobbered>>

LockRequeue(g) ==
    /\ att[g].pc = "requeue"
    /\ att' = [att EXCEPT ![g] = Idle]
    /\ UNCHANGED <<locks, online, net, clobbered>>

-----------------------------------------------------------------------------
(* Releases that come from outside the goroutine.                          *)

\* (mutant: the base tells the others and keeps its own lock)
EndTenureElsewhere(g, b) ==
    /\ att[g].pc = "assigned"
    /\ net' = net \cup ReleaseMsgs(Others(b), att[g].req, g)
    /\ att' = [att EXCEPT ![g] = Idle]
    /\ UNCHANGED <<locks, online, clobbered>>

\* Base b learns that g's mission is over (MISSION_DONE, or its drone LOST)
\* and releases the request here and everywhere.
EndTenure(g, b) ==
    /\ att[g].pc = "assigned"
    /\ ReleaseLock(b, att[g].req, g)
    /\ net' = net \cup ReleaseMsgs(Others(b), att[g].req, g)
    /\ att' = [att EXCEPT ![g] = Idle]
    /\ UNCHANGED online

\* The same handlers when no tenure stands behind the call: a mission
\* reported twice or after its rescue, a drone given up by a second base
\* (both broadcast), or the gossip that the request is DONE (local only).
StrayRelease(b, r, targets) ==
    /\ targets \in {{}, Others(b)}
    /\ ReleaseLock(b, r, None)
    /\ net' = net \cup ReleaseMsgs(targets, r, None)
    /\ UNCHANGED <<online, att>>

HandleLockRelease(m) ==
    /\ m.type = "LOCK_RELEASE"
    /\ ReleaseLock(m.peer, m.req, m.att)
    /\ net' = net \ {m}
    /\ UNCHANGED <<online, att>>

\* A connection that never opens, or dies with the message.
Lose(m) ==
    /\ m.type \in {"LOCK_REQUEST", "LOCK_RELEASE"}
    /\ net' = net \ {m}
    /\ UNCHANGED <<locks, online, att, clobbered>>

-----------------------------------------------------------------------------
(* The view of the peers, moved by heartbeats and their absence.           *)

Hear(b, p) ==
    /\ p \in Others(b) \ online[b]
    /\ online' = [online EXCEPT ![b] = @ \cup {p}]
    /\ UNCHANGED <<locks, att, net, clobbered>>

Suspect(b, p) ==
    /\ p \in online[b]
    /\ online' = [online EXCEPT ![b] = @ \ {p}]
    /\ UNCHANGED <<locks, att, net, clobbered>>

-----------------------------------------------------------------------------
AttemptStep(g) ==
    \/ \E b \in Base, r \in Request : Spawn(g, b, r)
    \/ LocalRefusal(g)
    \/ LocalLock(g)
    \/ Unanimous(g)
    \/ Refused(g)
    \/ LockConfirm(g)
    \/ LockDispatchFails(g)
    \/ LockRequeue(g)
    \/ \E b \in Base : EndTenure(g, b)

MessageStep ==
    \E m \in net : HandleLockRequest(m) \/ ReceiveReply(m) \/ HandleLockRelease(m)

\* Nothing is lost, nobody is suspected, nobody releases what is not theirs.
StableNext == (\E g \in Attempt : AttemptStep(g)) \/ MessageStep

Disturbance ==
    \/ \E g \in Attempt, p \in Base : CallFails(g, p)
    \/ \E m \in net : Lose(m)
    \/ \E b \in Base, p \in Base : Hear(b, p) \/ Suspect(b, p)
    \/ \E b \in Base, r \in Request :
          StrayRelease(b, r, {}) \/ StrayRelease(b, r, Others(b))

LockNext == StableNext \/ Disturbance

LockSpec == LockInit /\ [][LockNext]_lockVars
StableLockSpec == StableInit /\ [][StableNext]_lockVars

-----------------------------------------------------------------------------
(* Properties.                                                             *)

TypeOK ==
    /\ locks \in [Base -> [Request -> Attempt \cup {None}]]
    /\ online \in [Base -> SUBSET Base]
    /\ att \in [Attempt -> AttemptState]
    /\ net \subseteq Message
    /\ clobbered \subseteq Request
    /\ \A g \in Attempt : att[g].pc # "idle" =>
          att[g].base \in Base /\ att[g].req \in Request
    /\ \A m \in net : m.type # "LOCK_RELEASE" => m.att \in Attempt

\* An attempt that keeps locks has the entry of its own base and of every
\* peer that has granted, unless somebody else's release deleted one.
OwnerKeepsItsLocks ==
    \A g \in Attempt : Owning(g) /\ att[g].req \notin clobbered =>
        \A p \in att[g].granted \cup {att[g].base} : locks[p][att[g].req] = g

\* Whoever got past acquireLock did so with the grant of every peer it asked,
\* and it never asked itself.
HolderIsUnanimous ==
    \A g \in Attempt :
        /\ att[g].pc = "trying" => att[g].granted = {}
        /\ Holding(g) => att[g].granted = att[g].peers
        /\ Owning(g) => att[g].base \notin att[g].peers

\* A grant that is still on its way is backed by the entry at the peer.
GrantInFlightIsBacked ==
    \A m \in net : m.type = "LOCK_REPLY" =>
        /\ att[m.att].pc = "asking"
        /\ att[m.att].req = m.req
        /\ m.peer \in att[m.att].waiting
        /\ m.granted /\ m.req \notin clobbered => locks[m.peer][m.req] = m.att

\* Nobody is still owning a request that its own release is travelling for,
\* and a request in flight asks for what its sender wants.
MessagesMatchAttempts ==
    \A m \in net : m.att # None =>
        /\ m.type = "LOCK_RELEASE" => att[m.att].pc \in {"idle", "requeue"}
        /\ m.type = "LOCK_REQUEST" => att[m.att].pc # "trying"
        /\ m.type = "LOCK_REQUEST" /\ Owning(m.att) => att[m.att].req = m.req

\* A peer is asked once and answers once: no second answer can count.
OneAnswerPerPeer ==
    \A m, n \in net :
        (/\ m.type # "LOCK_RELEASE" /\ n.type # "LOCK_RELEASE"
         /\ m.att = n.att /\ m.peer = n.peer) => m = n

\* The online view never contains the base itself (a base heartbeats only
\* its peers).
NobodyIsItsOwnPeer == \A b \in Base : b \notin online[b]

\* On a stable network every attempt asks every other base.
AsksEverybody ==
    /\ \A b \in Base : online[b] = Others(b)
    /\ \A g \in Attempt : Owning(g) => att[g].peers = Others(att[g].base)

LockInv ==
    /\ TypeOK
    /\ OwnerKeepsItsLocks
    /\ HolderIsUnanimous
    /\ GrantInFlightIsBacked
    /\ MessagesMatchAttempts
    /\ OneAnswerPerPeer
    /\ NobodyIsItsOwnPeer

\* What acquireLock does guarantee (dispatcher.go:76): two attempts hold the
\* same request only if a third party's release deleted a lock, or neither
\* had the other's base among the peers it asked (a split view).
ExclusiveUnlessClobbered ==
    \A g, h \in Attempt :
        (/\ g # h
         /\ Holding(g) /\ Holding(h)
         /\ att[g].req = att[h].req
         /\ att[g].req \notin clobbered)
        => /\ att[g].base # att[h].base
           /\ att[h].base \notin att[g].peers
           /\ att[g].base \notin att[h].peers

\* With every base in everybody's view, the only way left to hold a request
\* twice is a release that deletes a live lock of another attempt.
ExclusiveInFullView ==
    \A g, h \in Attempt :
        (/\ Holding(g) /\ Holding(h)
         /\ att[g].req = att[h].req
         /\ att[g].req \notin clobbered) => g = h

\* README.md:61: a base whose own request for the occurrence is more recent
\* grants; so of two bases that compete alone, they never both refuse.
\* (denied: the peer has answered and has not granted.)
Denied(g, h) == /\ att[g].pc = "asking"
                /\ att[h].base \in att[g].peers \ (att[g].waiting \cup att[g].granted)
NoMutualRefusal ==
    \A g, h \in Attempt :
        ~(Denied(g, h) /\ Denied(h, g) /\ att[g].req = att[h].req)

\* No lock outlives its attempt: an entry belongs to an attempt that is alive,
\* or the release that will delete it is on its way (dispatcher.go:115-118).
NoOrphanLock ==
    \A b \in Base, r \in Request :
        LET g == locks[b][r]
        IN g # None => Live(g, r) \/ LockRelease(g, r, b) \in net
=============================================================================
