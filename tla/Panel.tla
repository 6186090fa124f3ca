-------------------------------- MODULE Panel --------------------------------
(***************************************************************************)
(* The web dashboard: each base pushes its view once a second              *)
(* (startDashPush, servers.go), one goroutine per sector reads it          *)
(* (cmd/webdash/aggregator.go), a ticker and the requests to /api/state    *)
(* take snapshots of all sectors, and the hub writes the ticker's to the   *)
(* browsers (wsserver.go).                                                 *)
(*                                                                         *)
(* GlobalSnapshot holds a.mu for reading only, and writes all the same:    *)
(* two snapshots interleave sector by sector, and a document is marshalled *)
(* when the lock is gone, with the arrays of bases it shares with the      *)
(* aggregator.  Of a view the drones and the alerts are kept; the queue,   *)
(* sensors and brokers are copied the same way.                            *)
(***************************************************************************)
EXTENDS AlertLog, FiniteSets

CONSTANTS Sector, Drone, Client,
          LastAlerts,   \* the 20 of buildStatusUpdate
          MaxSurprises  \* bound: what the bases hear of drones, requests to
                        \* /api/state, crashes, broken connections, slow browsers

ASSUME BoundsAssumption ==
    LastAlerts \in 1..MaxAlerts /\ MaxSurprises \in Nat

Job == {"ticker", "api"}

VARIABLES up,       \* the sectors whose base runs
          view,     \* view[s][d]: the record of drone d at base s
          emitted,  \* emitted[s]: alerts the base of s has made in this life
          log,      \* log[s]: those it keeps
          conn,     \* conn[s]: the connection to the base
          sector,   \* sector[s]: the aggregator's SectorState, without
          alerts,   \* alerts[s]: the alerts of its payload
          job,      \* job[t]: a snapshot being taken
          conns,    \* browsers the broadcast has still to write to
          link,     \* link[c]: the WebSocket of browser c
          handler,  \* handler[c]: what ServeWS of c is doing
          clients,  \* the hub's clients
          now,      \* the last LastSeen
          surprises \* how many so far

baseVars == <<up, view, emitted, log>>
hubVars == <<conns, link, handler, clients>>
vars == <<baseVars, conn, sector, alerts, job, hubVars, now, surprises>>

\* A record is its LastSeen, 0 when there is none.
NoDrones == [d \in Drone |-> 0]

\* "status" is the entry "base-<sector>" of the array Payload.Bases; "none"
\* before the first payload.
NoSector == [online |-> FALSE, drones |-> NoDrones, status |-> "none"]

\* In "rows", status "shared" is that of the aggregator's own array.  History:
\* "swept", the sectors whose drones this snapshot wiped out; "overlapped",
\* another snapshot was taken or marshalled at the same time.
Idle == [pc |-> "idle", todo |-> {}, counted |-> NoDrones,
         rows |-> [s \in Sector |-> NoSector], swept |-> {}, overlapped |-> FALSE]

Init ==
    /\ up = Sector
    /\ view = [s \in Sector |-> NoDrones]
    /\ emitted = [s \in Sector |-> 0]
    /\ log = [s \in Sector |-> <<>>]
    /\ conn = [s \in Sector |-> "closed"]
    /\ sector = [s \in Sector |-> NoSector]
    /\ job = [t \in Job |-> Idle]
    /\ conns = {}
    /\ link = [c \in Client |-> "none"]
    /\ handler = [c \in Client |-> "none"]
    /\ clients = {}
    /\ alerts = [s \in Sector |-> <<>>]
    /\ now = 0
    /\ surprises = 0

Surprise == surprises < MaxSurprises /\ surprises' = surprises + 1

-----------------------------------------------------------------------------
(* The base.                                                               *)

\* A heartbeat, a registration or a loss: the record of d is new, an alert is
\* emitted.
Hears(s, d) ==
    /\ s \in up
    /\ Surprise
    /\ now' = now + 1
    /\ view' = [view EXCEPT ![s][d] = now + 1]
    /\ emitted' = [emitted EXCEPT ![s] = @ + 1]
    /\ log' = [log EXCEPT ![s] = Emit(@, emitted[s] + 1)]
    /\ UNCHANGED <<up, conn, sector, alerts, job, hubVars>>

Broken(s) == IF conn[s] = "open" THEN "broken" ELSE conn[s]

BaseCrashes(s) ==
    /\ s \in up
    /\ Surprise
    /\ up' = up \ {s}
    /\ view' = [view EXCEPT ![s] = NoDrones]
    /\ emitted' = [emitted EXCEPT ![s] = 0]
    /\ log' = [log EXCEPT ![s] = <<>>]
    /\ conn' = [conn EXCEPT ![s] = Broken(s)]
    /\ UNCHANGED <<sector, alerts, job, hubVars, now>>

BaseStarts(s) ==
    /\ s \notin up
    /\ up' = up \cup {s}
    /\ UNCHANGED <<view, emitted, log, conn, sector, alerts, job, hubVars,
                   now, surprises>>

ConnectionBreaks(s) ==
    /\ conn[s] = "open"
    /\ Surprise
    /\ conn' = [conn EXCEPT ![s] = "broken"]
    /\ UNCHANGED <<baseVars, sector, alerts, job, hubVars, now>>

-----------------------------------------------------------------------------
(* The aggregator: connectSector.                                          *)

Dial(s) ==
    /\ conn[s] = "closed"
    /\ s \in up
    /\ conn' = [conn EXCEPT ![s] = "open"]
    /\ UNCHANGED <<baseVars, sector, alerts, job, hubVars, now, surprises>>

\* (mutant: a.mu is not asked for)
Regardless == TRUE

\* a.mu is free for a writer.
Unlocked == \A t \in Job : job[t].pc \notin {"counting", "sweeping"}

\* Every second the base pushes what it knows (handleDashConn), and
\* readSectorLoop replaces the payload, its array of bases with it; a snapshot
\* not yet marshalled keeps the old array.
Push(s) ==
    /\ s \in up
    /\ conn[s] = "open"
    /\ Unlocked
    /\ sector' = [sector EXCEPT ![s] = [online |-> TRUE, drones |-> view[s], status |-> "ONLINE"]]
    /\ alerts' = [alerts EXCEPT ![s] = GetLast(log[s], LastAlerts)]
    /\ job' = [t \in Job |->
                  IF job[t].rows[s].status = "shared"
                  THEN [job[t] EXCEPT !.rows[s].status = sector[s].status]
                  ELSE job[t]]
    /\ UNCHANGED <<baseVars, conn, hubVars, now, surprises>>

\* (mutant: the sector is not marked)
Reconnect(s) ==
    /\ conn[s] = "broken"
    /\ Unlocked
    /\ conn' = [conn EXCEPT ![s] = "closed"]
    /\ UNCHANGED <<baseVars, sector, alerts, job, hubVars, now, surprises>>

\* The read fails.
MarkOffline(s) ==
    /\ conn[s] = "broken"
    /\ Unlocked
    /\ sector' = [sector EXCEPT ![s].online = FALSE]
    /\ conn' = [conn EXCEPT ![s] = "closed"]
    /\ UNCHANGED <<alerts, baseVars, job, hubVars, now, surprises>>

-----------------------------------------------------------------------------
(* The aggregator: GlobalSnapshot.                                         *)

Busy(t) == job[t].pc \in {"counting", "sweeping", "marshalling"}

\* The ticker takes none when nobody watches.
BeginSnapshot(t) ==
    LET overlaps == \E u \in Job \ {t} : Busy(u)
    IN /\ job[t].pc = "idle"
       /\ \/ t = "ticker" /\ clients # {} /\ UNCHANGED surprises
          \/ t = "api" /\ Surprise
       /\ job' = [u \in Job |->
                     IF u = t THEN [Idle EXCEPT !.pc = "counting", !.todo = Sector,
                                                !.overlapped = overlaps]
                     ELSE IF Busy(u) THEN [job[u] EXCEPT !.overlapped = TRUE] ELSE job[u]]
       /\ UNCHANGED <<baseVars, conn, sector, alerts, hubVars, now>>

\* One sector done: on to the next loop after the last.
Done(j, s, next) ==
    IF j.todo = {s} THEN [j EXCEPT !.pc = next, !.todo = Sector]
    ELSE [j EXCEPT !.todo = @ \ {s}]

\* (mutant: the older record of a drone counts)
CountOldest(t, s) ==
    /\ job[t].pc = "counting"
    /\ s \in job[t].todo
    /\ job' = [job EXCEPT ![t] =
                  [Done(job[t], s, "sweeping") EXCEPT !.counted =
                      [d \in Drone |-> IF @[d] = 0 THEN sector[s].drones[d] ELSE @[d]]]]
    /\ UNCHANGED <<baseVars, conn, sector, alerts, hubVars, now, surprises>>

\* globalDrones, from which the numbers are made: the newest record of a drone.
Count(t, s) ==
    /\ job[t].pc = "counting"
    /\ s \in job[t].todo
    /\ job' = [job EXCEPT ![t] =
                  [Done(job[t], s, "sweeping") EXCEPT !.counted =
                      [d \in Drone |-> IF sector[s].drones[d] > @[d]
                                       THEN sector[s].drones[d] ELSE @[d]]]]
    /\ UNCHANGED <<baseVars, conn, sector, alerts, hubVars, now, surprises>>

\* What the second loop makes of a sector: one that is offline loses its drones.
Swept(row) ==
    [row EXCEPT !.drones = IF row.online THEN @ ELSE NoDrones,
                !.status = CASE @ = "none" -> "none"
                             [] @ # "none" /\ row.online -> "ONLINE"
                             [] OTHER -> "OFFLINE"]

Sweep(t, s) ==
    LET row == Swept(sector[s])
        shared == [row EXCEPT !.status = IF @ = "none" THEN "none" ELSE "shared"]
    IN /\ job[t].pc = "sweeping"
       /\ s \in job[t].todo
       /\ sector' = [sector EXCEPT ![s] = row]
       /\ job' = [job EXCEPT ![t] =
                     [Done(job[t], s, "marshalling") EXCEPT
                         !.rows[s] = shared,
                         !.swept = IF row.drones # sector[s].drones THEN @ \cup {s} ELSE @]]
       /\ UNCHANGED <<alerts, baseVars, conn, hubVars, now, surprises>>

\* The document as it is marshalled, after a.mu is released.
Document(t) ==
    [s \in Sector |-> IF job[t].rows[s].status = "shared"
                      THEN [job[t].rows[s] EXCEPT !.status = sector[s].status]
                      ELSE job[t].rows[s]]

\* /api/state
Respond ==
    /\ job["api"].pc = "marshalling"
    /\ job' = [job EXCEPT !["api"] = Idle]
    /\ UNCHANGED <<baseVars, conn, sector, alerts, hubVars, now, surprises>>

-----------------------------------------------------------------------------
(* The hub.                                                                *)

\* The ticker's document is marshalled and the hub's clients are copied.
StartBroadcast ==
    /\ job["ticker"].pc = "marshalling"
    /\ job' = [job EXCEPT !["ticker"] = [Idle EXCEPT !.pc = "writing"]]
    /\ conns' = clients
    /\ UNCHANGED <<baseVars, conn, sector, alerts, link, handler, clients, now, surprises>>

Write(c) ==
    /\ c \in conns
    /\ link[c] = "open"
    /\ conns' = conns \ {c}
    /\ UNCHANGED <<baseVars, conn, sector, alerts, job, link, handler, clients, now,
                   surprises>>

\* (mutant: out of the map, and left open)
RemoveOnly(c) == clients' = clients \ {c} /\ UNCHANGED link

\* Out of the map, and closed.
Remove(c) == clients' = clients \ {c} /\ link' = [link EXCEPT ![c] = "closed"]

WriteFails(c) ==
    /\ c \in conns
    /\ Remove(c)
    /\ conns' = conns \ {c}
    /\ UNCHANGED <<baseVars, conn, sector, alerts, job, handler, now>>

\* The browser is gone.
FindsClosed(c) == link[c] = "closed" /\ WriteFails(c) /\ UNCHANGED surprises

\* It is there, and does not take the document in 2 s.
WriteTimesOut(c) == link[c] = "open" /\ WriteFails(c) /\ Surprise

EndBroadcast ==
    /\ job["ticker"].pc = "writing"
    /\ conns = {}
    /\ job' = [job EXCEPT !["ticker"] = Idle]
    /\ UNCHANGED <<baseVars, conn, sector, alerts, conns, link, handler, clients, now,
                   surprises>>

\* ServeWS: the browser connects, is added, leaves, and is removed.
Connect(c) ==
    /\ link[c] = "none"
    /\ link' = [link EXCEPT ![c] = "open"]
    /\ handler' = [handler EXCEPT ![c] = "adding"]
    /\ UNCHANGED <<baseVars, conn, sector, alerts, job, conns, clients, now, surprises>>

Add(c) ==
    /\ handler[c] = "adding"
    /\ handler' = [handler EXCEPT ![c] = "reading"]
    /\ clients' = clients \cup {c}
    /\ UNCHANGED <<baseVars, conn, sector, alerts, job, conns, link, now, surprises>>

Leave(c) ==
    /\ link[c] = "open"
    /\ link' = [link EXCEPT ![c] = "closed"]
    /\ UNCHANGED <<baseVars, conn, sector, alerts, job, conns, handler, clients,
                   now, surprises>>

ReadFails(c) ==
    /\ handler[c] = "reading"
    /\ link[c] = "closed"
    /\ Remove(c)
    /\ handler' = [handler EXCEPT ![c] = "none"]
    /\ UNCHANGED <<baseVars, conn, sector, alerts, job, conns, now, surprises>>

-----------------------------------------------------------------------------
(* The goroutines.                                                         *)

ConnectSector(s) == Dial(s) \/ Push(s) \/ MarkOffline(s)

GlobalSnapshot(t) == \E s \in Sector : Count(t, s) \/ Sweep(t, s)

BroadcastLoop ==
    \/ BeginSnapshot("ticker") \/ GlobalSnapshot("ticker")
    \/ StartBroadcast \/ EndBroadcast
    \/ \E c \in Client : Write(c) \/ FindsClosed(c) \/ WriteTimesOut(c)

StateRequest == BeginSnapshot("api") \/ GlobalSnapshot("api") \/ Respond

ServeWS(c) == Connect(c) \/ Add(c) \/ ReadFails(c)

Next ==
    \/ \E s \in Sector, d \in Drone : Hears(s, d)
    \/ \E s \in Sector : BaseCrashes(s) \/ BaseStarts(s) \/ ConnectionBreaks(s)
    \/ \E s \in Sector : ConnectSector(s)
    \/ BroadcastLoop
    \/ StateRequest
    \/ \E c \in Client : ServeWS(c) \/ Leave(c)

Spec == Init /\ [][Next]_vars

\* Processes that run go on; the ticker ticks.  A writer that waits for a.mu
\* lets no new reader in (sync.RWMutex), so it gets it however often snapshots
\* are taken: strong fairness.
Fairness ==
    /\ \A s \in Sector : SF_vars(ConnectSector(s))
    /\ WF_vars(BroadcastLoop /\ UNCHANGED surprises)
    /\ WF_vars(GlobalSnapshot("api") \/ Respond)
    /\ \A c \in Client : WF_vars(Add(c) \/ ReadFails(c))

FairSpec == Spec /\ Fairness

-----------------------------------------------------------------------------
(* Properties.                                                             *)

Record == Nat
Row == [online : BOOLEAN, drones : [Drone -> Record],
        status : {"none", "shared", "ONLINE", "OFFLINE"}]
JobState == [pc : {"idle", "counting", "sweeping", "marshalling", "writing"},
             todo : SUBSET Sector, counted : [Drone -> Record], rows : [Sector -> Row],
             swept : SUBSET Sector, overlapped : BOOLEAN]

TypeOK ==
    /\ up \subseteq Sector
    /\ view \in [Sector -> [Drone -> Record]]
    /\ emitted \in [Sector -> Nat]
    /\ log \in [Sector -> Seq(Nat)]
    /\ conn \in [Sector -> {"closed", "open", "broken"}]
    /\ sector \in [Sector -> Row]
    /\ job \in [Job -> JobState]
    /\ conns \subseteq Client /\ clients \subseteq Client
    /\ link \in [Client -> {"none", "open", "closed"}]
    /\ handler \in [Client -> {"none", "adding", "reading"}]
    /\ alerts \in [Sector -> Seq(Nat)]
    /\ now \in Nat
    /\ surprises \in 0..MaxSurprises

Newest(n, most) == LET k == IF n < most THEN n ELSE most IN [i \in 1..k |-> n - k + i]

\* A base keeps its newest alerts, as many as fit, in order (alerts.go:54).
AlertsAreNewest == \A s \in Sector : log[s] = Newest(emitted[s], MaxAlerts)

\* A document does not contradict itself (aggregator.go:77-152): a sector that is
\* offline has no drones and its base is offline; the numbers are made of the
\* newest record shown of each drone, and of no drone that is not shown.  Two
\* exceptions: when the snapshot itself wiped drones out, they were counted; when
\* two snapshots overlapped, neither the numbers nor the bases' status need agree.
DocumentsAgree ==
    \A t \in Job : job[t].pc = "marshalling" =>
        LET rows == Document(t)
            counted == job[t].counted
            shown == {s \in Sector : rows[s].online}
        IN /\ \A s \in Sector \ shown : rows[s].drones = NoDrones
           /\ ~job[t].overlapped =>
                 /\ \A s \in Sector : rows[s].status = "ONLINE" <=> s \in shown
                 /\ \A d \in Drone :
                       /\ \A s \in shown : rows[s].drones[d] <= counted[d]
                       /\ (job[t].swept = {} /\ counted[d] # 0) =>
                             \E s \in shown : rows[s].drones[d] = counted[d]

\* A browser whose connection is open is among those the broadcast writes to
\* (wsserver.go:35-40, 52-54).
OpenIsServed ==
    \A c \in Client : (handler[c] = "reading" /\ link[c] = "open") => c \in clients

-----------------------------------------------------------------------------
(* The inductive invariant of the proofs: what the properties rest on.     *)

\* A sector's own array of bases is nobody else's, and there when it is online.
SectorsStand ==
    \A s \in Sector : /\ sector[s].status # "shared"
                      /\ sector[s].online => sector[s].status # "none"

OverlapsAreMarked ==
    \A t, u \in Job : (t # u /\ Busy(t) /\ Busy(u)) => job[t].overlapped

\* The sectors whose row snapshot t has made.
Made(t) == CASE job[t].pc = "sweeping" -> Sector \ job[t].todo
             [] job[t].pc = "marshalling" -> Sector
             [] OTHER -> {}

RowsStand ==
    \A t \in Job : \A s \in Made(t) :
        LET row == job[t].rows[s]
        IN /\ ~row.online => row.drones = NoDrones
           /\ ~job[t].overlapped => (Document(t)[s].status = "ONLINE" <=> row.online)

\* The sectors snapshot t has looked at, and the drones it shows or is about to.
Seen(t) == IF job[t].pc = "counting" THEN Sector \ job[t].todo ELSE Sector
Shown(t, s) == IF s \in Made(t) THEN job[t].rows[s].drones ELSE sector[s].drones

\* What is counted is the newest of what snapshot t has looked at.
CountStands(t, d) ==
    LET n == job[t].counted[d]
    IN /\ \A s \in Seen(t) : Shown(t, s)[d] <= n
       /\ (job[t].swept = {} /\ n # 0) => \E s \in Seen(t) : Shown(t, s)[d] = n

CountsStand ==
    \A t \in Job : (Busy(t) /\ ~job[t].overlapped) => \A d \in Drone : CountStands(t, d)

PanelInv == /\ TypeOK
            /\ SectorsStand /\ OverlapsAreMarked /\ RowsStand /\ CountsStand
            /\ AlertsAreNewest /\ OpenIsServed

-----------------------------------------------------------------------------
\* When nothing happens any more, the documents for the browsers say which bases
\* run and what they know: what a fallen base knew vanishes (aggregator.go:122-130),
\* and the newest alerts of a running one are there (alerts.go:106).
DocumentsCatchUp ==
    <>[](job["ticker"].pc = "marshalling" =>
            \A s \in Sector : /\ Document("ticker")[s].online <=> s \in up
                              /\ Document("ticker")[s].drones = view[s]
                              /\ s \in up => alerts[s] = Newest(emitted[s], LastAlerts))

\* A browser that stays is sent documents again and again.
BrowsersAreServed ==
    \A c \in Client : []<>(link[c] # "open") \/ []<><<Write(c)>>_vars
=============================================================================
