---------------------------- MODULE Panel_proofs ----------------------------
(***************************************************************************)
(* A document of the dashboard does not contradict itself, a base keeps    *)
(* its newest alerts and a browser that stays is served (PanelInv), for    *)
(* any number of sectors, drones, browsers and surprises.  A snapshot that *)
(* is alone has the sectors to itself while it looks at them; two          *)
(* snapshots at once mark each other.                                      *)
(***************************************************************************)
EXTENDS Panel, SequenceTheorems, TLAPS

-----------------------------------------------------------------------------
(* The list of alerts (alerts.go).                                         *)

\* emit keeps the newest.
LEMMA EmitKeepsNewest ==
    ASSUME NEW n \in Nat
    PROVE  Emit(Newest(n, MaxAlerts), n + 1) = Newest(n + 1, MaxAlerts)
<1>1. MaxAlerts \in Nat /\ MaxAlerts >= 1
  BY MaxAlertsAssumption
<1>2. CASE n < MaxAlerts
  <2>1. /\ Newest(n, MaxAlerts) = [i \in 1..n |-> i]
        /\ Newest(n + 1, MaxAlerts) = [i \in 1..n + 1 |-> i]
    <3>1. \A i \in 1..n : n - n + i = i
      OBVIOUS
    <3>2. \A i \in 1..n + 1 : (n + 1) - (n + 1) + i = i
      OBVIOUS
    <3>3. (n + 1 < MaxAlerts \/ n + 1 = MaxAlerts) /\ n + 1 \in Nat
      BY <1>1, <1>2
    <3> QED BY <1>2, <3>1, <3>2, <3>3 DEF Newest
  <2>2. [i \in 1..n |-> i] \in Seq(Nat) /\ Len([i \in 1..n |-> i]) = n
    OBVIOUS
  <2>3. Append([i \in 1..n |-> i], n + 1) = [i \in 1..n + 1 |-> i]
    BY <2>2
  <2>4. ~(Len(Newest(n, MaxAlerts)) >= MaxAlerts)
    BY <1>1, <1>2, <2>1, <2>2
  <2>5. Emit(Newest(n, MaxAlerts), n + 1) = Append(Newest(n, MaxAlerts), n + 1)
    BY <2>4 DEF Emit
  <2> QED BY <2>1, <2>3, <2>5
<1>3. CASE n >= MaxAlerts
  <2> DEFINE M == MaxAlerts
             log1 == [i \in 1..M |-> n - M + i]
  <2>1. /\ Newest(n, M) = log1
        /\ Newest(n + 1, M) = [i \in 1..M |-> n + 1 - M + i]
    <3>1. M \in Nat /\ ~(n < M) /\ ~(n + 1 < M) /\ n + 1 \in Nat
      BY <1>1, <1>3
    <3> QED BY <3>1 DEF Newest
  <2>2. \A i \in 1..M : n - M + i \in Nat
    BY <1>1, <1>3
  <2>3. log1 \in Seq(Nat) /\ Len(log1) = M
    BY <1>1, <2>2
  <2>4. \A i \in 1..M : log1[i] = n - M + i
    OBVIOUS
  <2> HIDE DEF log1
  <2>5. log1 # << >>
    BY <1>1, <2>3
  <2>6. /\ Tail(log1) \in Seq(Nat) /\ Len(Tail(log1)) = M - 1
        /\ \A i \in 1..M - 1 : Tail(log1)[i] = log1[i + 1]
    BY <1>1, <2>3, <2>5, HeadTailProperties
  <2> DEFINE rest == Tail(log1)
             new == Append(rest, n + 1)
  <2>7. \A i \in 1..M - 1 : i + 1 \in 1..M /\ rest[i] = n + 1 - M + i
    BY <1>1, <1>3, <2>4, <2>6
  <2>8. rest \in Seq(Nat) /\ Len(rest) = M - 1
    BY <2>6
  <2> HIDE DEF rest
  <2>9. new \in Seq(Nat) /\ Len(new) = M
    BY <1>1, <2>8, AppendProperties
  <2>10. \A i \in 1..M : new[i] = n + 1 - M + i
    BY <1>1, <2>7, <2>8, AppendProperties
  <2> HIDE DEF new
  <2>11. new = [i \in 1..M |-> n + 1 - M + i]
    BY <1>1, <2>9, <2>10
  <2>12. Emit(log1, n + 1) = new
    BY <1>1, <2>3 DEF Emit, new, rest
  <2> QED BY <2>1, <2>11, <2>12
<1> QED BY <1>1, <1>2, <1>3

LEMMA NewestType ==
    ASSUME NEW n \in Nat
    PROVE  Newest(n, MaxAlerts) \in Seq(Nat)
<1>1. MaxAlerts \in Nat
  BY MaxAlertsAssumption
<1>2. PICK k \in Nat : k <= n /\ Newest(n, MaxAlerts) = [i \in 1..k |-> n - k + i]
  BY <1>1 DEF Newest
<1>3. \A i \in 1..k : n - k + i \in Nat
  BY <1>2
<1> QED BY <1>2, <1>3

\* GetLast (alerts.go:106).
LEMMA GetLastType ==
    ASSUME NEW l \in Seq(Nat)
    PROVE  GetLast(l, LastAlerts) \in Seq(Nat)
<1>1. LastAlerts \in Nat /\ LastAlerts >= 1 /\ Len(l) \in Nat
  BY BoundsAssumption, MaxAlertsAssumption, LenProperties
<1>2. CASE LastAlerts >= Len(l)
  BY <1>2 DEF GetLast
<1>3. CASE ~(LastAlerts >= Len(l))
  <2>1. Len(l) - LastAlerts + 1 \in 1..Len(l) + 1 /\ Len(l) - LastAlerts + 1 \in Int
    BY <1>1, <1>3
  <2>2. \A i \in Len(l) - LastAlerts + 1..Len(l) : l[i] \in Nat
    BY <1>1, <1>3, ElementOfSeq
  <2>3. SubSeq(l, Len(l) - LastAlerts + 1, Len(l)) \in Seq(Nat)
    BY <1>1, <2>1, <2>2, SubSeqProperties
  <2> QED BY <1>3, <2>3 DEF GetLast
<1> QED BY <1>2, <1>3

-----------------------------------------------------------------------------
(* Steps that take no part in a snapshot.                                  *)

Snapshots == SectorsStand /\ OverlapsAreMarked /\ RowsStand /\ CountsStand

LEMMA SnapshotsStand ==
    ASSUME Snapshots, UNCHANGED <<sector, job>>
    PROVE  Snapshots'
<1>1. \A t \in Job : /\ Made(t)' = Made(t) /\ Document(t)' = Document(t)
                      /\ Seen(t)' = Seen(t) /\ (Busy(t)' <=> Busy(t))
  BY DEF Made, Document, Seen, Busy
<1>2. \A t \in Job : \A s : Shown(t, s)' = Shown(t, s)
  BY <1>1 DEF Shown
<1>3. SectorsStand' /\ OverlapsAreMarked'
  BY <1>1 DEF Snapshots, SectorsStand, OverlapsAreMarked
<1>4. RowsStand'
  BY <1>1 DEF Snapshots, RowsStand
<1>5. \A t \in Job, d \in Drone : CountStands(t, d) => CountStands(t, d)'
  BY <1>1, <1>2 DEF CountStands
<1>6. CountsStand'
  BY <1>1, <1>5 DEF Snapshots, CountsStand
<1> QED BY <1>3, <1>4, <1>6 DEF Snapshots

\* Surprises are counted.
LEMMA SurpriseType ==
    ASSUME TypeOK, Surprise \/ UNCHANGED surprises
    PROVE  surprises' \in 0..MaxSurprises
BY BoundsAssumption DEF TypeOK, Surprise

\* The bases and the connections (servers.go, aggregator.go:34-60).
LEMMA BaseStep ==
    ASSUME PanelInv, NEW s \in Sector,
           \/ \E d \in Drone : Hears(s, d)
           \/ BaseCrashes(s) \/ BaseStarts(s) \/ ConnectionBreaks(s) \/ Dial(s)
    PROVE  PanelInv'
<1>1. TypeOK /\ Snapshots /\ AlertsAreNewest /\ OpenIsServed
  BY DEF PanelInv, Snapshots
<1>2. UNCHANGED <<sector, alerts, job, hubVars>>
  BY DEF Hears, BaseCrashes, BaseStarts, ConnectionBreaks, Dial, baseVars
<1>3. Snapshots' /\ OpenIsServed'
  BY <1>1, <1>2, SnapshotsStand DEF OpenIsServed, hubVars
<1>4. surprises' \in 0..MaxSurprises
  BY <1>1, SurpriseType DEF Hears, BaseCrashes, BaseStarts, ConnectionBreaks, Dial
<1>5. ASSUME up' \subseteq Sector, view' \in [Sector -> [Drone -> Nat]],
             emitted' \in [Sector -> Nat], log' \in [Sector -> Seq(Nat)],
             conn' \in [Sector -> {"closed", "open", "broken"}], now' \in Nat, AlertsAreNewest'
      PROVE  PanelInv'
  <2>1. TypeOK'
    BY <1>1, <1>2, <1>4, <1>5 DEF TypeOK, hubVars, Record
  <2> QED BY <1>3, <1>5, <2>1 DEF PanelInv, Snapshots
<1>6. ASSUME NEW d \in Drone, Hears(s, d)
      PROVE  PanelInv'
  <2>1. /\ now' = now + 1 /\ view' = [view EXCEPT ![s] = [view[s] EXCEPT ![d] = now + 1]]
        /\ emitted' = [emitted EXCEPT ![s] = emitted[s] + 1]
        /\ log' = [log EXCEPT ![s] = Emit(log[s], emitted[s] + 1)]
        /\ UNCHANGED <<up, conn>>
    BY <1>1, <1>6 DEF Hears, TypeOK
  <2>2. emitted[s] \in Nat /\ log[s] = Newest(emitted[s], MaxAlerts)
    BY <1>1 DEF TypeOK, AlertsAreNewest
  <2>3. Emit(log[s], emitted[s] + 1) = Newest(emitted[s] + 1, MaxAlerts)
    BY <2>2, EmitKeepsNewest
  <2>4. Newest(emitted[s] + 1, MaxAlerts) \in Seq(Nat)
    BY <2>2, NewestType
  <2>5. /\ log' \in [Sector -> Seq(Nat)] /\ emitted' \in [Sector -> Nat]
        /\ log'[s] = Newest(emitted[s] + 1, MaxAlerts) /\ emitted'[s] = emitted[s] + 1
        /\ \A r \in Sector \ {s} : log'[r] = log[r] /\ emitted'[r] = emitted[r]
    BY <1>1, <2>1, <2>2, <2>3, <2>4 DEF TypeOK
  <2>6. AlertsAreNewest'
    BY <1>1, <2>5 DEF AlertsAreNewest
  <2>7. view' \in [Sector -> [Drone -> Nat]] /\ now' \in Nat
    BY <1>1, <2>1 DEF TypeOK, Record
  <2> QED BY <1>1, <1>5, <2>1, <2>5, <2>6, <2>7 DEF TypeOK
<1>7. CASE BaseCrashes(s)
  <2>1. /\ up' = up \ {s} /\ view' = [view EXCEPT ![s] = NoDrones]
        /\ emitted' = [emitted EXCEPT ![s] = 0] /\ log' = [log EXCEPT ![s] = <<>>]
        /\ conn' = [conn EXCEPT ![s] = Broken(s)] /\ now' = now
    BY <1>7 DEF BaseCrashes
  <2>2. Newest(0, MaxAlerts) = <<>>
    BY MaxAlertsAssumption DEF Newest
  <2>3. Broken(s) \in {"closed", "open", "broken"} /\ NoDrones \in [Drone -> Nat]
    BY <1>1 DEF Broken, TypeOK, NoDrones
  <2>4. <<>> \in Seq(Nat)
    OBVIOUS
  <2>5. /\ log' \in [Sector -> Seq(Nat)] /\ emitted' \in [Sector -> Nat]
        /\ log'[s] = <<>> /\ emitted'[s] = 0
        /\ \A r \in Sector \ {s} : log'[r] = log[r] /\ emitted'[r] = emitted[r]
    BY <1>1, <2>1, <2>4 DEF TypeOK
  <2>6. AlertsAreNewest'
    BY <1>1, <2>2, <2>5 DEF AlertsAreNewest
  <2>7. /\ up' \subseteq Sector /\ view' \in [Sector -> [Drone -> Nat]]
        /\ conn' \in [Sector -> {"closed", "open", "broken"}] /\ now' \in Nat
    BY <1>1, <2>1, <2>3 DEF TypeOK, Record
  <2> QED BY <1>5, <2>5, <2>6, <2>7
<1>8. CASE BaseStarts(s) \/ ConnectionBreaks(s) \/ Dial(s)
  <2>1. UNCHANGED <<view, emitted, log, now>>
    BY <1>8 DEF BaseStarts, ConnectionBreaks, Dial, baseVars
  <2>2. up' \subseteq Sector /\ conn' \in [Sector -> {"closed", "open", "broken"}]
    BY <1>1, <1>8 DEF BaseStarts, ConnectionBreaks, Dial, TypeOK, baseVars
  <2>3. AlertsAreNewest'
    BY <1>1, <2>1 DEF AlertsAreNewest
  <2> QED BY <1>1, <1>5, <2>1, <2>2, <2>3 DEF TypeOK, Record
<1> QED BY <1>6, <1>7, <1>8

\* The hub (wsserver.go).
LEMMA HubStep ==
    ASSUME PanelInv, NEW c \in Client,
           \/ Write(c) \/ FindsClosed(c) \/ WriteTimesOut(c)
           \/ Connect(c) \/ Add(c) \/ ReadFails(c) \/ Leave(c)
    PROVE  PanelInv'
<1>1. TypeOK /\ Snapshots /\ AlertsAreNewest /\ OpenIsServed
  BY DEF PanelInv, Snapshots
<1>2. UNCHANGED <<baseVars, conn, sector, alerts, job, now>> /\ (Surprise \/ UNCHANGED surprises)
  BY DEF Write, FindsClosed, WriteTimesOut, WriteFails, Connect, Add, ReadFails, Leave
<1>3. Snapshots' /\ AlertsAreNewest'
  BY <1>1, <1>2, SnapshotsStand DEF AlertsAreNewest, baseVars
<1>4. surprises' \in 0..MaxSurprises
  BY <1>1, <1>2, SurpriseType
<1>5. /\ conns' \subseteq Client /\ clients' \subseteq Client
      /\ link' \in [Client -> {"none", "open", "closed"}]
      /\ handler' \in [Client -> {"none", "adding", "reading"}]
  BY <1>1 DEF TypeOK, Write, FindsClosed, WriteTimesOut, WriteFails, Remove, Connect, Add,
     ReadFails, Leave
<1>6. TypeOK'
  BY <1>1, <1>2, <1>4, <1>5 DEF TypeOK, baseVars
<1>7. OpenIsServed'
  <2>1. CASE Write(c)
    BY <1>1, <2>1 DEF Write, OpenIsServed
  <2>2. CASE FindsClosed(c) \/ WriteTimesOut(c)
    BY <1>1, <2>2 DEF FindsClosed, WriteTimesOut, WriteFails, Remove, OpenIsServed, TypeOK
  <2>3. CASE Connect(c) \/ Add(c) \/ Leave(c)
    BY <1>1, <2>3 DEF Connect, Add, Leave, OpenIsServed, TypeOK
  <2>4. CASE ReadFails(c)
    BY <1>1, <2>4 DEF ReadFails, Remove, OpenIsServed, TypeOK
  <2> QED BY <2>1, <2>2, <2>3, <2>4
<1> QED BY <1>3, <1>6, <1>7 DEF PanelInv, Snapshots

-----------------------------------------------------------------------------
(* One snapshot by itself.                                                 *)

RowsOf(t) ==
    \A s \in Made(t) :
        LET row == job[t].rows[s]
        IN /\ ~row.online => row.drones = NoDrones
           /\ ~job[t].overlapped => (Document(t)[s].status = "ONLINE" <=> row.online)
CountsOf(t) == (Busy(t) /\ ~job[t].overlapped) => \A d \in Drone : CountStands(t, d)
Stands(t) == RowsOf(t) /\ CountsOf(t)

LEMMA JobByJob ==
    Snapshots <=> SectorsStand /\ OverlapsAreMarked /\ \A t \in Job : Stands(t)
BY DEF Snapshots, RowsStand, CountsStand, Stands, RowsOf, CountsOf

\* A snapshot that is over says nothing.
LEMMA RestingStands ==
    ASSUME NEW t \in Job, ~Busy(t)'
    PROVE  Stands(t)'
BY DEF Busy, Stands, RowsOf, CountsOf, Made

\* Nothing has happened to it, nor to the sectors.
LEMMA UntouchedStands ==
    ASSUME NEW t \in Job, Stands(t), job'[t] = job[t], UNCHANGED sector
    PROVE  Stands(t)'
<1>1. /\ Made(t)' = Made(t) /\ Document(t)' = Document(t)
      /\ Seen(t)' = Seen(t) /\ (Busy(t)' <=> Busy(t))
  BY DEF Made, Document, Seen, Busy
<1>2. \A s : Shown(t, s)' = Shown(t, s)
  BY <1>1 DEF Shown
<1>3. RowsOf(t)'
  BY <1>1 DEF Stands, RowsOf
<1>4. \A d \in Drone : CountStands(t, d) => CountStands(t, d)'
  BY <1>1, <1>2 DEF CountStands
<1>5. CountsOf(t)'
  BY <1>1, <1>4 DEF Stands, CountsOf
<1> QED BY <1>3, <1>5 DEF Stands

\* It has been marked: its rows stand, its numbers need not.
LEMMA MarkedStands ==
    ASSUME NEW t \in Job, Stands(t), job'[t].pc = job[t].pc, job'[t].todo = job[t].todo,
           job'[t].rows = job[t].rows, job'[t].overlapped
    PROVE  Stands(t)'
<1>1. Made(t)' = Made(t)
  BY DEF Made
<1> QED BY <1>1 DEF Stands, RowsOf, CountsOf

\* Marks tell, when no more snapshots are busy than before.
LEMMA MarksStand ==
    ASSUME OverlapsAreMarked,
           \A t \in Job : (Busy(t)' => Busy(t)) /\ (job[t].overlapped /\ Busy(t)' => job'[t].overlapped)
    PROVE  OverlapsAreMarked'
BY DEF OverlapsAreMarked

\* The rest of PanelInv, when a goroutine of the dashboard moves.
LEMMA PanelKeeps ==
    ASSUME PanelInv, Snapshots', UNCHANGED <<baseVars, link, handler, clients, now>>,
           sector' \in [Sector -> Row], alerts' \in [Sector -> Seq(Nat)],
           conn' \in [Sector -> {"closed", "open", "broken"}],
           job' \in [Job -> JobState], conns' \subseteq Client,
           Surprise \/ UNCHANGED surprises
    PROVE  PanelInv'
<1>1. TypeOK /\ AlertsAreNewest /\ OpenIsServed
  BY DEF PanelInv
<1>2. surprises' \in 0..MaxSurprises
  BY <1>1, SurpriseType
<1>3. TypeOK'
  BY <1>1, <1>2 DEF TypeOK, baseVars
<1>4. AlertsAreNewest' /\ OpenIsServed'
  BY <1>1 DEF AlertsAreNewest, OpenIsServed, baseVars
<1> QED BY <1>3, <1>4 DEF PanelInv, Snapshots

LEMMA IdleType == Idle \in JobState /\ NoDrones \in [Drone -> Nat]
<1>1. NoDrones \in [Drone -> Nat]
  BY DEF NoDrones
<1>2. NoSector \in Row
  BY <1>1 DEF NoSector, Row, Record
<1> QED BY <1>1, <1>2 DEF Idle, JobState, Record

\* The document is marshalled or has been written (main.go of webdash, wsserver.go).
LEMMA EndStep ==
    ASSUME PanelInv, Respond \/ StartBroadcast \/ EndBroadcast
    PROVE  PanelInv'
<1>1. TypeOK /\ Snapshots /\ SectorsStand /\ OverlapsAreMarked /\ \A t \in Job : Stands(t)
  BY JobByJob DEF PanelInv, Snapshots
<1>2. PICK u \in Job, j \in JobState :
         job' = [job EXCEPT ![u] = j] /\ j.pc \in {"idle", "writing"}
  <2>1. Idle \in JobState /\ Idle.pc = "idle"
    BY IdleType DEF Idle
  <2>2. [Idle EXCEPT !.pc = "writing"] \in JobState /\ [Idle EXCEPT !.pc = "writing"].pc = "writing"
    BY <2>1 DEF JobState
  <2>3. CASE Respond
    BY <2>1, <2>3 DEF Respond, Job
  <2>4. CASE StartBroadcast
    BY <2>2, <2>4 DEF StartBroadcast, Job
  <2>5. CASE EndBroadcast
    BY <2>1, <2>5 DEF EndBroadcast, Job
  <2> QED BY <2>3, <2>4, <2>5
<1>3. UNCHANGED <<sector, alerts, conn, baseVars, link, handler, clients, now, surprises>>
      /\ conns' \subseteq Client
  BY <1>1 DEF Respond, StartBroadcast, EndBroadcast, hubVars, TypeOK
<1>4. job' \in [Job -> JobState] /\ job'[u] = j /\ \A t \in Job \ {u} : job'[t] = job[t]
  BY <1>1, <1>2 DEF TypeOK
<1>5. ~Busy(u)'
  BY <1>2, <1>4 DEF Busy
<1>6. \A t \in Job : Stands(t)'
  BY <1>1, <1>3, <1>4, <1>5, RestingStands, UntouchedStands
<1>7. \A t \in Job : (Busy(t)' => Busy(t)) /\ (job[t].overlapped /\ Busy(t)' => job'[t].overlapped)
  BY <1>4, <1>5 DEF Busy
<1>8. SectorsStand' /\ OverlapsAreMarked'
  BY <1>1, <1>3, <1>7, MarksStand DEF SectorsStand
<1>9. Snapshots'
  BY <1>6, <1>8 DEF Snapshots, Stands, RowsStand, CountsStand, RowsOf, CountsOf
<1> QED BY <1>1, <1>3, <1>4, <1>9, PanelKeeps DEF TypeOK

\* readSectorLoop writes under the lock: a snapshot that is being marshalled keeps
\* the rows it has, and the bases' status they show (aggregator.go:60-75).
LEMMA PushStep ==
    ASSUME PanelInv, NEW s \in Sector, Push(s)
    PROVE  PanelInv'
<1> DEFINE new == [online |-> TRUE, drones |-> view[s], status |-> "ONLINE"]
<1>1. TypeOK /\ Snapshots /\ SectorsStand /\ OverlapsAreMarked /\ \A t \in Job : Stands(t)
  BY JobByJob DEF PanelInv, Snapshots
<1>2. /\ Unlocked /\ sector' = [sector EXCEPT ![s] = new]
      /\ alerts' = [alerts EXCEPT ![s] = GetLast(log[s], LastAlerts)]
      /\ job' = [t \in Job |->
                    IF job[t].rows[s].status = "shared"
                    THEN [job[t] EXCEPT !.rows[s].status = sector[s].status]
                    ELSE job[t]]
      /\ UNCHANGED <<baseVars, conn, hubVars, now, surprises>>
  BY DEF Push
<1>3. new \in Row /\ new.online /\ new.status = "ONLINE"
  BY <1>1 DEF TypeOK, Row, Record
<1> HIDE DEF new
<1>4. /\ sector' \in [Sector -> Row] /\ sector'[s] = new
      /\ \A r \in Sector \ {s} : sector'[r] = sector[r]
  BY <1>1, <1>2, <1>3 DEF TypeOK
<1>5. alerts' \in [Sector -> Seq(Nat)]
  BY <1>1, <1>2, GetLastType DEF TypeOK
<1>6. ASSUME NEW t \in Job
      PROVE  /\ job'[t] \in JobState
             /\ job'[t].pc = job[t].pc /\ job'[t].todo = job[t].todo
             /\ job'[t].counted = job[t].counted /\ job'[t].swept = job[t].swept
             /\ job'[t].overlapped <=> job[t].overlapped
             /\ \A r \in Sector \ {s} : job'[t].rows[r] = job[t].rows[r]
             /\ job'[t].rows[s].online <=> job[t].rows[s].online
             /\ job'[t].rows[s].drones = job[t].rows[s].drones
             /\ job'[t].rows[s].status =
                   IF job[t].rows[s].status = "shared" THEN sector[s].status
                   ELSE job[t].rows[s].status
  <2>1. job[t] \in JobState /\ sector[s] \in Row
    BY <1>1 DEF TypeOK
  <2>2. /\ job[t].rows \in [Sector -> Row] /\ job[t].rows[s] \in Row
        /\ sector[s].status \in {"none", "shared", "ONLINE", "OFFLINE"}
    BY <2>1 DEF JobState, Row
  <2>3. CASE job[t].rows[s].status = "shared"
    <3> DEFINE row == [job[t].rows[s] EXCEPT !.status = sector[s].status]
               rows == [job[t].rows EXCEPT ![s] = row]
    <3>1. job'[t] = [job[t] EXCEPT !.rows = rows]
      BY <1>2, <2>3
    <3>2. /\ row \in Row /\ (row.online <=> job[t].rows[s].online)
          /\ row.drones = job[t].rows[s].drones /\ row.status = sector[s].status
      BY <2>2 DEF Row
    <3> HIDE DEF row
    <3>3. /\ rows \in [Sector -> Row] /\ rows[s] = row
          /\ \A r \in Sector \ {s} : rows[r] = job[t].rows[r]
      BY <2>2, <3>2
    <3> HIDE DEF rows
    <3>4. /\ job'[t] \in JobState /\ job'[t].rows = rows
          /\ job'[t].pc = job[t].pc /\ job'[t].todo = job[t].todo
          /\ job'[t].counted = job[t].counted /\ job'[t].swept = job[t].swept
          /\ job'[t].overlapped = job[t].overlapped
      BY <2>1, <3>1, <3>3 DEF JobState
    <3> QED BY <2>3, <3>2, <3>3, <3>4
  <2>4. CASE job[t].rows[s].status # "shared"
    <3>1. job'[t] = job[t]
      BY <1>2, <2>4
    <3> QED BY <2>1, <2>4, <3>1
  <2> QED BY <2>3, <2>4
<1>7. job' \in [Job -> JobState]
  <2>1. job' = [t \in Job |-> job'[t]]
    BY <1>2
  <2> QED BY <1>6, <2>1
<1>8. \A t \in Job : job[t].pc \notin {"counting", "sweeping"}
  BY <1>2 DEF Unlocked
<1>9. SectorsStand'
  BY <1>1, <1>3, <1>4 DEF SectorsStand
<1>10. ASSUME NEW t \in Job
       PROVE  Stands(t)'
  <2>1. CASE ~Busy(t)
    <3>1. ~Busy(t)'
      BY <1>6, <2>1 DEF Busy
    <3> QED BY <3>1, RestingStands
  <2>2. CASE Busy(t)
    <3>1. job[t].pc = "marshalling"
      BY <1>8, <2>2 DEF Busy
    <3>2. Made(t) = Sector /\ Made(t)' = Sector /\ Seen(t) = Sector /\ Seen(t)' = Sector
      BY <1>6, <3>1 DEF Made, Seen
    <3>3. \A r \in Sector : /\ Document(t)[r].status = IF job[t].rows[r].status = "shared"
                                                     THEN sector[r].status
                                                     ELSE job[t].rows[r].status
                            /\ Document(t)'[r].status = IF job'[t].rows[r].status = "shared"
                                                      THEN sector'[r].status
                                                      ELSE job'[t].rows[r].status
      <4>1. \A r \in Sector : job[t].rows[r] \in Row /\ job'[t].rows[r] \in Row
        BY <1>1, <1>6 DEF TypeOK, JobState
      <4>2. \A row \in Row : \A v : [row EXCEPT !.status = v].status = v
        BY DEF Row
      <4> QED BY <4>1, <4>2 DEF Document
    <3>4. sector[s].status # "shared"
      BY <1>1 DEF SectorsStand
    <3>5. \A r \in Sector : Document(t)'[r].status = Document(t)[r].status
      BY <1>4, <1>6, <3>3, <3>4
    <3>6. \A r \in Sector : /\ job'[t].rows[r].online <=> job[t].rows[r].online
                            /\ job'[t].rows[r].drones = job[t].rows[r].drones
      BY <1>6
    <3>7. RowsOf(t)'
      BY <1>1, <1>6, <3>2, <3>5, <3>6 DEF Stands, RowsOf
    <3>8. \A r \in Sector : Shown(t, r)' = Shown(t, r)
      BY <3>2, <3>6 DEF Shown
    <3>9. \A d \in Drone : CountStands(t, d) => CountStands(t, d)'
      BY <1>6, <3>2, <3>8 DEF CountStands
    <3>10. CountsOf(t)'
      BY <1>1, <1>6, <2>2, <3>9 DEF Stands, CountsOf
    <3> QED BY <3>7, <3>10 DEF Stands
  <2> QED BY <2>1, <2>2
<1>11. OverlapsAreMarked'
  BY <1>1, <1>6 DEF OverlapsAreMarked, Busy
<1>12. Snapshots'
  BY <1>9, <1>10, <1>11 DEF Snapshots, Stands, RowsStand, CountsStand, RowsOf, CountsOf
<1> QED BY <1>1, <1>2, <1>4, <1>5, <1>7, <1>12, PanelKeeps DEF TypeOK, hubVars

\* The read fails (aggregator.go:52-58).
LEMMA OfflineStep ==
    ASSUME PanelInv, NEW s \in Sector, MarkOffline(s)
    PROVE  PanelInv'
<1>1. TypeOK /\ Snapshots /\ SectorsStand /\ OverlapsAreMarked /\ \A t \in Job : Stands(t)
  BY JobByJob DEF PanelInv, Snapshots
<1>2. /\ Unlocked /\ sector' = [sector EXCEPT ![s] = [sector[s] EXCEPT !.online = FALSE]]
      /\ conn' = [conn EXCEPT ![s] = "closed"]
      /\ UNCHANGED <<alerts, baseVars, job, hubVars, now, surprises>>
  BY <1>1 DEF MarkOffline, TypeOK
<1>3. PICK row \in Row : /\ row = [sector[s] EXCEPT !.online = FALSE]
                         /\ ~row.online /\ row.status = sector[s].status
  <2>1. sector[s] \in Row
    BY <1>1 DEF TypeOK
  <2>2. /\ [sector[s] EXCEPT !.online = FALSE] \in Row
        /\ ~[sector[s] EXCEPT !.online = FALSE].online
        /\ [sector[s] EXCEPT !.online = FALSE].status = sector[s].status
    BY <2>1 DEF Row
  <2> QED BY <2>2
<1>4. /\ sector' \in [Sector -> Row] /\ sector'[s] = row
      /\ \A r \in Sector \ {s} : sector'[r] = sector[r]
  BY <1>1, <1>2, <1>3 DEF TypeOK
<1>5. \A r \in Sector : sector'[r].status = sector[r].status
  BY <1>3, <1>4
<1>6. SectorsStand'
  BY <1>1, <1>3, <1>4 DEF SectorsStand
<1>7. ASSUME NEW t \in Job
      PROVE  Stands(t)'
  <2>1. CASE ~Busy(t)
    <3>1. ~Busy(t)'
      BY <1>2, <2>1 DEF Busy
    <3> QED BY <3>1, RestingStands
  <2>2. CASE Busy(t)
    <3>1. job[t].pc = "marshalling" /\ job' = job
      BY <1>2, <2>2 DEF Busy, Unlocked
    <3>2. Made(t) = Sector /\ Made(t)' = Sector /\ Seen(t) = Sector /\ Seen(t)' = Sector
      BY <3>1 DEF Made, Seen
    <3>3. \A r \in Sector : Document(t)'[r] = Document(t)[r]
      BY <1>5, <3>1 DEF Document
    <3>4. RowsOf(t)'
      BY <1>1, <3>1, <3>2, <3>3 DEF Stands, RowsOf
    <3>5. \A r \in Sector : Shown(t, r)' = Shown(t, r)
      BY <3>1, <3>2 DEF Shown
    <3>6. \A d \in Drone : CountStands(t, d) => CountStands(t, d)'
      BY <3>1, <3>2, <3>5 DEF CountStands
    <3>7. CountsOf(t)'
      BY <1>1, <2>2, <3>1, <3>6 DEF Stands, CountsOf
    <3> QED BY <3>4, <3>7 DEF Stands
  <2> QED BY <2>1, <2>2
<1>8. OverlapsAreMarked'
  BY <1>1, <1>2 DEF OverlapsAreMarked, Busy
<1>9. Snapshots'
  BY <1>6, <1>7, <1>8 DEF Snapshots, Stands, RowsStand, CountsStand, RowsOf, CountsOf
<1>10. conn' \in [Sector -> {"closed", "open", "broken"}]
  BY <1>1, <1>2 DEF TypeOK
<1> QED BY <1>1, <1>2, <1>4, <1>9, <1>10, PanelKeeps DEF TypeOK, hubVars

\* Two snapshots at once are marked, whichever came first (aggregator.go:77).
LEMMA BeginStep ==
    ASSUME PanelInv, NEW t \in Job, BeginSnapshot(t)
    PROVE  PanelInv'
<1> DEFINE overlaps == \E u \in Job \ {t} : Busy(u)
           new == [Idle EXCEPT !.pc = "counting", !.todo = Sector, !.overlapped = overlaps]
<1>1. TypeOK /\ Snapshots /\ SectorsStand /\ OverlapsAreMarked /\ \A u \in Job : Stands(u)
  BY JobByJob DEF PanelInv, Snapshots
<1>2. /\ job' = [u \in Job |->
                     IF u = t THEN new
                     ELSE IF Busy(u) THEN [job[u] EXCEPT !.overlapped = TRUE] ELSE job[u]]
      /\ UNCHANGED <<baseVars, conn, sector, alerts, hubVars, now>>
      /\ Surprise \/ UNCHANGED surprises
  BY DEF BeginSnapshot
<1>3. /\ new \in JobState /\ new.pc = "counting" /\ new.todo = Sector
      /\ (new.overlapped <=> overlaps) /\ new.counted = NoDrones
  <2>1. overlaps \in BOOLEAN
    OBVIOUS
  <2> HIDE DEF overlaps
  <2>2. Idle \in JobState /\ Idle.counted = NoDrones
    BY IdleType DEF Idle
  <2> QED BY <2>1, <2>2 DEF JobState
<1> HIDE DEF new
<1>4. job'[t] = new
  BY <1>2
<1>5. ASSUME NEW u \in Job \ {t}
      PROVE  /\ job'[u] \in JobState /\ job'[u].pc = job[u].pc /\ job'[u].todo = job[u].todo
             /\ job'[u].rows = job[u].rows /\ (Busy(u)' <=> Busy(u))
             /\ Busy(u) => job'[u].overlapped /\ overlaps
  <2>1. job[u] \in JobState
    BY <1>1 DEF TypeOK
  <2>2. CASE Busy(u)
    <3>1. job'[u] = [job[u] EXCEPT !.overlapped = TRUE]
      BY <1>2, <2>2
    <3> QED BY <2>1, <2>2, <3>1 DEF JobState, Busy
  <2>3. CASE ~Busy(u)
    <3>1. job'[u] = job[u]
      BY <1>2, <2>3
    <3> QED BY <2>1, <2>3, <3>1 DEF Busy
  <2> QED BY <2>2, <2>3
<1>6. job' \in [Job -> JobState]
  <2>1. job' = [u \in Job |-> job'[u]]
    BY <1>2
  <2>2. \A u \in Job : job'[u] \in JobState
    BY <1>3, <1>4, <1>5
  <2> QED BY <2>1, <2>2
<1>7. Stands(t)'
  <2>1. Made(t)' = {} /\ Seen(t)' = {}
    BY <1>3, <1>4 DEF Made, Seen
  <2>2. \A d \in Drone : job'[t].counted[d] = 0
    BY <1>3, <1>4 DEF NoDrones
  <2>3. \A d \in Drone : CountStands(t, d)'
    BY <2>1, <2>2 DEF CountStands
  <2> QED BY <2>1, <2>3 DEF Stands, RowsOf, CountsOf
<1>8. ASSUME NEW u \in Job \ {t}
      PROVE  Stands(u)'
  <2>1. CASE Busy(u)
    BY <1>1, <1>5, <2>1, MarkedStands
  <2>2. CASE ~Busy(u)
    BY <1>5, <2>2, RestingStands
  <2> QED BY <2>1, <2>2
<1>9. OverlapsAreMarked'
  <2> SUFFICES ASSUME NEW u \in Job, NEW v \in Job, u # v, Busy(u)', Busy(v)'
               PROVE  job'[u].overlapped
    BY DEF OverlapsAreMarked
  <2>1. CASE u = t
    BY <1>3, <1>4, <1>5, <2>1
  <2>2. CASE u # t
    BY <1>5, <2>2
  <2> QED BY <2>1, <2>2
<1>10. SectorsStand'
  BY <1>1, <1>2 DEF SectorsStand
<1>11. Snapshots'
  BY <1>7, <1>8, <1>9, <1>10 DEF Snapshots, Stands, RowsStand, CountsStand, RowsOf, CountsOf
<1> QED BY <1>1, <1>2, <1>6, <1>11, PanelKeeps DEF TypeOK, hubVars

-----------------------------------------------------------------------------
(* GlobalSnapshot at work (aggregator.go:77-152).                          *)

LEMMA DoneType ==
    ASSUME NEW j \in JobState, NEW s \in j.todo,
           NEW next \in {"idle", "counting", "sweeping", "marshalling", "writing"}
    PROVE  /\ Done(j, s, next) \in JobState
           /\ \/ /\ j.todo = {s} /\ Done(j, s, next).pc = next
                 /\ Done(j, s, next).todo = Sector
              \/ /\ j.todo # {s} /\ Done(j, s, next).pc = j.pc
                 /\ Done(j, s, next).todo = j.todo \ {s}
           /\ Done(j, s, next).counted = j.counted /\ Done(j, s, next).rows = j.rows
           /\ Done(j, s, next).swept = j.swept
           /\ Done(j, s, next).overlapped <=> j.overlapped
<1>1. CASE j.todo = {s}
  BY <1>1 DEF Done, JobState
<1>2. CASE j.todo # {s}
  BY <1>2 DEF Done, JobState
<1> QED BY <1>1, <1>2

\* Snapshot t goes on, and may write the sectors: it stands if it stands alone,
\* and the others that are at it are marked.
LEMMA AtWork ==
    ASSUME PanelInv, NEW t \in Job, NEW j \in JobState,
           Busy(t), job' = [job EXCEPT ![t] = j],
           j.overlapped <=> job[t].overlapped,
           sector' \in [Sector -> Row], SectorsStand', Stands(t)',
           UNCHANGED <<alerts, baseVars, conn, hubVars, now, surprises>>
    PROVE  PanelInv'
<1>1. TypeOK /\ Snapshots /\ SectorsStand /\ OverlapsAreMarked /\ \A u \in Job : Stands(u)
  BY JobByJob DEF PanelInv, Snapshots
<1>2. job' \in [Job -> JobState] /\ job'[t] = j /\ \A u \in Job \ {t} : job'[u] = job[u]
  BY <1>1 DEF TypeOK
<1>3. ASSUME NEW u \in Job \ {t}
      PROVE  Stands(u)'
  <2>1. CASE Busy(u)
    <3>1. job[u].overlapped
      BY <1>1, <2>1 DEF OverlapsAreMarked
    <3> QED BY <1>1, <1>2, <3>1, MarkedStands
  <2>2. CASE ~Busy(u)
    <3>1. ~Busy(u)'
      BY <1>2, <2>2 DEF Busy
    <3> QED BY <3>1, RestingStands
  <2> QED BY <2>1, <2>2
<1>4. \A u \in Job : (Busy(u)' => Busy(u)) /\ (job[u].overlapped /\ Busy(u)' => job'[u].overlapped)
  BY <1>2 DEF Busy
<1>5. OverlapsAreMarked'
  BY <1>1, <1>4, MarksStand
<1>6. Snapshots'
  BY <1>3, <1>5 DEF Snapshots, Stands, RowsStand, CountsStand, RowsOf, CountsOf
<1> QED BY <1>1, <1>2, <1>6, PanelKeeps DEF TypeOK, hubVars

\* The first loop.
LEMMA CountStep ==
    ASSUME PanelInv, NEW t \in Job, NEW s \in Sector, Count(t, s)
    PROVE  PanelInv'
<1> DEFINE old == job[t]
           done == Done(old, s, "sweeping")
           counted == [d \in Drone |-> IF sector[s].drones[d] > old.counted[d]
                                       THEN sector[s].drones[d] ELSE old.counted[d]]
           new == [done EXCEPT !.counted = counted]
<1>1. TypeOK /\ SectorsStand /\ Stands(t) /\ old \in JobState /\ sector[s] \in Row
  BY JobByJob DEF PanelInv, Snapshots, TypeOK
<1>2. /\ old.pc = "counting" /\ s \in old.todo
      /\ UNCHANGED <<baseVars, conn, sector, alerts, hubVars, now, surprises>>
  BY DEF Count
<1>3. old.counted \in [Drone -> Nat] /\ sector[s].drones \in [Drone -> Nat] /\ old.todo \subseteq Sector
  BY <1>1 DEF JobState, Row, Record
<1>4. /\ done \in JobState
      /\ \/ /\ old.todo = {s} /\ done.pc = "sweeping" /\ done.todo = Sector
         \/ /\ old.todo # {s} /\ done.pc = "counting" /\ done.todo = old.todo \ {s}
      /\ done.counted = old.counted /\ done.swept = old.swept
      /\ (done.overlapped <=> old.overlapped)
  BY <1>1, <1>2, DoneType
<1>5. job' = [job EXCEPT ![t] = new]
  BY <1>1, <1>4 DEF Count
<1>6. counted \in [Drone -> Nat]
  BY <1>3
<1> HIDE DEF done
<1>7. \A d \in Drone : /\ counted[d] \in Nat /\ old.counted[d] \in Nat
                       /\ sector[s].drones[d] \in Nat
                       /\ counted[d] >= old.counted[d] /\ counted[d] >= sector[s].drones[d]
                       /\ counted[d] = old.counted[d] \/ counted[d] = sector[s].drones[d]
  BY <1>3
<1> HIDE DEF counted
<1>8. /\ new \in JobState /\ new.pc = done.pc /\ new.todo = done.todo
      /\ new.counted = counted /\ new.swept = done.swept
      /\ new.overlapped = done.overlapped
  BY <1>4, <1>6 DEF JobState, Record
<1> HIDE DEF new
<1>9. job'[t] = new
  BY <1>1, <1>5 DEF TypeOK
<1>10. Made(t)' = {} /\ Made(t) = {}
  BY <1>2, <1>4, <1>8, <1>9 DEF Made
<1>11. Seen(t) \subseteq Sector /\ Seen(t)' = Seen(t) \cup {s}
  BY <1>2, <1>3, <1>4, <1>8, <1>9 DEF Seen
<1>12. \A r : Shown(t, r)' = sector[r].drones /\ Shown(t, r) = sector[r].drones
  BY <1>2, <1>10 DEF Shown
<1>13. ASSUME NEW d \in Drone, CountStands(t, d)
       PROVE  CountStands(t, d)'
  <2>1. \A r \in Seen(t)' : sector[r].drones[d] \in Nat
    BY <1>1, <1>11 DEF TypeOK, Row, Record
  <2>2. \A r \in Seen(t)' : Shown(t, r)'[d] <= counted[d]
    BY <1>7, <1>11, <1>12, <1>13, <2>1 DEF CountStands
  <2>3. (old.swept = {} /\ counted[d] # 0) => \E r \in Seen(t)' : Shown(t, r)'[d] = counted[d]
    <3>1. CASE counted[d] = old.counted[d]
      BY <1>11, <1>12, <1>13, <3>1 DEF CountStands
    <3>2. CASE counted[d] = sector[s].drones[d]
      BY <1>11, <1>12, <3>2
    <3> QED BY <1>7, <3>1, <3>2
  <2> QED BY <1>4, <1>8, <1>9, <2>2, <2>3 DEF CountStands
<1>14. Stands(t)'
  <2>1. Busy(t)
    BY <1>2 DEF Busy
  <2>2. RowsOf(t)'
    BY <1>10 DEF RowsOf
  <2>3. CountsOf(t)'
    BY <1>1, <1>4, <1>8, <1>9, <1>13, <2>1 DEF Stands, CountsOf
  <2> QED BY <2>2, <2>3 DEF Stands
<1>15. SectorsStand' /\ sector' \in [Sector -> Row]
  BY <1>1, <1>2 DEF SectorsStand, TypeOK
<1>16. Busy(t) /\ (new.overlapped <=> job[t].overlapped)
  BY <1>2, <1>4, <1>8 DEF Busy
<1> QED BY <1>2, <1>5, <1>8, <1>14, <1>15, <1>16, AtWork

\* What becomes of a sector: what is shown of it is what it has left.
LEMMA SweptRow ==
    ASSUME NEW row \in Row, row.status # "shared", row.online => row.status # "none"
    PROVE  /\ Swept(row) \in Row
           /\ Swept(row).online <=> row.online
           /\ Swept(row).drones = IF row.online THEN row.drones ELSE NoDrones
           /\ Swept(row).status # "shared"
           /\ Swept(row).status = "none" <=> row.status = "none"
           /\ Swept(row).status = "ONLINE" <=> row.online
<1>1. NoDrones \in [Drone -> Nat]
  BY IdleType
<1>2. CASE row.online
  BY <1>1, <1>2 DEF Swept, Row, Record
<1>3. CASE ~row.online /\ row.status = "none"
  BY <1>1, <1>3 DEF Swept, Row, Record
<1>4. CASE ~row.online /\ row.status # "none"
  BY <1>1, <1>4 DEF Swept, Row, Record
<1> QED BY <1>2, <1>3, <1>4

\* The second loop.
LEMMA SweepStep ==
    ASSUME PanelInv, NEW t \in Job, NEW s \in Sector, Sweep(t, s)
    PROVE  PanelInv'
<1> DEFINE old == job[t]
           row == Swept(sector[s])
           shared == [row EXCEPT !.status = IF row.status = "none" THEN "none" ELSE "shared"]
           done == Done(old, s, "marshalling")
           rows == [old.rows EXCEPT ![s] = shared]
           swept == IF row.drones # sector[s].drones THEN old.swept \cup {s} ELSE old.swept
           new == [done EXCEPT !.rows = rows, !.swept = swept]
<1>1. TypeOK /\ SectorsStand /\ Stands(t) /\ old \in JobState /\ sector[s] \in Row
  BY JobByJob DEF PanelInv, Snapshots, TypeOK
<1>2. /\ old.pc = "sweeping" /\ s \in old.todo /\ sector' = [sector EXCEPT ![s] = row]
      /\ UNCHANGED <<alerts, baseVars, conn, hubVars, now, surprises>>
  BY DEF Sweep
<1>3. old.rows \in [Sector -> Row] /\ old.todo \subseteq Sector /\ old.swept \subseteq Sector
  BY <1>1 DEF JobState
<1>4. /\ done \in JobState
      /\ \/ /\ old.todo = {s} /\ done.pc = "marshalling" /\ done.todo = Sector
         \/ /\ old.todo # {s} /\ done.pc = "sweeping" /\ done.todo = old.todo \ {s}
      /\ done.counted = old.counted /\ done.swept = old.swept /\ done.rows = old.rows
      /\ (done.overlapped <=> old.overlapped)
  BY <1>1, <1>2, DoneType
<1>5. job' = [job EXCEPT ![t] = new]
  BY <1>4 DEF Sweep
<1>6. /\ row \in Row /\ (row.online <=> sector[s].online)
      /\ row.drones = IF sector[s].online THEN sector[s].drones ELSE NoDrones
      /\ row.status # "shared" /\ (row.status = "ONLINE" <=> row.online)
  BY <1>1, SweptRow DEF SectorsStand
<1> HIDE DEF row, done
<1>7. /\ shared \in Row /\ (shared.online <=> row.online) /\ shared.drones = row.drones
      /\ shared.status = IF row.status = "none" THEN "none" ELSE "shared"
  BY <1>6 DEF Row
<1> HIDE DEF shared
<1>8. /\ rows \in [Sector -> Row] /\ rows[s] = shared
      /\ \A r \in Sector \ {s} : rows[r] = old.rows[r]
  BY <1>3, <1>7
<1>9. swept \subseteq Sector
  BY <1>3
<1>10. swept = {} => old.swept = {} /\ row.drones = sector[s].drones
  OBVIOUS
<1> HIDE DEF rows, swept
<1>11. /\ new \in JobState /\ new.pc = done.pc /\ new.todo = done.todo
       /\ new.counted = done.counted /\ new.swept = swept /\ new.rows = rows
       /\ new.overlapped = done.overlapped
  BY <1>4, <1>8, <1>9 DEF JobState
<1> HIDE DEF new
<1>12. job'[t] = new
  BY <1>1, <1>5 DEF TypeOK
<1>13. /\ sector' \in [Sector -> Row] /\ sector'[s] = row
       /\ \A r \in Sector \ {s} : sector'[r] = sector[r]
  BY <1>1, <1>2, <1>6 DEF TypeOK
<1>14. SectorsStand'
  <2>1. row.online => row.status # "none"
    BY <1>6
  <2> QED BY <1>1, <1>6, <1>13, <2>1 DEF SectorsStand
<1>15. Made(t) = Sector \ old.todo /\ Made(t)' = Made(t) \cup {s} /\ s \notin Made(t)
  BY <1>2, <1>3, <1>4, <1>11, <1>12 DEF Made
<1>16. Seen(t) = Sector /\ Seen(t)' = Sector
  BY <1>2, <1>4, <1>11, <1>12 DEF Seen
<1>17. RowsOf(t)'
  <2>1. ASSUME NEW r \in Made(t)
        PROVE  /\ r \in Sector \ {s} /\ rows[r] = old.rows[r]
               /\ Document(t)'[r].status = Document(t)[r].status
               /\ ~rows[r].online => rows[r].drones = NoDrones
               /\ ~old.overlapped => (Document(t)[r].status = "ONLINE" <=> rows[r].online)
    <3>1. r \in Sector \ {s}
      BY <1>15
    <3>2. rows[r] = old.rows[r] /\ sector'[r] = sector[r]
      BY <1>8, <1>13, <3>1
    <3>3. Document(t)'[r] = Document(t)[r]
      BY <1>11, <1>12, <3>1, <3>2 DEF Document
    <3> QED BY <1>1, <3>1, <3>2, <3>3 DEF Stands, RowsOf
  <2>2. Document(t)'[s].status = row.status
    <3>1. \A x \in Row : \A v : [x EXCEPT !.status = v].status = v
      BY DEF Row
    <3> QED BY <1>6, <1>7, <1>8, <1>11, <1>12, <1>13, <3>1 DEF Document
  <2>3. ~rows[s].online => rows[s].drones = NoDrones
    BY <1>6, <1>7, <1>8
  <2>4. Document(t)'[s].status = "ONLINE" <=> rows[s].online
    BY <1>6, <1>7, <1>8, <2>2
  <2> QED BY <1>4, <1>11, <1>12, <1>15, <2>1, <2>3, <2>4 DEF RowsOf
<1>18. \A r \in Sector : Shown(t, r)' = IF r = s THEN row.drones ELSE Shown(t, r)
  BY <1>7, <1>8, <1>11, <1>12, <1>13, <1>15 DEF Shown
<1>19. Shown(t, s) = sector[s].drones
  BY <1>15 DEF Shown
<1>20. ASSUME NEW d \in Drone, CountStands(t, d)
       PROVE  CountStands(t, d)'
  <2>1. old.counted[d] \in Nat /\ new.counted = old.counted
    BY <1>1, <1>4, <1>11 DEF JobState, Record
  <2>2. row.drones[d] = sector[s].drones[d] \/ row.drones[d] = 0
    BY <1>6 DEF NoDrones
  <2>3. \A r \in Sector : Shown(t, r)[d] <= old.counted[d]
    BY <1>16, <1>20 DEF CountStands
  <2>4. \A r \in Sector : Shown(t, r)'[d] <= old.counted[d]
    BY <1>18, <1>19, <2>1, <2>2, <2>3
  <2>5. swept = {} => \A r \in Sector : Shown(t, r)' = Shown(t, r)
    BY <1>10, <1>18, <1>19
  <2>6. (swept = {} /\ old.counted[d] # 0) => \E r \in Sector : Shown(t, r)'[d] = old.counted[d]
    BY <1>10, <1>16, <1>20, <2>5 DEF CountStands
  <2> QED BY <1>11, <1>12, <1>16, <2>1, <2>4, <2>6 DEF CountStands
<1>21. Busy(t) /\ (new.overlapped <=> job[t].overlapped)
  BY <1>2, <1>4, <1>11 DEF Busy
<1>22. Stands(t)'
  <2>1. CountsOf(t)'
    BY <1>1, <1>12, <1>20, <1>21 DEF Stands, CountsOf
  <2> QED BY <1>17, <2>1 DEF Stands
<1> QED BY <1>2, <1>5, <1>11, <1>13, <1>14, <1>21, <1>22, AtWork

-----------------------------------------------------------------------------
(* The theorems.                                                           *)

LEMMA InitialPanel == Init => PanelInv
<1> SUFFICES ASSUME Init PROVE PanelInv
  OBVIOUS
<1>1. NoSector \in Row /\ NoSector.status = "none" /\ ~NoSector.online
  BY IdleType DEF NoSector, Row, Record
<1>2. TypeOK
  <2>1. NoDrones \in [Drone -> Nat] /\ <<>> \in Seq(Nat) /\ Idle \in JobState
    BY IdleType
  <2> QED BY <1>1, <2>1, BoundsAssumption DEF Init, TypeOK, Record
<1>3. \A t \in Job : job[t].pc = "idle"
  BY DEF Init, Idle
<1>4. SectorsStand /\ OverlapsAreMarked /\ RowsStand /\ CountsStand
  BY <1>1, <1>3 DEF Init, SectorsStand, OverlapsAreMarked, RowsStand, CountsStand, Busy, Made
<1>5. AlertsAreNewest
  <2>1. Newest(0, MaxAlerts) = <<>>
    BY MaxAlertsAssumption DEF Newest
  <2> QED BY <2>1 DEF Init, AlertsAreNewest
<1>6. OpenIsServed
  BY DEF Init, OpenIsServed
<1> QED BY <1>2, <1>4, <1>5, <1>6 DEF PanelInv

LEMMA PanelStep == PanelInv /\ [Next]_vars => PanelInv'
<1> SUFFICES ASSUME PanelInv, [Next]_vars PROVE PanelInv'
  OBVIOUS
<1>1. ASSUME NEW s \in Sector, NEW d \in Drone, Hears(s, d) PROVE PanelInv'
  BY <1>1, BaseStep
<1>2. ASSUME NEW s \in Sector, BaseCrashes(s) \/ BaseStarts(s) \/ ConnectionBreaks(s)
      PROVE  PanelInv'
  BY <1>2, BaseStep
<1>3. ASSUME NEW s \in Sector, ConnectSector(s) PROVE PanelInv'
  BY <1>3, BaseStep, PushStep, OfflineStep DEF ConnectSector
<1>4. ASSUME NEW t \in Job, BeginSnapshot(t) \/ GlobalSnapshot(t) PROVE PanelInv'
  BY <1>4, BeginStep, CountStep, SweepStep DEF GlobalSnapshot
<1>5. "ticker" \in Job /\ "api" \in Job
  BY DEF Job
<1>6. CASE BroadcastLoop
  <2>1. ASSUME NEW c \in Client, Write(c) \/ FindsClosed(c) \/ WriteTimesOut(c) PROVE PanelInv'
    BY <2>1, HubStep
  <2> QED BY <1>4, <1>5, <1>6, <2>1, EndStep DEF BroadcastLoop
<1>7. CASE StateRequest
  BY <1>4, <1>5, <1>7, EndStep DEF StateRequest
<1>8. ASSUME NEW c \in Client, ServeWS(c) \/ Leave(c) PROVE PanelInv'
  BY <1>8, HubStep DEF ServeWS
<1>9. CASE UNCHANGED vars
  <2>1. TypeOK' /\ AlertsAreNewest' /\ OpenIsServed'
    BY <1>9 DEF vars, baseVars, hubVars, PanelInv, TypeOK, AlertsAreNewest, OpenIsServed
  <2>2. Snapshots'
    BY <1>9, SnapshotsStand DEF vars, PanelInv, Snapshots
  <2> QED BY <2>1, <2>2 DEF PanelInv, Snapshots
<1> QED BY <1>1, <1>2, <1>3, <1>4, <1>6, <1>7, <1>8, <1>9 DEF Next

\* A snapshot that is not marked as overlapping another has the newest record of
\* every drone it shows, and the list of alerts, the hub's map and the browsers'
\* connections agree, for any number of sectors, drones, browsers and surprises.
THEOREM PanelInvariant == Spec => []PanelInv
<1>1. Init => PanelInv
  BY InitialPanel
<1>2. PanelInv /\ [Next]_vars => PanelInv'
  BY PanelStep
<1> QED BY <1>1, <1>2, PTL DEF Spec

\* A base keeps its newest alerts, as many as fit, in order (alerts.go:54).
THEOREM AlertsStayNewest == Spec => []AlertsAreNewest
<1>1. PanelInv => AlertsAreNewest
  BY DEF PanelInv
<1> QED BY <1>1, PanelInvariant, PTL

\* A browser whose connection is open is among those the broadcast writes to
\* (wsserver.go:35-54).
THEOREM OpenIsAlwaysServed == Spec => []OpenIsServed
<1>1. PanelInv => OpenIsServed
  BY DEF PanelInv
<1> QED BY <1>1, PanelInvariant, PTL

\* What the dashboard shows does not contradict itself: no drones of an offline
\* sector, the status of its base to match, and the numbers made of what is shown,
\* but for a snapshot that wiped drones out or overlapped another
\* (aggregator.go:77-152).
THEOREM DocumentsAlwaysAgree == Spec => []DocumentsAgree
<1>1. PanelInv => DocumentsAgree
  <2> SUFFICES ASSUME PanelInv, NEW t \in Job, job[t].pc = "marshalling"
               PROVE  LET rows == Document(t)
                          counted == job[t].counted
                          shown == {s \in Sector : rows[s].online}
                      IN /\ \A s \in Sector \ shown : rows[s].drones = NoDrones
                         /\ ~job[t].overlapped =>
                               /\ \A s \in Sector : rows[s].status = "ONLINE" <=> s \in shown
                               /\ \A d \in Drone :
                                     /\ \A s \in shown : rows[s].drones[d] <= counted[d]
                                     /\ (job[t].swept = {} /\ counted[d] # 0) =>
                                           \E s \in shown : rows[s].drones[d] = counted[d]
    BY DEF DocumentsAgree
  <2> DEFINE rows == Document(t)
             counted == job[t].counted
             shown == {s \in Sector : rows[s].online}
  <2>1. TypeOK /\ Stands(t)
    BY JobByJob DEF PanelInv, Snapshots
  <2>2. Made(t) = Sector /\ Seen(t) = Sector /\ Busy(t)
    BY DEF Made, Seen, Busy
  <2>3. \A s \in Sector : /\ rows[s].online <=> job[t].rows[s].online
                          /\ rows[s].drones = job[t].rows[s].drones
    <3>1. \A s \in Sector : job[t].rows[s] \in Row
      BY <2>1 DEF TypeOK, JobState
    <3>2. \A row \in Row : \A v : /\ [row EXCEPT !.status = v].online = row.online
                                  /\ [row EXCEPT !.status = v].drones = row.drones
      BY DEF Row
    <3> QED BY <3>1, <3>2 DEF Document
  <2>4. \A s \in Sector : /\ ~rows[s].online => rows[s].drones = NoDrones
                          /\ ~job[t].overlapped => (rows[s].status = "ONLINE" <=> rows[s].online)
    BY <2>1, <2>2, <2>3 DEF Stands, RowsOf
  <2>5. \A s \in Sector : Shown(t, s) = rows[s].drones
    BY <2>2, <2>3 DEF Shown
  <2> HIDE DEF rows
  <2>6. ASSUME NEW d \in Drone, ~job[t].overlapped
        PROVE  /\ \A s \in shown : rows[s].drones[d] <= counted[d]
               /\ (job[t].swept = {} /\ counted[d] # 0) =>
                     \E s \in shown : rows[s].drones[d] = counted[d]
    <3>1. CountStands(t, d)
      BY <2>1, <2>2, <2>6 DEF Stands, CountsOf
    <3>2. \A s \in Sector : rows[s].drones[d] <= counted[d]
      BY <2>2, <2>5, <3>1 DEF CountStands
    <3>3. (job[t].swept = {} /\ counted[d] # 0) =>
             \E s \in Sector : rows[s].drones[d] = counted[d]
      BY <2>2, <2>5, <3>1 DEF CountStands
    <3>4. \A s \in Sector \ shown : rows[s].drones[d] = 0
      BY <2>4 DEF NoDrones
    <3> QED BY <3>2, <3>3, <3>4
  <2> QED BY <2>4, <2>6 DEF rows
<1> QED BY <1>1, PanelInvariant, PTL
=============================================================================
