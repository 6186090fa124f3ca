# A verification project for the sector-base drone fleet

The program (Go, `src/`) runs the drones that watch a strait. Sensors report occurrences to the
broker of their sector, the broker turns each into a *request* and sends it to the sector bases,
and the bases - peers with no leader - agree over a distributed lock which of them sends a drone.
Web dashboards show what the bases know. This directory models all of it in TLA+ - the lock, the
dispatch, the recovery of the queues, the fleet, the intake of events and the dashboard -
model-checks each part with TLC on small instances, and proves the main safety facts of every part
with TLAPS for instances of any size.

## 1. Inventory

| Component (source) | State | Operations | Who calls whom |
|---|---|---|---|
| Distributed lock (`cmd/base/dispatcher.go:76-127`, `state.go:211-225`, `servers.go:157-183`) | `locks` (request -> base), the peers seen ONLINE | `acquireLock`, `tryLock`, `releaseLock`, `broadcastLockRelease`, `handleLockRequest`, `handleLockRelease` | a dispatch goroutine asks every online peer in parallel over TCP; releases are fire-and-forget messages |
| Request queue (`internal/queue/queue.go`) | heap of requests, set of IDs ever seen | `Push`, `Replace`, `Peek`, `UpdateStatus`, `Remove`, `ClearAll`, `ClearDroneAssignments`, `SyncFrom`, `IsDroneAssigned` | every handler and the dispatcher of a base, each call under the queue's mutex, several calls per handler |
| Mission dispatch (`cmd/base/dispatcher.go`, `servers.go`, `drone_handler.go`, `cmd/drone/main.go:136-222`) | drone table, one goroutine per attempt, the drone's mission | `tryDispatch`, `handleNewRequest`, `handleQueueAdd`, `handleQueueUpdate`, `handleMissionDone`, drone `handleDispatch`, `reportMissionDone` | base -> drone DISPATCH, drone -> base MISSION_DONE, base -> bases QUEUE_ADD / QUEUE_UPDATE |
| Lost drones and rescue (`cmd/base/heartbeat.go:114-171`, loop at `main.go:90-95`) | `LastSeen`, status LOST | `checkDroneHealth`, `recoverBusyDroneMission` | reads the queue, replaces entries, releases locks, gossips |
| Drone table timing (`state.go:60-166`) | status and `LastSeen` of every drone | `touchDrone`, `updateDroneStatus`, `idleDrone`, LOST after 3 s, purge after 15 s | heartbeats (UDP, 1 s), dispatcher, `DRONE_INFO` |
| Base membership and recovery (`heartbeat.go:19-112`, `state.go:168-209`, `servers.go:111-137`) | peers' status and `LastSeen` | peer heartbeats (3 s), OFFLINE after 3 s, QUEUE_SYNC on return, QUEUE_CLEAR | every base with every other |
| Drone's home base (`cmd/drone/main.go:40-135, 224-257`, `drone_handler.go:10-37`) | `baseAddr`, `baseID` of a drone | REGISTER, watcher, fallback bases, REASSIGN | drone <-> bases |
| Drone balancing (`drone_handler.go:61-145`) | none of its own | `balanceDrones` | base -> drone REASSIGN after a peer comes or goes |
| Lamport clock (`internal/lamport/clock.go`) | one counter under a mutex | `Tick`, `Update`, `Get`, `Set` | every message sent or received; only the stamps of requests are compared |
| Request intake (`cmd/sensor`, `cmd/broker`) | the sensor's active broker and its flag, the broker's clock | sensor event -> request -> propagation, fallback brokers, return to the primary one | sensor -> broker -> bases |
| Alerts (`internal/alerts`) | bounded list | `emit`, `Add`, `GetLast` | handlers of a base; the push to the dashboards reads the newest |
| Push of a base (`servers.go:193-234`) | one connection per dashboard | `handleDashConn`, `buildStatusUpdate` | base -> dashboards, once a second |
| Web dashboard (`cmd/webdash`) | the last payload of each sector, a snapshot per reader, WebSocket clients | `update`, `markOffline`, `GlobalSnapshot`, `broadcast`, `ServeWS` | one goroutine per sector, a 1 s ticker, HTTP requests, one goroutine per browser |
| Terminal dashboard, page source, test runner, network helpers | none | I/O and presentation | |

**What is hard here.** Every message is handled in a goroutine of its own, so messages of one
sender overtake each other. Handlers and the dispatcher make several calls, each atomic, none
atomic together; decisions are taken on copies. Calls have deadlines, and the callee finishes what
the caller has given up. Nothing is persisted; no message is sent again except MISSION_DONE and REGISTER. Heartbeats
carry a status that may be older than the base's own. The lock table records *that* a request is
locked, and any release deletes the entry, whoever owns it.

**What makes each part correct.** Lock: two bases never both hold a request; no lock outlives
its owner. Queue: an ID is accepted once and, once removed, never comes back; no entry twice.
Dispatch: a request is flown by one drone, is not given up between two states, and ends DONE at
every base; a drone has one mission. Rescue: a mission of a dead drone is flown by another one,
a finished one is not resurrected. Membership: after recovery the queues agree. Home base: a drone
is registered at one base, which knows it. Balance: drones do not oscillate. Clock: monotone, above
everything received. Intake: the request of an acknowledged event reaches every base, stamps follow
the events, a sensor finds back to its own broker. Alerts: the newest, in order. Dashboard: a document does not contradict itself, what a
fallen base knew vanishes, every browser is served.

## 2. Modules

| Module | Models | Role |
|---|---|---|
| `FleetTypes` | bases, requests, drones, goroutines | constants and their assumptions |
| `LockProtocol` | the lock on a request, with lost, late and stray messages and wrong views | component |
| `LockProtocol_proofs` | - | theorems about it |
| `RequestQueue` | `internal/queue` as operators on a queue value | component (pure) |
| `RequestQueue_proofs` | - | lemmas about its operators, and a theorem about `Peek` |
| `RequestLifecycle` | what the bases promise of a request: unknown, queued, gone; gone only when flown | abstract specification |
| `Dispatch` | broadcast to MISSION_DONE, on top of the two above | composition |
| `Dispatch_proofs` | - | theorems about it: invariant and both refinements |
| `Flights_proofs` | - | theorems about it: locks, flights and ASSIGNED requests where some disturbances do not happen |
| `Membership` | bases that crash, restart and are synchronised; QUEUE_SYNC and QUEUE_CLEAR | component, on top of `RequestQueue` |
| `Membership_proofs` | - | theorems about it |
| `Fleet` | which base a drone belongs to: registration, watch, fallback, REASSIGN, drone tables, balancing | component |
| `Fleet_proofs` | - | theorems about it |
| `LamportClock` | `internal/lamport` as operators | component (pure) |
| `Intake` | sensors, brokers, stamps, propagation to the bases | component, on top of `LamportClock` |
| `Intake_proofs` | - | theorems about it |
| `AlertLog` | the bounded list of `internal/alerts` as operators | component (pure) |
| `Panel` | push of the bases, aggregator, snapshots, browsers | component, on top of `AlertLog` |
| `Panel_proofs` | - | theorems about it |
| `MC_Lock`, `MC_Dispatch`, `MC_Membership`, `MC_Fleet`, `MC_Intake`, `MC_Panel` | - | instances for TLC |

`Dispatch` is where lock, queue, drones and the news between the bases meet. The other state
machines meet it at an interface: `Intake` ends where `HandleNewRequest` of `Dispatch` begins,
`Fleet` may send a drone on a mission at any time, `Membership` keeps of a dispatch what its queues see.

**`LockProtocol`.** An element of `Attempt` is one goroutine of `tryDispatch`. `locks[b][r]` is the
lock table; the code stores the base's name there and never reads it, the model stores the attempt,
so that a property can say whose lock an entry is. `LocalRefusal` and `LocalLock` are the first
lines of `acquireLock` (the peers are read once), `HandleLockRequest` is the peer, `ReceiveReply`
and `CallFails` end one parallel call (an error may come before or after the peer has acted),
`Unanimous` and `Refused` are the comparison `granted == len(peers)`, and `GiveBack` the release
here plus the broadcast to *every* gossip address, the refusing peers included. `EndTenure` and
`StrayRelease` are releases from MISSION_DONE, the rescue, and QUEUE_UPDATE(DONE). `Hear` and
`Suspect` move the view of the peers. `clobbered` is a history variable: requests for which some
release has deleted the live lock of somebody else.

**`RequestQueue`.** A queue is a set of entries and a set of seen IDs. The order of the heap slice
is left out: `Peek` scans the slice for the least PENDING entry and nothing else depends on it.
`LockedBy` (written, never read) and `WallClock` (sorts dashboards) are left out. A rescue rewrites
priority to -1 and the timestamp to 0: the flag `rescued`.

**`Dispatch`.** One action per critical section or message handler. `PickMission` is the reads of the
dispatcher loop, `Reserve` its writes (from what was read, however old) and the `go` statement; the
goroutine then runs `Acquiring`, `SendDispatch`, `DispatchFails` or `ConfirmDispatch`, `Requeue`.
The drone: `TakeDispatch`, `FinishMission`, `ReportReceived` (the base acknowledges, then handles),
`ReportAnswered`, `ReportLost`. The bases: `HandleNewRequest`, `HandleQueueAdd`,
`HandleQueueUpdate`, `HandleMissionDone`, `Heartbeat`, `DetectLost`, `RescueMission`, and
`DroneReturns`, the REGISTER of a drone that is started again. Disturbances
(`Lose...`, `DroneDies`, `DisturbLocks`, a missed heartbeat in `DetectLost`, a lost answer in
`CallBroken`) are counted by `faults` up to `MaxFaults` and limited to `FaultKinds`.

**`Membership`.** The queues again, over a longer time: `Crash` loses a base's memory, goroutines and
unread messages, `Restart` starts it empty and knowing nobody. `HandleBaseHeartbeat` and
`MarkOffline` (`checkPeersHealth`) move the peers' statuses; a peer heard that was not ONLINE gets
`SendFullQueueSync`, a goroutine that reads the queue when it runs. `HandleQueueSync` and
`HandleQueueClear` join the three handlers that change a queue. Dispatch is kept as far as queues see
it: `Reserve`, `Requeue`, `Confirm` and `HandleMissionDone` are what a dispatcher, goroutine or
report does to them, and any base may try any pending request (the lock is in `LockProtocol`,
`clearLocks` is its `StrayRelease`). Two histories name the code's two gaps: `overlooked`, a base that
restarted while a peer still held it ONLINE, and `cleared`. `troubles` counts crashes, uses of the
clear button, and running bases taken for dead, up to `MaxTroubles`.

**`Fleet`.** The drone's `baseAddr` and `baseID` are written by four kinds of goroutine without a
lock: its start, its watcher, a mission that looks for another base, and any number of REASSIGNs. An
element of `calls` is a REGISTER one of them has under way, with its stage: *addressed* (REASSIGN has
written the address and not yet the name), *sent*, *answered*, *adopted* (the address is written, the
name not yet). `WatchRound` is the watcher after three dials that failed; `HandleDroneRegister` the
base; `RegisterFails` a dial, a call or an answer that is lost; `AdoptAddress` and `AdoptName` the two
writes of a successful call; `HandleReassign` and `ReassignName` those of REASSIGN, which come before
its call. A mission is `Reserve`, `TakeDispatch` or `DispatchFails`, `StatusUpdate`, `FlightEnds`,
`Report` or `ReportFails` (which falls back like the watcher). The bases: `Heartbeat`; `Silence`,
`MarkLost`, `RemoveDrone` (the two time-outs; `overdue` is "LastSeen is too old");
`PurgeLostDrones`, which QUEUE_CLEAR calls; `Hear` and `MarkOffline` for the peers; `BalanceDrones`,
with its counts per base, its tie-breaks and its LOST mark; `Crash`, `Restart`, `DroneDies`,
`DroneStarts`. `Spread` is DRONE_INFO and what `registerDrone` keeps. A base's name has two
spellings, its own and that in the heartbeats of its peers (`heartbeat.go:41`): a drone under the
wrong one is dispatched by nobody. Three histories name what the code has no remedy for: `forgotten`
(the base crashed or deleted the drone since it registered), `adrift` (the address was set and the
call to it failed), `raced` (two goroutines of a drone were between their writes at once).

**`Intake`.** `SendEvent` ticks the sensor's clock and calls the active broker; `CallFails` and
`CallBreaks` (the answer is lost, not the event) turn to the next of `Peers`; `Confirmed` and
`FallbackConfirmed` read an answer. A successful fallback writes `activeBroker`, then the flag
(`FlagFailed`); the watcher writes them too (`ReturnToPrimary`, `FlagReturned`): four steps of two
goroutines, in any order. `HandleSensorEvent` is the broker: `Update` with the event's stamp, an
answer, and a request with the stamp of a `Tick`; `Propagate` reaches any subset of the bases (a
proper one is a trouble). `HandleRequest` is a base: it passes a NEW_REQUEST it did not know on to
its peers. A broker that crashes loses clock, inbox and outbox, and `life` counts its starts.
Histories: `created`, `settled` (acknowledged and read), `dropped` (reached no base), `raced`.

**`Panel`.** A base has drone records (a record is its LastSeen) and alerts; `Hears` changes both.
`ConnectSector` is the goroutine of a sector: `Dial`, `Push` (a payload arrives and is stored),
`MarkOffline`. A snapshot is taken by the `ticker` and by `/api/state`: `BeginSnapshot`, `Count` one
sector at a time, `Sweep` one sector at a time (which wipes the drones of a sector that is offline
*in the aggregator* and sets its base OFFLINE in an array shared with it), and then the document is
marshalled without the lock (`Respond`, `StartBroadcast`). The lock is taken for reading, so two
snapshots interleave, and a `Push` does not come in between (`Unlocked`). `Write`, `WriteFails`
(`FindsClosed`, `WriteTimesOut`) and `EndBroadcast` are the hub's round over a copy of its clients;
`Connect`, `Add`, `Leave`, `ReadFails` the browsers. Histories: `swept`, the sectors this snapshot
has wiped, and `overlapped`, another snapshot was under way.

### Abstractions
- Handlers that make several calls without I/O between them on one mutex's data are one action
  (`HandleMissionDone`, `DispatchFails` up to its broadcast); the dispatcher, whose reads and writes
  race with them, is two; a failed goroutine is two, with the release broadcast in between.
- DRONE_INFO, which copies a drone's status to the peers, is folded into `Heartbeat`. In the table
  of a base that is not its home a drone counts as IDLE unless LOST: only `idleDrone` asks for IDLE
  and it is asked for drones of the base itself.
- Goroutines are slots, used again only when nothing refers to them any more, so retries are
  unbounded with two or three slots; what is bounded is how many are *under way* at once.
- Messages are sets: unordered, delivered once, late at will. Duplication comes from the code's own
  repetition (MISSION_DONE), not from the network (TCP).
- Timing enters in one place, `FlightTakesLong`: a flight takes 20 s or more (`drone/main.go:181`),
  a DISPATCH call at most 13 s, gossip at most 8 s, and the loop 100 ms. So a flight does not end
  while its own call, its news, or a decision taken before the news are still under way.
- In `Dispatch` drones stay at their home base (they move in `Fleet`, which has no queues), no base
  restarts and there is no QUEUE_SYNC or QUEUE_CLEAR: they are in `Membership`, which has no locks and no
  drone table in turn. A drone that is started again comes after the connections of its dead process
  were reset (`DroneReturns`).
- `Membership`: a start from nothing is a restart, so `Init` has every base up and known. A message to
  a base that is down is gone, one to a base that runs arrives (TCP). `handleBaseHeartbeat` reads the
  old status from a copy and writes later; the two are one action, since a health check in between is
  overwritten. A process does not come back before those that run have read what its former life
  sent (`Restart`).
- `Fleet`: DRONE_INFO arrives with the step that sends it. A Go string is two words and an unlocked
  read may see one of each; reads of `baseAddr` and `baseID` are taken as whole. A drone's flights,
  reports and fallbacks are kept; the request it flies is not.
- `Intake`: heartbeats tick the clocks as well and are left out, for stamps are only compared.
  Request IDs (UUIDs) are the numbers 1, 2, ...
- `Panel`: a payload is sent and stored in one step. Of a payload the drones, the alerts and the
  status of the own base are kept; queue, sensors and brokers are copied the same way.

## 3. Runs

| Run | Instance | Shows |
|---|---|---|
| `lock_refusal` | `LockProtocol`, 2 bases, 1 request, 2 goroutines, nothing lost, full views | **violation**: two bases refuse each other |
| `rivals` | `Dispatch`, 2 bases, a drone each, 1 request, 3 goroutines, any two queue messages lost | nothing LOCKED without its goroutine; a request ASSIGNED at the base of its drone has something that moves it, and one at a peer lacks it only after a loss; every flight is backed by a lock holder, also against a base that missed ASSIGNED and goes on trying; two flights or two holders only after a clobbered lock; no lock outlives its owner |
| `faults` | 2 bases, 1 drone, 2 goroutines, one fault of any kind: call, report, wrong view, death, queue message, lock message | the promise of `RequestLifecycle`, and the inductive invariants of the proofs, `LockInv` and `DispatchInv` |
| `live` | 2 bases, 1 drone, 2 goroutines, a lost call or a false LOST at either base | every request is flown and put away, also by the base without a drone; every lock is freed; no ASSIGNED entry is stranded |
| `returns` | 1 base, 2 requests, 1 drone, 2 goroutines; the drone dies up to twice and may be started again at any moment | an ASSIGNED request that nothing moves waits for a drone that is still dead; no registration breaks the promise of `RequestLifecycle` |
| `restarted` | 2 bases, 1 request, 1 drone, 2 goroutines, one death | **violation**: a mission cleared by a REGISTER is never flown |
| `double_flight` | as `rivals`, nothing lost | **violation**: two drones fly one request |
| `restart` | `Membership`, 2 bases, 1 request, one crash, clear or false OFFLINE | a queued request is known to the other base, on its way, or will be brought (`NobodyLeftBehind` in `MembershipInv`); what a base has put away stays away (`GhostsStayAway`); every base catches up |
| `fleet` | `Fleet`, 2 bases, 1 drone that may fall back to the other base, one trouble (crash, death, lost call, silence, clear), one move at a time | a drone at rest is known under the right name by the base at its address; one that lives is again and again ready for missions; one that is dead leaves every table |
| `pingpong` | `Fleet`, 2 drones of one of 2 bases, no trouble, two moves at a time | **violation**: a drone is sent away and back with no base down |
| `intake` | `Intake`, 2 bases, a sensor with its broker and a fallback, 2 events, one trouble | stamps follow the events of one broker life; what is acknowledged reaches every base; the sensor goes back to its broker |
| `panel` | `Panel`, 2 sectors, 1 drone, 1 browser, 2 alerts kept and 1 shown, three surprises | documents agree with themselves and catch up; the newest alerts are kept; an open browser is served |

*Why these bounds.* The lock of a request never looks at another request, so one is enough; its
interesting states need one winner, one loser and one late comer (3 goroutines, in `rivals`). Two bases
are the smallest system with a peer, and every decision is pairwise except unanimity, which
`LockProtocol` is proved for at any number, with any number of disturbances. Two requests are there
where they compete for a drone (`returns`), and two deaths, so that one may come before and one after the
return. In `rivals` two losses are what it takes to miss both updates of a mission, or both
announcements of a request; a base left with an ASSIGNED request that is DONE keeps it for ever, which is why
`live`, where every queue drains, loses no queue messages. `restart` needs two bases to lose and give back a queue; requests are independent there, and the
safety properties also hold with two and three troubles (1.5 and 11 million states).
`NobodyLeftBehind` is a statement about two bases as soon as one crashes: a receiver of QUEUE_ADD or
QUEUE_SYNC forwards nothing, so with three bases and a crash one of them can miss what the sender
has lost since (TLC finds it in an instance with three bases; section 5). `fleet` has the smallest
fleet with somewhere to fall back to and to be balanced to: drones meet only in the counts of
`balanceDrones`, which `pingpong` has two drones for. With a third base its state space is out of
reach; the theorems hold for any number. `intake`: the events of one sensor are what stamps order,
and two are the earlier and the later. `panel`: two sectors may show the same drone, of which the newer
record counts; two alerts kept and one shown tell both limits apart; three surprises are a crash, the news
that precede it, and a second snapshot. Fault budgets let each disturbance happen at any moment of
any behaviour; they are bounds of the search, not of the code. Goroutines are interchangeable,
and so are the two sectors (each with its drone): both symmetries are used in safety runs only.
Deadlock is not checked where the system rests when all is done (every run but `lock_refusal`).

*Fairness* (`FairSpec` of each module). In `Dispatch`: weak fairness of every handler of a message
that has arrived, of each dispatcher loop, goroutine, drone and begun rescue: all are Go goroutines
the runtime schedules, and calls end at their deadlines. Strong fairness of `FinishMission`: a
dispatcher that keeps reading the request postpones the end of a flight by an instant, which the
passing of time brings anyway. Nothing is assumed of losses or returns, nor of `DetectLost`:
`updateDroneStatus` refreshes `LastSeen` (`state.go:86`), so a dead drone that is dispatched over and
over may never be declared LOST. In `Membership`: weak fairness of the heartbeats between bases that
run (a 3 s ticker), of the syncs begun and of the handlers; nothing of dispatch, crashes, restarts
or the health check. In `Fleet`: goroutines that have begun go on, calls end, the drones' tickers tick, a
dead drone is silent and the health check (5 s) comes round; nothing of troubles, restarts,
missions or balancing. In `Intake`: the processes that run carry on; nothing of events, troubles,
restarts. In `Panel`: the ticker, the hub and the HTTP goroutine go on (weak), and the
goroutine of a sector gets the write lock however often snapshots are taken (strong), because
`sync.RWMutex` lets no new reader pass a waiting writer.

## 4. Findings

1. *A loser of the race deletes the winner's locks* (`double_flight`). `releaseLock` deletes the
   entry whoever owns it, and a refused `acquireLock` broadcasts LOCK_RELEASE also to those who
   refused. While the winner's drone flies, the other base gets the lock and sends its own.
2. *A mission cleared by REGISTER is never flown* (`restarted`; `drone_handler.go:33`). A drone that
   dies in flight and is back within 3 s, as Docker's restart policy makes likely, registers before it is
   LOST. `ClearDroneAssignments` puts its mission back to PENDING; the lock stays in every table. The
   dispatcher reserves the drone, `acquireLock` refuses itself on its own table, the goroutine puts
   both back, and so on for ever. (Had the drone been LOST first, the rescue would have released.)
3. *Drones play ping-pong* (`pingpong`; `heartbeat.go:111` against `main.go:53-55` of the base).
4. *Timestamps do not decide anything* (`lock_refusal`; `servers.go:163`): the README describes
   Ricart-Agrawala, the code grants exactly when the entry is absent, so two bases can refuse each
   other for ever. With two bases *and two drones* the model has such a livelock, so progress is
   checked for one drone; the random delays of a real network break it.

What a property exempts, because the code has no remedy for it:
- `Fleet`: a drone its base has deleted or forgotten in a crash is never registered again by
  itself, as the watcher only dials (`forgotten`); a REASSIGN whose REGISTER fails, or a REGISTER whose
  answer is lost, leaves it at a base that may not know it (`adrift`); two goroutines of a drone mix
  address and name of two bases (`raced`); a drone at a fallback base has nobody to turn to when that one
  falls (`Stranded`; its home is not in PEER_BASES). In any of these it flies no missions.
- `Intake`: two goroutines of a sensor leave it at the fallback with the flag down (`raced`); an event
  whose broker reached no base is acknowledged and lost (`dropped`).
- `Panel`: the first document after the fall of a base counts drones it does not show (`swept`); two
  snapshots at once take each other's half-done sweeps for the truth (`overlapped`).
- `Membership`: a base that is back within 3 s is not noticed missing by its peers, which send it no
  QUEUE_SYNC (`overlooked`).

Also noticed, not turned into runs: a heartbeat sent before the drone read its dispatch frees a
reserved drone (`state.go:98`), which is then reserved a second time, `dispatcher.go:31-32`
notwithstanding (the second DISPATCH is refused); a loser of the race puts a request back to PENDING
whatever it has become (`dispatcher.go:43`), and a drone is sent to a request already flown; a drone that
returns between being found LOST and the rescue may be on its old mission when the rescue gives it to
another; after a DISPATCH without acknowledgement the drone is IDLE, not
offline, and the request keeps its own priority (README.md:46 says otherwise); LOST takes 3 s, not 9
(README.md:48); `startPeriodicChecks` is never called; `AssignedIsBacked` fails when every report of
a mission is lost (`drone/main.go:219`), which strands the request; an orphan lock is possible when
a LOCK_REQUEST is handled after the release that follows its time-out, or when the asking base crashes
in the middle (the peers' entries stay, and refusals at a peer's own table broadcast no release); a
snapshot copies LOCKED entries to a base that has no goroutine for them (`queue.go:271`); an
event whose acknowledgement is lost becomes two requests.

## 5. Proofs

`LockProtocol_proofs` proves, for every `Base`, `Request`, `Attempt` (finite or not):

- `TypeCorrect`: `LockSpec => []TypeOK`;
- `LockInvariant`: `LockSpec => []LockInv`;
- `Exclusive`: `LockSpec => []ExclusiveUnlessClobbered`;
- `StableExclusive`: `StableLockSpec => []ExclusiveInFullView`;
- `NoOrphans`: `ReliableLockSpec => []NoOrphanLock`.

Exclusion is not inductive: that two holders asked each other says nothing of the tables. `LockInv`
adds what connects them: an owner's entry is in its own table and in that of every peer whose grant
it counts (`OwnerKeepsItsLocks`); a grant in flight is backed by its entry (`GrantInFlightIsBacked`);
holders have all the grants they asked for (`HolderIsUnanimous`); a peer answers once
(`OneAnswerPerPeer`); a release in flight belongs to nobody that owns (`MessagesMatchAttempts`).
Two unclobbered holders that asked each other would both be in one table entry. Each action has a
lemma; the lemmas on message sets and on single attempts come first. `NoOrphanLock` is the converse: from
an entry to its owner. It needs that no attempt moves on while a request of its own is in flight
(`RequestIsAwaited`), so that the release comes after all the grants; hence the network without losses and
time-outs. The only assumption is
`NoneAssumption` of `FleetTypes`. `LockInv` is checked in `faults`, `ExclusiveInFullView` and
`NoOrphanLock` in `rivals`. `ExclusiveUnlessClobbered`, which speaks of views that differ, is a consequence of
`LockInv` and has no run of its own.

`RequestQueue_proofs` proves what `Push`, `Replace`, `UpdateStatus`, `Remove` and
`ClearDroneAssignments` do to the IDs in a queue, the IDs seen and the LOCKED entries; and
`PeekIsDetermined`: priority, timestamp and ID order the requests totally, also when some are rescued,
and some request is least, so whenever one is pending `Peek` finds exactly one, the same at every base
with the same pending requests. (That a least one exists is an induction over numbers, taken from
the library's theorems on well-founded relations.) On these lemmas rest
the theorems of `Dispatch_proofs`, for any fleet, any `FaultKinds` and any `MaxFaults`:

- `DispatchInvariant`: `Spec => []DispatchInv`, with `WellFormedQueues` and `NothingStaysLocked`
  (`LockedBacked`) as parts;
- `RefinesLock`: `Spec => ImplementsLock` (every action of `Dispatch` moves the lock by an action of
  `LockProtocol`, so this is a step of the argument and no run checks it), and from it `DispatchExclusive`, the lock theorem for the
  whole dispatch;
- `KeepsPromise`: `Spec => ImplementsLifecycle`.

That a base retires only what was flown is not inductive: it needs that a DONE message, a report
being handled and a reporting drone all speak of served requests (`DoneMeansServed`); that no entry
stays LOCKED needs that no message carries LOCKED (`NewsUnlocked`) and that a goroutine's copy is of
the request its lock is on (`JobsMatch`). `QueueMoves` reduces every step to one of a few queue
operations on one base; the lemmas on stages (`QueueStepStages`) and on the board then give the step
of the abstract specification. Assumptions used: `NoneAssumption`, `HomeAssumption`,
`MaxFaultsAssumption`.

`Flights_proofs` proves what holds of `Dispatch` only while some kinds of disturbance do not happen. That
is a hypothesis on the constant `FaultKinds`; the kinds that are not named may happen any number of times,
for any fleet:

| Theorem | States | Kinds excluded, and why |
|---|---|---|
| `DispatchLeavesNoOrphan` | `[]NoOrphanLock` | lock: a lost release, or a request handled after its time-out, leaves a lock nobody owns |
| `DispatchFullView` | `[]ExclusiveInFullView` | lock: two bases that do not see each other ask nobody |
| `FlightsBacked` | `[]FlightIsBacked` | call: the base gives up a flight whose acknowledgement is lost; suspect: it rescues a mission that flies; return: it clears one |
| `OneFlightUnlessClobbered` | `[]NoDoubleFlightUnlessClobbered` | the four above |
| `AssignedBackedOrDead` | `[]AssignedIsBackedOrDead` | report and gossip: nobody else knows that a mission is over; return, if there is a second base: it is not told that the mission went back |
| `AssignedBacked` | `[]AssignedIsBacked` | report, gossip, death: nothing happens to the mission of a dead drone before it is found LOST |
| `AssignedBackedUnlessMissed` | `[]AssignedIsBackedUnlessMissed` | report, death: as above; lost gossip strands only a copy at a peer |

Each excluded kind does break its property in TLC. The first two rest on a simulation: without the kind
"lock", every step of `Dispatch` is a step of the lock protocol on a reliable network
(`TrustfulSimulation`), so `NoOrphans` and `StableExclusive` carry over. The others need to know whose
call a drone is answering. `CallInv` says it for all kinds of disturbance: a DISPATCH on the radio
names the drone and the request of its goroutine (`CallsMatch`), a goroutine that has not called yet is
mentioned nowhere (`FreshCalls`), and a goroutine has one call in one place (`OneUse`: on the radio, in a drone or in a
report, never in two). On it stand `FlightInv` - a call on the radio is still awaited
(`RadioAwaited`), a flight has a holder that either waits for its answer or has confirmed it
(`FlightBacked`), a rescue is of a dead drone (`RescueDead`) - and `AssignedInv`: an acknowledgement to be
confirmed, and news that says ASSIGNED, come while the drone still flies or when it is dead (`AckFlies`,
`NewsFlies`; that is where the timing assumption `FlightTakesLong` enters), and every ASSIGNED entry has its
drone, a report, a rescue or news on the way behind it (`AllBacked`). Where news may be lost that is kept as long as
nothing was disturbed, and beside it what needs no news: at the base of its drone an entry has the drone, its
report at this base or the rescue behind it (`HomeBacked`). Assumptions: those of
`Dispatch_proofs`.

`Membership_proofs` proves, for any number of requests and troubles, and of bases unless it says otherwise:

- `MembershipQueues`: `Spec => [](TypeOK /\ QueuesWellFormed /\ SnapshotsWellFormed)`;
- `NoGhosts`: `Spec => GhostsStayAway`;
- `TwoBasesLeaveNobodyBehind`: `Spec => []MembershipInv` for at most two bases, with any number of
  crashes, restarts, false alarms and clears;
- `RunningBasesLeaveNobodyBehind`: `Spec /\ [](running = Base) => []MembershipInv`, for any number of bases
  while none crashes, with any number of false alarms and clears.

A queue can be doubled by a snapshot that carries a request twice, so the snapshots are part of the
invariant (`QueueInv`). The relation `Follows` says what any operation on a queue keeps: types, no
duplicates, and that what was seen and put away is not taken up again. Every action changes each
queue by such a move, `ClearAll` and `Crash` included, which leave no entry at all.

That nobody is left behind needs the messages too. `BookInv`, for any number of bases: a base that has not
been cleared knows every request its messages speak of, unless they say that it is over (`Sound`), and every
request its goroutines work on (`WorkersKnow`); no message outlives the life of its sender (the guard of
`Restart`). For two bases `PairInv` then says of each ordered pair who is to bring what: a request that one of
them takes from a message comes from a broker, and is passed on, or from the other, which knows it.
Without crashes heartbeats and snapshots are not needed (`ToldInv`): the first base that hears of a request
tells all others, and what any base or message repeats has been told before. With three bases and a crash
neither argument works, and `NobodyLeftBehind` is false: a base that comes back is synchronised by one that has
not handled a QUEUE_ADD yet; it handles it afterwards and tells nobody, and the sender has put the request away
or crashed. Assumptions: `NoneAssumption`, `MaxTroublesAssumption`.

`Fleet_proofs` proves, for any drones, bases, homes and fallback lists, and any number of troubles
and moves:

- `FleetInvariant`: `Spec => []FleetInv`;
- `RestingDroneIsKnown`: `Spec => []RegisteredIsKnown`.

That a drone at rest and its base agree rests on the calls that brought it there: a base that
has answered knows the drone or has lost what it knew (`AnsweredIsKnown`), the goroutine that is to write
the name has written the address (`AdoptedIsAddressed`), and a drone whose calls have written nothing
still belongs where it did (`BelongsWell`). `DroneOK` says the same of one drone, so that a step of one drone
leaves the others alone; a step of the bases keeps it because whatever a table loses is in
`forgotten` (`KeepsMemory`, `NothingForgotten`). Assumptions: `HomeAssumption`, `FallbackAssumption`,
`NoEntryAssumption`, `MaxTroublesAssumption`.

`Intake_proofs` proves, for any sensors, brokers, bases, events and troubles:

- `IntakeInvariant`: `Spec => []IntakeInv`;
- `StampsAreOrdered`: `Spec => []StampsFollowEvents`;
- `FlagIsTrue`: `Spec => []FlagTells`.

That acknowledged events are stamped in order needs that a clock is never behind a stamp of its life
(`NothingAhead`), that an answer is to the event its sensor waits for and is the only one
(`Awaited`), and that the copies of one event are alike (`OneEvent`); that the flag is true needs what the
two goroutines have written so far (`Flagged`). Assumptions: `PrimaryAssumption`, `PeersAssumption`,
`BoundsAssumption`.

`Panel_proofs` proves, for any sectors, drones, browsers, bounds and surprises:

- `PanelInvariant`: `Spec => []PanelInv`;
- `AlertsStayNewest`, `OpenIsAlwaysServed`, `DocumentsAlwaysAgree` for the three invariants of the run.

A document agrees with itself because a lone snapshot has the sectors to itself: two that meet mark
each other (`OverlapsAreMarked`), `Push` and `MarkOffline` wait, and so what is counted stays the
newest record of what the snapshot shows or is about to (`CountsStand`), and a row says of its sector
what the shared array will say (`RowsStand`, `SectorsStand`). Assumptions: `MaxAlertsAssumption`,
`BoundsAssumption`.

*Only model-checked*: every invariant and action property of a passing run is stated by a theorem above.
What is left to TLC is liveness, which is out of the prover's reach (fairness, `ENABLED`): `EveryQueueDrains`, `EveryLockIsFreed`, `EveryBaseCatchesUp`, `EveryDroneServes`,
`DeadDronesVanish`, `AcknowledgedArrives`, `SensorsReturn`, `DocumentsCatchUp`, `BrowsersAreServed`.

## 6. Not modelled

- The terminal dashboard keeps the last payload of each sector and prints it; nothing reads it back.
- The source of the web page and the test runner have no state of the system.
- Sockets, encoding and files of deployment: a call is modelled by what can become of it.
- A base that crashes in the middle of `acquireLock`: its locks stay at its peers, the code has no
  remedy and no doc promises one.
- LOCKED entries that a snapshot brings to another base: that needs the goroutines of `Dispatch` and
  the crashes of `Membership` in one model.
- Moves of drones together with queues and locks: `Fleet` alone fills what TLC can search.

## 7. Plan

Done: the lock, the queue, the dispatch, the recovery of the queues, the fleet, the intake, the alerts, the
web dashboard, and their theorems. Left:

1. `Membership` for three bases and a crash: what holds of a base that misses both a broadcast and its
   sender, once the others have been heard.
2. A small composition of locks and crashes without drones, for the LOCKED entries of a snapshot and
   the locks a crash leaves behind.
3. Theorems: the safety part of the liveness arguments - that a request at rest in a queue is PENDING, or
   has something behind it, in the system with crashes - and refinements of the other components to
   abstract specifications, as `Dispatch` has them.
