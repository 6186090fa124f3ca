-------------------------------- MODULE Intake --------------------------------
(***************************************************************************)
(* From a sensor's event to a request at the bases: the sensor with its    *)
(* fallback brokers and its watch over the primary one                     *)
(* (cmd/sensor/main.go), the broker that turns an event into a request     *)
(* (cmd/broker/main.go), the Lamport stamps, and the bases that pass on    *)
(* what they hear first (servers.go).  What becomes of a request is in     *)
(* Dispatch; bases that crash are in Membership.                           *)
(*                                                                         *)
(* Heartbeats tick a clock as well; they are left out, as the stamps are   *)
(* only compared.  activeBroker and brokerFailed are written by two        *)
(* goroutines, each write is a step.                                       *)
(***************************************************************************)
EXTENDS LamportClock, Sequences, FiniteSets

CONSTANTS Base, Sensor, Broker,
          Primary,     \* Primary[s]: BROKER_ADDR of sensor s
          Peers,       \* Peers[s]: its PEER_BROKERS, in order
          MaxEvents,   \* bound: events of one sensor
          MaxTroubles  \* bound: broken calls, unreachable bases, broker crashes

ASSUME PrimaryAssumption == Primary \in [Sensor -> Broker]
\* As in every file of deploy/, a sensor's own broker is none of its peers.
ASSUME PeersAssumption ==
    /\ Peers \in [Sensor -> Seq(Broker)]
    /\ \A s \in Sensor : \A i \in DOMAIN Peers[s] : Peers[s][i] # Primary[s]
ASSUME BoundsAssumption == MaxEvents \in Nat /\ MaxTroubles \in Nat

VARIABLES up,       \* the brokers whose process runs
          life,     \* life[k]: how often broker k has started
          clock,    \* clock[n]: the Lamport clock of a sensor or broker
          active,   \* active[s]: activeBroker
          failed,   \* failed[s]: brokerFailed = 1
          loop,     \* loop[s]: what sendEventsLoop of s is doing
          watch,    \* watch[s]: what watchPrimaryBroker of s is doing
          inbox,    \* SENSOR_EVENT messages not yet handled
          acks,     \* answers not yet read
          outbox,   \* requests acknowledged and not yet sent to the bases
          wire,     \* NEW_REQUEST and QUEUE_ADD messages in flight
          known,    \* known[b]: requests base b has seen
          created,  \* history: every request a broker has made
          settled,  \* history: requests whose acknowledgement was read
          dropped,  \* history: requests that no base was sent
          raced,    \* history: sensors whose two goroutines wrote at once
          troubles  \* how many so far

sensorVars == <<active, failed, loop, watch, settled, raced>>
brokerVars == <<up, life, inbox, outbox, created, dropped>>
vars == <<sensorVars, brokerVars, clock, acks, wire, known, troubles>>

\* "calling": waiting for the answer of the broker "to"; "adopting": a fallback
\* broker has answered and activeBroker is written, brokerFailed not yet.
Resting(n) == [pc |-> "resting", event |-> n]
Calling(n, ts, kind, to, todo, fallback) ==
    [pc |-> "calling", event |-> n, ts |-> ts, kind |-> kind, to |-> to,
     todo |-> todo, fallback |-> fallback]

\* The brokers may start after the sensors.
Init ==
    /\ up \in SUBSET Broker
    /\ life = [k \in Broker |-> IF k \in up THEN 1 ELSE 0]
    /\ clock = [n \in Sensor \cup Broker |-> Start]
    /\ active = Primary
    /\ failed = [s \in Sensor |-> FALSE]
    /\ loop = [s \in Sensor |-> Resting(0)]
    /\ watch = [s \in Sensor |-> "sleeping"]
    /\ inbox = {} /\ acks = {} /\ outbox = {} /\ wire = {}
    /\ known = [b \in Base |-> {}]
    /\ created = {} /\ settled = {} /\ dropped = {} /\ raced = {}
    /\ troubles = 0

Trouble == troubles < MaxTroubles /\ troubles' = troubles + 1

-----------------------------------------------------------------------------
(* The sensor.                                                             *)

\* The message that a call puts on its way, if the broker is up.
Sent(s, call) ==
    IF call.to \in up
    THEN {[sensor |-> s, event |-> call.event, ts |-> call.ts, kind |-> call.kind,
           broker |-> call.to]}
    ELSE {}

Calls(s, call) == /\ loop' = [loop EXCEPT ![s] = call]
                  /\ inbox' = inbox \cup Sent(s, call)

\* sendEvent: one stamp for all tries of the event.
SendEvent(s, kind) ==
    LET n == loop[s].event + 1
        ts == Tick(clock[s])
    IN /\ loop[s].pc = "resting"
       /\ n <= MaxEvents
       /\ clock' = [clock EXCEPT ![s] = ts]
       /\ Calls(s, Calling(n, ts, kind, active[s], Peers[s], FALSE))
       /\ UNCHANGED <<active, failed, watch, settled, raced, up, life, outbox, created,
                      dropped, acks, wire, known, troubles>>

\* No answer: the next broker that is not the active one is tried.
TryNext(s) ==
    LET c == loop[s]
        left == {i \in DOMAIN c.todo : c.todo[i] # active[s]}
    IN /\ \/ \E i \in left :
                /\ \A j \in left : i <= j
                /\ Calls(s, [c EXCEPT !.to = c.todo[i], !.fallback = TRUE,
                                      !.todo = SubSeq(c.todo, i + 1, Len(c.todo))])
          \/ /\ left = {}
             /\ loop' = [loop EXCEPT ![s] = Resting(c.event)]
             /\ UNCHANGED inbox
       /\ UNCHANGED <<active, failed, watch, settled, raced, up, life, outbox, created,
                      dropped, clock, wire, known>>

\* The answer of the call is still to come.
Waiting(s) ==
    \/ \E m \in inbox : m.sensor = s /\ m.event = loop[s].event /\ m.broker = loop[s].to
    \/ \E a \in acks : a.sensor = s

\* The broker is down, or died with the message.
CallFails(s) == /\ loop[s].pc = "calling"
                /\ ~Waiting(s)
                /\ TryNext(s)
                /\ UNCHANGED <<acks, troubles>>

\* (mutant: the answer is taken for that to the next try)
CallBreaksLate(s) ==
    /\ loop[s].pc = "calling"
    /\ Waiting(s)
    /\ Trouble
    /\ TryNext(s)
    /\ UNCHANGED acks

\* A timeout, or the connection breaks, before the broker has handled the
\* message or after; it may handle it yet, but nobody hears the answer.
CallBreaks(s) == /\ loop[s].pc = "calling"
                 /\ Waiting(s)
                 /\ Trouble
                 /\ TryNext(s)
                 /\ acks' = {a \in acks : a.sensor # s}

Settle(a) == settled' = settled \cup {q \in created : q.id = a.id}

\* The first broker answers: nothing more.
Confirmed(a) ==
    LET s == a.sensor
    IN /\ ~loop[s].fallback
       /\ acks' = acks \ {a}
       /\ Settle(a)
       /\ loop' = [loop EXCEPT ![s] = Resting(@.event)]
       /\ UNCHANGED <<active, failed, watch, raced, brokerVars, clock, wire, known, troubles>>

\* A fallback broker answers and becomes the active one.
FallbackConfirmed(a) ==
    LET s == a.sensor
    IN /\ loop[s].fallback
       /\ acks' = acks \ {a}
       /\ Settle(a)
       /\ active' = [active EXCEPT ![s] = loop[s].to]
       /\ loop' = [loop EXCEPT ![s].pc = "adopting"]
       /\ raced' = IF watch[s] = "returning" THEN raced \cup {s} ELSE raced
       /\ UNCHANGED <<failed, watch, brokerVars, clock, wire, known, troubles>>

\* (mutant: brokerFailed is left as it is)
FailureUnflagged(s) ==
    /\ loop[s].pc = "adopting"
    /\ loop' = [loop EXCEPT ![s] = Resting(@.event)]
    /\ UNCHANGED <<active, failed, watch, settled, raced, brokerVars, clock, acks, wire, known, troubles>>

\* brokerFailed = 1
FlagFailed(s) ==
    /\ loop[s].pc = "adopting"
    /\ failed' = [failed EXCEPT ![s] = TRUE]
    /\ loop' = [loop EXCEPT ![s] = Resting(@.event)]
    /\ UNCHANGED <<active, watch, settled, raced, brokerVars, clock, acks, wire, known, troubles>>

\* Every 10 s: the primary is up again, and is the active one.
ReturnToPrimary(s) ==
    /\ watch[s] = "sleeping"
    /\ failed[s]
    /\ Primary[s] \in up
    /\ active' = [active EXCEPT ![s] = Primary[s]]
    /\ watch' = [watch EXCEPT ![s] = "returning"]
    /\ raced' = IF loop[s].pc = "adopting" THEN raced \cup {s} ELSE raced \ {s}
    /\ UNCHANGED <<failed, loop, settled, brokerVars, clock, acks, wire, known, troubles>>

\* (mutant: the flag stays)
FlagKept(s) ==
    /\ watch[s] = "returning"
    /\ watch' = [watch EXCEPT ![s] = "sleeping"]
    /\ UNCHANGED <<active, failed, loop, settled, raced, brokerVars, clock, acks, wire, known, troubles>>

\* brokerFailed = 0
FlagReturned(s) ==
    /\ watch[s] = "returning"
    /\ failed' = [failed EXCEPT ![s] = FALSE]
    /\ watch' = [watch EXCEPT ![s] = "sleeping"]
    /\ UNCHANGED <<active, loop, settled, raced, brokerVars, clock, acks, wire, known, troubles>>

-----------------------------------------------------------------------------
(* The broker.                                                             *)

\* The answer reaches the sensor if it still waits for it; it carries no stamp.
Answer(m, id) ==
    LET c == loop[m.sensor]
    IN IF c.pc = "calling" /\ c.event = m.event /\ c.to = m.broker
       THEN {[sensor |-> m.sensor, id |-> id]}
       ELSE {}

\* handleSensorConn: telemetry is only acknowledged; an event becomes a request
\* with an ID of its own, stamped by the broker, and is acknowledged before it
\* is sent on.
HandleSensorEvent(m) ==
    LET k == m.broker
        ts == Update(clock[k], m.ts)
        q == [id |-> Cardinality(created) + 1, sensor |-> m.sensor, event |-> m.event,
              sent |-> m.ts, stamp |-> ts, broker |-> k, life |-> life[k]]
        made == IF m.kind = "event" THEN {q} ELSE {}
    IN /\ inbox' = inbox \ {m}
       /\ clock' = [clock EXCEPT ![k] = ts]
       /\ created' = created \cup made
       /\ outbox' = outbox \cup made
       /\ acks' = acks \cup Answer(m, IF m.kind = "event" THEN q.id ELSE 0)
       /\ UNCHANGED <<sensorVars, up, life, dropped, wire, known, troubles>>

\* propagateRequest: one message to each base; those outside P are not reached
\* (a trouble), which is only logged.
Propagate(q, P) ==
    /\ IF P = Base THEN UNCHANGED troubles ELSE Trouble
    /\ clock' = [clock EXCEPT ![q.broker] = Tick(@)]
    /\ outbox' = outbox \ {q}
    /\ wire' = wire \cup {[type |-> "NEW_REQUEST", to |-> b, request |-> q] : b \in P}
    /\ dropped' = IF P = {} THEN dropped \cup {q} ELSE dropped
    /\ UNCHANGED <<sensorVars, up, life, inbox, created, acks, known>>

\* Unread messages, the clock, and requests not yet sent on are gone.
BrokerCrashes(k) ==
    /\ k \in up
    /\ Trouble
    /\ up' = up \ {k}
    /\ clock' = [clock EXCEPT ![k] = Start]
    /\ inbox' = {m \in inbox : m.broker # k}
    /\ outbox' = {q \in outbox : q.broker # k}
    /\ dropped' = dropped \cup {q \in outbox : q.broker = k}
    /\ UNCHANGED <<sensorVars, life, created, acks, wire, known>>

BrokerStarts(k) ==
    /\ k \notin up
    /\ up' = up \cup {k}
    /\ life' = [life EXCEPT ![k] = @ + 1]
    /\ UNCHANGED <<sensorVars, inbox, outbox, created, dropped, clock, acks, wire, known, troubles>>

-----------------------------------------------------------------------------
(* The bases.                                                              *)

\* (mutant: what a broker has sent is not passed on)
KeepToMyself(m) ==
    /\ known' = [known EXCEPT ![m.to] = @ \cup {m.request}]
    /\ wire' = wire \ {m}
    /\ UNCHANGED <<sensorVars, brokerVars, clock, acks, troubles>>

\* NEW_REQUEST is passed on by the base that did not know it, QUEUE_ADD is not.
HandleRequest(m) ==
    LET news == m.type = "NEW_REQUEST" /\ m.request \notin known[m.to]
    IN /\ known' = [known EXCEPT ![m.to] = @ \cup {m.request}]
       /\ wire' = (wire \ {m}) \cup
              (IF news
               THEN {[type |-> "QUEUE_ADD", to |-> b, request |-> m.request] : b \in Base \ {m.to}}
               ELSE {})
       /\ UNCHANGED <<sensorVars, brokerVars, clock, acks, troubles>>

-----------------------------------------------------------------------------
ReadAnswer(s) == \E a \in acks : a.sensor = s /\ (Confirmed(a) \/ FallbackConfirmed(a))

Next ==
    \/ \E s \in Sensor, kind \in {"telemetry", "event"} : SendEvent(s, kind)
    \/ \E s \in Sensor : CallFails(s) \/ CallBreaks(s) \/ ReadAnswer(s) \/ FlagFailed(s)
    \/ \E s \in Sensor : ReturnToPrimary(s) \/ FlagReturned(s)
    \/ \E m \in inbox : HandleSensorEvent(m)
    \/ \E q \in outbox, P \in SUBSET Base : Propagate(q, P)
    \/ \E m \in wire : HandleRequest(m)
    \/ \E k \in Broker : BrokerCrashes(k) \/ BrokerStarts(k)

Spec == Init /\ [][Next]_vars

\* Processes that run carry on what they have begun; calls end.  Nothing is
\* assumed of events, troubles or restarts.
Fairness ==
    /\ \A s \in Sensor :
          /\ WF_vars(CallFails(s))
          /\ WF_vars(ReadAnswer(s))
          /\ WF_vars(FlagFailed(s))
          /\ WF_vars(ReturnToPrimary(s))
          /\ WF_vars(FlagReturned(s))
    /\ \A k \in Broker : /\ WF_vars(\E m \in inbox : m.broker = k /\ HandleSensorEvent(m))
                         /\ WF_vars(\E q \in outbox : q.broker = k /\ Propagate(q, Base))
    /\ \A b \in Base : WF_vars(\E m \in wire : m.to = b /\ HandleRequest(m))

FairSpec == Spec /\ Fairness

-----------------------------------------------------------------------------
(* Properties.                                                             *)

SensorEvent == [sensor : Sensor, event : Nat, ts : Nat,
                kind : {"telemetry", "event"}, broker : Broker]
NewRequest == [id : Nat, sensor : Sensor, event : Nat, sent : Nat, stamp : Nat,
               broker : Broker, life : Nat]
LoopState ==
    [pc : {"resting"}, event : Nat] \cup
    [pc : {"calling", "adopting"}, event : Nat, ts : Nat, kind : {"telemetry", "event"},
     to : Broker, todo : Seq(Broker), fallback : BOOLEAN]

TypeOK ==
    /\ up \subseteq Broker
    /\ life \in [Broker -> Nat]
    /\ clock \in [Sensor \cup Broker -> Nat]
    /\ active \in [Sensor -> Broker]
    /\ failed \in [Sensor -> BOOLEAN]
    /\ loop \in [Sensor -> LoopState]
    /\ watch \in [Sensor -> {"sleeping", "returning"}]
    /\ inbox \subseteq SensorEvent
    /\ acks \subseteq [sensor : Sensor, id : Nat]
    /\ created \subseteq NewRequest
    /\ outbox \subseteq created /\ settled \subseteq created /\ dropped \subseteq created
    /\ wire \subseteq [type : {"NEW_REQUEST", "QUEUE_ADD"}, to : Base, request : created]
    /\ known \in [Base -> SUBSET created]
    /\ raced \subseteq Sensor
    /\ troubles \in 0..MaxTroubles

\* The stamps a broker gives in one life are all different and later than the
\* event's own, and an event whose acknowledgement was read comes before the
\* later events of its sensor (broker main.go:73, 92; README.md:57).
StampsFollowEvents ==
    /\ \A q \in created : q.stamp > q.sent
    /\ \A p, q \in created : (p.broker = q.broker /\ p.life = q.life) =>
          /\ p.stamp = q.stamp => p = q
          /\ (p.sensor = q.sensor /\ p.event < q.event /\ p \in settled) =>
                p.stamp < q.stamp

\* A sensor that has left its primary broker knows it, and so will look for it
\* (sensor main.go:110), unless its two goroutines wrote at the same time.
FlagTells ==
    \A s \in Sensor :
        (loop[s].pc # "adopting" /\ watch[s] # "returning" /\ s \notin raced) =>
            (failed[s] <=> active[s] # Primary[s])

-----------------------------------------------------------------------------
(* The inductive invariant of the proofs: what the two properties rest on. *)

\* Requests have numbers of their own, 1, 2, ... (uuid.New in the code).
Numbered ==
    /\ IsFiniteSet(created)
    /\ \A q \in created : q.id \in 1..Cardinality(created)
    /\ \A p, q \in created : p.id = q.id => p = q

\* In one life a broker's clock is never behind a stamp it has given, and
\* nothing is ahead of the sensor's loop.
NothingAhead ==
    /\ \A q \in created :
          /\ q.life <= life[q.broker]
          /\ (q.broker \in up /\ q.life = life[q.broker]) => q.stamp <= clock[q.broker]
          /\ q.event <= loop[q.sensor].event
    /\ \A m \in inbox : m.broker \in up /\ m.event <= loop[m.sensor].event

\* The messages of the event a sensor is sending are alike.
OneEvent ==
    \A m \in inbox :
        LET c == loop[m.sensor]
        IN (c.pc = "calling" /\ c.event = m.event) => m.ts = c.ts /\ m.kind = c.kind

\* An answer is to the call its sensor waits in, and is the only one.
Awaited ==
    /\ \A a \in acks :
          LET c == loop[a.sensor]
          IN /\ c.pc = "calling"
             /\ a.id \in 0..Cardinality(created)
             /\ \A q \in created : q.id = a.id => q.sensor = a.sensor /\ q.event = c.event
             /\ \A m \in inbox : m.sensor = a.sensor => m.event # c.event \/ m.broker # c.to
    /\ \A a, e \in acks : a.sensor = e.sensor => a = e

\* A fallback broker is not the primary one; what the goroutine that goes on to
\* write the flag has written stands, if the other does not interfere.
Flagged ==
    \A s \in Sensor :
        LET c == loop[s]
        IN /\ c.pc \in {"calling", "adopting"} =>
                 /\ c.fallback => c.to # Primary[s]
                 /\ \A i \in DOMAIN c.todo : c.todo[i] # Primary[s]
           /\ c.pc = "adopting" => c.fallback
           /\ (c.pc = "adopting" /\ watch[s] = "returning") => s \in raced
           /\ (c.pc = "adopting" /\ s \notin raced) => active[s] = c.to
           /\ (watch[s] = "returning" /\ s \notin raced) => active[s] = Primary[s]

IntakeInv == /\ TypeOK
             /\ Numbered /\ NothingAhead /\ OneEvent /\ Awaited /\ StampsFollowEvents
             /\ Flagged /\ FlagTells

-----------------------------------------------------------------------------
\* Once the last event has come, every base gets to know every request that was
\* acknowledged, though the broker may have reached only one of them, unless it
\* died first or reached none (broker main.go:100-105, 137).
AcknowledgedArrives == <>[](\A b \in Base : settled \ dropped \subseteq known[b])

\* A sensor does not stay away from a primary broker that is up.
SensorsReturn ==
    \A s \in Sensor : []<>(active[s] = Primary[s] \/ Primary[s] \notin up \/ s \in raced)
=============================================================================
