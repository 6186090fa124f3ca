---------------------------- MODULE Intake_proofs ----------------------------
(***************************************************************************)
(* Stamps follow the order of a sensor's events, and a sensor that has     *)
(* left its primary broker knows it (IntakeInv), for any sensors, brokers  *)
(* and bases and any number of events and troubles.  What carries the      *)
(* argument: an answer is to the event its sensor is waiting for, so what  *)
(* is settled is older than all that is still to be made, and within one   *)
(* life of a broker no stamp is ahead of its clock.                        *)
(***************************************************************************)
EXTENDS Intake, FiniteSetTheorems, SequenceTheorems, TLAPS

\* No clock of a broker goes back.
ClocksGrow == \A k \in Broker : clock[k] <= clock'[k]

-----------------------------------------------------------------------------
(* The sensor's loop.                                                      *)

LEMMA LoopTypes ==
    ASSUME TypeOK, NEW s \in Sensor
    PROVE  /\ loop[s] \in LoopState /\ loop[s].event \in Nat
           /\ Resting(loop[s].event) \in LoopState
           /\ loop[s].pc \in {"resting", "calling", "adopting"}
           /\ loop[s].pc # "resting" =>
                 /\ loop[s] \in [pc : {"calling", "adopting"}, event : Nat, ts : Nat,
                                 kind : {"telemetry", "event"}, to : Broker,
                                 todo : Seq(Broker), fallback : BOOLEAN]
BY DEF TypeOK, LoopState, Resting

\* The loop of s goes on with "call", of the same event or of a later one, and
\* messages M of that event are sent; nobody answers the call yet.
GoesOn(s, call, M) ==
    /\ loop' = [loop EXCEPT ![s] = call]
    /\ inbox' = inbox \cup M
    /\ acks' = {a \in acks : a.sensor # s}
    /\ UNCHANGED <<up, life, created>>

\* What may be sent: alike, and to a broker that is up.
FitsCall(s, call, m) ==
    /\ m.sensor = s /\ m.event = call.event /\ m.broker \in up
    /\ m.ts = call.ts /\ m.kind = call.kind

LEMMA LoopGoesOn ==
    ASSUME TypeOK, NothingAhead, OneEvent, Awaited, ClocksGrow, clock' \in [Sensor \cup Broker -> Nat],
           NEW s \in Sensor, NEW call \in LoopState, NEW M \in SUBSET SensorEvent,
           GoesOn(s, call, M), loop[s].event <= call.event,
           \A m \in M : FitsCall(s, call, m),
           \A m \in inbox : (m.sensor = s /\ m.event = call.event /\ call.pc = "calling") =>
               m.ts = call.ts /\ m.kind = call.kind
    PROVE  NothingAhead' /\ OneEvent' /\ Awaited'
<1> USE DEF GoesOn
<1>1. loop'[s] = call /\ \A r \in Sensor \ {s} : loop'[r] = loop[r]
  BY DEF TypeOK
<1>2. \A r \in Sensor : loop[r].event \in Nat /\ loop[r].event <= loop'[r].event
  BY <1>1, LoopTypes
<1>3. call.event \in Nat
  BY DEF LoopState
<1>4. \A m \in inbox' : /\ m.sensor \in Sensor /\ m.event \in Nat
                        /\ m \in inbox \/ m \in M
  BY DEF TypeOK, SensorEvent
<1>5. NothingAhead'
  <2>1. ASSUME NEW q \in created
        PROVE  /\ q.life <= life[q.broker]
               /\ (q.broker \in up /\ q.life = life[q.broker]) => q.stamp <= clock'[q.broker]
               /\ q.event <= loop'[q.sensor].event
    <3>1. q \in NewRequest
      BY DEF TypeOK
    <3>2. /\ q.broker \in Broker /\ q.sensor \in Sensor
          /\ q.stamp \in Nat /\ q.event \in Nat
      BY <3>1 DEF NewRequest
    <3>3. /\ q.life <= life[q.broker]
          /\ (q.broker \in up /\ q.life = life[q.broker]) => q.stamp <= clock[q.broker]
          /\ q.event <= loop[q.sensor].event
      BY DEF NothingAhead
    <3>4. clock[q.broker] \in Nat /\ clock'[q.broker] \in Nat /\ clock[q.broker] <= clock'[q.broker]
      BY <3>2 DEF ClocksGrow, TypeOK
    <3>5. loop'[q.sensor].event \in Nat
      BY <1>1, <1>3, <3>2, LoopTypes
    <3> QED BY <1>2, <3>2, <3>3, <3>4, <3>5
  <2>2. ASSUME NEW m \in inbox'
        PROVE  m.broker \in up /\ m.event <= loop'[m.sensor].event
    <3>1. CASE m \in inbox
      <4>1. m.broker \in up /\ m.event <= loop[m.sensor].event
        BY <3>1 DEF NothingAhead
      <4>2. loop'[m.sensor].event \in Nat
        BY <1>1, <1>3, <1>4, LoopTypes
      <4> QED BY <1>2, <1>4, <4>1, <4>2
    <3>2. CASE m \in M
      BY <1>1, <1>3, <3>2 DEF FitsCall
    <3> QED BY <1>4, <3>1, <3>2
  <2> QED BY <2>1, <2>2 DEF NothingAhead
<1>6. OneEvent'
  <2>1. ASSUME NEW m \in inbox', loop'[m.sensor].pc = "calling",
               loop'[m.sensor].event = m.event
        PROVE  m.ts = loop'[m.sensor].ts /\ m.kind = loop'[m.sensor].kind
    <3>1. CASE m.sensor = s
      BY <1>1, <1>4, <2>1, <3>1 DEF FitsCall
    <3>2. CASE m.sensor # s
      BY <1>1, <1>4, <2>1, <3>2 DEF FitsCall, OneEvent
    <3> QED BY <3>1, <3>2
  <2> QED BY <2>1 DEF OneEvent
<1>7. Awaited'
  <2>1. \A a \in acks' : a \in acks /\ a.sensor # s /\ a.sensor \in Sensor
    BY DEF TypeOK
  <2>2. \A a \in acks' : loop'[a.sensor] = loop[a.sensor]
    BY <1>1, <2>1
  <2>3. \A a \in acks' : \A m \in inbox' : m.sensor = a.sensor => m \in inbox
    BY <1>4, <2>1 DEF FitsCall
  <2> QED BY <2>1, <2>2, <2>3 DEF Awaited
<1> QED BY <1>5, <1>6, <1>7

\* What the loop of s is doing does not touch the flag, nor what the others wrote.
LEMMA LoopKeepsFlags ==
    ASSUME TypeOK, Flagged, FlagTells, NEW s \in Sensor, NEW call \in LoopState,
           loop' = [loop EXCEPT ![s] = call], UNCHANGED <<active, failed, watch, raced>>,
           loop[s].pc # "adopting", call.pc # "adopting",
           call.pc = "calling" =>
               /\ call.fallback => call.to # Primary[s]
               /\ \A i \in DOMAIN call.todo : call.todo[i] # Primary[s]
    PROVE  Flagged' /\ FlagTells'
<1>1. loop'[s] = call /\ \A r \in Sensor \ {s} : loop'[r] = loop[r]
  BY DEF TypeOK
<1>2. Flagged'
  <2> SUFFICES ASSUME NEW r \in Sensor
               PROVE  LET c == loop'[r]
                      IN /\ c.pc \in {"calling", "adopting"} =>
                               /\ c.fallback => c.to # Primary[r]
                               /\ \A i \in DOMAIN c.todo : c.todo[i] # Primary[r]
                         /\ c.pc = "adopting" => c.fallback
                         /\ (c.pc = "adopting" /\ watch[r] = "returning") => r \in raced
                         /\ (c.pc = "adopting" /\ r \notin raced) => active[r] = c.to
                         /\ (watch[r] = "returning" /\ r \notin raced) => active[r] = Primary[r]
    BY DEF Flagged
  <2>1. CASE r = s
    BY <1>1, <2>1 DEF Flagged
  <2>2. CASE r # s
    BY <1>1, <2>2 DEF Flagged
  <2> QED BY <2>1, <2>2
<1>3. FlagTells'
  BY <1>1 DEF FlagTells
<1> QED BY <1>2, <1>3

\* Types and numbers when nothing is created.
LEMMA CreatedStands ==
    ASSUME Numbered, UNCHANGED created
    PROVE  Numbered'
BY DEF Numbered

\* sendEvent begins (sensor main.go:65-90).
LEMMA SendStep ==
    ASSUME IntakeInv, NEW s \in Sensor, NEW kind \in {"telemetry", "event"}, SendEvent(s, kind)
    PROVE  IntakeInv'
<1> DEFINE n == loop[s].event + 1
           ts == Tick(clock[s])
           call == Calling(n, ts, kind, active[s], Peers[s], FALSE)
           M == Sent(s, call)
<1>1. /\ TypeOK /\ Numbered /\ NothingAhead /\ OneEvent /\ Awaited /\ StampsFollowEvents
      /\ Flagged /\ FlagTells
  BY DEF IntakeInv
<1>2. /\ loop[s].pc = "resting"
      /\ clock' = [clock EXCEPT ![s] = ts]
      /\ loop' = [loop EXCEPT ![s] = call] /\ inbox' = inbox \cup M
      /\ UNCHANGED <<active, failed, watch, settled, raced, up, life, outbox, created,
                     dropped, acks, wire, known, troubles>>
  BY DEF SendEvent, Calls
<1>3. /\ loop[s].event \in Nat /\ clock[s] \in Nat /\ active[s] \in Broker
      /\ Peers[s] \in Seq(Broker)
      /\ \A i \in DOMAIN Peers[s] : Peers[s][i] # Primary[s]
  BY <1>1, LoopTypes, PeersAssumption DEF TypeOK
<1>4. n \in Nat /\ ts \in Nat /\ ts = clock[s] + 1 /\ loop[s].event < n
  BY <1>3 DEF Tick
<1> HIDE DEF n, ts
<1>5. /\ call \in LoopState /\ call.pc = "calling" /\ call.event = n /\ call.ts = ts
      /\ call.kind = kind /\ call.to \in Broker /\ ~call.fallback /\ call.todo = Peers[s]
  BY <1>3, <1>4 DEF Calling, LoopState
<1> HIDE DEF call
<1>6. M \in SUBSET SensorEvent /\ \A m \in M : FitsCall(s, call, m)
  BY <1>4, <1>5 DEF Sent, SensorEvent, FitsCall
<1> HIDE DEF M
<1>7. clock' \in [Sensor \cup Broker -> Nat] /\ ClocksGrow
  <2>1. clock \in [Sensor \cup Broker -> Nat]
    BY <1>1 DEF TypeOK
  <2> QED BY <1>2, <1>3, <1>4, <2>1 DEF ClocksGrow
<1>8. \A m \in inbox : m.sensor = s => m.event \in Nat /\ m.event <= loop[s].event
  BY <1>1 DEF NothingAhead, TypeOK, SensorEvent
<1>9. \A m \in inbox : ~(m.sensor = s /\ m.event = n)
  BY <1>3, <1>4, <1>8
<1>10. acks' = {a \in acks : a.sensor # s}
  BY <1>1, <1>2 DEF Awaited
<1>11. NothingAhead' /\ OneEvent' /\ Awaited'
  <2>1. GoesOn(s, call, M)
    BY <1>2, <1>10 DEF GoesOn
  <2>2. /\ loop[s].event <= call.event
        /\ \A m \in inbox : (m.sensor = s /\ m.event = call.event /\ call.pc = "calling") =>
               m.ts = call.ts /\ m.kind = call.kind
    BY <1>3, <1>4, <1>5, <1>9
  <2> QED BY <1>1, <1>5, <1>6, <1>7, <2>1, <2>2, LoopGoesOn
<1>12. Flagged' /\ FlagTells'
  BY <1>1, <1>2, <1>3, <1>5, LoopKeepsFlags
<1>13. TypeOK'
  BY <1>1, <1>2, <1>5, <1>6, <1>7 DEF TypeOK
<1>14. Numbered' /\ StampsFollowEvents'
  BY <1>1, <1>2, CreatedStands DEF StampsFollowEvents
<1> QED BY <1>11, <1>12, <1>13, <1>14 DEF IntakeInv

\* No answer: the next broker, or the end of the event (sensor main.go:91-118).
LEMMA TryStep ==
    ASSUME IntakeInv, NEW s \in Sensor, CallFails(s) \/ CallBreaks(s)
    PROVE  IntakeInv'
<1> DEFINE c == loop[s]
<1>1. /\ TypeOK /\ Numbered /\ NothingAhead /\ OneEvent /\ Awaited /\ StampsFollowEvents
      /\ Flagged /\ FlagTells
  BY DEF IntakeInv
<1>2. /\ c.pc = "calling" /\ TryNext(s)
      /\ acks' = {a \in acks : a.sensor # s}
      /\ Trouble \/ UNCHANGED troubles
  BY DEF CallFails, CallBreaks, Waiting
<1>3. /\ c \in [pc : {"calling", "adopting"}, event : Nat, ts : Nat,
                kind : {"telemetry", "event"}, to : Broker, todo : Seq(Broker),
                fallback : BOOLEAN]
      /\ c.event \in Nat /\ Resting(c.event) \in LoopState
  BY <1>1, <1>2, LoopTypes
<1>4. \A i \in DOMAIN c.todo : c.todo[i] # Primary[s]
  BY <1>1, <1>2 DEF Flagged
<1>5. PICK call \in LoopState, M \in SUBSET SensorEvent :
         /\ loop' = [loop EXCEPT ![s] = call] /\ inbox' = inbox \cup M
         /\ call.event = c.event /\ call.pc \in {"resting", "calling"}
         /\ call.pc = "calling" =>
               /\ call.ts = c.ts /\ call.kind = c.kind
               /\ call.to # Primary[s]
               /\ \A i \in DOMAIN call.todo : call.todo[i] # Primary[s]
         /\ \A m \in M : FitsCall(s, call, m)
  <2>1. CASE \E i \in DOMAIN c.todo :
                Calls(s, [c EXCEPT !.to = c.todo[i], !.fallback = TRUE,
                                   !.todo = SubSeq(c.todo, i + 1, Len(c.todo))])
    <3>1. PICK i \in DOMAIN c.todo :
                Calls(s, [c EXCEPT !.to = c.todo[i], !.fallback = TRUE,
                                   !.todo = SubSeq(c.todo, i + 1, Len(c.todo))])
      BY <2>1
    <3> DEFINE rest == SubSeq(c.todo, i + 1, Len(c.todo))
               call == [c EXCEPT !.to = c.todo[i], !.fallback = TRUE, !.todo = rest]
    <3>2. /\ i \in 1..Len(c.todo) /\ Len(c.todo) \in Nat
          /\ \A j \in 1..Len(c.todo) : c.todo[j] \in Broker /\ c.todo[j] # Primary[s]
          /\ c.todo \in Seq(Broker)
      BY <1>3, <1>4, LenProperties, ElementOfSeq
    <3>3. i + 1 \in 1..Len(c.todo) + 1 /\ Len(c.todo) \in (i + 1) - 1..Len(c.todo)
      BY <3>2
    <3>4. rest \in Seq(Broker) /\ \A j \in DOMAIN rest : rest[j] # Primary[s]
      <4>1. \A j \in (i + 1)..Len(c.todo) : c.todo[j] \in Broker \ {Primary[s]}
        BY <3>2
      <4>2. rest \in Seq(Broker \ {Primary[s]})
        BY <3>2, <3>3, <4>1, SubSeqProperties
      <4>3. rest \in Seq(Broker)
        BY <3>2, <3>3, SubSeqProperties
      <4>4. \A j \in 1..Len(rest) : rest[j] \in Broker \ {Primary[s]}
        BY <4>2, ElementOfSeq
      <4>5. DOMAIN rest = 1..Len(rest)
        BY <4>3, LenProperties
      <4> QED BY <4>3, <4>4, <4>5
    <3> HIDE DEF rest
    <3>5. /\ call \in LoopState /\ call.pc = "calling" /\ call.event = c.event
          /\ call.ts = c.ts /\ call.kind = c.kind /\ call.to = c.todo[i]
          /\ call.todo = rest
          /\ call.event \in Nat /\ call.ts \in Nat /\ call.kind \in {"telemetry", "event"}
          /\ call.to \in Broker
      BY <1>2, <1>3, <3>2, <3>4 DEF LoopState
    <3>6. loop' = [loop EXCEPT ![s] = call] /\ inbox' = inbox \cup Sent(s, call)
      BY <3>1 DEF Calls, rest
    <3> HIDE DEF call
    <3>7. Sent(s, call) \in SUBSET SensorEvent /\ \A m \in Sent(s, call) : FitsCall(s, call, m)
      BY <3>5 DEF Sent, SensorEvent, FitsCall
    <3> QED BY <3>2, <3>4, <3>5, <3>6, <3>7
  <2>2. CASE loop' = [loop EXCEPT ![s] = Resting(c.event)] /\ UNCHANGED inbox
    <3>1. Resting(c.event).event = c.event /\ Resting(c.event).pc = "resting"
      BY DEF Resting
    <3> DEFINE call == Resting(c.event)
    <3>2. /\ call \in LoopState /\ call.event = c.event /\ call.pc = "resting"
          /\ loop' = [loop EXCEPT ![s] = call]
      BY <1>3, <2>2, <3>1
    <3> HIDE DEF call
    <3>3. {} \in SUBSET SensorEvent /\ inbox' = inbox \cup {}
      BY <2>2
    <3>4. \A m \in {} : FitsCall(s, call, m)
      OBVIOUS
    <3>5. \E M \in SUBSET SensorEvent : inbox' = inbox \cup M /\ \A m \in M : FitsCall(s, call, m)
      BY <3>3, <3>4
    <3> QED BY <3>2, <3>5
  <2> QED BY <1>2, <2>1, <2>2 DEF TryNext
<1>6. UNCHANGED <<active, failed, watch, settled, raced, up, life, outbox, created,
                  dropped, clock, wire, known>>
  BY <1>2 DEF TryNext
<1>7. clock \in [Sensor \cup Broker -> Nat] /\ ClocksGrow
  BY <1>1, <1>6 DEF ClocksGrow, TypeOK
<1>8. \A m \in inbox : (m.sensor = s /\ m.event = call.event /\ call.pc = "calling") =>
          m.ts = call.ts /\ m.kind = call.kind
  BY <1>1, <1>2, <1>5 DEF OneEvent
<1>9. NothingAhead' /\ OneEvent' /\ Awaited'
  <2>1. GoesOn(s, call, M)
    BY <1>2, <1>5, <1>6 DEF GoesOn
  <2>2. /\ clock' \in [Sensor \cup Broker -> Nat] /\ loop[s].event <= call.event
        /\ \A m \in M : FitsCall(s, call, m)
    BY <1>3, <1>5, <1>6, <1>7
  <2> QED BY <1>1, <1>7, <1>8, <2>1, <2>2, LoopGoesOn
<1>10. Flagged' /\ FlagTells'
  BY <1>1, <1>2, <1>5, <1>6, LoopKeepsFlags
<1>11. TypeOK'
  <2>1. troubles' \in 0..MaxTroubles
    BY <1>1, <1>2, BoundsAssumption DEF Trouble, TypeOK
  <2>2. loop' \in [Sensor -> LoopState] /\ inbox' \subseteq SensorEvent
        /\ acks' \subseteq [sensor : Sensor, id : Nat]
    BY <1>1, <1>2, <1>5 DEF TypeOK
  <2> QED BY <1>1, <1>6, <2>1, <2>2 DEF TypeOK
<1>12. Numbered' /\ StampsFollowEvents'
  BY <1>1, <1>6, CreatedStands DEF StampsFollowEvents
<1> QED BY <1>9, <1>10, <1>11, <1>12 DEF IntakeInv

\* What is settled is older than all the events of its sensor still to come
\* (sensor main.go:100).
LEMMA SettleKeeps ==
    ASSUME TypeOK, NothingAhead, Awaited, StampsFollowEvents,
           NEW a \in acks, Settle(a), UNCHANGED created
    PROVE  StampsFollowEvents' /\ settled' \subseteq created
<1>1. settled' = settled \cup {q \in created : q.id = a.id} /\ settled \subseteq created
  BY DEF Settle, TypeOK
<1>2. ASSUME NEW p \in created, NEW q \in created, p.id = a.id, p.sensor = q.sensor
      PROVE  ~(p.event < q.event)
  <2>1. p.sensor = a.sensor /\ p.event = loop[a.sensor].event
    BY <1>2 DEF Awaited
  <2>2. q.event <= loop[q.sensor].event
    BY DEF NothingAhead
  <2>3. p.event \in Nat /\ q.event \in Nat
    BY DEF TypeOK, NewRequest
  <2> QED BY <1>2, <2>1, <2>2, <2>3
<1>3. \A p, q \in created : (p.broker = q.broker /\ p.life = q.life) =>
          /\ p.stamp = q.stamp => p = q
          /\ (p.sensor = q.sensor /\ p.event < q.event /\ p \in settled') => p.stamp < q.stamp
  BY <1>1, <1>2 DEF StampsFollowEvents
<1> QED BY <1>1, <1>3 DEF StampsFollowEvents

\* The answer is read (sensor main.go:97-107).
LEMMA AnswerStep ==
    ASSUME IntakeInv, NEW s \in Sensor, ReadAnswer(s)
    PROVE  IntakeInv'
<1> DEFINE c == loop[s]
<1>1. /\ TypeOK /\ Numbered /\ NothingAhead /\ OneEvent /\ Awaited /\ StampsFollowEvents
      /\ Flagged /\ FlagTells
  BY DEF IntakeInv
<1>2. PICK a \in acks : a.sensor = s /\ (Confirmed(a) \/ FallbackConfirmed(a))
  BY DEF ReadAnswer
<1>3. /\ c.pc = "calling" /\ acks' = acks \ {a} /\ Settle(a)
      /\ UNCHANGED <<failed, watch, brokerVars, clock, wire, known, troubles>>
  BY <1>1, <1>2 DEF Confirmed, FallbackConfirmed, Awaited
<1>4. acks' = {e \in acks : e.sensor # s}
  BY <1>1, <1>2, <1>3 DEF Awaited
<1>5. StampsFollowEvents' /\ settled' \subseteq created
  BY <1>1, <1>3, SettleKeeps DEF brokerVars
<1>6. /\ c \in [pc : {"calling", "adopting"}, event : Nat, ts : Nat,
                kind : {"telemetry", "event"}, to : Broker, todo : Seq(Broker),
                fallback : BOOLEAN]
      /\ c.event \in Nat /\ Resting(c.event) \in LoopState
  BY <1>1, <1>3, LoopTypes
<1>7. PICK call \in LoopState :
         /\ loop' = [loop EXCEPT ![s] = call] /\ call.event = c.event
         /\ \/ call.pc = "resting" /\ UNCHANGED <<active, raced>>
            \/ /\ call.pc = "adopting" /\ call.fallback /\ c.fallback /\ call.to = c.to
               /\ call.todo = c.todo
               /\ active' = [active EXCEPT ![s] = c.to]
               /\ raced' = IF watch[s] = "returning" THEN raced \cup {s} ELSE raced
  <2>1. CASE Confirmed(a)
    <3> DEFINE call == Resting(c.event)
    <3>1. call.event = c.event /\ call.pc = "resting"
      BY DEF Resting
    <3>2. loop' = [loop EXCEPT ![s] = call] /\ UNCHANGED <<active, raced>>
      BY <1>2, <2>1 DEF Confirmed
    <3> QED BY <1>6, <3>1, <3>2
  <2>2. CASE FallbackConfirmed(a)
    <3> DEFINE call == [c EXCEPT !.pc = "adopting"]
    <3>1. /\ call \in LoopState /\ call.event = c.event /\ call.pc = "adopting"
          /\ call.fallback = c.fallback /\ call.to = c.to /\ call.todo = c.todo
      BY <1>6 DEF LoopState
    <3>2. /\ loop' = [loop EXCEPT ![s] = call] /\ c.fallback
          /\ active' = [active EXCEPT ![s] = c.to]
          /\ raced' = IF watch[s] = "returning" THEN raced \cup {s} ELSE raced
      BY <1>2, <2>2 DEF FallbackConfirmed
    <3> HIDE DEF call
    <3> QED BY <3>1, <3>2
  <2> QED BY <1>2, <2>1, <2>2
<1>8. TypeOK'
  <2>1. /\ loop' \in [Sensor -> LoopState] /\ active' \in [Sensor -> Broker]
        /\ raced' \subseteq Sensor
    BY <1>1, <1>6, <1>7 DEF TypeOK
  <2> QED BY <1>1, <1>3, <1>5, <2>1 DEF TypeOK, brokerVars
<1>9. Numbered'
  BY <1>1, <1>3, CreatedStands DEF brokerVars
<1>10. NothingAhead' /\ OneEvent' /\ Awaited'
  <2> DEFINE M == {}
  <2>1. M \in SUBSET SensorEvent /\ inbox' = inbox \cup M /\ \A m \in M : FitsCall(s, call, m)
    BY <1>3 DEF brokerVars
  <2>2. clock' \in [Sensor \cup Broker -> Nat] /\ ClocksGrow
    BY <1>1, <1>3 DEF ClocksGrow, TypeOK
  <2> HIDE DEF M
  <2>3. GoesOn(s, call, M)
    BY <1>3, <1>4, <1>7, <2>1 DEF GoesOn, brokerVars
  <2>4. loop[s].event <= call.event /\ call.pc # "calling"
    BY <1>6, <1>7
  <2> QED BY <1>1, <2>1, <2>2, <2>3, <2>4, LoopGoesOn
<1>11. Flagged'
  <2>1. \A r \in Sensor \ {s} : /\ loop'[r] = loop[r] /\ active'[r] = active[r]
                                /\ r \in raced' <=> r \in raced
    BY <1>1, <1>7 DEF TypeOK
  <2>2. loop'[s] = call /\ watch' = watch /\ c.pc = "calling"
    BY <1>1, <1>3, <1>7 DEF TypeOK
  <2>3. /\ c.fallback => c.to # Primary[s]
        /\ \A i \in DOMAIN c.todo : c.todo[i] # Primary[s]
        /\ (watch[s] = "returning" /\ s \notin raced) => active[s] = Primary[s]
    BY <1>1, <1>3 DEF Flagged
  <2>4. CASE call.pc = "resting" /\ UNCHANGED <<active, raced>>
    BY <1>1, <2>1, <2>2, <2>3, <2>4 DEF Flagged
  <2>5. CASE /\ call.pc = "adopting" /\ call.fallback /\ c.fallback /\ call.to = c.to
             /\ call.todo = c.todo
             /\ active' = [active EXCEPT ![s] = c.to]
             /\ raced' = IF watch[s] = "returning" THEN raced \cup {s} ELSE raced
    <3>1. active'[s] = c.to /\ (watch[s] = "returning" => s \in raced')
      BY <1>1, <2>5 DEF TypeOK
    <3> QED BY <1>1, <2>1, <2>2, <2>3, <2>5, <3>1 DEF Flagged
  <2> QED BY <1>7, <2>4, <2>5
<1>12. FlagTells'
  <2>1. \A r \in Sensor \ {s} : /\ loop'[r] = loop[r] /\ active'[r] = active[r]
                                /\ r \in raced' <=> r \in raced
    BY <1>1, <1>7 DEF TypeOK
  <2>2. /\ loop'[s] = call /\ watch' = watch /\ failed' = failed /\ c.pc = "calling"
        /\ call.pc = "adopting" \/ UNCHANGED <<active, raced>>
    BY <1>1, <1>3, <1>7 DEF TypeOK
  <2> QED BY <1>1, <2>1, <2>2 DEF FlagTells
<1> QED BY <1>5, <1>8, <1>9, <1>10, <1>11, <1>12 DEF IntakeInv

-----------------------------------------------------------------------------
(* The flag (sensor main.go:104-106, 120-140).                             *)

LEMMA FlagStep ==
    ASSUME IntakeInv, NEW s \in Sensor, FlagFailed(s)
    PROVE  IntakeInv'
<1>1. /\ TypeOK /\ Numbered /\ NothingAhead /\ OneEvent /\ Awaited /\ StampsFollowEvents
      /\ Flagged /\ FlagTells
  BY DEF IntakeInv
<1>2. /\ loop[s].pc = "adopting"
      /\ failed' = [failed EXCEPT ![s] = TRUE]
      /\ UNCHANGED <<active, watch, settled, raced, brokerVars, clock, acks, wire, known, troubles>>
  BY DEF FlagFailed
<1>3. loop[s].event \in Nat
  BY <1>1, LoopTypes
<1>4. PICK call \in LoopState : /\ loop' = [loop EXCEPT ![s] = call]
                                /\ call.pc = "resting" /\ call.event = loop[s].event
  BY <1>1, LoopTypes DEF FlagFailed, Resting
<1>5. TypeOK'
  BY <1>1, <1>2, <1>4 DEF TypeOK, brokerVars
<1>6. Numbered' /\ StampsFollowEvents'
  BY <1>1, <1>2, CreatedStands DEF StampsFollowEvents, brokerVars
<1>7. NothingAhead' /\ OneEvent' /\ Awaited'
  <2> DEFINE M == {}
  <2>1. M \in SUBSET SensorEvent /\ inbox' = inbox \cup M /\ \A m \in M : FitsCall(s, call, m)
    BY <1>2 DEF brokerVars
  <2>2. clock' \in [Sensor \cup Broker -> Nat] /\ ClocksGrow
    BY <1>1, <1>2 DEF ClocksGrow, TypeOK
  <2> HIDE DEF M
  <2>3. acks' = {a \in acks : a.sensor # s}
    BY <1>1, <1>2 DEF Awaited
  <2>4. GoesOn(s, call, M)
    BY <1>2, <1>4, <2>1, <2>3 DEF GoesOn, brokerVars
  <2>5. loop[s].event <= call.event /\ call.pc # "calling"
    BY <1>3, <1>4
  <2> QED BY <1>1, <2>1, <2>2, <2>4, <2>5, LoopGoesOn
<1>8. \A r \in Sensor \ {s} : loop'[r] = loop[r] /\ failed'[r] = failed[r]
  BY <1>1, <1>2, <1>4 DEF TypeOK
<1>9. loop'[s].pc = "resting" /\ failed'[s] = TRUE
  BY <1>1, <1>2, <1>4 DEF TypeOK
<1>10. UNCHANGED <<active, watch, raced>>
  BY <1>2
<1>11. Flagged'
  BY <1>1, <1>8, <1>9, <1>10 DEF Flagged
<1>12. s \notin raced => active[s] # Primary[s]
  BY <1>1, <1>2 DEF Flagged
<1>13. \A r \in Sensor \ {s} : failed'[r] <=> failed[r]
  BY <1>8
<1>14. FlagTells'
  BY <1>1, <1>8, <1>9, <1>10, <1>12, <1>13 DEF FlagTells
<1> QED BY <1>5, <1>6, <1>7, <1>11, <1>14 DEF IntakeInv

LEMMA WatchStep ==
    ASSUME IntakeInv, NEW s \in Sensor, ReturnToPrimary(s) \/ FlagReturned(s)
    PROVE  IntakeInv'
<1>1. /\ TypeOK /\ Numbered /\ NothingAhead /\ OneEvent /\ Awaited /\ StampsFollowEvents
      /\ Flagged /\ FlagTells
  BY DEF IntakeInv
<1>2. UNCHANGED <<loop, settled, brokerVars, clock, acks, wire, known, troubles>>
  BY DEF ReturnToPrimary, FlagReturned
<1>3. /\ Numbered' /\ StampsFollowEvents' /\ NothingAhead' /\ OneEvent' /\ Awaited'
  BY <1>1, <1>2, CreatedStands DEF StampsFollowEvents, NothingAhead, OneEvent, Awaited, brokerVars
<1>4. CASE ReturnToPrimary(s)
  <2>1. /\ active' = [active EXCEPT ![s] = Primary[s]]
        /\ watch' = [watch EXCEPT ![s] = "returning"]
        /\ raced' = IF loop[s].pc = "adopting" THEN raced \cup {s} ELSE raced \ {s}
        /\ failed' = failed
    BY <1>4 DEF ReturnToPrimary
  <2>2. TypeOK'
    BY <1>1, <1>2, <2>1, PrimaryAssumption DEF TypeOK, brokerVars
  <2>3. \A r \in Sensor \ {s} : /\ active'[r] = active[r] /\ watch'[r] = watch[r]
                                /\ r \in raced' <=> r \in raced
    BY <1>1, <2>1 DEF TypeOK
  <2>4. /\ active'[s] = Primary[s] /\ watch'[s] = "returning"
        /\ loop[s].pc = "adopting" => s \in raced'
    BY <1>1, <2>1 DEF TypeOK
  <2>5. Flagged'
    BY <1>1, <1>2, <2>3, <2>4 DEF Flagged
  <2>6. FlagTells'
    BY <1>1, <1>2, <2>1, <2>3, <2>4 DEF FlagTells
  <2> QED BY <1>3, <2>2, <2>5, <2>6 DEF IntakeInv
<1>5. CASE FlagReturned(s)
  <2>1. /\ watch[s] = "returning"
        /\ failed' = [failed EXCEPT ![s] = FALSE]
        /\ watch' = [watch EXCEPT ![s] = "sleeping"]
        /\ active' = active /\ raced' = raced
    BY <1>5 DEF FlagReturned
  <2>2. TypeOK'
    BY <1>1, <1>2, <2>1 DEF TypeOK, brokerVars
  <2>3. \A r \in Sensor \ {s} : (failed'[r] <=> failed[r]) /\ watch'[r] = watch[r]
    BY <1>1, <2>1 DEF TypeOK
  <2>4. failed'[s] = FALSE /\ watch'[s] = "sleeping"
    BY <1>1, <2>1 DEF TypeOK
  <2>5. s \notin raced => active[s] = Primary[s]
    BY <1>1, <2>1 DEF Flagged
  <2>6. Flagged'
    BY <1>1, <1>2, <2>1, <2>3, <2>4 DEF Flagged
  <2>7. FlagTells'
    BY <1>1, <1>2, <2>1, <2>3, <2>4, <2>5 DEF FlagTells
  <2> QED BY <1>3, <2>2, <2>6, <2>7 DEF IntakeInv
<1> QED BY <1>4, <1>5

-----------------------------------------------------------------------------
(* The brokers and the bases.                                              *)

\* What no sensor does leaves the flags as they are.
LEMMA FlagsStand ==
    ASSUME Flagged, FlagTells, UNCHANGED <<active, failed, loop, watch, raced>>
    PROVE  Flagged' /\ FlagTells'
BY DEF Flagged, FlagTells

\* handleSensorConn (broker main.go:66-108).
LEMMA HandleStep ==
    ASSUME IntakeInv, NEW m \in inbox, HandleSensorEvent(m)
    PROVE  IntakeInv'
<1> DEFINE k == m.broker
           n == Cardinality(created) + 1
           ts == Update(clock[k], m.ts)
           q == [id |-> n, sensor |-> m.sensor, event |-> m.event,
                 sent |-> m.ts, stamp |-> ts, broker |-> k, life |-> life[k]]
           made == IF m.kind = "event" THEN {q} ELSE {}
           id == IF m.kind = "event" THEN q.id ELSE 0
<1>1. /\ TypeOK /\ Numbered /\ NothingAhead /\ OneEvent /\ Awaited /\ StampsFollowEvents
      /\ Flagged /\ FlagTells
  BY DEF IntakeInv
<1>2. /\ m \in SensorEvent /\ m.sensor \in Sensor /\ k \in Broker /\ m.ts \in Nat
      /\ m.event \in Nat /\ m.kind \in {"telemetry", "event"}
      /\ clock[k] \in Nat /\ life[k] \in Nat
      /\ k \in up /\ m.event <= loop[m.sensor].event
  BY <1>1 DEF TypeOK, SensorEvent, NothingAhead
<1>3. /\ inbox' = inbox \ {m}
      /\ clock' = [clock EXCEPT ![k] = ts]
      /\ created' = created \cup made /\ outbox' = outbox \cup made
      /\ acks' = acks \cup Answer(m, id)
      /\ UNCHANGED <<sensorVars, up, life, dropped, wire, known, troubles>>
  BY DEF HandleSensorEvent
<1>4. ts \in Nat /\ ts > clock[k] /\ ts > m.ts
  BY <1>2 DEF Update, Later
<1>5. Cardinality(created) \in Nat /\ IsFiniteSet(created) /\ n \in Nat /\ n > Cardinality(created)
  BY <1>1, FS_CardinalityType DEF Numbered
<1> HIDE DEF ts, n
<1>6. /\ q \in NewRequest /\ q.id = n /\ q.sensor = m.sensor /\ q.event = m.event
      /\ q.sent = m.ts /\ q.stamp = ts /\ q.broker = k /\ q.life = life[k]
  BY <1>2, <1>4, <1>5 DEF NewRequest
<1> HIDE DEF q
<1>7. \A p \in created : p \in NewRequest /\ p.id \in 1..Cardinality(created) /\ p.id # n
  BY <1>1, <1>5 DEF TypeOK, Numbered
<1>8. /\ q \notin created /\ id \in {0, n}
      /\ (made = {} /\ id = 0) \/ (made = {q} /\ id = n)
  <2>1. q \notin created
    BY <1>6, <1>7
  <2>2. CASE m.kind = "event"
    BY <1>6, <2>1, <2>2
  <2>3. CASE m.kind # "event"
    BY <2>1, <2>3
  <2> QED BY <2>2, <2>3
<1> HIDE DEF made, id
<1>9. /\ (created' = created /\ id = 0) \/ (created' = created \cup {q} /\ id = n)
      /\ outbox' \subseteq created' /\ created \subseteq created'
  <2>1. outbox \subseteq created
    BY <1>1 DEF TypeOK
  <2> QED BY <1>3, <1>8, <2>1
<1>10. \A p \in created' : p \in created \/ p = q
  BY <1>9
<1>11. /\ IsFiniteSet(created') /\ Cardinality(created') \in Nat
       /\ Cardinality(created) <= Cardinality(created')
       /\ q \in created' => Cardinality(created') = n
  <2>1. CASE created' = created
    BY <1>5, <1>8, <2>1
  <2>2. CASE created' = created \cup {q}
    <3>1. IsFiniteSet(created') /\ Cardinality(created') = Cardinality(created) + 1
      BY <1>5, <1>8, <2>2, FS_AddElement
    <3> QED BY <1>5, <3>1 DEF n
  <2> QED BY <1>9, <2>1, <2>2
<1>12. Numbered'
  <2>1. \A p \in created' : p.id \in 1..Cardinality(created')
    <3>1. ASSUME NEW p \in created' PROVE p.id \in 1..Cardinality(created')
      <4>1. CASE p \in created
        BY <1>5, <1>7, <1>11, <4>1
      <4>2. CASE p = q
        BY <1>5, <1>6, <1>11, <3>1, <4>2
      <4> QED BY <1>10, <3>1, <4>1, <4>2
    <3> QED BY <3>1
  <2>2. \A p, r \in created' : p.id = r.id => p = r
    BY <1>1, <1>6, <1>7, <1>10 DEF Numbered
  <2> QED BY <1>11, <2>1, <2>2 DEF Numbered
<1>13. Answer(m, id) \subseteq [sensor : Sensor, id : Nat]
  BY <1>2, <1>5, <1>8 DEF Answer
<1>14. TypeOK'
  <2>1. created' \subseteq NewRequest
    BY <1>6, <1>7, <1>10
  <2>2. clock' \in [Sensor \cup Broker -> Nat] /\ inbox' \subseteq SensorEvent
        /\ acks' \subseteq [sensor : Sensor, id : Nat]
    BY <1>1, <1>3, <1>4, <1>13 DEF TypeOK
  <2>3. /\ wire' \subseteq [type : {"NEW_REQUEST", "QUEUE_ADD"}, to : Base, request : created']
        /\ known' \in [Base -> SUBSET created']
        /\ settled' \subseteq created' /\ dropped' \subseteq created'
    BY <1>1, <1>3, <1>9 DEF TypeOK, sensorVars
  <2> QED BY <1>1, <1>3, <1>9, <2>1, <2>2, <2>3 DEF TypeOK, sensorVars
<1>15. UNCHANGED <<loop, life, up, settled>>
  BY <1>3 DEF sensorVars
<1>16. /\ clock'[k] = ts
       /\ \A b \in Broker : clock'[b] \in Nat /\ clock[b] \in Nat /\ clock[b] <= clock'[b]
  BY <1>1, <1>2, <1>3, <1>4 DEF TypeOK
<1>17. NothingAhead'
  <2>1. ASSUME NEW p \in created'
        PROVE  /\ p.life <= life[p.broker]
               /\ (p.broker \in up /\ p.life = life[p.broker]) => p.stamp <= clock'[p.broker]
               /\ p.event <= loop[p.sensor].event
    <3>1. CASE p \in created
      <4>1. p.stamp \in Nat /\ p.broker \in Broker
        BY <1>7, <3>1 DEF NewRequest
      <4> QED BY <1>1, <1>16, <3>1, <4>1 DEF NothingAhead
    <3>2. CASE p = q
      BY <1>2, <1>4, <1>6, <1>16, <3>2
    <3> QED BY <1>10, <2>1, <3>1, <3>2
  <2>2. \A e \in inbox' : e.broker \in up /\ e.event <= loop[e.sensor].event
    BY <1>1, <1>3 DEF NothingAhead
  <2> QED BY <1>15, <2>1, <2>2 DEF NothingAhead
<1>18. OneEvent'
  BY <1>1, <1>3, <1>15 DEF OneEvent
<1>19. Awaited'
  <2>1. \A a \in Answer(m, id) :
            /\ a.sensor = m.sensor /\ a.id = id
            /\ loop[m.sensor].pc = "calling" /\ loop[m.sensor].event = m.event
            /\ loop[m.sensor].to = m.broker
    BY DEF Answer
  <2>2. \A a \in acks : a.sensor = m.sensor => Answer(m, id) = {}
    BY <1>1, <2>1 DEF Awaited
  <2>3. \A e \in inbox : (/\ e.sensor = m.sensor /\ e.event = m.event /\ e.broker = m.broker
                          /\ loop[m.sensor].pc = "calling" /\ loop[m.sensor].event = m.event) => e = m
    <3> SUFFICES ASSUME NEW e \in inbox,
                        e.sensor = m.sensor, e.event = m.event, e.broker = m.broker,
                        loop[m.sensor].pc = "calling", loop[m.sensor].event = m.event
                 PROVE  e = m
      OBVIOUS
    <3>1. e.ts = m.ts /\ e.kind = m.kind
      BY <1>1 DEF OneEvent
    <3> QED BY <1>1, <3>1 DEF TypeOK, SensorEvent
  <2>4. ASSUME NEW a \in acks'
        PROVE  /\ loop[a.sensor].pc = "calling"
               /\ a.id \in 0..Cardinality(created')
               /\ \A p \in created' : p.id = a.id =>
                     p.sensor = a.sensor /\ p.event = loop[a.sensor].event
               /\ \A e \in inbox' : e.sensor = a.sensor =>
                     e.event # loop[a.sensor].event \/ e.broker # loop[a.sensor].to
    <3>1. CASE a \in acks
      <4>1. /\ loop[a.sensor].pc = "calling"
            /\ a.id \in 0..Cardinality(created)
            /\ \A p \in created : p.id = a.id =>
                  p.sensor = a.sensor /\ p.event = loop[a.sensor].event
            /\ \A e \in inbox : e.sensor = a.sensor =>
                  e.event # loop[a.sensor].event \/ e.broker # loop[a.sensor].to
        BY <1>1, <3>1 DEF Awaited
      <4>2. a.id \in 0..Cardinality(created') /\ a.id # q.id
        BY <1>5, <1>6, <1>11, <4>1
      <4> QED BY <1>3, <1>10, <4>1, <4>2
    <3>2. CASE a \in Answer(m, id)
      <4>1. /\ loop[a.sensor].pc = "calling" /\ a.id = id /\ a.sensor = m.sensor
            /\ loop[a.sensor].event = m.event /\ loop[a.sensor].to = m.broker
        BY <2>1, <3>2
      <4>2. a.id \in 0..Cardinality(created')
        BY <1>5, <1>9, <1>11, <4>1
      <4>3. \A p \in created : p.id # a.id
        BY <1>5, <1>7, <1>8, <4>1
      <4>4. \A e \in inbox' : e.sensor = a.sensor =>
                e.event # loop[a.sensor].event \/ e.broker # loop[a.sensor].to
        BY <1>3, <2>3, <4>1
      <4> QED BY <1>6, <1>10, <4>1, <4>2, <4>3, <4>4
    <3> QED BY <1>3, <2>4, <3>1, <3>2
  <2>5. \A a, e \in acks' : a.sensor = e.sensor => a = e
    <3>1. \A a, e \in Answer(m, id) : a = e
      BY DEF Answer
    <3>2. \A a, e \in acks : a.sensor = e.sensor => a = e
      BY <1>1 DEF Awaited
    <3> QED BY <1>3, <2>1, <2>2, <3>1, <3>2
  <2> QED BY <1>15, <2>4, <2>5 DEF Awaited
<1>20. StampsFollowEvents'
  <2>1. \A p \in created' : p.stamp > p.sent
    BY <1>1, <1>4, <1>6, <1>10 DEF StampsFollowEvents
  <2>2. \A p \in created : (p.broker = k /\ p.life = life[k]) =>
            p.stamp \in Nat /\ p.stamp < ts
    <3> SUFFICES ASSUME NEW p \in created, p.broker = k, p.life = life[k]
                 PROVE  p.stamp \in Nat /\ p.stamp < ts
      OBVIOUS
    <3>1. p.stamp \in Nat /\ p.stamp <= clock[k]
      BY <1>1, <1>2, <1>7 DEF NothingAhead, NewRequest
    <3> QED BY <1>2, <1>4, <3>1
  <2>3. settled \subseteq created /\ q \notin settled /\ settled' = settled
    BY <1>1, <1>8, <1>15 DEF TypeOK
  <2>4. ASSUME NEW p \in created', NEW r \in created', p.broker = r.broker, p.life = r.life
        PROVE  /\ p.stamp = r.stamp => p = r
               /\ (p.sensor = r.sensor /\ p.event < r.event /\ p \in settled) => p.stamp < r.stamp
    <3>1. CASE p \in created /\ r \in created
      BY <1>1, <2>4, <3>1 DEF StampsFollowEvents
    <3>2. CASE p \in created /\ r = q
      BY <1>4, <1>6, <2>2, <2>4, <3>2
    <3>3. CASE p = q /\ r \in created
      BY <1>4, <1>6, <2>2, <2>3, <2>4, <3>3
    <3>4. CASE p = q /\ r = q
      BY <2>3, <3>4
    <3> QED BY <1>10, <3>1, <3>2, <3>3, <3>4
  <2> QED BY <2>1, <2>3, <2>4 DEF StampsFollowEvents
<1>21. Flagged' /\ FlagTells'
  BY <1>1, <1>3, FlagsStand DEF sensorVars
<1> QED BY <1>12, <1>14, <1>17, <1>18, <1>19, <1>20, <1>21 DEF IntakeInv

\* propagateRequest, a crash and a restart (broker main.go:110-140).
LEMMA BrokerStep ==
    ASSUME IntakeInv,
           \/ \E q \in outbox, P \in SUBSET Base : Propagate(q, P)
           \/ \E k \in Broker : BrokerCrashes(k) \/ BrokerStarts(k)
    PROVE  IntakeInv'
<1>1. /\ TypeOK /\ Numbered /\ NothingAhead /\ OneEvent /\ Awaited /\ StampsFollowEvents
      /\ Flagged /\ FlagTells
  BY DEF IntakeInv
<1>2. UNCHANGED <<sensorVars, created, acks, known>>
  BY DEF Propagate, BrokerCrashes, BrokerStarts
<1>3. /\ Numbered' /\ StampsFollowEvents' /\ Flagged' /\ FlagTells'
  BY <1>1, <1>2, CreatedStands, FlagsStand DEF StampsFollowEvents, sensorVars
<1>4. inbox' \subseteq inbox
  BY DEF Propagate, BrokerCrashes, BrokerStarts
<1>5. OneEvent' /\ Awaited'
  BY <1>1, <1>2, <1>4 DEF OneEvent, Awaited, sensorVars
<1>6. \A q \in created : q.life \in Nat /\ q.stamp \in Nat /\ q.broker \in Broker
  BY <1>1 DEF TypeOK, NewRequest
<1>7. loop' = loop
  BY <1>2 DEF sensorVars
<1>8. TypeOK' /\ NothingAhead'
  <2>1. ASSUME NEW q \in outbox, NEW P \in SUBSET Base, Propagate(q, P)
        PROVE  TypeOK' /\ NothingAhead'
    <3>1. q \in created /\ q.broker \in Broker /\ clock[q.broker] \in Nat
      BY <1>1, <1>6 DEF TypeOK
    <3>2. /\ clock' = [clock EXCEPT ![q.broker] = clock[q.broker] + 1]
          /\ outbox' = outbox \ {q}
          /\ wire' = wire \cup {[type |-> "NEW_REQUEST", to |-> b, request |-> q] : b \in P}
          /\ dropped' \subseteq dropped \cup {q}
          /\ Trouble \/ UNCHANGED troubles
          /\ UNCHANGED <<up, life, inbox>>
      BY <2>1 DEF Propagate, Tick
    <3>3. clock' \in [Sensor \cup Broker -> Nat] /\ ClocksGrow
      BY <1>1, <3>1, <3>2 DEF TypeOK, ClocksGrow
    <3>4. troubles' \in 0..MaxTroubles
      BY <1>1, <3>2, BoundsAssumption DEF Trouble, TypeOK
    <3>5. {[type |-> "NEW_REQUEST", to |-> b, request |-> q] : b \in P}
            \subseteq [type : {"NEW_REQUEST", "QUEUE_ADD"}, to : Base, request : created]
      BY <3>1
    <3>6. TypeOK'
      BY <1>1, <1>2, <3>1, <3>2, <3>3, <3>4, <3>5 DEF TypeOK, sensorVars
    <3>7. \A p \in created : clock[p.broker] \in Nat /\ clock'[p.broker] \in Nat
                             /\ clock[p.broker] <= clock'[p.broker]
      BY <1>1, <1>6, <3>3 DEF ClocksGrow, TypeOK
    <3>8. NothingAhead'
      BY <1>1, <1>2, <1>6, <1>7, <3>2, <3>7 DEF NothingAhead
    <3> QED BY <3>6, <3>8
  <2>2. ASSUME NEW k \in Broker, BrokerCrashes(k)
        PROVE  TypeOK' /\ NothingAhead'
    <3>1. /\ up' = up \ {k} /\ clock' = [clock EXCEPT ![k] = 0]
          /\ inbox' = {m \in inbox : m.broker # k}
          /\ outbox' \subseteq outbox /\ dropped' \subseteq dropped \cup outbox
          /\ Trouble
          /\ UNCHANGED <<life, wire>>
      BY <2>2 DEF BrokerCrashes, Start
    <3>2. troubles' \in 0..MaxTroubles
      BY <1>1, <3>1, BoundsAssumption DEF Trouble, TypeOK
    <3>3. TypeOK'
      BY <1>1, <1>2, <3>1, <3>2 DEF TypeOK, sensorVars
    <3>4. \A p \in created : p.broker # k => clock'[p.broker] = clock[p.broker]
      BY <1>1, <1>6, <3>1 DEF TypeOK
    <3>5. NothingAhead'
      BY <1>1, <1>2, <1>6, <1>7, <3>1, <3>4 DEF NothingAhead
    <3> QED BY <3>3, <3>5
  <2>3. ASSUME NEW k \in Broker, BrokerStarts(k)
        PROVE  TypeOK' /\ NothingAhead'
    <3>1. /\ k \notin up /\ up' = up \cup {k} /\ life' = [life EXCEPT ![k] = life[k] + 1]
          /\ UNCHANGED <<inbox, outbox, dropped, clock, wire, troubles>>
      BY <2>3 DEF BrokerStarts
    <3>2. life[k] \in Nat /\ life \in [Broker -> Nat]
      BY <1>1 DEF TypeOK
    <3>3. TypeOK'
      BY <1>1, <1>2, <3>1, <3>2 DEF TypeOK, sensorVars
    <3>4. life'[k] = life[k] + 1 /\ \A b \in Broker \ {k} : life'[b] = life[b]
      BY <3>1, <3>2
    <3>5. ASSUME NEW p \in created
          PROVE  /\ p.life <= life'[p.broker]
                 /\ (p.broker \in up' /\ p.life = life'[p.broker]) => p.stamp <= clock[p.broker]
                 /\ p.event <= loop[p.sensor].event
      <4>1. /\ p.life <= life[p.broker]
            /\ (p.broker \in up /\ p.life = life[p.broker]) => p.stamp <= clock[p.broker]
            /\ p.event <= loop[p.sensor].event
        BY <1>1 DEF NothingAhead
      <4>2. CASE p.broker = k
        BY <1>6, <3>2, <3>4, <4>1, <4>2
      <4>3. CASE p.broker # k
        BY <1>6, <3>1, <3>4, <4>1, <4>3
      <4> QED BY <4>2, <4>3
    <3>6. \A m \in inbox : m.broker \in up' /\ m.event <= loop[m.sensor].event
      BY <1>1, <3>1 DEF NothingAhead
    <3>7. NothingAhead'
      BY <1>2, <1>7, <3>1, <3>5, <3>6 DEF NothingAhead
    <3> QED BY <3>3, <3>7
  <2> QED BY <2>1, <2>2, <2>3
<1> QED BY <1>3, <1>5, <1>8 DEF IntakeInv

\* NEW_REQUEST and QUEUE_ADD (servers.go).
LEMMA BaseHearsStep ==
    ASSUME IntakeInv, NEW m \in wire, HandleRequest(m)
    PROVE  IntakeInv'
<1>1. /\ TypeOK /\ Numbered /\ NothingAhead /\ OneEvent /\ Awaited /\ StampsFollowEvents
      /\ Flagged /\ FlagTells
  BY DEF IntakeInv
<1>2. UNCHANGED <<sensorVars, brokerVars, clock, acks, troubles>>
  BY DEF HandleRequest
<1>3. m.to \in Base /\ m.request \in created
  BY <1>1 DEF TypeOK
<1>4. {[type |-> "QUEUE_ADD", to |-> b, request |-> m.request] : b \in Base \ {m.to}}
         \subseteq [type : {"NEW_REQUEST", "QUEUE_ADD"}, to : Base, request : created]
  BY <1>3
<1>5. /\ known' = [known EXCEPT ![m.to] = known[m.to] \cup {m.request}]
      /\ wire' \subseteq wire \cup
             {[type |-> "QUEUE_ADD", to |-> b, request |-> m.request] : b \in Base \ {m.to}}
  BY DEF HandleRequest
<1>6. TypeOK'
  BY <1>1, <1>2, <1>3, <1>4, <1>5 DEF TypeOK, sensorVars, brokerVars
<1>7. /\ Numbered' /\ StampsFollowEvents' /\ Flagged' /\ FlagTells'
  BY <1>1, <1>2, CreatedStands, FlagsStand DEF StampsFollowEvents, sensorVars, brokerVars
<1>8. NothingAhead' /\ OneEvent' /\ Awaited'
  BY <1>1, <1>2 DEF NothingAhead, OneEvent, Awaited, sensorVars, brokerVars
<1> QED BY <1>6, <1>7, <1>8 DEF IntakeInv

-----------------------------------------------------------------------------
(* The theorems.                                                           *)

LEMMA InitialIntake == Init => IntakeInv
<1> SUFFICES ASSUME Init PROVE IntakeInv
  OBVIOUS
<1>1. TypeOK
  BY PrimaryAssumption, BoundsAssumption DEF Init, TypeOK, LoopState, Resting, Start
<1>2. Numbered
  BY FS_EmptySet DEF Init, Numbered
<1>3. NothingAhead /\ OneEvent /\ Awaited /\ StampsFollowEvents
  BY DEF Init, NothingAhead, OneEvent, Awaited, StampsFollowEvents
<1>4. Flagged /\ FlagTells
  BY DEF Init, Flagged, FlagTells, Resting
<1> QED BY <1>1, <1>2, <1>3, <1>4 DEF IntakeInv

LEMMA IntakeStep == IntakeInv /\ [Next]_vars => IntakeInv'
<1> SUFFICES ASSUME IntakeInv, [Next]_vars PROVE IntakeInv'
  OBVIOUS
<1>1. ASSUME NEW s \in Sensor, NEW kind \in {"telemetry", "event"}, SendEvent(s, kind)
      PROVE  IntakeInv'
  BY <1>1, SendStep
<1>2. ASSUME NEW s \in Sensor, CallFails(s) \/ CallBreaks(s) \/ ReadAnswer(s) \/ FlagFailed(s)
      PROVE  IntakeInv'
  BY <1>2, TryStep, AnswerStep, FlagStep
<1>3. ASSUME NEW s \in Sensor, ReturnToPrimary(s) \/ FlagReturned(s) PROVE IntakeInv'
  BY <1>3, WatchStep
<1>4. ASSUME NEW m \in inbox, HandleSensorEvent(m) PROVE IntakeInv'
  BY <1>4, HandleStep
<1>5. ASSUME NEW m \in wire, HandleRequest(m) PROVE IntakeInv'
  BY <1>5, BaseHearsStep
<1>6. ASSUME \/ \E q \in outbox, P \in SUBSET Base : Propagate(q, P)
             \/ \E k \in Broker : BrokerCrashes(k) \/ BrokerStarts(k)
      PROVE  IntakeInv'
  BY <1>6, BrokerStep
<1>7. CASE UNCHANGED vars
  BY <1>7 DEF vars, sensorVars, brokerVars, IntakeInv, TypeOK, Numbered, NothingAhead,
     OneEvent, Awaited, StampsFollowEvents, Flagged, FlagTells
<1> QED BY <1>1, <1>2, <1>3, <1>4, <1>5, <1>6, <1>7 DEF Next

\* An answer is to the event its sensor waits for, and no stamp of a life is ahead
\* of the broker's clock, for any number of sensors, brokers, events and troubles.
THEOREM IntakeInvariant == Spec => []IntakeInv
<1>1. Init => IntakeInv
  BY InitialIntake
<1>2. IntakeInv /\ [Next]_vars => IntakeInv'
  BY IntakeStep
<1> QED BY <1>1, <1>2, PTL DEF Spec

\* The stamps of one life of a broker are all different, later than the events'
\* own, and in the order of a sensor's events once the earlier one is acknowledged
\* (broker main.go:73, 92).
THEOREM StampsAreOrdered == Spec => []StampsFollowEvents
<1>1. IntakeInv => StampsFollowEvents
  BY DEF IntakeInv
<1> QED BY <1>1, IntakeInvariant, PTL

\* A sensor away from its primary broker has the flag up that makes its watcher
\* look for it (sensor main.go:104-140), but for two goroutines writing at once.
THEOREM FlagIsTrue == Spec => []FlagTells
<1>1. IntakeInv => FlagTells
  BY DEF IntakeInv
<1> QED BY <1>1, IntakeInvariant, PTL
=============================================================================
