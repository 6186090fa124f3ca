------------------------- MODULE LockProtocol_proofs -------------------------
(***************************************************************************)
(* Proofs about LockProtocol, for any number of bases, requests and        *)
(* attempts.  LockInv is the inductive invariant; ExclusiveUnlessClobbered *)
(* and ExclusiveInFullView follow from it, and NoOrphanLock with the help  *)
(* of an invariant of reliable networks.                                   *)
(***************************************************************************)
EXTENDS LockProtocol, TLAPS

-----------------------------------------------------------------------------
(* Types.                                                                  *)

\* What the two helpers on the lock table do to its type.
LEMMA ReleaseLockType ==
    ASSUME TypeOK, NEW b \in Base, NEW r \in Request, NEW g,
           ReleaseLock(b, r, g)
    PROVE  /\ locks' \in [Base -> [Request -> Attempt \cup {None}]]
           /\ clobbered' \subseteq Request
    BY DEF TypeOK, ReleaseLock

\* The record every attempt starts from.
LEMMA IdleType == Idle \in AttemptState /\ Idle.pc = "idle"
    BY DEF Idle, AttemptState, Phase

\* The record of a goroutine that has just been started.
LEMMA StartedType ==
    ASSUME NEW b \in Base, NEW r \in Request
    PROVE  /\ Started(b, r) \in AttemptState
           /\ Started(b, r).base = b /\ Started(b, r).req = r
    BY DEF Started, AttemptState, Phase

\* The messages of a broadcast.
LEMMA ReleaseMsgsType ==
    ASSUME NEW P, NEW r, NEW g
    PROVE  /\ \A m \in ReleaseMsgs(P, r, g) : m.type = "LOCK_RELEASE" /\ m.att = g
           /\ P \subseteq Base /\ r \in Request /\ g \in Attempt \cup {None} =>
                 ReleaseMsgs(P, r, g) \subseteq Message
  <1>1. \A p : LockRelease(g, r, p).type = "LOCK_RELEASE" /\ LockRelease(g, r, p).att = g
    BY DEF LockRelease
  <1>2. \A p \in Base : r \in Request /\ g \in Attempt \cup {None} =>
          LockRelease(g, r, p) \in Message
    BY DEF LockRelease, Message
  <1> QED
    BY <1>1, <1>2, Zenon DEF ReleaseMsgs

\* The messages that ask every peer for the lock.
LEMMA RequestMsgsType ==
    ASSUME NEW P, NEW r, NEW g
    PROVE  /\ \A m \in RequestMsgs(P, r, g) :
                 /\ m.type = "LOCK_REQUEST" /\ m.att = g /\ m.req = r /\ m.peer \in P
                 /\ m = LockRequest(g, r, m.peer)
           /\ P \subseteq Base /\ r \in Request /\ g \in Attempt =>
                 RequestMsgs(P, r, g) \subseteq Message
  <1>1. \A p : /\ LockRequest(g, r, p).type = "LOCK_REQUEST" /\ LockRequest(g, r, p).att = g
               /\ LockRequest(g, r, p).req = r /\ LockRequest(g, r, p).peer = p
    BY DEF LockRequest
  <1>2. \A p \in Base : r \in Request /\ g \in Attempt => LockRequest(g, r, p) \in Message
    BY DEF LockRequest, Message
  <1> QED
    BY <1>1, <1>2, Zenon DEF RequestMsgs

\* The answer of a peer (servers.go:157-176) is a message.
LEMMA ReplyType ==
    ASSUME NEW g \in Attempt, NEW r \in Request, NEW p \in Base, NEW ok \in BOOLEAN
    PROVE  LockReply(g, r, p, ok) \in Message /\ LockReply(g, r, p, ok).att = g
    BY DEF Message, LockReply

\* Moving an attempt along keeps its record well typed.
LEMMA MoveType ==
    ASSUME NEW s \in AttemptState, NEW ph \in Phase
    PROVE  /\ [s EXCEPT !.pc = ph] \in AttemptState
           /\ [s EXCEPT !.pc = ph].base = s.base
           /\ [s EXCEPT !.pc = ph].req = s.req
           /\ [s EXCEPT !.pc = ph].pc = ph
    BY DEF AttemptState

\* The record of an attempt that has just asked its peers.
LEMMA AskType ==
    ASSUME NEW s \in AttemptState, NEW P \in SUBSET Base
    PROVE  /\ Asking(s, P) \in AttemptState
           /\ Asking(s, P).base = s.base /\ Asking(s, P).req = s.req
           /\ Asking(s, P).pc \in {"acquired", "asking"}
           /\ Asking(s, P).pc = "acquired" <=> P = {}
           /\ Asking(s, P).peers = P /\ Asking(s, P).waiting = P
           /\ Asking(s, P).granted = s.granted
    BY DEF AttemptState, Asking, Phase

\* The record of an attempt that has read one answer.
LEMMA AnswerType ==
    ASSUME NEW s \in AttemptState, NEW m \in Message
    PROVE  /\ Answered(s, m) \in AttemptState
           /\ Answered(s, m).base = s.base /\ Answered(s, m).req = s.req
           /\ Answered(s, m).pc = s.pc
           /\ Answered(s, m).peers = s.peers
           /\ Answered(s, m).waiting = s.waiting \ {m.peer}
           /\ Answered(s, m).granted \subseteq s.granted \cup {m.peer}
           /\ ~m.granted => Answered(s, m).granted = s.granted
    BY DEF AttemptState, Answered, Message

\* Attempts whose state an action may replace one at a time.
WellPlaced(s) == /\ s \in AttemptState
                 /\ s.pc # "idle" => s.base \in Base /\ s.req \in Request

\* A step that replaces the record of one attempt by a well placed one keeps
\* the table of attempts well typed.
LEMMA PlacedAttemptType ==
    ASSUME TypeOK, NEW g \in Attempt, NEW s, WellPlaced(s),
           att' = [att EXCEPT ![g] = s]
    PROVE  /\ att' \in [Attempt -> AttemptState]
           /\ \A h \in Attempt : att'[h].pc # "idle" =>
                  att'[h].base \in Base /\ att'[h].req \in Request
    BY DEF TypeOK, WellPlaced

\* The type invariant holds in the states a base may start from.
LEMMA TypeInit == LockInit \/ StableInit => TypeOK
    BY IdleType DEF LockInit, StableInit, TypeOK, Others

\* Releasing and broadcasting (dispatcher.go:115-118) keeps the types.
LEMMA GiveBackType ==
    ASSUME TypeOK, NEW g \in Attempt, att[g].pc # "idle", GiveBack(g)
    PROVE  TypeOK'
  <1> DEFINE b == att[g].base
             r == att[g].req
  <1>1. b \in Base /\ r \in Request
    BY DEF TypeOK
  <1>2. /\ locks' \in [Base -> [Request -> Attempt \cup {None}]]
        /\ clobbered' \subseteq Request
    BY <1>1, ReleaseLockType DEF GiveBack
  <1>3. net' \subseteq Message /\ \A m \in net' : m.type # "LOCK_RELEASE" => m.att \in Attempt
    BY <1>1, ReleaseMsgsType DEF GiveBack, Others, TypeOK
  <1>4. att' \in [Attempt -> AttemptState] /\ \A h \in Attempt : att'[h].pc # "idle" =>
          att'[h].base \in Base /\ att'[h].req \in Request
    <2>1. att[g] \in AttemptState /\ "requeue" \in Phase
      BY DEF TypeOK, Phase
    <2>2. WellPlaced([att[g] EXCEPT !.pc = "requeue"])
      BY <1>1, <2>1, MoveType DEF WellPlaced
    <2> QED
      BY <2>2, PlacedAttemptType DEF GiveBack
  <1> QED
    BY <1>2, <1>3, <1>4 DEF TypeOK, GiveBack

\* Every step of the lock protocol keeps the types.
LEMMA TypeStep == TypeOK /\ [LockNext]_lockVars => TypeOK'
  <1> SUFFICES ASSUME TypeOK, [LockNext]_lockVars
               PROVE  TypeOK'
    OBVIOUS
  <1> USE DEF TypeOK
  <1>1. ASSUME NEW g \in Attempt, NEW b \in Base, NEW r \in Request, Spawn(g, b, r)
        PROVE  TypeOK'
    BY <1>1, StartedType DEF Spawn
  <1>2. ASSUME NEW g \in Attempt, LocalRefusal(g)
        PROVE  TypeOK'
    BY <1>2 DEF LocalRefusal, AttemptState, Phase
  <1>3. ASSUME NEW g \in Attempt, LocalLock(g)
        PROVE  TypeOK'
    <2>1. att' \in [Attempt -> AttemptState] /\ \A h \in Attempt : att'[h].pc # "idle" =>
            att'[h].base \in Base /\ att'[h].req \in Request
      <3>1. att[g] \in AttemptState /\ att[g].base \in Base /\ att[g].req \in Request
        BY <1>3 DEF LocalLock
      <3>2. online[att[g].base] \in SUBSET Base
        BY <3>1
      <3>3. WellPlaced(Asking(att[g], online[att[g].base]))
        BY <3>1, <3>2, AskType DEF WellPlaced
      <3> QED
        BY <1>3, <3>3, PlacedAttemptType DEF LocalLock
    <2>2. net' \subseteq Message /\ \A m \in net' : m.type # "LOCK_RELEASE" => m.att \in Attempt
      BY <1>3, RequestMsgsType, online[att[g].base] \subseteq Base DEF LocalLock
    <2> QED
      BY <1>3, <2>1, <2>2 DEF LocalLock, TryLock
  <1>4. ASSUME NEW g \in Attempt, Unanimous(g) \/ LockConfirm(g)
        PROVE  TypeOK'
    <2>1. PICK ph \in {"acquired", "assigned"} : att' = [att EXCEPT ![g].pc = ph]
      BY <1>4 DEF Unanimous, LockConfirm
    <2>2. /\ att[g] \in AttemptState /\ ph \in Phase
          /\ att[g].base \in Base /\ att[g].req \in Request
      BY <1>4 DEF Phase, Unanimous, LockConfirm
    <2>3. WellPlaced([att[g] EXCEPT !.pc = ph])
      BY <2>2, MoveType DEF WellPlaced
    <2>4. /\ att' \in [Attempt -> AttemptState]
          /\ \A h \in Attempt : att'[h].pc # "idle" =>
                att'[h].base \in Base /\ att'[h].req \in Request
      BY <2>1, <2>3, PlacedAttemptType
    <2> QED
      BY <1>4, <2>4 DEF Unanimous, LockConfirm
  <1>5. ASSUME NEW g \in Attempt, Refused(g) \/ LockDispatchFails(g)
        PROVE  TypeOK'
    BY <1>5, GiveBackType DEF Refused, LockDispatchFails
  <1>6. ASSUME NEW g \in Attempt, LockRequeue(g)
        PROVE  TypeOK'
    BY <1>6, IdleType DEF LockRequeue
  <1>7. ASSUME NEW g \in Attempt, NEW b \in Base, EndTenure(g, b)
        PROVE  TypeOK'
    <2>1. att[g].req \in Request
      BY <1>7 DEF EndTenure
    <2>2. net' \subseteq Message /\ \A m \in net' : m.type # "LOCK_RELEASE" => m.att \in Attempt
      BY <1>7, <2>1, ReleaseMsgsType DEF EndTenure, Others
    <2>3. /\ locks' \in [Base -> [Request -> Attempt \cup {None}]]
          /\ clobbered' \subseteq Request
      BY <1>7, <2>1, ReleaseLockType DEF EndTenure
    <2> QED
      BY <1>7, <2>2, <2>3, IdleType DEF EndTenure
  <1>8. ASSUME NEW m \in net, HandleLockRequest(m)
        PROVE  TypeOK'
    <2>1. m \in Message /\ m.att \in Attempt
      BY <1>8 DEF HandleLockRequest
    <2>2. m.peer \in Base /\ m.req \in Request
      BY <2>1 DEF Message
    <2>3. net' \subseteq Message /\ \A n \in net' : n.type # "LOCK_RELEASE" => n.att \in Attempt
      <3> DEFINE ok == locks[m.peer][m.req] = None
                 reply == LockReply(m.att, m.req, m.peer, ok)
      <3>1. ok \in BOOLEAN
        OBVIOUS
      <3>2. reply \in Message /\ reply.att = m.att
        BY <2>1, <2>2, <3>1, ReplyType
      <3>3. net' \subseteq net \cup {reply}
        BY <1>8 DEF HandleLockRequest
      <3> QED
        BY <2>1, <3>2, <3>3
    <2> QED
      BY <1>8, <2>1, <2>2, <2>3 DEF HandleLockRequest
  <1>9. ASSUME NEW m \in net, ReceiveReply(m)
        PROVE  TypeOK'
    <2>1. m.peer \in Base /\ m.att \in Attempt
      BY <1>9 DEF ReceiveReply, Message
    <2> QED
      <3>1. att[m.att] \in AttemptState
        BY <2>1
      <3>2. Answered(att[m.att], m) \in AttemptState
        BY <3>1, AnswerType
      <3>3. WellPlaced(Answered(att[m.att], m))
        BY <2>1, <3>1, <3>2, AnswerType DEF WellPlaced
      <3> QED
        BY <1>9, <2>1, <3>3, PlacedAttemptType DEF ReceiveReply
  <1>10. ASSUME NEW m \in net, HandleLockRelease(m)
         PROVE  TypeOK'
    <2>1. m.peer \in Base /\ m.req \in Request
      BY DEF Message
    <2> QED
      BY <1>10, <2>1, ReleaseLockType DEF HandleLockRelease
  <1>11. ASSUME NEW g \in Attempt, NEW p \in Base, CallFails(g, p)
         PROVE  TypeOK'
    BY <1>11 DEF CallFails, AttemptState, Phase
  <1>12. ASSUME NEW m \in net, Lose(m)
         PROVE  TypeOK'
    BY <1>12 DEF Lose
  <1>13. ASSUME NEW b \in Base, NEW p \in Base, Hear(b, p) \/ Suspect(b, p)
         PROVE  TypeOK'
    BY <1>13 DEF Hear, Suspect, Others
  <1>14. ASSUME NEW b \in Base, NEW r \in Request, NEW targets, StrayRelease(b, r, targets)
         PROVE  TypeOK'
    <2>1. net' \subseteq Message /\ \A m \in net' : m.type # "LOCK_RELEASE" => m.att \in Attempt
      <3>1. targets \subseteq Base
        BY <1>14 DEF StrayRelease, Others
      <3> QED
        BY <1>14, <3>1, ReleaseMsgsType DEF StrayRelease
    <2>2. /\ locks' \in [Base -> [Request -> Attempt \cup {None}]]
          /\ clobbered' \subseteq Request
      BY <1>14, ReleaseLockType DEF StrayRelease
    <2> QED
      BY <1>14, <2>1, <2>2 DEF StrayRelease
  <1>15. CASE UNCHANGED lockVars
    BY <1>15 DEF lockVars
  <1> QED
    BY <1>1, <1>2, <1>3, <1>4, <1>5, <1>6, <1>7, <1>8, <1>9, <1>10, <1>11, <1>12,
       <1>13, <1>14, <1>15
       DEF LockNext, StableNext, AttemptStep, MessageStep, Disturbance

\* Every reachable state of the lock protocol is well typed: in particular a
\* lock entry always names an attempt (state.go:211).
THEOREM TypeCorrect == LockSpec => []TypeOK
  <1>1. LockInit => TypeOK
    BY TypeInit
  <1> QED
    BY <1>1, TypeStep, PTL DEF LockSpec

-----------------------------------------------------------------------------
(* The lock invariant.                                                     *)

\* A release spares every live lock of another attempt, or records it.
LEMMA ReleaseSpares ==
    ASSUME TypeOK, NEW b \in Base, NEW r \in Request, NEW g, ReleaseLock(b, r, g),
           NEW h \in Attempt, h # g, Owning(h), att[h].req \notin clobbered',
           NEW p \in Base, locks[p][att[h].req] = h
    PROVE  locks'[p][att[h].req] = h
  <1>1. h # None
    BY NoneAssumption
  <1>2. CASE p = b /\ att[h].req = r
    BY <1>1, <1>2 DEF ReleaseLock, Live
  <1>3. CASE ~(p = b /\ att[h].req = r)
    <2>1. att[h].req \in Request
      BY DEF TypeOK, Owning
    <2> QED
      BY <1>3, <2>1 DEF ReleaseLock, TypeOK
  <1> QED
    BY <1>2, <1>3

\* A history of clobbered requests only grows.
LEMMA ReleaseRecords ==
    ASSUME NEW b, NEW r, NEW g, ReleaseLock(b, r, g)
    PROVE  clobbered \subseteq clobbered'
    BY DEF ReleaseLock

\* What every release has in common: attempt g, on whose behalf it is made,
\* owns nothing afterwards, and the other attempts do not move.
LEMMA ReleaseKeepsInv ==
    ASSUME LockInv, NEW b \in Base, NEW r \in Request, NEW g \in Attempt \cup {None},
           ReleaseLock(b, r, g),
           \A h \in Attempt : h # g => att'[h] = att[h],
           g \in Attempt => att'[g].pc \in {"idle", "requeue"},
           \A m \in net' : m \in net \/ (m.type = "LOCK_RELEASE" /\ m.att = g),
           \A m \in net' : m.att = g /\ g \in Attempt => m.type # "LOCK_REPLY",
           online' = online
    PROVE  /\ OwnerKeepsItsLocks' /\ HolderIsUnanimous' /\ GrantInFlightIsBacked'
           /\ MessagesMatchAttempts' /\ OneAnswerPerPeer' /\ NobodyIsItsOwnPeer'
  <1> USE DEF LockInv
  <1>1. \A h \in Attempt : Owning(h)' => h # g /\ att'[h] = att[h] /\ Owning(h)
    BY DEF Owning
  <1>2. OwnerKeepsItsLocks'
    <2> SUFFICES ASSUME NEW h \in Attempt, Owning(h)', att'[h].req \notin clobbered',
                        NEW p \in att'[h].granted \cup {att'[h].base}
                 PROVE  locks'[p][att'[h].req] = h
      BY DEF OwnerKeepsItsLocks
    <2>1. h # g /\ att'[h] = att[h] /\ Owning(h)
      BY <1>1
    <2>2. p \in Base
      BY <2>1 DEF TypeOK, Owning, AttemptState
    <2>3. locks[p][att[h].req] = h
      BY <2>1, ReleaseRecords DEF OwnerKeepsItsLocks
    <2> QED
      BY <2>1, <2>2, <2>3, ReleaseSpares
  <1>3. HolderIsUnanimous'
    BY <1>1 DEF HolderIsUnanimous, Holding, Owning
  <1>4. GrantInFlightIsBacked'
    <2> SUFFICES ASSUME NEW m \in net', m.type = "LOCK_REPLY"
                 PROVE  /\ att'[m.att].pc = "asking"
                        /\ att'[m.att].req = m.req
                        /\ m.peer \in att'[m.att].waiting
                        /\ m.granted /\ m.req \notin clobbered' =>
                              locks'[m.peer][m.req] = m.att
      BY DEF GrantInFlightIsBacked
    <2>1. m \in net /\ m.att \in Attempt /\ m.peer \in Base
      BY DEF TypeOK, Message
    <2>2. m.att # g /\ att'[m.att] = att[m.att]
      BY <2>1
    <2>3. att[m.att].pc = "asking" /\ att[m.att].req = m.req
      BY <2>1 DEF GrantInFlightIsBacked
    <2>4. m.peer \in att[m.att].waiting
      BY <2>1 DEF GrantInFlightIsBacked
    <2>5. m.granted /\ m.req \notin clobbered' => locks[m.peer][m.req] = m.att
      BY <2>1, ReleaseRecords DEF GrantInFlightIsBacked
    <2> QED
      BY <2>1, <2>2, <2>3, <2>4, <2>5, ReleaseSpares DEF Owning
  <1>5. MessagesMatchAttempts'
    <2> SUFFICES ASSUME NEW m \in net', m.att # None
                 PROVE  /\ m.type = "LOCK_RELEASE" => att'[m.att].pc \in {"idle", "requeue"}
                        /\ m.type = "LOCK_REQUEST" => att'[m.att].pc # "trying"
                        /\ m.type = "LOCK_REQUEST" /\ Owning(m.att)' => att'[m.att].req = m.req
      BY DEF MessagesMatchAttempts
    <2>1. CASE m.att = g
      <3>1. att'[g].pc \in {"idle", "requeue"}
        BY <2>1
      <3> QED
        BY <2>1, <3>1 DEF Owning
    <2>2. CASE m.att # g
      <3>1. m \in net /\ m.att \in Attempt
        BY <2>2 DEF TypeOK, Message
      <3>2. att'[m.att] = att[m.att]
        BY <2>2, <3>1
      <3> QED
        BY <3>1, <3>2 DEF MessagesMatchAttempts, Owning
    <2> QED
      BY <2>1, <2>2
  <1>6. OneAnswerPerPeer'
    BY DEF OneAnswerPerPeer
  <1>7. NobodyIsItsOwnPeer'
    BY DEF NobodyIsItsOwnPeer
  <1> QED
    BY <1>2, <1>3, <1>4, <1>5, <1>6, <1>7

\* The inductive invariant holds in the states a base may start from.
LEMMA InvInit == LockInit \/ StableInit => LockInv
    BY TypeInit DEF LockInit, StableInit, LockInv, OwnerKeepsItsLocks,
       HolderIsUnanimous, GrantInFlightIsBacked, MessagesMatchAttempts,
       OneAnswerPerPeer, NobodyIsItsOwnPeer, Owning, Holding, Idle, Others

\* The inductive invariant is kept by every handler, by every step of the
\* goroutines and by every disturbance.
LEMMA InvStep == LockInv /\ [LockNext]_lockVars => LockInv'
  <1> SUFFICES ASSUME LockInv, [LockNext]_lockVars
               PROVE  LockInv'
    OBVIOUS
  <1> DEFINE Rest == /\ OwnerKeepsItsLocks /\ HolderIsUnanimous
                     /\ GrantInFlightIsBacked /\ MessagesMatchAttempts
                     /\ OneAnswerPerPeer /\ NobodyIsItsOwnPeer
  <1>0. TypeOK /\ Rest /\ TypeOK'
    BY TypeStep DEF LockInv
  <1> SUFFICES Rest'
    BY <1>0 DEF LockInv
  <1>1. ASSUME NEW g \in Attempt, NEW b \in Base, NEW r \in Request, Spawn(g, b, r)
        PROVE  Rest'
    <2>1. att'[g] = Started(b, r) /\ \A h \in Attempt : h # g => att'[h] = att[h]
      BY <1>0, <1>1 DEF Spawn, TypeOK
    <2>2. att'[g].pc = "trying" /\ att'[g].granted = {}
      BY <2>1 DEF Started
    <2>3. \A m \in net : m.att # g
      BY <1>1 DEF Spawn, Quiet
    <2> QED
      BY <1>0, <1>1, <2>1, <2>2, <2>3 DEF Spawn, OwnerKeepsItsLocks,
         HolderIsUnanimous, GrantInFlightIsBacked, MessagesMatchAttempts,
         OneAnswerPerPeer, NobodyIsItsOwnPeer, Owning, Holding, TypeOK, Message
  <1>2. ASSUME NEW g \in Attempt, LocalRefusal(g)
        PROVE  Rest'
    <2>1. att[g].pc = "trying" /\ att'[g].pc = "requeue"
      BY <1>0, <1>2 DEF LocalRefusal, TypeOK, AttemptState
    <2>2. \A h \in Attempt : h # g => att'[h] = att[h]
      BY <1>0, <1>2 DEF LocalRefusal, TypeOK
    <2> QED
      BY <1>0, <1>2, <2>1, <2>2 DEF LocalRefusal, OwnerKeepsItsLocks,
         HolderIsUnanimous, GrantInFlightIsBacked, MessagesMatchAttempts,
         OneAnswerPerPeer, NobodyIsItsOwnPeer, Owning, Holding, TypeOK, Message
  <1>3. ASSUME NEW g \in Attempt, LocalLock(g)
        PROVE  Rest'
    <2> DEFINE b == att[g].base
               r == att[g].req
               peers == online[b]
    <2>1. att[g].pc = "trying" /\ att[g] \in AttemptState /\ b \in Base /\ r \in Request
      BY <1>0, <1>3 DEF LocalLock, TypeOK
    <2>2. peers \in SUBSET Base /\ b \notin peers /\ att[g].granted = {}
      BY <1>0, <2>1 DEF TypeOK, NobodyIsItsOwnPeer, HolderIsUnanimous
    <2>3. att'[g] = Asking(att[g], peers) /\ \A h \in Attempt : h # g => att'[h] = att[h]
      BY <1>0, <1>3 DEF LocalLock, TypeOK
    <2>4. /\ att'[g].base = b /\ att'[g].req = r
          /\ att'[g].pc \in {"acquired", "asking"}
          /\ att'[g].pc = "acquired" <=> peers = {}
          /\ att'[g].peers = peers /\ att'[g].waiting = peers /\ att'[g].granted = {}
      BY <2>1, <2>2, <2>3, AskType
    <2>5. /\ locks[b][r] = None /\ locks'[b][r] = g
          /\ \A p \in Base, q \in Request : p # b \/ q # r => locks'[p][q] = locks[p][q]
      BY <1>0, <1>3, <2>1 DEF LocalLock, TryLock, TypeOK
    <2>6. /\ net' = net \cup RequestMsgs(peers, r, g)
          /\ online' = online /\ clobbered' = clobbered
      BY <1>3 DEF LocalLock
    <2>7. \A m \in net : m.att # g
      BY <1>0, <2>1, NoneAssumption DEF MessagesMatchAttempts, GrantInFlightIsBacked, TypeOK, Message
    <2>8. OwnerKeepsItsLocks'
      <3> SUFFICES ASSUME NEW h \in Attempt, Owning(h)', att'[h].req \notin clobbered',
                          NEW p \in att'[h].granted \cup {att'[h].base}
                   PROVE  locks'[p][att'[h].req] = h
        BY DEF OwnerKeepsItsLocks
      <3>1. CASE h = g
        BY <3>1, <2>4, <2>5
      <3>2. CASE h # g
        <4>1. /\ att'[h] = att[h] /\ Owning(h) /\ p \in Base
              /\ att[h].req \in Request /\ h # None
          BY <1>0, <3>2, <2>3, NoneAssumption DEF Owning, TypeOK, AttemptState
        <4>2. locks[p][att[h].req] = h
          BY <1>0, <4>1, <2>6 DEF OwnerKeepsItsLocks
        <4> QED
          BY <4>1, <4>2, <2>1, <2>5
      <3> QED
        BY <3>1, <3>2
    <2>9. HolderIsUnanimous'
      BY <1>0, <2>2, <2>3, <2>4 DEF HolderIsUnanimous, Holding, Owning
    <2>10. GrantInFlightIsBacked'
      <3> SUFFICES ASSUME NEW m \in net', m.type = "LOCK_REPLY"
                   PROVE  /\ att'[m.att].pc = "asking"
                          /\ att'[m.att].req = m.req
                          /\ m.peer \in att'[m.att].waiting
                          /\ m.granted /\ m.req \notin clobbered' =>
                                locks'[m.peer][m.req] = m.att
        BY DEF GrantInFlightIsBacked
      <3>1. m \in net /\ m.att \in Attempt /\ m.att # g /\ m.peer \in Base /\ m.req \in Request
        BY <1>0, <2>6, <2>7, RequestMsgsType DEF TypeOK, Message
      <3> QED
        BY <1>0, <3>1, <2>3, <2>5, <2>6, NoneAssumption DEF GrantInFlightIsBacked
    <2>11. MessagesMatchAttempts'
      <3> SUFFICES ASSUME NEW m \in net', m.att # None
                   PROVE  /\ m.type = "LOCK_RELEASE" => att'[m.att].pc \in {"idle", "requeue"}
                          /\ m.type = "LOCK_REQUEST" => att'[m.att].pc # "trying"
                          /\ m.type = "LOCK_REQUEST" /\ Owning(m.att)' => att'[m.att].req = m.req
        BY DEF MessagesMatchAttempts
      <3>1. CASE m \in net
        BY <1>0, <3>1, <2>3, <2>7 DEF MessagesMatchAttempts, Owning, TypeOK, Message
      <3>2. CASE m \notin net
        BY <3>2, <2>4, <2>6, RequestMsgsType
      <3> QED
        BY <3>1, <3>2
    <2>12. OneAnswerPerPeer'
      <3> SUFFICES ASSUME NEW m \in net', NEW n \in net',
                          m.type # "LOCK_RELEASE", n.type # "LOCK_RELEASE",
                          m.att = n.att, m.peer = n.peer
                   PROVE  m = n
        BY DEF OneAnswerPerPeer
      <3>1. \A x \in net' : x \in net \/ (x.att = g /\ x = LockRequest(g, r, x.peer))
        BY <2>6, RequestMsgsType
      <3> QED
        BY <1>0, <2>7, <3>1 DEF OneAnswerPerPeer
    <2>13. NobodyIsItsOwnPeer'
      BY <1>0, <2>6 DEF NobodyIsItsOwnPeer
    <2> QED
      BY <2>8, <2>9, <2>10, <2>11, <2>12, <2>13
  <1>4. ASSUME NEW g \in Attempt, Unanimous(g)
        PROVE  Rest'
    <2>1. /\ att[g].pc = "asking" /\ att'[g].pc = "acquired"
          /\ att[g].waiting = {} /\ att[g].granted = att[g].peers
          /\ att'[g] = [att[g] EXCEPT !.pc = "acquired"]
      BY <1>0, <1>4 DEF Unanimous, TypeOK, AttemptState
    <2>2. \A h \in Attempt : h # g => att'[h] = att[h]
      BY <1>0, <1>4 DEF Unanimous, TypeOK
    <2>3. /\ att'[g].base = att[g].base /\ att'[g].req = att[g].req
          /\ att'[g].granted = att[g].granted /\ att'[g].peers = att[g].peers
      BY <1>0, <2>1 DEF TypeOK, AttemptState
    <2> QED
      BY <1>0, <1>4, <2>1, <2>2, <2>3 DEF Unanimous, OwnerKeepsItsLocks,
         HolderIsUnanimous, GrantInFlightIsBacked, MessagesMatchAttempts,
         OneAnswerPerPeer, NobodyIsItsOwnPeer, Owning, Holding, TypeOK, Message
  <1>5. ASSUME NEW g \in Attempt, LockConfirm(g)
        PROVE  Rest'
    <2>1. /\ att[g].pc = "acquired" /\ att'[g].pc = "assigned"
          /\ att'[g] = [att[g] EXCEPT !.pc = "assigned"]
      BY <1>0, <1>5 DEF LockConfirm, TypeOK, AttemptState
    <2>2. \A h \in Attempt : h # g => att'[h] = att[h]
      BY <1>0, <1>5 DEF LockConfirm, TypeOK
    <2>3. /\ att'[g].base = att[g].base /\ att'[g].req = att[g].req
          /\ att'[g].granted = att[g].granted /\ att'[g].peers = att[g].peers
      BY <1>0, <2>1 DEF TypeOK, AttemptState
    <2> QED
      BY <1>0, <1>5, <2>1, <2>2, <2>3 DEF LockConfirm, OwnerKeepsItsLocks,
         HolderIsUnanimous, GrantInFlightIsBacked, MessagesMatchAttempts,
         OneAnswerPerPeer, NobodyIsItsOwnPeer, Owning, Holding, TypeOK, Message
  <1>6. ASSUME NEW g \in Attempt, LockRequeue(g)
        PROVE  Rest'
    <2>1. att[g].pc = "requeue" /\ att'[g].pc = "idle"
      BY <1>0, <1>6, IdleType DEF LockRequeue, TypeOK
    <2>2. \A h \in Attempt : h # g => att'[h] = att[h]
      BY <1>0, <1>6 DEF LockRequeue, TypeOK
    <2> QED
      BY <1>0, <1>6, <2>1, <2>2 DEF LockRequeue, OwnerKeepsItsLocks,
         HolderIsUnanimous, GrantInFlightIsBacked, MessagesMatchAttempts,
         OneAnswerPerPeer, NobodyIsItsOwnPeer, Owning, Holding, TypeOK, Message
  <1>7. ASSUME NEW g \in Attempt, Refused(g) \/ LockDispatchFails(g)
        PROVE  Rest'
    <2>1. GiveBack(g) /\ Owning(g) /\ ~(\E m \in net : m.att = g /\ m.type = "LOCK_REPLY")
      BY <1>0, <1>7 DEF Refused, LockDispatchFails, Owning, GrantInFlightIsBacked
    <2>2. att[g].base \in Base /\ att[g].req \in Request
      BY <1>0, <2>1 DEF TypeOK, Owning
    <2>3. ReleaseLock(att[g].base, att[g].req, g) /\ online' = online
      BY <2>1 DEF GiveBack
    <2>4. /\ \A h \in Attempt : h # g => att'[h] = att[h]
          /\ att'[g].pc = "requeue"
      BY <1>0, <2>1 DEF GiveBack, TypeOK, AttemptState
    <2>5. \A m \in net' : m \in net \/ (m.type = "LOCK_RELEASE" /\ m.att = g)
      <3>1. net' = net \cup ReleaseMsgs(Others(att[g].base), att[g].req, g)
        BY <2>1 DEF GiveBack
      <3>2. \A m \in ReleaseMsgs(Others(att[g].base), att[g].req, g) :
              m.type = "LOCK_RELEASE" /\ m.att = g
        BY ReleaseMsgsType
      <3> QED
        BY <3>1, <3>2
    <2> QED
      BY <2>1, <2>2, <2>3, <2>4, <2>5, ReleaseKeepsInv
  <1>8. ASSUME NEW g \in Attempt, NEW b \in Base, EndTenure(g, b)
        PROVE  Rest'
    <2>1. /\ att[g].req \in Request /\ att[g].pc = "assigned"
          /\ ReleaseLock(b, att[g].req, g) /\ online' = online
      BY <1>0, <1>8 DEF EndTenure, TypeOK
    <2>2. ~(\E m \in net : m.att = g /\ m.type = "LOCK_REPLY")
      BY <1>0, <2>1 DEF GrantInFlightIsBacked
    <2>3. /\ \A h \in Attempt : h # g => att'[h] = att[h]
          /\ att'[g].pc = "idle"
      BY <1>0, <1>8, IdleType DEF EndTenure, TypeOK
    <2>4. \A m \in net' : m \in net \/ (m.type = "LOCK_RELEASE" /\ m.att = g)
      BY <1>8, ReleaseMsgsType DEF EndTenure
    <2> QED
      BY <2>1, <2>2, <2>3, <2>4, ReleaseKeepsInv
  <1>9. ASSUME NEW b \in Base, NEW r \in Request, NEW targets, StrayRelease(b, r, targets)
        PROVE  Rest'
    <2>1. ReleaseLock(b, r, None) /\ online' = online /\ att' = att
      BY <1>9 DEF StrayRelease
    <2>2. \A m \in net' : m \in net \/ (m.type = "LOCK_RELEASE" /\ m.att = None)
      BY <1>9, ReleaseMsgsType DEF StrayRelease
    <2> QED
      BY <2>1, <2>2, NoneAssumption, ReleaseKeepsInv
  <1>10. ASSUME NEW m \in net, HandleLockRelease(m)
         PROVE  Rest'
    <2>1. /\ m.type = "LOCK_RELEASE" /\ m.peer \in Base /\ m.req \in Request
          /\ m.att \in Attempt \cup {None}
          /\ ReleaseLock(m.peer, m.req, m.att) /\ online' = online /\ att' = att
          /\ net' \subseteq net
      BY <1>0, <1>10 DEF HandleLockRelease, TypeOK, Message
    <2>2. m.att \in Attempt => att[m.att].pc \in {"idle", "requeue"}
      BY <1>0, <2>1, NoneAssumption DEF MessagesMatchAttempts
    <2>3. \A n \in net' : n.att = m.att /\ m.att \in Attempt => n.type # "LOCK_REPLY"
      BY <1>0, <2>1, <2>2 DEF GrantInFlightIsBacked
    <2> DEFINE g == m.att
    <2>4. /\ g \in Attempt \cup {None} /\ m.peer \in Base /\ m.req \in Request
          /\ ReleaseLock(m.peer, m.req, g) /\ online' = online
          /\ \A n \in net' : n \in net \/ (n.type = "LOCK_RELEASE" /\ n.att = g)
          /\ \A h \in Attempt : h # g => att'[h] = att[h]
      BY <2>1
    <2>5. /\ g \in Attempt => att'[g].pc \in {"idle", "requeue"}
          /\ \A n \in net' : n.att = g /\ g \in Attempt => n.type # "LOCK_REPLY"
      BY <2>1, <2>2, <2>3
    <2> HIDE DEF g
    <2> QED
      BY <2>4, <2>5, ReleaseKeepsInv
  <1>11. ASSUME NEW m \in net, HandleLockRequest(m)
         PROVE  Rest'
    <2> DEFINE g == m.att
               p == m.peer
               r == m.req
               ok == locks[p][r] = None
               reply == LockReply(g, r, p, ok)
    <2>1. m.type = "LOCK_REQUEST" /\ g \in Attempt /\ p \in Base /\ r \in Request /\ g # None
      BY <1>0, <1>11, NoneAssumption DEF HandleLockRequest, TypeOK, Message
    <2>2. att' = att /\ online' = online /\ clobbered' = clobbered
      BY <1>11 DEF HandleLockRequest
    <2>3. /\ ok => locks'[p][r] = g
          /\ ~ok => locks' = locks
          /\ \A b \in Base, q \in Request : locks[b][q] # None => locks'[b][q] = locks[b][q]
      BY <1>0, <1>11, <2>1 DEF HandleLockRequest, TypeOK
    <2>4. \A n \in net' : \/ n \in net /\ n # m
                          \/ n = reply /\ att[g].pc = "asking" /\ p \in att[g].waiting
      BY <1>11 DEF HandleLockRequest
    <2>5. /\ reply.type = "LOCK_REPLY" /\ reply.att = g /\ reply.req = r
          /\ reply.peer = p /\ reply.granted = ok
      BY DEF LockReply
    <2>6. OwnerKeepsItsLocks'
      <3> SUFFICES ASSUME NEW h \in Attempt, Owning(h), att[h].req \notin clobbered,
                          NEW q \in att[h].granted \cup {att[h].base}
                   PROVE  locks'[q][att[h].req] = h
        BY <2>2 DEF OwnerKeepsItsLocks, Owning
      <3>1. q \in Base /\ att[h].req \in Request /\ h # None
        BY <1>0, NoneAssumption DEF Owning, TypeOK, AttemptState
      <3>2. locks[q][att[h].req] = h
        BY <1>0 DEF OwnerKeepsItsLocks
      <3> QED
        BY <3>1, <3>2, <2>3
    <2>7. GrantInFlightIsBacked'
      <3> SUFFICES ASSUME NEW n \in net', n.type = "LOCK_REPLY"
                   PROVE  /\ att[n.att].pc = "asking"
                          /\ att[n.att].req = n.req
                          /\ n.peer \in att[n.att].waiting
                          /\ n.granted /\ n.req \notin clobbered =>
                                locks'[n.peer][n.req] = n.att
        BY <2>2 DEF GrantInFlightIsBacked
      <3>1. CASE n \in net
        <4>1. n.att \in Attempt /\ n.peer \in Base /\ n.req \in Request /\ n.att # None
          BY <1>0, <3>1, NoneAssumption DEF TypeOK, Message
        <4> QED
          BY <1>0, <3>1, <4>1, <2>3 DEF GrantInFlightIsBacked
      <3>2. CASE n = reply /\ att[g].pc = "asking" /\ p \in att[g].waiting
        <4>1. att[g].req = r
          BY <1>0, <3>2, <2>1 DEF MessagesMatchAttempts, Owning
        <4>2. n.granted => locks'[p][r] = g
          BY <3>2, <2>3, <2>5
        <4> QED
          BY <3>2, <2>5, <4>1, <4>2
      <3> QED
        BY <2>4, <3>1, <3>2
    <2>8. MessagesMatchAttempts'
      BY <1>0, <2>2, <2>4, <2>5 DEF MessagesMatchAttempts, Owning
    <2>9. OneAnswerPerPeer'
      BY <1>0, <2>1, <2>4, <2>5 DEF OneAnswerPerPeer
    <2>10. HolderIsUnanimous' /\ NobodyIsItsOwnPeer'
      BY <1>0, <2>2 DEF HolderIsUnanimous, NobodyIsItsOwnPeer, Holding, Owning
    <2> QED
      BY <2>6, <2>7, <2>8, <2>9, <2>10
  <1>12. ASSUME NEW m \in net, ReceiveReply(m)
         PROVE  Rest'
    <2> DEFINE g == m.att
    <2>1. /\ m.type = "LOCK_REPLY" /\ g \in Attempt /\ m.peer \in Base
          /\ m.req \in Request /\ m \in Message /\ att[g] \in AttemptState
      BY <1>0, <1>12 DEF ReceiveReply, TypeOK, Message
    <2>2. /\ att[g].pc = "asking" /\ att[g].req = m.req /\ m.peer \in att[g].waiting
          /\ m.granted /\ m.req \notin clobbered => locks[m.peer][m.req] = g
      BY <1>0, <2>1 DEF GrantInFlightIsBacked
    <2>3. att'[g] = Answered(att[g], m) /\ \A h \in Attempt : h # g => att'[h] = att[h]
      BY <1>0, <1>12, <2>1 DEF ReceiveReply, TypeOK
    <2>4. /\ att'[g].base = att[g].base /\ att'[g].req = att[g].req /\ att'[g].pc = "asking"
          /\ att'[g].peers = att[g].peers /\ att'[g].waiting = att[g].waiting \ {m.peer}
          /\ att'[g].granted \subseteq att[g].granted \cup {m.peer}
          /\ ~m.granted => att'[g].granted = att[g].granted
      BY <2>1, <2>2, <2>3, AnswerType
    <2>5. /\ locks' = locks /\ online' = online /\ clobbered' = clobbered
          /\ net' = net \ {m}
      BY <1>12 DEF ReceiveReply
    <2>6. OwnerKeepsItsLocks'
      BY <1>0, <2>2, <2>3, <2>4, <2>5 DEF OwnerKeepsItsLocks, Owning
    <2>7. HolderIsUnanimous' /\ NobodyIsItsOwnPeer'
      BY <1>0, <2>2, <2>3, <2>4, <2>5 DEF HolderIsUnanimous, NobodyIsItsOwnPeer, Holding, Owning
    <2>8. GrantInFlightIsBacked'
      <3> SUFFICES ASSUME NEW n \in net', n.type = "LOCK_REPLY"
                   PROVE  /\ att'[n.att].pc = "asking"
                          /\ att'[n.att].req = n.req
                          /\ n.peer \in att'[n.att].waiting
                          /\ n.granted /\ n.req \notin clobbered' =>
                                locks'[n.peer][n.req] = n.att
        BY DEF GrantInFlightIsBacked
      <3>1. n \in net /\ n # m /\ n.att \in Attempt
        BY <1>0, <2>5 DEF TypeOK
      <3>2. n.att = g => n.peer # m.peer
        BY <1>0, <2>1, <3>1 DEF OneAnswerPerPeer
      <3> QED
        BY <1>0, <2>3, <2>4, <2>5, <3>1, <3>2 DEF GrantInFlightIsBacked
    <2>9. MessagesMatchAttempts' /\ OneAnswerPerPeer'
      BY <1>0, <2>2, <2>3, <2>4, <2>5 DEF MessagesMatchAttempts, OneAnswerPerPeer, Owning, TypeOK, Message
    <2> QED
      BY <2>6, <2>7, <2>8, <2>9
  <1>13. ASSUME NEW g \in Attempt, NEW p \in Base, CallFails(g, p)
         PROVE  Rest'
    <2>1. /\ att[g].pc = "asking" /\ att'[g].pc = "asking"
          /\ att'[g].base = att[g].base /\ att'[g].req = att[g].req
          /\ att'[g].peers = att[g].peers /\ att'[g].granted = att[g].granted
          /\ att'[g].waiting = att[g].waiting \ {p}
      BY <1>0, <1>13 DEF CallFails, TypeOK, AttemptState
    <2>2. \A h \in Attempt : h # g => att'[h] = att[h]
      BY <1>0, <1>13 DEF CallFails, TypeOK
    <2>3. /\ locks' = locks /\ online' = online /\ clobbered' = clobbered
          /\ net' \subseteq net
          /\ \A n \in net' : n.type = "LOCK_REPLY" /\ n.att = g => n.peer # p
      BY <1>13 DEF CallFails
    <2>4. OwnerKeepsItsLocks' /\ HolderIsUnanimous' /\ NobodyIsItsOwnPeer'
      BY <1>0, <2>1, <2>2, <2>3
         DEF OwnerKeepsItsLocks, HolderIsUnanimous, NobodyIsItsOwnPeer, Holding, Owning
    <2>5. GrantInFlightIsBacked'
      BY <1>0, <2>1, <2>2, <2>3 DEF GrantInFlightIsBacked, TypeOK
    <2>6. MessagesMatchAttempts' /\ OneAnswerPerPeer'
      BY <1>0, <2>1, <2>2, <2>3 DEF MessagesMatchAttempts, OneAnswerPerPeer, Owning, TypeOK, Message
    <2> QED
      BY <2>4, <2>5, <2>6
  <1>14. ASSUME NEW m \in net, Lose(m)
         PROVE  Rest'
    BY <1>0, <1>14 DEF Lose, OwnerKeepsItsLocks, HolderIsUnanimous,
       GrantInFlightIsBacked, MessagesMatchAttempts, OneAnswerPerPeer,
       NobodyIsItsOwnPeer, Owning, Holding
  <1>15. ASSUME NEW b \in Base, NEW p \in Base, Hear(b, p) \/ Suspect(b, p)
         PROVE  Rest'
    BY <1>0, <1>15 DEF Hear, Suspect, Others, TypeOK, OwnerKeepsItsLocks,
       HolderIsUnanimous, GrantInFlightIsBacked, MessagesMatchAttempts,
       OneAnswerPerPeer, NobodyIsItsOwnPeer, Owning, Holding
  <1>16. CASE UNCHANGED lockVars
    BY <1>0, <1>16 DEF lockVars, OwnerKeepsItsLocks, HolderIsUnanimous,
       GrantInFlightIsBacked, MessagesMatchAttempts, OneAnswerPerPeer,
       NobodyIsItsOwnPeer, Owning, Holding
  <1> QED
    BY <1>1, <1>2, <1>3, <1>4, <1>5, <1>6, <1>7, <1>8, <1>9, <1>10, <1>11, <1>12,
       <1>13, <1>14, <1>15, <1>16
       DEF LockNext, StableNext, AttemptStep, MessageStep, Disturbance

\* The invariant that carries the lock: what an attempt believes it has locked
\* is locked, at its own base and at every peer whose grant it counts, until a
\* foreign release is recorded (dispatcher.go:76-121, state.go:211-225).
THEOREM LockInvariant == LockSpec => []LockInv
  <1>1. LockInit => LockInv
    BY InvInit
  <1> QED
    BY <1>1, InvStep, PTL DEF LockSpec

\* The inductive invariant is strong enough for mutual exclusion: of two
\* holders one would have to find its entry in a table that has the other's.
LEMMA Exclusion == LockInv => ExclusiveUnlessClobbered
  <1> SUFFICES ASSUME LockInv, NEW g \in Attempt, NEW h \in Attempt, g # h,
                      Holding(g), Holding(h), att[g].req = att[h].req,
                      att[g].req \notin clobbered
               PROVE  /\ att[g].base # att[h].base
                      /\ att[h].base \notin att[g].peers
                      /\ att[g].base \notin att[h].peers
    BY DEF ExclusiveUnlessClobbered
  <1>1. Owning(g) /\ Owning(h)
    BY DEF Holding, Owning
  <1>2. \A p \in att[g].peers \cup {att[g].base} : locks[p][att[g].req] = g
    BY <1>1 DEF LockInv, OwnerKeepsItsLocks, HolderIsUnanimous
  <1>3. \A p \in att[h].peers \cup {att[h].base} : locks[p][att[g].req] = h
    BY <1>1 DEF LockInv, OwnerKeepsItsLocks, HolderIsUnanimous
  <1> QED
    BY <1>2, <1>3

\* What acquireLock guarantees on any network and under any view of the peers:
\* a request is held twice only after a foreign release, or by two bases
\* neither of which had asked the other.
THEOREM Exclusive == LockSpec => []ExclusiveUnlessClobbered
  <1>1. LockInv => ExclusiveUnlessClobbered
    BY Exclusion
  <1> QED
    BY <1>1, LockInvariant, PTL

-----------------------------------------------------------------------------
(* A stable network.                                                       *)

\* A stable network only has fewer steps.
LEMMA StableStepIsStep == [StableNext]_lockVars => [LockNext]_lockVars
    BY DEF LockNext

\* In the stable start every base sees every other one.
LEMMA AsksInit == StableInit => AsksEverybody
    BY IdleType DEF StableInit, AsksEverybody, Owning

\* On a stable network nobody drops out of a view, so nobody is left unasked.
LEMMA AsksStep == LockInv /\ AsksEverybody /\ [StableNext]_lockVars => AsksEverybody'
  <1> SUFFICES ASSUME LockInv, AsksEverybody, [StableNext]_lockVars
               PROVE  AsksEverybody'
    OBVIOUS
  <1>0. TypeOK
    BY DEF LockInv
  <1>1. online' = online
    BY DEF StableNext, AttemptStep, MessageStep, Spawn, LocalRefusal, LocalLock,
       Unanimous, Refused, LockConfirm, LockDispatchFails, LockRequeue, EndTenure,
       GiveBack, HandleLockRequest, ReceiveReply, HandleLockRelease, lockVars
  <1>2. ASSUME NEW g \in Attempt, Owning(g)'
        PROVE  att'[g].peers = Others(att'[g].base)
    <2>1. CASE att'[g] = att[g]
      BY <1>2, <2>1 DEF AsksEverybody, Owning
    <2>2. CASE LocalLock(g)
      <3>1. att[g] \in AttemptState /\ att[g].base \in Base
        BY <1>0, <2>2 DEF LocalLock, TypeOK
      <3>2. online[att[g].base] = Others(att[g].base)
        BY <3>1 DEF AsksEverybody
      <3>3. online[att[g].base] \in SUBSET Base
        BY <1>0, <3>1 DEF TypeOK
      <3>4. att'[g] = Asking(att[g], online[att[g].base])
        BY <1>0, <2>2 DEF LocalLock, TypeOK
      <3> QED
        BY <3>1, <3>2, <3>3, <3>4, AskType
    <2>3. CASE Unanimous(g) \/ LockConfirm(g)
      <3>1. /\ Owning(g) /\ att'[g].base = att[g].base /\ att'[g].peers = att[g].peers
        BY <1>0, <2>3 DEF Unanimous, LockConfirm, Owning, TypeOK, AttemptState
      <3> QED
        BY <3>1 DEF AsksEverybody
    <2>4. CASE \E m \in net : ReceiveReply(m) /\ m.att = g
      <3>1. PICK m \in net : ReceiveReply(m) /\ m.att = g
        BY <2>4
      <3>2. /\ m \in Message /\ att[g] \in AttemptState
            /\ att'[g] = Answered(att[g], m)
        BY <1>0, <3>1 DEF ReceiveReply, TypeOK
      <3>3. att[g].pc = "asking"
        BY <3>1 DEF LockInv, GrantInFlightIsBacked, ReceiveReply
      <3> QED
        BY <3>2, <3>3, AnswerType DEF AsksEverybody, Owning
    <2>5. CASE \/ LocalRefusal(g) \/ Refused(g) \/ LockDispatchFails(g) \/ LockRequeue(g)
               \/ (\E b \in Base, r \in Request : Spawn(g, b, r))
               \/ (\E b \in Base : EndTenure(g, b))
      <3>1. att'[g].pc \in {"requeue", "idle", "trying"}
        BY <1>0, <2>5, IdleType DEF LocalRefusal, Refused, LockDispatchFails, GiveBack,
           LockRequeue, Spawn, Started, EndTenure, TypeOK, AttemptState
      <3> QED
        BY <1>2, <3>1 DEF Owning
    <2>6. ASSUME NEW h \in Attempt, h # g, AttemptStep(h)
          PROVE  att'[g] = att[g]
      BY <1>0, <2>6 DEF AttemptStep, Spawn, LocalRefusal, LocalLock, Unanimous, Refused,
         LockConfirm, LockDispatchFails, LockRequeue, EndTenure, GiveBack, TypeOK
    <2>7. ASSUME NEW m \in net,
                 HandleLockRequest(m) \/ HandleLockRelease(m) \/ (ReceiveReply(m) /\ m.att # g)
          PROVE  att'[g] = att[g]
      BY <1>0, <2>7 DEF HandleLockRequest, HandleLockRelease, ReceiveReply, TypeOK
    <2>8. CASE UNCHANGED lockVars
      BY <2>1, <2>8 DEF lockVars
    <2> QED
      BY <2>1, <2>2, <2>3, <2>4, <2>5, <2>6, <2>7, <2>8
         DEF StableNext, AttemptStep, MessageStep
  <1> QED
    BY <1>1, <1>2 DEF AsksEverybody

\* With complete views two holders have always asked each other.
LEMMA FullViewExclusion ==
    LockInv /\ AsksEverybody => ExclusiveInFullView
  <1> SUFFICES ASSUME LockInv, AsksEverybody, NEW g \in Attempt, NEW h \in Attempt,
                      Holding(g), Holding(h), att[g].req = att[h].req,
                      att[g].req \notin clobbered, g # h
               PROVE  FALSE
    BY DEF ExclusiveInFullView
  <1>1. /\ att[g].base # att[h].base
        /\ att[h].base \notin att[g].peers
    BY Exclusion DEF ExclusiveUnlessClobbered
  <1>2. att[h].base \in Base /\ att[g].peers = Base \ {att[g].base}
    BY DEF LockInv, TypeOK, Holding, AsksEverybody, Owning, Others
  <1> QED
    BY <1>1, <1>2

\* On a stable network in which every base knows every other, whatever the
\* interleaving, a request is held at most once as long as no release has
\* deleted a live lock of another attempt: the unconditional delete of
\* releaseLock (state.go:221) is the only hole in the mutual exclusion.
THEOREM StableExclusive == StableLockSpec => []ExclusiveInFullView
  <1>1. StableInit => LockInv /\ AsksEverybody
    BY InvInit, AsksInit
  <1>2. LockInv /\ AsksEverybody /\ [StableNext]_lockVars => (LockInv /\ AsksEverybody)'
    BY StableStepIsStep, InvStep, AsksStep
  <1>3. LockInv /\ AsksEverybody => ExclusiveInFullView
    BY FullViewExclusion
  <1> QED
    BY <1>1, <1>2, <1>3, PTL DEF StableLockSpec

-----------------------------------------------------------------------------
(* A network that delivers.                                                *)

\* Every lock message arrives and every peer answers in time: what is left are
\* releases by those who own nothing and - unless the network is trustful too -
\* wrong views of the peers.
TrustfulNext ==
    \/ StableNext
    \/ \E b \in Base, p \in Base : Hear(b, p)
    \/ \E b \in Base, r \in Request :
          StrayRelease(b, r, {}) \/ StrayRelease(b, r, Others(b))

ReliableNext == TrustfulNext \/ \E b \in Base, p \in Base : Suspect(b, p)

ReliableLockSpec == LockInit /\ [][ReliableNext]_lockVars

\* Whoever has asked waits for the answer (wg.Wait, dispatcher.go:107), so
\* no request arrives after its attempt has given up.
RequestIsAwaited ==
    \A m \in net : m.type = "LOCK_REQUEST" =>
        /\ att[m.att].pc = "asking"
        /\ att[m.att].req = m.req
        /\ m.peer \in att[m.att].waiting

\* The lock of attempt g on r would be missed, a being the state of the
\* attempts: Live, of the states before and after a step alike.
Alive(a, g, r) == /\ g # None
                  /\ a[g].pc \in {"asking", "acquired", "assigned"}
                  /\ a[g].req = r

\* The strengthening that makes NoOrphanLock inductive.
OrphanInv == LockInv /\ RequestIsAwaited /\ NoOrphanLock

\* A reliable network only has fewer steps.
LEMMA ReliableStepIsStep == [ReliableNext]_lockVars => [LockNext]_lockVars
    BY DEF ReliableNext, TrustfulNext, LockNext, Disturbance

\* Nothing is in flight or locked at the start.
LEMMA OrphanInit == LockInit \/ StableInit => OrphanInv
    BY InvInit DEF LockInit, StableInit, OrphanInv, RequestIsAwaited, NoOrphanLock

\* No step moves an attempt on while a request of its own is in flight.
LEMMA AwaitedStep ==
    LockInv /\ RequestIsAwaited /\ [ReliableNext]_lockVars => RequestIsAwaited'
  <1> SUFFICES ASSUME LockInv, RequestIsAwaited, [ReliableNext]_lockVars
               PROVE  RequestIsAwaited'
    OBVIOUS
  <1>0. TypeOK /\ OneAnswerPerPeer
    BY DEF LockInv
  <1>1. ASSUME NEW g \in Attempt, \A h \in Attempt : h # g => att'[h] = att[h],
               \A m \in net' : m.type = "LOCK_REQUEST" => m \in net /\ m.att # g
        PROVE  RequestIsAwaited'
    BY <1>0, <1>1 DEF RequestIsAwaited, TypeOK
  <1>2. ASSUME att' = att, \A m \in net' : m.type = "LOCK_REQUEST" => m \in net
        PROVE  RequestIsAwaited'
    BY <1>2 DEF RequestIsAwaited
  <1>3. ASSUME NEW g \in Attempt, AttemptStep(g), ~LocalLock(g)
        PROVE  RequestIsAwaited'
    <2>1. \A h \in Attempt : h # g => att'[h] = att[h]
      BY <1>0, <1>3 DEF AttemptStep, Spawn, LocalRefusal, Unanimous, Refused, LockConfirm,
         LockDispatchFails, LockRequeue, EndTenure, GiveBack, TypeOK
    <2>2. \A m \in net : m.type = "LOCK_REQUEST" => m.att # g
      BY <1>3 DEF RequestIsAwaited, AttemptStep, Spawn, Quiet, LocalRefusal, Unanimous, Refused,
         LockConfirm, LockDispatchFails, LockRequeue, EndTenure
    <2>3. \A m \in net' : m.type = "LOCK_REQUEST" => m \in net
      BY <1>3, ReleaseMsgsType DEF AttemptStep, Spawn, LocalRefusal, Unanimous, Refused,
         LockConfirm, LockDispatchFails, LockRequeue, EndTenure, GiveBack
    <2> QED
      BY <1>1, <2>1, <2>2, <2>3
  <1>4. ASSUME NEW g \in Attempt, LocalLock(g)
        PROVE  RequestIsAwaited'
    <2> DEFINE peers == online[att[g].base]
    <2>1. /\ att[g].pc = "trying" /\ att[g] \in AttemptState /\ peers \in SUBSET Base
          /\ att' = [att EXCEPT ![g] = Asking(att[g], peers)]
          /\ net' = net \cup RequestMsgs(peers, att[g].req, g)
      BY <1>0, <1>4 DEF LocalLock, TypeOK
    <2>2. /\ att'[g] = Asking(att[g], peers)
          /\ \A h \in Attempt : h # g => att'[h] = att[h]
      BY <1>0, <2>1 DEF TypeOK
    <2>3. att'[g].req = att[g].req /\ att'[g].waiting = peers
          /\ (att'[g].pc = "asking" \/ peers = {})
      BY <2>1, <2>2, AskType
    <2> HIDE DEF peers
    <2> SUFFICES ASSUME NEW m \in net', m.type = "LOCK_REQUEST"
                 PROVE  /\ att'[m.att].pc = "asking"
                        /\ att'[m.att].req = m.req
                        /\ m.peer \in att'[m.att].waiting
      BY DEF RequestIsAwaited
    <2>4. CASE m \in net
      <3>1. m.att \in Attempt /\ m.att # g
        BY <1>0, <2>1, <2>4 DEF RequestIsAwaited, TypeOK
      <3> QED
        BY <2>2, <2>4, <3>1 DEF RequestIsAwaited
    <2>5. CASE m \in RequestMsgs(peers, att[g].req, g)
      <3>1. m.att = g /\ m.req = att[g].req /\ m.peer \in peers
        BY <2>5, RequestMsgsType
      <3> QED
        BY <2>3, <3>1
    <2> QED
      BY <2>1, <2>4, <2>5
  <1>5. ASSUME NEW m \in net, HandleLockRequest(m) \/ HandleLockRelease(m)
        PROVE  RequestIsAwaited'
    <2>1. \A g, r, p, ok : LockReply(g, r, p, ok).type = "LOCK_REPLY"
      BY DEF LockReply
    <2> QED
      BY <1>2, <1>5, <2>1 DEF HandleLockRequest, HandleLockRelease
  <1>6. ASSUME NEW m \in net, ReceiveReply(m)
        PROVE  RequestIsAwaited'
    <2>1. /\ m.att \in Attempt /\ m \in Message /\ att[m.att] \in AttemptState
          /\ m.type = "LOCK_REPLY" /\ net' = net \ {m}
          /\ att' = [att EXCEPT ![m.att] = Answered(att[m.att], m)]
      BY <1>0, <1>6 DEF ReceiveReply, TypeOK
    <2>2. /\ att'[m.att].pc = att[m.att].pc /\ att'[m.att].req = att[m.att].req
          /\ att'[m.att].waiting = att[m.att].waiting \ {m.peer}
      <3>1. att'[m.att] = Answered(att[m.att], m)
        BY <1>0, <2>1 DEF TypeOK
      <3> QED
        BY <2>1, <3>1, AnswerType
    <2>3. \A h \in Attempt : h # m.att => att'[h] = att[h]
      BY <1>0, <2>1 DEF TypeOK
    <2>4. \A n \in net' : n.type = "LOCK_REQUEST" =>
             n \in net /\ n.att \in Attempt /\ (n.att = m.att => n.peer # m.peer)
      BY <1>0, <2>1 DEF OneAnswerPerPeer, TypeOK
    <2> QED
      BY <2>2, <2>3, <2>4 DEF RequestIsAwaited
  <1>7. CASE \/ \E b \in Base, p \in Base : Hear(b, p) \/ Suspect(b, p)
             \/ \E b \in Base, r \in Request :
                   StrayRelease(b, r, {}) \/ StrayRelease(b, r, Others(b))
             \/ UNCHANGED lockVars
    BY <1>2, <1>7, ReleaseMsgsType DEF Hear, Suspect, StrayRelease, lockVars
  <1> QED
    BY <1>3, <1>4, <1>5, <1>6, <1>7 DEF ReliableNext, TrustfulNext, StableNext, MessageStep

\* A release made for the attempt that gives its request up leaves behind
\* only locks it has told their tables to delete.
LEMMA GivenUpIsReleased ==
    ASSUME LockInv, NoOrphanLock, NEW b \in Base, NEW g \in Attempt, Owning(g),
           ReleaseLock(b, att[g].req, g),
           \A h \in Attempt : h # g => att'[h] = att[h],
           net' = net \cup ReleaseMsgs(Others(b), att[g].req, g)
    PROVE  NoOrphanLock'
  <1> DEFINE r == att[g].req
  <1> SUFFICES ASSUME NEW c \in Base, NEW q \in Request, locks'[c][q] # None
               PROVE  \/ Alive(att', locks'[c][q], q)
                      \/ LockRelease(locks'[c][q], q, c) \in net'
    BY DEF NoOrphanLock, Live, Owning, Alive
  <1> DEFINE h == locks[c][q]
  <1>1. locks'[c][q] = h /\ ~(c = b /\ q = r) /\ h \in Attempt
    BY DEF ReleaseLock, LockInv, TypeOK
  <1>2. Alive(att, h, q) \/ LockRelease(h, q, c) \in net
    BY <1>1, NoneAssumption DEF NoOrphanLock, Live, Owning, Alive
  <1>3. CASE h = g /\ q = r
    <2>1. c \in Others(b)
      BY <1>1, <1>3 DEF Others
    <2>2. LockRelease(g, r, c) \in ReleaseMsgs(Others(b), r, g)
      BY <2>1 DEF ReleaseMsgs
    <2> QED
      BY <1>1, <1>3, <2>2
  <1>4. CASE h = g /\ q # r
    BY <1>1, <1>2, <1>4 DEF Alive
  <1>5. CASE h # g
    BY <1>1, <1>2, <1>5 DEF Alive, Owning
  <1> QED
    BY <1>3, <1>4, <1>5

\* Every step of a network that delivers keeps every lock accounted for.
LEMMA OrphanStep ==
    LockInv /\ RequestIsAwaited /\ NoOrphanLock /\ [ReliableNext]_lockVars => NoOrphanLock'
  <1> SUFFICES ASSUME LockInv, RequestIsAwaited, NoOrphanLock, [ReliableNext]_lockVars
               PROVE  NoOrphanLock'
    OBVIOUS
  <1>0. TypeOK
    BY DEF LockInv
  <1>1. ASSUME NEW g \in Attempt, \A h \in Attempt : h # g => att'[h] = att[h],
               Alive(att, g, att[g].req) => Alive(att', g, att[g].req),
               \A c \in Base, q \in Request :
                  locks'[c][q] = locks[c][q] \/ locks'[c][q] = None
                    \/ Alive(att', locks'[c][q], q),
               net \subseteq net'
        PROVE  NoOrphanLock'
    <2> SUFFICES ASSUME NEW c \in Base, NEW q \in Request, locks'[c][q] # None,
                        locks'[c][q] = locks[c][q]
                 PROVE  \/ Alive(att', locks'[c][q], q)
                        \/ LockRelease(locks'[c][q], q, c) \in net'
      BY <1>1 DEF NoOrphanLock, Live, Owning, Alive
    <2>1. locks[c][q] \in Attempt
      BY <1>0 DEF TypeOK
    <2>2. Alive(att, locks[c][q], q) \/ LockRelease(locks[c][q], q, c) \in net
      BY DEF NoOrphanLock, Live, Owning, Alive
    <2> QED
      BY <1>1, <2>1, <2>2 DEF Alive, Owning
  <1>2. ASSUME NEW g \in Attempt, NEW b \in Base, NEW r \in Request, Spawn(g, b, r)
        PROVE  NoOrphanLock'
    <2>1. /\ \A h \in Attempt : h # g => att'[h] = att[h]
          /\ ~Alive(att, g, att[g].req) /\ locks' = locks /\ net' = net
      BY <1>0, <1>2 DEF Spawn, Alive, TypeOK
    <2> QED
      BY <1>1, <2>1
  <1>3. ASSUME NEW g \in Attempt, LocalRefusal(g) \/ LockRequeue(g)
        PROVE  NoOrphanLock'
    <2>1. /\ \A h \in Attempt : h # g => att'[h] = att[h]
          /\ ~Alive(att, g, att[g].req) /\ locks' = locks /\ net' = net
      BY <1>0, <1>3 DEF LocalRefusal, LockRequeue, Alive, TypeOK
    <2> QED
      BY <1>1, <2>1
  <1>4. ASSUME NEW g \in Attempt, LocalLock(g)
        PROVE  NoOrphanLock'
    <2> DEFINE b == att[g].base
               r == att[g].req
    <2>1. /\ att[g].pc = "trying" /\ att[g] \in AttemptState /\ online[b] \in SUBSET Base
          /\ b \in Base /\ r \in Request
      BY <1>0, <1>4 DEF LocalLock, TypeOK
    <2>2. att'[g] = Asking(att[g], online[b]) /\ \A h \in Attempt : h # g => att'[h] = att[h]
      BY <1>0, <1>4 DEF LocalLock, TypeOK
    <2>3. att'[g].pc \in {"asking", "acquired"} /\ att'[g].req = r
      BY <2>1, <2>2, AskType
    <2>4. /\ locks' = [locks EXCEPT ![b][r] = g] /\ net \subseteq net'
      BY <1>4 DEF LocalLock, TryLock
    <2>5. \A c \in Base, q \in Request :
             locks'[c][q] = locks[c][q] \/ (locks'[c][q] = g /\ q = r)
      BY <1>0, <2>1, <2>4 DEF TypeOK
    <2>6. Alive(att', g, r)
      BY <2>3, NoneAssumption DEF Alive
    <2>7. ~Alive(att, g, r)
      BY <2>1 DEF Alive
    <2>8. \A c \in Base, q \in Request :
             locks'[c][q] = locks[c][q] \/ Alive(att', locks'[c][q], q)
      BY <2>5, <2>6
    <2> QED
      BY <1>1, <2>2, <2>4, <2>7, <2>8
  <1>5. ASSUME NEW g \in Attempt, Unanimous(g) \/ LockConfirm(g)
        PROVE  NoOrphanLock'
    <2>1. /\ \A h \in Attempt : h # g => att'[h] = att[h]
          /\ Alive(att', g, att[g].req)
          /\ locks' = locks /\ net' = net
      BY <1>0, <1>5, NoneAssumption DEF Unanimous, LockConfirm, Alive, TypeOK, AttemptState
    <2> QED
      BY <1>1, <2>1
  <1>6. ASSUME NEW g \in Attempt, Refused(g) \/ LockDispatchFails(g)
        PROVE  NoOrphanLock'
    <2>1. GiveBack(g) /\ Owning(g) /\ att[g].base \in Base
      BY <1>0, <1>6 DEF Refused, LockDispatchFails, Owning, TypeOK
    <2>2. \A h \in Attempt : h # g => att'[h] = att[h]
      BY <1>0, <2>1 DEF GiveBack, TypeOK
    <2> QED
      BY <2>1, <2>2, GivenUpIsReleased DEF GiveBack
  <1>7. ASSUME NEW g \in Attempt, NEW b \in Base, EndTenure(g, b)
        PROVE  NoOrphanLock'
    <2>1. Owning(g) /\ \A h \in Attempt : h # g => att'[h] = att[h]
      BY <1>0, <1>7 DEF EndTenure, Owning, TypeOK
    <2> QED
      BY <1>7, <2>1, GivenUpIsReleased DEF EndTenure
  <1>8. ASSUME NEW m \in net, HandleLockRequest(m)
        PROVE  NoOrphanLock'
    <2> DEFINE g == m.att
               r == m.req
    <2>1. /\ m.type = "LOCK_REQUEST" /\ g \in Attempt /\ r \in Request /\ m.peer \in Base
          /\ att' = att
      BY <1>0, <1>8 DEF HandleLockRequest, TypeOK, Message
    <2>2. Alive(att', g, r)
      BY <2>1, NoneAssumption DEF RequestIsAwaited, Alive, Owning
    <2>3. \A c \in Base, q \in Request :
             locks'[c][q] = locks[c][q] \/ (locks'[c][q] = g /\ q = r)
      BY <1>0, <1>8, <2>1 DEF HandleLockRequest, TypeOK
    <2>4. ASSUME NEW c \in Base, NEW q \in Request, locks'[c][q] # None
          PROVE  \/ Alive(att', locks'[c][q], q)
                 \/ LockRelease(locks'[c][q], q, c) \in net'
      <3>1. CASE locks'[c][q] = g /\ q = r
        BY <2>2, <3>1
      <3>2. CASE locks'[c][q] = locks[c][q]
        <4>1. Alive(att, locks[c][q], q) \/ LockRelease(locks[c][q], q, c) \in net
          BY <2>4, <3>2 DEF NoOrphanLock, Live, Owning, Alive
        <4>2. LockRelease(locks[c][q], q, c) # m
          BY <2>1 DEF LockRelease
        <4>3. net \ {m} \subseteq net'
          BY <1>8 DEF HandleLockRequest
        <4> QED
          BY <2>1, <3>2, <4>1, <4>2, <4>3 DEF Alive, Owning
      <3> QED
        BY <2>3, <3>1, <3>2
    <2> QED
      BY <2>4 DEF NoOrphanLock, Live, Owning, Alive
  <1>9. ASSUME NEW m \in net, ReceiveReply(m)
        PROVE  NoOrphanLock'
    <2>1. /\ m.type = "LOCK_REPLY" /\ m.att \in Attempt /\ m \in Message
          /\ att[m.att] \in AttemptState
          /\ att' = [att EXCEPT ![m.att] = Answered(att[m.att], m)]
          /\ locks' = locks /\ net' = net \ {m}
      BY <1>0, <1>9 DEF ReceiveReply, TypeOK
    <2>2. \A h \in Attempt : att'[h].pc = att[h].pc /\ att'[h].req = att[h].req
      <3>1. att'[m.att] = Answered(att[m.att], m) /\ \A h \in Attempt : h # m.att => att'[h] = att[h]
        BY <1>0, <2>1 DEF TypeOK
      <3> QED
        BY <2>1, <3>1, AnswerType
    <2>3. \A h, q, c : LockRelease(h, q, c) # m
      BY <2>1 DEF LockRelease
    <2>4. \A c \in Base, q \in Request : locks[c][q] \in Attempt \cup {None}
      BY <1>0 DEF TypeOK
    <2> QED
      BY <2>1, <2>2, <2>3, <2>4 DEF NoOrphanLock, Live, Alive, Owning
  <1>10. ASSUME NEW m \in net, HandleLockRelease(m)
         PROVE  NoOrphanLock'
    <2>1. /\ locks' = [locks EXCEPT ![m.peer][m.req] = None]
          /\ net' = net \ {m} /\ att' = att /\ m.peer \in Base /\ m.req \in Request
      BY <1>0, <1>10 DEF HandleLockRelease, ReleaseLock, TypeOK, Message
    <2>2. ASSUME NEW c \in Base, NEW q \in Request, locks'[c][q] # None
          PROVE  \/ Alive(att', locks'[c][q], q)
                 \/ LockRelease(locks'[c][q], q, c) \in net'
      <3>1. locks'[c][q] = locks[c][q] /\ ~(c = m.peer /\ q = m.req)
        BY <1>0, <2>1, <2>2 DEF TypeOK
      <3>2. LockRelease(locks[c][q], q, c) # m
        BY <3>1 DEF LockRelease
      <3> QED
        BY <2>1, <2>2, <3>1, <3>2 DEF NoOrphanLock, Live, Alive, Owning
    <2> QED
      BY <2>2 DEF NoOrphanLock, Live, Owning, Alive
  <1>11. ASSUME NEW b \in Base, NEW r \in Request, NEW targets, StrayRelease(b, r, targets)
         PROVE  NoOrphanLock'
    <2>1. /\ locks' = [locks EXCEPT ![b][r] = None] /\ att' = att /\ net \subseteq net'
      BY <1>11 DEF StrayRelease, ReleaseLock
    <2>2. \A c \in Base, q \in Request :
             locks'[c][q] = locks[c][q] \/ locks'[c][q] = None
      BY <1>0, <2>1 DEF TypeOK
    <2> QED
      BY <2>1, <2>2 DEF NoOrphanLock, Live, Alive, Owning
  <1>12. CASE \/ \E b \in Base, p \in Base : Hear(b, p) \/ Suspect(b, p)
              \/ UNCHANGED lockVars
    BY <1>12 DEF Hear, Suspect, lockVars, NoOrphanLock, Live, Owning
  <1> QED
    BY <1>2, <1>3, <1>4, <1>5, <1>6, <1>7, <1>8, <1>9, <1>10, <1>11, <1>12
       DEF ReliableNext, TrustfulNext, StableNext, AttemptStep, MessageStep

\* The strengthened invariant is kept by every step of such a network.
LEMMA OrphanInvStep == OrphanInv /\ [ReliableNext]_lockVars => OrphanInv'
    BY ReliableStepIsStep, InvStep, AwaitedStep, OrphanStep DEF OrphanInv

\* As long as lock messages arrive and lock calls are answered in time, no lock
\* outlives its attempt, under any view of the peers and with releases from
\* outside (dispatcher.go:76-121): a lock that nobody would release needs a lost
\* release, or a request handled after its caller timed out.
THEOREM NoOrphans == ReliableLockSpec => []NoOrphanLock
  <1>1. LockInit => OrphanInv
    BY OrphanInit
  <1>2. OrphanInv => NoOrphanLock
    BY DEF OrphanInv
  <1> QED
    BY <1>1, <1>2, OrphanInvStep, PTL DEF ReliableLockSpec

\* Where nobody is suspected, nobody drops out of a view: releases from outside
\* touch neither the views nor the attempts.
LEMMA TrustfulAsks ==
    LockInv /\ AsksEverybody /\ [TrustfulNext]_lockVars => AsksEverybody'
  <1> SUFFICES ASSUME LockInv, AsksEverybody, [TrustfulNext]_lockVars
               PROVE  AsksEverybody'
    OBVIOUS
  <1>1. CASE [StableNext]_lockVars
    BY <1>1, AsksStep
  <1>2. ASSUME NEW b \in Base, NEW p \in Base, Hear(b, p)
        PROVE  FALSE
    BY <1>2 DEF Hear, AsksEverybody
  <1>3. ASSUME NEW b \in Base, NEW r \in Request, NEW targets, StrayRelease(b, r, targets)
        PROVE  AsksEverybody'
    BY <1>3 DEF StrayRelease, AsksEverybody, Owning
  <1> QED
    BY <1>1, <1>2, <1>3 DEF TrustfulNext
=============================================================================
