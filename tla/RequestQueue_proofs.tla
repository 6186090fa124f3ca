------------------------ MODULE RequestQueue_proofs ------------------------
(***************************************************************************)
(* What every operation of the request queue does to the IDs in the queue, *)
(* to the IDs it has seen and to the entries that are LOCKED; and that the *)
(* request Peek returns is determined.                                     *)
(***************************************************************************)
EXTENDS RequestQueue, TLAPS, WellFoundedInduction

Ids(q) == {e.id : e \in q.heap}

-----------------------------------------------------------------------------
(* Types.                                                                  *)

\* Push keeps a queue a queue (queue.go:52-61).
LEMMA PushType ==
    ASSUME NEW q \in Queue, NEW e \in Entry
    PROVE  Push(q, e) \in Queue
BY DEF Queue, Entry, Push

\* So does Replace (queue.go:63-80).
LEMMA ReplaceType ==
    ASSUME NEW q \in Queue, NEW e \in Entry
    PROVE  Replace(q, e) \in Queue
<1>1. CASE e.id \notin q.seen
  BY <1>1, PushType DEF Replace
<1>2. CASE e.id \in q.seen
  <2>1. {IF x.id = e.id THEN e ELSE x : x \in q.heap} \in SUBSET Entry
    BY DEF Queue
  <2> QED BY <1>2, <2>1 DEF Replace, Queue
<1> QED BY <1>1, <1>2

\* So does UpdateStatus (queue.go:103-130).
LEMMA UpdateStatusType ==
    ASSUME NEW q \in Queue, NEW r, NEW s \in Status, NEW d \in Drone \cup {None}
    PROVE  UpdateStatus(q, r, s, d) \in Queue
<1> DEFINE updated(x) == [x EXCEPT !.status = s,
                                   !.assigned = IF d # None THEN d
                                                ELSE IF s = "PENDING" THEN None
                                                ELSE x.assigned]
<1>1. \A x \in Entry : updated(x) \in Entry
  BY DEF Entry
<1>2. {IF x.id = r THEN updated(x) ELSE x : x \in q.heap} \in SUBSET Entry
  BY <1>1 DEF Queue
<1> QED BY <1>2 DEF UpdateStatus, Queue

\* So does Remove (queue.go:144-160).
LEMMA RemoveType ==
    ASSUME NEW q \in Queue, NEW r
    PROVE  Remove(q, r) \in Queue
BY DEF Queue, Remove

\* So does SyncFrom (queue.go:266-277).
LEMMA SyncFromType ==
    ASSUME NEW q \in Queue, NEW S \in SUBSET Entry
    PROVE  SyncFrom(q, S) \in Queue
BY DEF Queue, Entry, SyncFrom

\* What ClearDroneAssignments does to each entry (queue.go:212-227).
Cleared(x, d) == IF x.status = "ASSIGNED" /\ x.assigned = d
                 THEN [x EXCEPT !.status = "PENDING", !.assigned = None]
                 ELSE x

\* It leaves the IDs, and makes no entry LOCKED.
LEMMA ClearEntries ==
    ASSUME NEW q \in Queue, NEW d
    PROVE  /\ ClearDroneAssignments(q, d).heap = {Cleared(x, d) : x \in q.heap}
           /\ ClearDroneAssignments(q, d).seen = q.seen
           /\ \A x \in q.heap : /\ Cleared(x, d) \in Entry
                                /\ Cleared(x, d).id = x.id
                                /\ Cleared(x, d).status = "LOCKED" => Cleared(x, d) = x
BY DEF ClearDroneAssignments, Cleared, Queue, Entry, Status

\* It keeps a queue a queue.
LEMMA ClearType ==
    ASSUME NEW q \in Queue, NEW d
    PROVE  ClearDroneAssignments(q, d) \in Queue
<1>1. ClearDroneAssignments(q, d) = [q EXCEPT !.heap = {Cleared(x, d) : x \in q.heap}]
  BY DEF ClearDroneAssignments, Cleared
<1>2. {Cleared(x, d) : x \in q.heap} \subseteq Entry
  <2>1. \A x \in q.heap : Cleared(x, d) \in Entry
    BY ClearEntries
  <2> QED BY <2>1
<1> QED BY <1>1, <1>2 DEF Queue

-----------------------------------------------------------------------------
(* IDs.                                                                    *)

\* Push adds an ID that was never seen, and no other.
LEMMA PushIds ==
    ASSUME NEW q \in Queue, NEW e \in Entry
    PROVE  /\ Push(q, e).seen = q.seen \cup {e.id}
           /\ Ids(Push(q, e)) = IF e.id \in q.seen THEN Ids(q) ELSE Ids(q) \cup {e.id}
BY DEF Queue, Push, Ids

\* Replace brings an ID back no more than Push does.
LEMMA ReplaceIds ==
    ASSUME NEW q \in Queue, NEW e \in Entry
    PROVE  /\ Replace(q, e).seen = q.seen \cup {e.id}
           /\ Ids(Replace(q, e)) = IF e.id \in q.seen THEN Ids(q) ELSE Ids(q) \cup {e.id}
<1>1. CASE e.id \notin q.seen
  BY <1>1, PushIds DEF Replace
<1>2. CASE e.id \in q.seen
  <2>1. Replace(q, e) = [q EXCEPT !.heap = {IF x.id = e.id THEN e ELSE x : x \in q.heap}]
    BY <1>2 DEF Replace
  <2>2. /\ Replace(q, e).heap = {IF x.id = e.id THEN e ELSE x : x \in q.heap}
        /\ Replace(q, e).seen = q.seen
    BY <2>1 DEF Queue
  <2>3. Ids(Replace(q, e)) = Ids(q)
    BY <2>2 DEF Ids
  <2> QED BY <1>2, <2>2, <2>3
<1> QED BY <1>1, <1>2

\* UpdateStatus moves no ID.
LEMMA UpdateStatusIds ==
    ASSUME NEW q \in Queue, NEW r, NEW s, NEW d
    PROVE  /\ UpdateStatus(q, r, s, d).seen = q.seen
           /\ Ids(UpdateStatus(q, r, s, d)) = Ids(q)
<1> DEFINE updated(x) == [x EXCEPT !.status = s,
                                   !.assigned = IF d # None THEN d
                                                ELSE IF s = "PENDING" THEN None
                                                ELSE x.assigned]
<1>1. \A x \in Entry : updated(x).id = x.id
  BY DEF Entry
<1>2. /\ UpdateStatus(q, r, s, d).heap = {IF x.id = r THEN updated(x) ELSE x : x \in q.heap}
      /\ UpdateStatus(q, r, s, d).seen = q.seen
  BY DEF UpdateStatus, Queue
<1>3. Ids(UpdateStatus(q, r, s, d)) = {(IF x.id = r THEN updated(x) ELSE x).id : x \in q.heap}
  BY <1>2 DEF Ids
<1>4. \A x \in q.heap : (IF x.id = r THEN updated(x) ELSE x).id = x.id
  BY <1>1 DEF Queue
<1> HIDE DEF updated
<1>5. {(IF x.id = r THEN updated(x) ELSE x).id : x \in q.heap} = Ids(q)
  BY <1>4 DEF Ids
<1> QED BY <1>2, <1>3, <1>5

\* ClearDroneAssignments moves no ID.
LEMMA ClearIds ==
    ASSUME NEW q \in Queue, NEW d
    PROVE  /\ ClearDroneAssignments(q, d).seen = q.seen
           /\ Ids(ClearDroneAssignments(q, d)) = Ids(q)
BY ClearEntries DEF Ids

\* Remove takes one ID out of the queue and remembers it.
LEMMA RemoveIds ==
    ASSUME NEW q \in Queue, NEW r
    PROVE  /\ Remove(q, r).seen = q.seen
           /\ Ids(Remove(q, r)) = Ids(q) \ {r}
BY DEF Queue, Remove, Ids

\* SyncFrom adds the IDs that were never seen, and no other.
LEMMA SyncFromIds ==
    ASSUME NEW q \in Queue, NEW S \in SUBSET Entry
    PROVE  /\ q.seen \subseteq SyncFrom(q, S).seen
           /\ \A r \in q.seen : r \in Ids(SyncFrom(q, S)) => r \in Ids(q)
BY DEF Queue, SyncFrom, Ids

-----------------------------------------------------------------------------
(* No ID twice, and every ID in the queue has been seen.                   *)

\* A new queue is well formed (queue.go:43-50).
LEMMA EmptyQueueWellFormed == EmptyQueue \in Queue /\ WellFormed(EmptyQueue)
BY DEF EmptyQueue, Queue, WellFormed

\* Push does not add an ID a second time.
LEMMA PushWellFormed ==
    ASSUME NEW q \in Queue, NEW e \in Entry, WellFormed(q)
    PROVE  WellFormed(Push(q, e))
BY DEF Queue, Push, WellFormed

\* Replace puts the new entry where the old one was.
LEMMA ReplaceWellFormed ==
    ASSUME NEW q \in Queue, NEW e \in Entry, WellFormed(q)
    PROVE  WellFormed(Replace(q, e))
<1>1. CASE e.id \notin q.seen
  BY <1>1, PushWellFormed DEF Replace
<1>2. CASE e.id \in q.seen
  <2>1. /\ Replace(q, e).heap = {IF x.id = e.id THEN e ELSE x : x \in q.heap}
        /\ Replace(q, e).seen = q.seen
    BY <1>2 DEF Replace, Queue
  <2> QED BY <1>2, <2>1 DEF WellFormed
<1> QED BY <1>1, <1>2

\* UpdateStatus changes the entries of one ID, of which there is one.
LEMMA UpdateStatusWellFormed ==
    ASSUME NEW q \in Queue, NEW r, NEW s, NEW d, WellFormed(q)
    PROVE  WellFormed(UpdateStatus(q, r, s, d))
<1> DEFINE updated(x) == [x EXCEPT !.status = s,
                                   !.assigned = IF d # None THEN d
                                                ELSE IF s = "PENDING" THEN None
                                                ELSE x.assigned]
<1>1. \A x \in q.heap : updated(x).id = x.id
  BY DEF Entry, Queue
<1>2. /\ UpdateStatus(q, r, s, d).heap = {IF x.id = r THEN updated(x) ELSE x : x \in q.heap}
      /\ UpdateStatus(q, r, s, d).seen = q.seen
  BY DEF UpdateStatus, Queue
<1> HIDE DEF updated
<1> QED BY <1>1, <1>2 DEF WellFormed

\* ClearDroneAssignments changes every entry by itself.
LEMMA ClearWellFormed ==
    ASSUME NEW q \in Queue, NEW d, WellFormed(q)
    PROVE  WellFormed(ClearDroneAssignments(q, d))
BY ClearEntries DEF WellFormed

\* Remove only takes away.
LEMMA RemoveWellFormed ==
    ASSUME NEW q \in Queue, NEW r, WellFormed(q)
    PROVE  WellFormed(Remove(q, r))
BY DEF Queue, Remove, WellFormed

\* SyncFrom adds no ID twice when the snapshot has none twice.
LEMMA SyncFromWellFormed ==
    ASSUME NEW q \in Queue, NEW S \in SUBSET Entry, WellFormed(q),
           \A e, f \in S : e.id = f.id => e = f
    PROVE  WellFormed(SyncFrom(q, S))
BY DEF Queue, SyncFrom, WellFormed

-----------------------------------------------------------------------------
(* Entries that are LOCKED.                                                *)

\* Whatever comes by gossip unlocked adds no LOCKED entry.
LEMMA ReplaceLocksNothing ==
    ASSUME NEW q \in Queue, NEW e \in Entry, e.status # "LOCKED",
           NEW x \in Replace(q, e).heap, x.status = "LOCKED"
    PROVE  x \in q.heap
<1>1. CASE e.id \notin q.seen
  BY <1>1 DEF Replace, Push, Queue
<1>2. CASE e.id \in q.seen
  <2>1. Replace(q, e).heap = {IF y.id = e.id THEN e ELSE y : y \in q.heap}
    BY <1>2 DEF Replace, Queue
  <2> QED BY <2>1
<1> QED BY <1>1, <1>2

\* The same of a request a base hears of.
LEMMA PushLocksNothing ==
    ASSUME NEW q \in Queue, NEW e \in Entry, e.status # "LOCKED",
           NEW x \in Push(q, e).heap, x.status = "LOCKED"
    PROVE  x \in q.heap
BY DEF Push, Queue

\* UpdateStatus leaves the other requests, and gives its own the new status.
LEMMA UpdateStatusLocks ==
    ASSUME NEW q \in Queue, NEW r, NEW s, NEW d,
           NEW x \in UpdateStatus(q, r, s, d).heap
    PROVE  \/ x \in q.heap /\ x.id # r
           \/ x.status = s /\ x.id = r
<1> DEFINE updated(y) == [y EXCEPT !.status = s,
                                   !.assigned = IF d # None THEN d
                                                ELSE IF s = "PENDING" THEN None
                                                ELSE y.assigned]
<1>1. \A y \in q.heap : updated(y).id = y.id /\ updated(y).status = s
  BY DEF Entry, Queue
<1>2. UpdateStatus(q, r, s, d).heap = {IF y.id = r THEN updated(y) ELSE y : y \in q.heap}
  BY DEF UpdateStatus, Queue
<1> HIDE DEF updated
<1> QED BY <1>1, <1>2

\* ClearDroneAssignments locks nothing.
LEMMA ClearLocksNothing ==
    ASSUME NEW q \in Queue, NEW d,
           NEW x \in ClearDroneAssignments(q, d).heap, x.status = "LOCKED"
    PROVE  x \in q.heap
BY ClearEntries

\* Remove adds nothing.
LEMMA RemoveAddsNothing ==
    ASSUME NEW q \in Queue, NEW r
    PROVE  Remove(q, r).heap \subseteq q.heap
BY DEF Remove, Queue

-----------------------------------------------------------------------------
(* The most urgent request.                                                *)

\* A set of natural numbers has a least one.
LEMMA LeastNatural ==
    ASSUME NEW S \in SUBSET Nat, S # {}
    PROVE  \E x \in S : \A y \in S : x =< y
<1> DEFINE R == OpToRel(<, Nat)
<1>1. IsWellFoundedOn(R, Nat)
  BY NatLessThanWellFounded
<1> HIDE DEF R
<1>2. PICK x \in S : \A y \in S : ~ (<<y, x>> \in R)
  BY <1>1, WFMin
<1>3. \A y \in Nat : y < x => <<y, x>> \in R
  BY DEF R, OpToRel
<1>4. ASSUME NEW y \in S
      PROVE  x =< y
  <2>1. ~ (y < x)
    BY <1>2, <1>3
  <2> QED BY <2>1
<1> QED BY <1>4

\* The numbers entries are compared by; a rescued one comes before all others.
LEMMA UrgencyType ==
    ASSUME NEW e \in Entry
    PROVE  /\ EntryPriority(e) + 1 \in Nat /\ EntryPriority(e) \in Int
           /\ EntryStamp(e) \in Nat /\ e.id \in Nat
<1>1. e.id \in Request /\ Priority[e.id] \in Nat /\ Stamp[e.id] \in Nat /\ e.id \in Nat
  BY PriorityAssumption, StampAssumption, RequestAssumption DEF Entry
<1>2. CASE e.rescued
  BY <1>1, <1>2 DEF EntryPriority, EntryStamp
<1>3. CASE ~e.rescued
  BY <1>1, <1>3 DEF EntryPriority, EntryStamp
<1> QED BY <1>2, <1>3

\* Of two entries of different requests one comes first (queue.go:20-32, 84-98).
LEMMA LessIsTotal ==
    ASSUME NEW e \in Entry, NEW f \in Entry, e.id # f.id
    PROVE  Less(e, f) \/ Less(f, e)
<1>1. \A x \in Entry : EntryPriority(x) \in Int /\ EntryStamp(x) \in Nat /\ x.id \in Nat
  BY UrgencyType
<1> QED BY <1>1 DEF Less

\* Some pending request comes before no other: the least priority, of those the
\* least timestamp, of those the least ID.
LEMMA PeekFinds ==
    ASSUME NEW q \in Queue, Pending(q) # {}
    PROVE  Peek(q) # {}
<1> DEFINE P == Pending(q)
           prio(e) == EntryPriority(e) + 1
<1>1. P \subseteq Entry
  BY DEF Pending, Queue
<1>2. \A e \in P : prio(e) \in Nat /\ EntryPriority(e) \in Int /\ EntryStamp(e) \in Nat /\ e.id \in Nat
  BY <1>1, UrgencyType
<1> HIDE DEF P
<1>3. PICK a \in P : \A e \in P : prio(a) =< prio(e)
  <2> DEFINE S == {prio(e) : e \in P}
  <2>1. S \in SUBSET Nat /\ S # {}
    BY <1>2 DEF P
  <2>2. \E x \in S : \A y \in S : x =< y
    BY <2>1, LeastNatural
  <2> QED BY <2>2
<1> DEFINE A == {e \in P : prio(e) = prio(a)}
<1>4. PICK b \in A : \A e \in A : EntryStamp(b) =< EntryStamp(e)
  <2> DEFINE S == {EntryStamp(e) : e \in A}
  <2>1. S \in SUBSET Nat /\ S # {}
    BY <1>2
  <2> HIDE DEF A
  <2>2. \E x \in S : \A y \in S : x =< y
    BY <2>1, LeastNatural
  <2> QED BY <2>2
<1> DEFINE B == {e \in A : EntryStamp(e) = EntryStamp(b)}
<1>5. PICK c \in B : \A e \in B : c.id =< e.id
  <2> DEFINE S == {e.id : e \in B}
  <2>1. S \in SUBSET Nat /\ S # {}
    BY <1>2
  <2> HIDE DEF B
  <2>2. \E x \in S : \A y \in S : x =< y
    BY <2>1, LeastNatural
  <2> QED BY <2>2
<1>6. ASSUME NEW f \in P
      PROVE  ~Less(f, c)
  <2>1. EntryPriority(c) = EntryPriority(a) /\ EntryStamp(c) = EntryStamp(b) /\ c \in P
    BY <1>2
  <2>2. EntryPriority(c) =< EntryPriority(f)
    BY <1>2, <1>3, <2>1
  <2>3. EntryPriority(f) = EntryPriority(c) => EntryStamp(c) =< EntryStamp(f)
    BY <1>2, <1>4, <2>1
  <2>4. EntryPriority(f) = EntryPriority(c) /\ EntryStamp(f) = EntryStamp(c) => c.id =< f.id
    BY <1>2, <1>5, <2>1
  <2> HIDE DEF prio, A, B
  <2> QED BY <1>2, <2>1, <2>2, <2>3, <2>4 DEF Less
<1>7. c \in Peek(q)
  BY <1>6 DEF Peek, P
<1> QED BY <1>7

\* Peek finds exactly one request whenever one is pending: which one, depends on
\* nothing but the pending requests, so bases with the same ones try the same
\* (queue.go:82-101).
THEOREM PeekIsDetermined ==
    ASSUME NEW q \in Queue, WellFormed(q), Pending(q) # {}
    PROVE  \E e \in Pending(q) : Peek(q) = {e}
<1>1. PICK e \in Peek(q) : TRUE
  BY PeekFinds
<1>2. e \in Pending(q) /\ Peek(q) \subseteq Pending(q) /\ Pending(q) \subseteq Entry
      /\ \A f \in Pending(q) : f.id = e.id => f = e
  BY DEF Peek, Pending, Queue, WellFormed
<1>3. ASSUME NEW f \in Peek(q)
      PROVE  f = e
  <2>1. ~Less(e, f) /\ ~Less(f, e)
    BY <1>2, <1>3 DEF Peek
  <2> QED BY <1>2, <1>3, <2>1, LessIsTotal
<1> QED BY <1>2, <1>3
=============================================================================
