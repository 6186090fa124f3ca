---------------------------- MODULE RequestQueue ----------------------------
(***************************************************************************)
(* internal/queue: the queue of requests every base keeps.  A queue is the *)
(* set of its entries and the set of IDs it has ever seen; the order of    *)
(* the heap slice is left out, because Peek scans the whole slice for the  *)
(* least pending entry and no operation depends on a position.  LockedBy   *)
(* is left out too (it is written and never read), and WallClock, which    *)
(* only orders the dashboards.  A request's priority and timestamp are     *)
(* fixed by its broker, except that a rescue rewrites them to -1 and 0.    *)
(***************************************************************************)
EXTENDS FleetTypes

CONSTANTS Priority,  \* Priority[r]: 1 CRITICAL, 2 NORMAL
          Stamp      \* Stamp[r]: its LamportTS

ASSUME PriorityAssumption == Priority \in [Request -> Nat]
ASSUME StampAssumption == Stamp \in [Request -> Nat]

Status == {"PENDING", "LOCKED", "ASSIGNED", "DONE"}

Entry == [id : Request, status : Status, assigned : Drone \cup {None},
          rescued : BOOLEAN]

Queue == [heap : SUBSET Entry, seen : SUBSET Request]

EmptyQueue == [heap |-> {}, seen |-> {}]

\* A request as its broker creates it.
NewEntry(r) == [id |-> r, status |-> "PENDING", assigned |-> None, rescued |-> FALSE]

EntryPriority(e) == IF e.rescued THEN -1 ELSE Priority[e.id]
EntryStamp(e) == IF e.rescued THEN 0 ELSE Stamp[e.id]

\* Priority, then Lamport timestamp, then ID.
Less(e, f) ==
    \/ EntryPriority(e) < EntryPriority(f)
    \/ /\ EntryPriority(e) = EntryPriority(f)
       /\ EntryStamp(e) < EntryStamp(f)
    \/ /\ EntryPriority(e) = EntryPriority(f)
       /\ EntryStamp(e) = EntryStamp(f)
       /\ e.id < f.id

Push(q, e) ==
    IF e.id \in q.seen
    THEN q
    ELSE [heap |-> q.heap \cup {e}, seen |-> q.seen \cup {e.id}]

\* An entry that was removed is seen but not in the heap: it stays away.
Replace(q, e) ==
    IF e.id \notin q.seen
    THEN Push(q, e)
    ELSE [q EXCEPT !.heap = {IF x.id = e.id THEN e ELSE x : x \in q.heap}]

Pending(q) == {e \in q.heap : e.status = "PENDING"}

\* The entries Peek may return: the least pending one.
Peek(q) == {e \in Pending(q) : \A f \in Pending(q) : ~Less(f, e)}

\* Going back to PENDING forgets the drone; anything else keeps the old one
\* when no new one is named.
UpdateStatus(q, r, status, drone) ==
    LET updated(x) ==
            [x EXCEPT !.status = status,
                      !.assigned = IF drone # None THEN drone
                                   ELSE IF status = "PENDING" THEN None
                                   ELSE x.assigned]
    IN [q EXCEPT !.heap = {IF x.id = r THEN updated(x) ELSE x : x \in q.heap}]

\* (mutant: the ID is forgotten with the entry)
RemoveAndForget(q, r) ==
    [heap |-> {x \in q.heap : x.id # r}, seen |-> q.seen \ {r}]

Remove(q, r) == [q EXCEPT !.heap = {x \in q.heap : x.id # r}]

\* (mutant: an ID that was seen and removed is taken back)
SyncFromAll(q, snapshot) ==
    LET new == {e \in snapshot : \A x \in q.heap : x.id # e.id}
    IN [heap |-> q.heap \cup new, seen |-> q.seen \cup {e.id : e \in new}]

\* A peer's queue is added to ours: only what we have never seen.
SyncFrom(q, snapshot) ==
    LET new == {e \in snapshot : e.id \notin q.seen}
    IN [heap |-> q.heap \cup new, seen |-> q.seen \cup {e.id : e \in new}]

\* (mutants: the loop writes to copies of the entries; the entries are dropped)
ClearCopies(q, d) == q
ClearByRemoving(q, d) ==
    [q EXCEPT !.heap = {x \in q.heap : ~(x.status = "ASSIGNED" /\ x.assigned = d)}]

\* The missions of d go back, when it registers.
ClearDroneAssignments(q, d) ==
    [q EXCEPT !.heap = {IF x.status = "ASSIGNED" /\ x.assigned = d
                        THEN [x EXCEPT !.status = "PENDING", !.assigned = None]
                        ELSE x : x \in q.heap}]

IsDroneAssigned(q, d) ==
    \E e \in q.heap : e.status = "ASSIGNED" /\ e.assigned = d

\* No request is in a queue twice, and whatever is in it has been seen.
WellFormed(q) ==
    /\ \A e, f \in q.heap : e.id = f.id => e = f
    /\ \A e \in q.heap : e.id \in q.seen
=============================================================================
