-------------------------- MODULE RequestLifecycle --------------------------
(***************************************************************************)
(* What the bases promise about a request, whatever the network does: once *)
(* a base has put it away it never takes it up again (queue.go:152-155),   *)
(* and no base puts it away before some drone has flown it.                *)
(***************************************************************************)
CONSTANTS Base, Request

VARIABLES board,   \* board[b][r]: what base b knows of request r
          served   \* requests for which a drone has completed a mission

Stage == {"unknown", "queued", "gone"}

Init == /\ board = [b \in Base |-> [r \in Request |-> "unknown"]]
        /\ served = {}

Accept(b, r) == /\ board[b][r] = "unknown"
                /\ board' = [board EXCEPT ![b][r] = "queued"]
                /\ UNCHANGED served

Serve(r) == /\ served' = served \cup {r}
            /\ UNCHANGED board

\* A base may learn that a request is done before it learns of the request.
Retire(b, r) == /\ r \in served
                /\ board[b][r] # "gone"
                /\ board' = [board EXCEPT ![b][r] = "gone"]
                /\ UNCHANGED served

Next == \E r \in Request :
            \/ Serve(r)
            \/ \E b \in Base : Accept(b, r) \/ Retire(b, r)

Spec == Init /\ [][Next]_<<board, served>>
=============================================================================
