---------------------------- MODULE BoundedBypass ----------------------------
(***************************************************************************)
(* What a fair scheduler promises its clients: a client that is ready is   *)
(* passed over at most Bound times before it is served, however clients    *)
(* come and go.  The order in which clients are served is otherwise free.  *)
(***************************************************************************)
EXTENDS Naturals

CONSTANTS Clients, Bound

VARIABLES ready, passed

Init == ready = {} /\ passed = [c \in Clients |-> 0]

\* Clients arrive and leave; an arrival has not been passed over yet.
Change ==
    /\ ready' \in SUBSET Clients
    /\ passed' = [c \in Clients |-> IF c \in ready \cap ready' THEN passed[c] ELSE 0]

\* One client is served.  Nobody left waiting has used up the bound.
Serve(c) ==
    /\ c \in ready /\ c \in ready'
    /\ ready' \in SUBSET ready
    /\ passed' = [d \in Clients |-> IF d \in ready' \ {c} THEN passed[d] + 1 ELSE 0]
    /\ \A d \in ready' : passed'[d] <= Bound

Next == Change \/ \E c \in Clients : Serve(c)

Spec == Init /\ [][Next]_<<ready, passed>>
==============================================================================
