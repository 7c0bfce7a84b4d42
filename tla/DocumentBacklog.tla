--------------------------- MODULE DocumentBacklog ---------------------------
(***************************************************************************)
(* What the document pipeline promises of each document by itself: it is   *)
(* tried while it is not indexed and has attempts left, every attempt costs*)
(* at most one request to the model, and once indexed it is left alone.    *)
(* There is no round, no session, no store of vectors and no failure here. *)
(***************************************************************************)
EXTENDS Integers

CONSTANTS
    Documents,
    Limit       \* attempts of one document; 0 or less is no limit

VARIABLES
    state,      \* unknown, waiting or indexed
    tries,
    requests

Init ==
    /\ state = [d \in Documents |-> "unknown"]
    /\ tries = [d \in Documents |-> 0]
    /\ requests = [d \in Documents |-> 0]

Try(d) ==
    /\ state[d] # "indexed" /\ (Limit > 0 => tries[d] < Limit)
    /\ state' = [state EXCEPT ![d] = "waiting"]
    /\ tries' = [tries EXCEPT ![d] = tries[d] + 1]
    /\ UNCHANGED requests

Request(d) ==
    /\ state[d] = "waiting" /\ requests[d] < tries[d]
    /\ requests' = [requests EXCEPT ![d] = requests[d] + 1]
    /\ UNCHANGED <<state, tries>>

Complete(d) ==
    /\ state[d] = "waiting" /\ requests[d] > 0
    /\ state' = [state EXCEPT ![d] = "indexed"]
    /\ UNCHANGED <<tries, requests>>

Next == \E d \in Documents : Try(d) \/ Request(d) \/ Complete(d)

Spec == Init /\ [][Next]_<<state, tries, requests>>
=============================================================================
