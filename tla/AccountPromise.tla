---------------------------- MODULE AccountPromise ----------------------------
(***************************************************************************)
(* What the worker promises of the positions of one account, seen from the *)
(* exchange: a position is opened once and leaves once.  The worker opens  *)
(* one only where none of its own is open, once the cooldown after the last*)
(* recorded exit is over, and under a pause at most one.  There is no      *)
(* cycle, no session, no row, no order that is lost and no crash here.     *)
(***************************************************************************)
EXTENDS Naturals

CONSTANTS
    Symbols,
    Ids,        \* one for every position there may ever be
    Cooldown

VARIABLES
    used,       \* the ids of all positions so far
    held,       \* the open ones: <<id, symbol, owner>>
    quiet,      \* time since the last exit that was recorded, by symbol
    paused,
    late        \* what the worker opened since the pause in force began

vars == <<used, held, quiet, paused, late>>

Init ==
    /\ used = {} /\ held = {}
    /\ quiet = [s \in Symbols |-> Cooldown]
    /\ paused = FALSE /\ late = 0

Free(s, owners) == \A i \in Ids, by \in owners : <<i, s, by>> \notin held

Open(s, by) ==
    \E i \in Ids \ used : used' = used \cup {i} /\ held' = held \cup {<<i, s, by>>}

\* A cycle that was under way when the pause began may still enter.
Enter(s) ==
    /\ Free(s, {"system"}) /\ quiet[s] >= Cooldown
    /\ paused => late = 0
    /\ Open(s, "system")
    /\ late' = IF paused THEN 1 ELSE late
    /\ UNCHANGED <<quiet, paused>>

UserOpens(s) ==
    /\ Free(s, {"system", "user"})
    /\ Open(s, "user")
    /\ UNCHANGED <<quiet, paused, late>>

Pauses ==
    /\ paused' = TRUE
    /\ late' = IF paused THEN late ELSE 0

\* Whoever closes it.  The closing order may be what fails and trips the breaker.
Leave(p) ==
    /\ p \in held
    /\ held' = held \ {p}
    /\ quiet' \in {quiet, [quiet EXCEPT ![p[2]] = 0]}
    /\ Pauses \/ UNCHANGED <<paused, late>>
    /\ UNCHANGED used

Pause == Pauses /\ UNCHANGED <<used, held, quiet>>

Resume ==
    /\ paused
    /\ paused' = FALSE /\ late' = 0
    /\ UNCHANGED <<used, held, quiet>>

Age ==
    /\ quiet' = [s \in Symbols |-> IF quiet[s] < Cooldown THEN quiet[s] + 1 ELSE quiet[s]]
    /\ UNCHANGED <<used, held, paused, late>>

Next ==
    \/ \E s \in Symbols : Enter(s) \/ UserOpens(s)
    \/ \E p \in held : Leave(p)
    \/ Pause \/ Resume \/ Age

Spec == Init /\ [][Next]_vars
=============================================================================
