----------------------------- MODULE WorkerLoop -----------------------------
(***************************************************************************)
(* The worker process around the trading cycles, in notify mode: the poll  *)
(* of TradingScheduler.run_forever, the round over all users and symbols,  *)
(* the breaker that counts failed cycles, and LarkNotifier.notify with its *)
(* memory of what was sent; beside it the control API, Lark, and restarts. *)
(*                                                                         *)
(* What a cycle decides is chosen here (TradingCycle and EntryGate tell    *)
(* how).  A decision stands for its signature: action, status and reason   *)
(* codes.  Obtaining a token fails like the first message; a card that is  *)
(* sent may arrive although the worker learns of a failure.                *)
(***************************************************************************)
EXTENDS Naturals, Sequences

CONSTANTS
    Users,          \* the enabled accounts
    Order,          \* the round: pairs of a user and a symbol
    Recipients,     \* how many receive_ids are configured
    Signals,        \* approved entries
    Muted,          \* what the settings do not notify of
    MaxFailures,    \* max_consecutive_failures
    None            \* no decision, no signature

ASSUME WorkerAssumption ==
    /\ Order \in Seq(Users \X STRING)
    /\ Len(Order) > 0
    /\ \A i, j \in 1..Len(Order) : Order[i] = Order[j] => i = j
    /\ Recipients \in Nat /\ MaxFailures \in Nat \ {0}
    /\ Muted \subseteq {"hold", "refused"}
    /\ Signals \cap {"hold", "refused", "halt", "paused"} = {}
    /\ None \notin Signals \cup {"hold", "refused", "halt", "paused"}

VARIABLES
    control,    \* control_states.status
    pending,    \* control_states.pending_immediate
    failures,   \* CYCLE_FAILURE events since the user's latest decision
    due,        \* the monotonic clock is at next_run
    pc,         \* the place in run_forever and the cycle
    at,         \* the position in Order
    decision,   \* what the running notification is about
    next,       \* the recipient the notification is at
    signature,  \* _last_signatures
    inbox,      \* the latest card each recipient got of a symbol
    ahead,      \* who got a card after the one signature tells of (history)
    owed        \* a resume no round has started after (history)

controlVars == <<control, pending, failures, owed>>
larkVars    == <<signature, inbox, ahead>>
vars == <<controlVars, larkVars, due, pc, at, decision, next>>

Positions == 1..Len(Order)
Everybody == 1..Recipients
Decisions == Signals \cup {"hold", "refused", "halt", "paused"}

User == Order[at][1]

Init ==
    /\ control = [u \in Users |-> "RUNNING"] /\ pending = [u \in Users |-> FALSE]
    /\ failures = [u \in Users |-> 0]
    /\ due = TRUE /\ pc = "poll" /\ at = 0 /\ decision = None /\ next = 0
    /\ signature = [i \in Positions |-> None]
    /\ inbox = [i \in Positions |-> [r \in Everybody |-> None]]
    /\ ahead = [i \in Positions |-> {}]
    /\ owed = [u \in Users |-> FALSE]

-----------------------------------------------------------------------------
(* Control.                                                                *)

\* pause(), by the API and by the breaker: a request to run is withdrawn.
Paused(u) ==
    /\ control' = [control EXCEPT ![u] = "PAUSED"]
    /\ pending' = [pending EXCEPT ![u] = FALSE]
    /\ owed' = [owed EXCEPT ![u] = FALSE]

Pause(u) ==
    /\ Paused(u)
    /\ UNCHANGED <<failures, larkVars, due, pc, at, decision, next>>

Resume(u) ==
    /\ control' = [control EXCEPT ![u] = "RUNNING"]
    /\ pending' = [pending EXCEPT ![u] = TRUE]
    /\ owed' = [owed EXCEPT ![u] = TRUE]
    /\ UNCHANGED <<failures, larkVars, due, pc, at, decision, next>>

\* Nothing failed, or record_failure() commits the event: a failure of the exchange
\* or of a transport does not count, another may trip the breaker.
RecordFailure(u) ==
    \/ UNCHANGED controlVars
    \/ /\ failures' = [failures EXCEPT ![u] = IF @ < MaxFailures THEN @ + 1 ELSE @]
       /\ IF failures[u] + 1 >= MaxFailures THEN Paused(u)
          ELSE UNCHANGED <<control, pending, owed>>

-----------------------------------------------------------------------------
(* The loop and its rounds.                                                *)

\* consume_pending_immediate(), and the comparison with next_run.
Poll ==
    /\ pc = "poll"
    /\ LET asked == {u \in Users : control[u] = "RUNNING" /\ pending[u]}
       IN  /\ due \/ asked # {}
           /\ pending' = [u \in Users |-> pending[u] /\ u \notin asked]
    /\ pc' = "start"
    /\ UNCHANGED <<control, failures, owed, larkVars, due, at, decision, next>>

\* run_once() takes the enabled accounts and walks through all of them.
StartRound ==
    /\ pc = "start"
    /\ pc' = "cycle" /\ at' = 1
    /\ owed' = [u \in Users |-> FALSE]
    /\ UNCHANGED <<control, pending, failures, larkVars, due, decision, next>>

\* The accounts cannot be read: run_forever logs it and polls on with the old
\* next_run.  A request that was consumed for this round is gone.
RoundFails ==
    /\ pc = "start"
    /\ pc' = "poll"
    /\ owed' = [u \in Users |-> owed[u] /\ (pending[u] \/ due)]
    /\ UNCHANGED <<control, pending, failures, larkVars, due, at, decision, next>>

\* Mutant: one symbol too many.
GoesOn_TooFar ==
    /\ IF at <= Len(Order)
       THEN pc' = "cycle" /\ at' = at + 1 /\ UNCHANGED due
       ELSE pc' = "poll" /\ at' = 0 /\ due' = FALSE

\* The round goes on with the next symbol; after the last one next_run is set.
GoesOn ==
    /\ IF at < Len(Order)
       THEN pc' = "cycle" /\ at' = at + 1 /\ UNCHANGED due
       ELSE pc' = "poll" /\ at' = 0 /\ due' = FALSE

\* notify() stays silent: no recipients, a HOLD or a refusal that the settings
\* mute, or the decision it sent last.  Stops are never muted.
Silent(d) == Recipients = 0 \/ d \in Muted \/ signature[at] = d

\* Mutant: HOLD overwrites what was sent before.
Evaluate_HoldCounts(d) ==
    /\ pc = "cycle"
    /\ control[User] = "PAUSED" => d = "paused"
    /\ IF d = "halt" THEN Paused(User) ELSE UNCHANGED <<control, pending, owed>>
    /\ IF Silent(d) THEN pc' = "sync" /\ UNCHANGED <<decision, next>>
       ELSE pc' = "notify" /\ decision' = d /\ next' = 1
    /\ signature' = IF d \in Muted THEN [signature EXCEPT ![at] = d] ELSE signature
    /\ UNCHANGED <<failures, inbox, ahead, due, at>>

\* The cycle reads the control status, decides, and notifies.  With trading_enabled
\* off a running account gets the decision of a paused one.  A halt of the risk
\* engine pauses the account before its card is sent.
Evaluate(d) ==
    /\ pc = "cycle"
    /\ control[User] = "PAUSED" => d = "paused"
    /\ IF d = "halt" THEN Paused(User) ELSE UNCHANGED <<control, pending, owed>>
    /\ IF Silent(d) THEN pc' = "sync" /\ UNCHANGED <<decision, next>>
       ELSE pc' = "notify" /\ decision' = d /\ next' = 1
    /\ UNCHANGED <<failures, larkVars, due, at>>

Deliver ==
    /\ inbox' = [inbox EXCEPT ![at][next] = decision]
    /\ ahead' = [ahead EXCEPT ![at] = @ \cup {next}]

SendToNext ==
    /\ pc = "notify" /\ next < Recipients
    /\ Deliver
    /\ next' = next + 1
    /\ UNCHANGED <<controlVars, signature, due, pc, at, decision>>

\* Only now is the decision remembered as sent.
SendToLast ==
    /\ pc = "notify" /\ next = Recipients
    /\ inbox' = [inbox EXCEPT ![at][next] = decision]
    /\ signature' = [signature EXCEPT ![at] = decision]
    /\ ahead' = [ahead EXCEPT ![at] = {}]
    /\ pc' = "sync" /\ next' = 0 /\ decision' = None
    /\ UNCHANGED <<controlVars, due, at>>

\* Mutant: the decision is remembered although a message failed.
SendFails_Remembered(arrived) ==
    /\ pc = "notify"
    /\ IF arrived THEN Deliver ELSE UNCHANGED <<inbox, ahead>>
    /\ signature' = [signature EXCEPT ![at] = decision]
    /\ RecordFailure(User)
    /\ pc' = "sync" /\ next' = 0 /\ decision' = None
    /\ UNCHANGED <<due, at>>

\* The first failure ends the notification: the recipients behind get nothing.
\* The failure is recorded, if that is possible, and the cycle goes on.
SendFails(arrived) ==
    /\ pc = "notify"
    /\ IF arrived THEN Deliver ELSE UNCHANGED <<inbox, ahead>>
    /\ RecordFailure(User)
    /\ pc' = "sync" /\ next' = 0 /\ decision' = None
    /\ UNCHANGED <<signature, due, at>>

\* The synchronisation of the account fails, or not, or is left out.
Sync ==
    /\ pc = "sync"
    /\ pc' = "persist"
    /\ RecordFailure(User)
    /\ UNCHANGED <<larkVars, due, at, decision, next>>

\* The stored decision is what the failures are counted from.
Persist ==
    /\ pc = "persist"
    /\ failures' = [failures EXCEPT ![User] = 0]
    /\ GoesOn
    /\ UNCHANGED <<control, pending, owed, larkVars, decision, next>>

\* Mutant: the exception of a cycle ends the round.
CycleFails_EndsRound(i) ==
    /\ pc \in {"cycle", "persist"} /\ at = i
    /\ RecordFailure(User)
    /\ pc' = "poll" /\ at' = 0
    /\ UNCHANGED <<larkVars, due, decision, next>>

\* An exception leaves the cycle at position i; the next one is run all the same.
CycleFails(i) ==
    /\ pc \in {"cycle", "persist"} /\ at = i
    /\ RecordFailure(User)
    /\ GoesOn
    /\ UNCHANGED <<larkVars, decision, next>>

\* Recording the failure raises as well: the round ends, next_run stays.
RoundBreaksOff ==
    /\ pc \in {"cycle", "persist"}
    /\ pc' = "poll" /\ at' = 0
    /\ UNCHANGED <<controlVars, larkVars, due, decision, next>>

TimeComes ==
    /\ ~due
    /\ due' = TRUE
    /\ UNCHANGED <<controlVars, larkVars, pc, at, decision, next>>

\* Mutant: a new process waits for a full interval first.
Restart_Waits ==
    /\ pc' = "poll" /\ at' = 0 /\ decision' = None /\ next' = 0
    /\ due' = FALSE
    /\ signature' = [i \in Positions |-> None]
    /\ ahead' = [i \in Positions |-> {}]
    /\ UNCHANGED <<controlVars, inbox>>

\* A new process runs a round at once; it does not know what was sent.
Restart ==
    /\ pc' = "poll" /\ at' = 0 /\ decision' = None /\ next' = 0
    /\ due' = TRUE
    /\ signature' = [i \in Positions |-> None]
    /\ ahead' = [i \in Positions |-> {}]
    /\ UNCHANGED <<controlVars, inbox>>

-----------------------------------------------------------------------------

Worker ==
    \/ Poll \/ StartRound \/ RoundFails
    \/ \E d \in Decisions : Evaluate(d)
    \/ SendToNext \/ SendToLast \/ \E arrived \in BOOLEAN : SendFails(arrived)
    \/ Sync \/ Persist \/ \E i \in Positions : CycleFails(i)
    \/ RoundBreaksOff

Environment ==
    \/ \E u \in Users : Pause(u) \/ Resume(u)
    \/ TimeComes \/ Restart

Next == Worker \/ Environment

Spec == Init /\ [][Next]_vars

\* The cycle at position i comes to an end and the round goes on: it succeeded, or
\* its failure is recorded.
Ends(i) == at = i /\ (Persist \/ CycleFails(i))

\* The loop survives every exception and the clock goes on.  What is attempted
\* again and again does not break off every time: reading the accounts, and the
\* cycle at each position, by a restart or because its failure cannot be recorded.
\* Whether cycles succeed or fail is left open, and so is everything about Lark.
Fairness ==
    /\ WF_vars(Worker) /\ WF_vars(TimeComes)
    /\ SF_vars(StartRound)
    /\ \A i \in Positions : SF_vars(Ends(i))

FairSpec == Spec /\ Fairness

-----------------------------------------------------------------------------
(* Properties.                                                             *)

TypeOK ==
    /\ control \in [Users -> {"RUNNING", "PAUSED"}]
    /\ pending \in [Users -> BOOLEAN]
    /\ failures \in [Users -> 0..MaxFailures]
    /\ due \in BOOLEAN
    /\ pc \in {"poll", "start", "cycle", "notify", "sync", "persist"}
    /\ at \in 0..Len(Order)
    /\ pc \in {"poll", "start"} <=> at = 0
    /\ decision \in Decisions \cup {None}
    /\ next \in 0..Recipients
    /\ pc = "notify" <=> next # 0
    /\ signature \in [Positions -> Decisions \cup {None}]
    /\ inbox \in [Positions -> [Everybody -> Decisions \cup {None}]]
    /\ ahead \in [Positions -> SUBSET Everybody]
    /\ owed \in [Users -> BOOLEAN]

\* A resume is answered by a round that starts after it, without waiting for the
\* interval, unless a pause withdraws it: pauses, rounds under way, failing
\* rounds and restarts do not make the worker forget it.  A round answers it by
\* starting.  (So the exceptions are the one in RoundFails, and a round that breaks
\* off before the user's first symbol.)
ResumeIsNotForgotten ==
    \A u \in Users : owed[u] => pending[u] \/ due \/ pc = "start"

\* A recipient is sent the card it got last only when the worker was restarted,
\* or a notification has failed since everybody got the same.
NoRepeatedCard ==
    pc = "notify" /\ inbox[at][next] = decision =>
        next \in ahead[at] \/ signature[at] = None

\* What notify() takes for sent did reach everybody: a recipient whose latest
\* card is another one got that by a later notification, which failed.  So no
\* failure of a message, or of a process between two, mutes a decision.
RecordedIsDelivered ==
    \A i \in Positions : \A r \in Everybody \ ahead[i] :
        signature[i] # None => inbox[i][r] = signature[i]

\* The loop gets to every position of the round again and again, whether the cycles
\* before it succeed for ever, fail for ever, or trip the breaker.
EverySymbolIsServed == \A i \in Positions : []<>(pc = "cycle" /\ at = i)
=============================================================================
