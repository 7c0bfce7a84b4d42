----------------------------- MODULE TradingCycle -----------------------------
(***************************************************************************)
(* One account of the worker: TradingCycleService.run, one step for each   *)
(* stretch between two calls that can fail, interleaved with the exchange, *)
(* its user, the control API, crashes and the passing of time.             *)
(*                                                                         *)
(* The scheduler runs the symbols one after the other over one database    *)
(* session: db is what is committed, work is what the session holds.  What *)
(* a cycle writes is lost by an exception that reaches the scheduler, which*)
(* rolls back, and is kept by any commit on the way, that of a failure     *)
(* record included.                                                        *)
(*                                                                         *)
(* Prices are left to PositionLife: here exitDue says that the price is at *)
(* one of the exit levels of a row.  A positions row is its status and the *)
(* time since updated_at.                                                  *)
(***************************************************************************)
EXTENDS Naturals, FiniteSets

CONSTANTS
    Symbols,        \* the symbols the scheduler walks through
    None,           \* no position, no symbol
    Modes,          \* values of trading_execution_mode, over the restarts
    Cooldown,       \* reentry_cooldown_seconds, in ticks
    SyncWindow,     \* decision_interval_seconds, in ticks
    MaxFailures,    \* max_consecutive_failures
    MaxId           \* bound on the number of positions ever opened

ASSUME CycleAssumption ==
    /\ None \notin Symbols /\ None \notin Nat
    /\ Modes \subseteq {"execute", "notify"}
    /\ Cooldown \in Nat /\ SyncWindow \in Nat /\ MaxId \in Nat
    /\ MaxFailures \in Nat \ {0}

VARIABLES
    exch,       \* the positions the exchange holds, by symbol
    exitDue,    \* symbols whose price is at an exit level of their row
    lastId,     \* number of the latest position
    db,         \* the committed positions rows
    work,       \* the session's positions rows
    syncAge,    \* time since the latest account snapshot
    failures,   \* CYCLE_FAILURE events since the latest decision
    control,    \* the status of control_states
    pc,         \* the step of the running cycle
    cycle,      \* its local variables
    exitAge,    \* time since a position with an OPEN row left (history)
    entries     \* what was entered since the pause in force began (history)

exchangeVars == <<exch, exitDue, lastId>>
databaseVars == <<db, work, syncAge, failures>>
historyVars  == <<exitAge, entries>>
vars == <<exchangeVars, databaseVars, control, pc, cycle, historyVars>>

Ids == 1..MaxId
Position == [id : Ids, by : {"system", "user"}]
Row == [status : {"NONE", "OPEN", "CLOSED"}, age : 0..Cooldown]

NoRow == [status |-> "NONE", age |-> Cooldown]
\* Mutant: closing a row does not touch updated_at.
ClosedRow_NotTouched == [status |-> "CLOSED", age |-> Cooldown]

ClosedRow == [status |-> "CLOSED", age |-> 0]

Statuses == {"FILLED", "OPEN", "REJECTED", "UNKNOWN"}

Cycle ==
    [symbol : Symbols \cup {None},      \* the symbol the cycle is for
     mode : Modes \cup {None},           \* trading_execution_mode
     halted : BOOLEAN,                  \* halt_reason
     todo : SUBSET Position,            \* get_positions() of the management
     order : {"none"} \cup Statuses,     \* ExecutionResult.status
     id : Ids \cup {None},              \* the position its order opened
     held : SUBSET Symbols]             \* get_positions() of the reconciliation

NoCycle == [symbol |-> None, mode |-> None, halted |-> FALSE, todo |-> {}, order |-> "none",
            id |-> None, held |-> {}]

Init ==
    /\ exch = [s \in Symbols |-> {}] /\ exitDue = {} /\ lastId = 0
    /\ db = [s \in Symbols |-> NoRow] /\ work = db
    /\ syncAge = SyncWindow /\ failures = 0 /\ control = "RUNNING"
    /\ pc = "idle" /\ cycle = NoCycle
    /\ exitAge = [s \in Symbols |-> Cooldown]
    /\ entries = 0

-----------------------------------------------------------------------------
(* Shared steps.                                                           *)

sym == cycle.symbol
Goto(label) == pc' = label /\ UNCHANGED cycle

Close(rows, s) ==
    [rows EXCEPT ![s] = IF rows[s].status = "OPEN" THEN ClosedRow ELSE @]

\* Position p of symbol s is gone from the exchange.
Leaves(s, p) ==
    /\ exch' = [exch EXCEPT ![s] = @ \ {p}]
    /\ exitDue' = IF exch[s] = {p} THEN exitDue \ {s} ELSE exitDue
    /\ exitAge' = IF work[s].status = "OPEN" THEN [exitAge EXCEPT ![s] = 0]
                  ELSE exitAge
    /\ UNCHANGED lastId

Opens(s, by) ==
    /\ lastId < MaxId
    /\ lastId' = lastId + 1
    /\ exch' = [exch EXCEPT ![s] = @ \cup {[id |-> lastId + 1, by |-> by]}]
    /\ UNCHANGED exitDue

\* pause(): a pause that is already in force is only rewritten.
SetPaused ==
    /\ control' = "PAUSED"
    /\ entries' = IF control = "PAUSED" THEN entries ELSE 0

\* record_failure(): the event is committed, with whatever the session holds;
\* only failures that are not the exchange's count towards the breaker.
RecordFailure(rows, external) ==
    /\ db' = rows /\ work' = rows
    /\ IF external
       THEN UNCHANGED <<failures, control, entries>>
       ELSE /\ failures' = IF failures < MaxFailures THEN failures + 1 ELSE failures
            /\ IF failures + 1 >= MaxFailures THEN SetPaused
               ELSE UNCHANGED <<control, entries>>
    /\ UNCHANGED syncAge

-----------------------------------------------------------------------------
(* The cycle of one symbol.                                                *)

\* Mutant: the control status is not read.
StartCycle_IgnoresPause(s, mode) ==
    /\ pc = "idle"
    /\ pc' = "manage"
    /\ cycle' = [NoCycle EXCEPT !.symbol = s, !.mode = mode]
    /\ UNCHANGED <<exchangeVars, databaseVars, control, historyVars>>

\* The market data is collected and the control status read, once.  The mode is
\* a setting: it is another one when the worker was restarted with another.
StartCycle(s, mode) ==
    /\ pc = "idle"
    /\ pc' = "manage"
    /\ cycle' = [NoCycle EXCEPT !.symbol = s, !.mode = mode,
                                !.halted = (control = "PAUSED")]
    /\ UNCHANGED <<exchangeVars, databaseVars, control, historyVars>>

AfterManagement == IF cycle.halted THEN "sync" ELSE "evaluate"

\* Mutant: the pause is looked at before the management.
ReadPositions_NotWhenPaused ==
    /\ pc = "manage"
    /\ IF cycle.mode = "execute" /\ ~cycle.halted
       THEN pc' = "managing" /\ cycle' = [cycle EXCEPT !.todo = exch[sym]]
       ELSE Goto(AfterManagement)
    /\ UNCHANGED <<exchangeVars, databaseVars, control, historyVars>>

\* Mutant: the management acts in any mode.
ReadPositions_InAnyMode ==
    /\ pc = "manage"
    /\ pc' = "managing" /\ cycle' = [cycle EXCEPT !.todo = exch[sym]]
    /\ UNCHANGED <<exchangeVars, databaseVars, control, historyVars>>

\* Management acts in execute mode only, whether or not trading is paused.
ReadPositions ==
    /\ pc = "manage"
    /\ IF cycle.mode = "execute"
       THEN pc' = "managing" /\ cycle' = [cycle EXCEPT !.todo = exch[sym]]
       ELSE Goto(AfterManagement)
    /\ UNCHANGED <<exchangeVars, databaseVars, control, historyVars>>

\* A position without an OPEN row, or whose decision is to hold, is left alone.
\* The row is looked up in the database: what the loop itself changed has not
\* been flushed.
LeaveAlone(p) ==
    /\ pc = "managing" /\ p \in cycle.todo
    /\ db[sym].status = "OPEN" => sym \notin exitDue
    /\ cycle' = [cycle EXCEPT !.todo = @ \ {p}]
    /\ UNCHANGED <<exchangeVars, databaseVars, control, pc, historyVars>>

\* The exit is due.  The order is executed or not, and the reply says FILLED,
\* or another status, or is lost: the row is closed only by a FILLED.
ManageClose(p, executed, reply) ==
    /\ pc = "managing" /\ p \in cycle.todo
    /\ db[sym].status = "OPEN" /\ sym \in exitDue
    /\ executed => p \in exch[sym]
    /\ reply = "FILLED" => executed
    /\ cycle' = [cycle EXCEPT !.todo = @ \ {p}]
    /\ IF executed THEN Leaves(sym, p)
       ELSE UNCHANGED <<exchangeVars, exitAge>>
    /\ \/ /\ reply = "FILLED"
          /\ work' = [work EXCEPT ![sym] = ClosedRow]
          /\ UNCHANGED <<db, syncAge, failures, control, entries>>
       \/ /\ reply = "OPEN"
          /\ UNCHANGED <<databaseVars, control, entries>>
       \/ /\ reply = "error"
          /\ \E external \in BOOLEAN : RecordFailure(work, external)
    /\ UNCHANGED pc

ManagementDone ==
    /\ pc = "managing" /\ cycle.todo = {}
    /\ Goto(AfterManagement)
    /\ UNCHANGED <<exchangeVars, databaseVars, control, historyVars>>

\* An exception of a best-effort step (management, synchronisation) is recorded
\* and the cycle goes on: with the halt_reason it read before.
BestEffortFails ==
    /\ \/ pc = "managing" /\ Goto(AfterManagement)
       \/ pc \in {"sync", "reconcile"} /\ Goto("persist")
    /\ \E external \in BOOLEAN : RecordFailure(work, external)
    /\ UNCHANGED <<exchangeVars, exitAge>>

\* Mutant: the evaluation relies on the local rows alone.
MayEnter_LocalRowsOnly(s) ==
    /\ work[s].status # "OPEN"
    /\ work[s].status = "CLOSED" => work[s].age >= Cooldown

\* Mutant: a row that is still OPEN without a position is no obstacle.
MayEnter_PhantomIgnored(s) ==
    /\ exch[s] = {}
    /\ work[s].status = "CLOSED" => work[s].age >= Cooldown

\* What _evaluate_proposal requires of the symbol before an entry.
MayEnter(s) ==
    /\ exch[s] = {}
    /\ work[s].status # "OPEN"
    /\ work[s].status = "CLOSED" => work[s].age >= Cooldown

\* A HOLD, a veto, an unavailable account or a limit: no order.
NoEntry ==
    /\ pc = "evaluate"
    /\ Goto("sync")
    /\ UNCHANGED <<exchangeVars, databaseVars, control, historyVars>>

\* The risk engine rejects the entry and asks for the account to be halted.
Halt ==
    /\ pc = "evaluate" /\ MayEnter(sym)
    /\ SetPaused
    /\ db' = work
    /\ Goto("sync")
    /\ UNCHANGED <<exchangeVars, work, syncAge, failures, exitAge>>

Allow ==
    /\ pc = "evaluate" /\ MayEnter(sym)
    /\ Goto(IF cycle.mode = "execute" THEN "order" ELSE "sync")
    /\ UNCHANGED <<exchangeVars, databaseVars, control, historyVars>>

\* The WEEX client turns every error of the transport, a timeout included, into
\* the ExchangeError that it also raises when the exchange refuses an order.
Raised(answer) ==
    IF answer \in {"refused", "lost"} THEN "ExchangeError" ELSE "nothing"

\* execute(): a timeout is looked up and is UNKNOWN if it is not found; an error
\* of the exchange is a rejection.
ResultStatus(answer) ==
    IF Raised(answer) = "TimeoutError" THEN "UNKNOWN"
    ELSE IF Raised(answer) = "ExchangeError" THEN "REJECTED" ELSE answer

\* The order is executed or not, and the answer is its final status, that it was
\* accepted, that it was refused, or is lost.
PlaceOrder(executed, answer) ==
    /\ pc = "order"
    /\ answer = "FILLED" => executed
    /\ answer = "refused" => ~executed
    /\ IF executed
       THEN /\ Opens(sym, "system")
            /\ entries' = IF control = "PAUSED" THEN entries + 1 ELSE entries
       ELSE UNCHANGED <<exchangeVars, entries>>
    /\ cycle' = [cycle EXCEPT !.order = ResultStatus(answer),
                              !.id = IF executed THEN lastId + 1 ELSE None]
    /\ pc' = "sync"
    /\ UNCHANGED <<databaseVars, control, exitAge>>

HasOrderId == cycle.order \in {"FILLED", "OPEN"}

\* Without an order of its own a cycle leaves the account to the next one that
\* finds the latest snapshot older than the decision interval.
SkipSync ==
    /\ pc = "sync" /\ ~HasOrderId /\ syncAge < SyncWindow
    /\ Goto("persist")
    /\ UNCHANGED <<exchangeVars, databaseVars, control, historyVars>>

ReconcileRead ==
    /\ pc = "sync" /\ (HasOrderId \/ syncAge >= SyncWindow)
    /\ pc' = "reconcile"
    /\ cycle' = [cycle EXCEPT !.held = {s \in Symbols : exch[s] # {}}]
    /\ UNCHANGED <<exchangeVars, databaseVars, control, historyVars>>

\* Mutant: positions are upserted, rows without a position are not closed.
Reconciled_NeverCloses(rows, held) ==
    [s \in Symbols |-> IF s \in held THEN [rows[s] EXCEPT !.status = "OPEN"]
                       ELSE rows[s]]

\* Every symbol the exchange reported gets an OPEN row, every other OPEN row is
\* closed, whatever happened since the positions were read.
Reconciled(rows, held) ==
    [s \in Symbols |->
        IF s \in held THEN [rows[s] EXCEPT !.status = "OPEN"]
        ELSE Close(rows, s)[s]]

\* Both commits and registration are one step: what the registration stores is
\* the subject of PositionLife.
ReconcileWrite ==
    /\ pc = "reconcile"
    /\ db' = Reconciled(work, cycle.held) /\ work' = db'
    /\ syncAge' = 0
    /\ Goto("persist")
    /\ UNCHANGED <<exchangeVars, failures, control, historyVars>>

\* The decision is stored and everything the session holds is committed.
Persist ==
    /\ pc = "persist"
    /\ db' = work /\ failures' = 0
    /\ pc' = "idle" /\ cycle' = NoCycle
    /\ UNCHANGED <<exchangeVars, work, syncAge, control, historyVars>>

\* An exception outside the best-effort steps: the scheduler rolls back, records
\* the failure and goes on with the next symbol.
Abort ==
    /\ pc \in {"manage", "evaluate", "order", "sync", "persist"}
    /\ pc' = "idle" /\ cycle' = NoCycle
    /\ \E external \in BOOLEAN : RecordFailure(db, external)
    /\ UNCHANGED <<exchangeVars, exitAge>>

-----------------------------------------------------------------------------
(* Everything else.                                                        *)

\* The worker process dies and is started again.
Crash ==
    /\ pc # "idle"
    /\ pc' = "idle" /\ cycle' = NoCycle /\ work' = db
    /\ UNCHANGED <<exchangeVars, db, syncAge, failures, control, historyVars>>

\* Take profit or disaster stop at the exchange, liquidation, close_position of
\* the API or a close by hand: all but the exchange learn of it later.
ExternalExit(s, p) ==
    /\ p \in exch[s]
    /\ Leaves(s, p)
    /\ UNCHANGED <<databaseVars, control, pc, cycle, entries>>

UserOpens(s) ==
    /\ exch[s] = {}
    /\ Opens(s, "user")
    /\ UNCHANGED <<databaseVars, control, pc, cycle, historyVars>>

\* The price reaches, or leaves, the exit levels of the row.
PriceMoves(s) ==
    /\ exch[s] # {}
    /\ exitDue' = IF s \in exitDue THEN exitDue \ {s} ELSE exitDue \cup {s}
    /\ UNCHANGED <<exch, lastId, databaseVars, control, pc, cycle, historyVars>>

Pause ==
    /\ control = "RUNNING"
    /\ SetPaused
    /\ UNCHANGED <<exchangeVars, databaseVars, pc, cycle, exitAge>>

Resume ==
    /\ control = "PAUSED"
    /\ control' = "RUNNING" /\ entries' = 0
    /\ UNCHANGED <<exchangeVars, databaseVars, pc, cycle, exitAge>>

\* Mutant: the age is not capped.
Older_Uncapped(age, limit) == age + 1

Older(age, limit) == IF age < limit THEN age + 1 ELSE age
OlderRows(rows) ==
    [s \in Symbols |-> [rows[s] EXCEPT !.age = Older(@, Cooldown)]]

Tick ==
    /\ db' = OlderRows(db) /\ work' = OlderRows(work)
    /\ syncAge' = Older(syncAge, SyncWindow)
    /\ exitAge' = [s \in Symbols |-> Older(exitAge[s], Cooldown)]
    /\ UNCHANGED <<exchangeVars, failures, control, pc, cycle, entries>>

-----------------------------------------------------------------------------

Replies == {"FILLED", "OPEN", "error"}
Answers == {"FILLED", "OPEN", "refused", "lost"}

Worker ==
    \/ \E s \in Symbols, mode \in Modes : StartCycle(s, mode)
    \/ ReadPositions
    \/ \E p \in cycle.todo :
          \/ LeaveAlone(p)
          \/ \E executed \in BOOLEAN, reply \in Replies :
                ManageClose(p, executed, reply)
    \/ ManagementDone \/ BestEffortFails
    \/ NoEntry \/ Halt \/ Allow
    \/ \E executed \in BOOLEAN, answer \in Answers : PlaceOrder(executed, answer)
    \/ SkipSync \/ ReconcileRead \/ ReconcileWrite \/ Persist \/ Abort

Environment ==
    \/ Crash
    \/ \E s \in Symbols :
          \/ \E p \in exch[s] : ExternalExit(s, p)
          \/ UserOpens(s)
          \/ PriceMoves(s)
    \/ Pause \/ Resume \/ Tick

Next == Worker \/ Environment

Spec == Init /\ [][Next]_vars

\* run_forever survives every exception and goes through all symbols again and
\* again; a call that is attempted for ever does not fail for ever.
Fairness ==
    /\ WF_vars(Tick) /\ WF_vars(Worker)
    /\ \A s \in Symbols : SF_vars(StartCycle(s, "execute"))
    /\ SF_vars(ReadPositions)
    /\ SF_vars(\E p \in cycle.todo : LeaveAlone(p))
    /\ SF_vars(\E p \in cycle.todo : ManageClose(p, TRUE, "FILLED"))
    /\ SF_vars(ManagementDone) /\ SF_vars(NoEntry)
    /\ SF_vars(ReconcileRead) /\ SF_vars(ReconcileWrite)

FairSpec == Spec /\ Fairness

-----------------------------------------------------------------------------
(* Properties.                                                             *)

TypeOK ==
    /\ exch \in [Symbols -> SUBSET Position]
    /\ exitDue \subseteq Symbols /\ lastId \in 0..MaxId
    /\ db \in [Symbols -> Row] /\ work \in [Symbols -> Row]
    /\ syncAge \in 0..SyncWindow /\ failures \in 0..MaxFailures
    /\ control \in {"RUNNING", "PAUSED"}
    /\ pc \in {"idle", "manage", "managing", "evaluate", "order", "sync",
               "reconcile", "persist"}
    /\ cycle \in Cycle
    /\ exitAge \in [Symbols -> 0..Cooldown]
    /\ entries \in Nat

\* One position per symbol: the system never opens a second one while one of its
\* own is open, even if the first was lost by a timeout, a rollback or a crash.
OneSystemPosition ==
    \A s \in Symbols : \A p, q \in exch[s] :
        p.by = "system" /\ q.by = "system" => p = q

SystemOpens(s) ==
    \E p \in exch'[s] \ exch[s] : p.by = "system"

\* After a position that had an OPEN row is gone, however it left, there is no
\* entry in its symbol before the cooldown is over, failures and crashes or not.
RecordedExitCoolsDown ==
    [][\A s \in Symbols : SystemOpens(s) => exitAge[s] >= Cooldown]_vars

\* A pause lets at most the cycle that is under way finish its entry.
PauseAdmitsOneEntry == entries <= 1

\* The positions of the account, seen from the exchange (AccountPromise).
Places == UNION {{<<p.id, s, p.by>> : p \in exch[s]} : s \in Symbols}
IsPaused == control = "PAUSED"

Promise == INSTANCE AccountPromise WITH
    used <- 1..lastId, held <- Places, quiet <- exitAge, paused <- IsPaused,
    late <- entries

\* Rollbacks, lost answers, failed commits, crashes and the user do nothing to the
\* positions that the promise would not do, whatever the rows say meanwhile (what
\* _evaluate_proposal asks of the symbol, cycle.py:519 and :600).
ImplementsPromise == Promise!Spec

\* Every step of the worker, and no other but a crash, changes its place or its
\* cycle: a closing order leaves the place alone and takes its position off todo.
WorkerMoves == <<pc, cycle>>' # <<pc, cycle>>

\* In notify mode the worker leaves the exchange to its user: neither the management
\* (cycle.py:267) nor the execution (cycle.py:347) sends an order, after failures,
\* restarts and cycles of the other mode.
NotifyNeverTrades ==
    [][cycle.mode = "notify" /\ WorkerMoves => UNCHANGED exch]_vars

\* Positions opened by hand are not closed by the management of the worker.
ManualPositionsAreLeftAlone ==
    [][\A s \in Symbols : \A p \in exch[s] :
          pc = "managing" /\ cycle'.todo = cycle.todo \ {p} /\ p \in cycle.todo
            /\ p.by = "user" => p \in exch'[s]]_vars

\* An entry is recorded as rejected only when the exchange did not execute it.
RejectedMeansNotExecuted == cycle.order = "REJECTED" => cycle.id = None

\* A row is never left OPEN for ever after its position is gone.
PhantomRowIsClosed ==
    \A s \in Symbols :
        (db[s].status = "OPEN" /\ exch[s] = {})
            ~> (db[s].status # "OPEN" \/ exch[s] # {})

\* Paused or not, a position with an OPEN row does not stay at its exit levels
\* for ever.
DueExitIsExecuted ==
    \A s \in Symbols :
        []<>~(s \in exitDue /\ exch[s] # {} /\ db[s].status = "OPEN")
=============================================================================
