# Verification of the Alpha Council trading system

TLA+ models of the trading backend in `src/backend`, the TLC runs that check them on small
instances, and theorems about them that TLAPS proves for every value of the constants. All paths
below are relative to `src/backend/app` unless they start with another directory.

## 1. The system

Three processes share one PostgreSQL database and one exchange (WEEX):

- the **worker** (`src/backend/workers/scheduler.py`) walks, for every enabled user and every symbol,
  through a *trading cycle* (`services/cycle.py`): collect market data, manage the open positions, ask
  the decision graph for a proposal, judge it, place the order, synchronise the account, store the
  decision. Every round starts with the *document pipeline* (`workers/pipeline.py`), which collects the news
  and the macro series the graph draws its evidence from;
- the **API** serves the dashboard; users pause and resume, close positions, change their limits;
- the **stream listener** (`streams/`) records the exchange's private push stream and compares it
  with the exchange's order history.

A user also trades on the same account by hand. The exchange closes positions by itself (take profit,
the wide disaster stop, liquidation).

### Inventory

| Component (source) | State | Operations | What is hard | What makes it correct |
|---|---|---|---|---|
| Trading cycle (`services/cycle.py`, scheduler, `reconciliation/`, `execution/`) | `positions` rows, `control_states`, snapshots, decisions, failure events; the session of a cycle | one cycle per symbol; pause, resume, breaker; failure and rollback | exchange read before rows are written; several commits in one cycle; lost replies; crashes; another process pausing | one system position per symbol, cooldown after exits, a pause that works, notify mode that never trades, rows that follow the exchange |
| Position manager (`positions/manager.py`) | a row's stop, peak, near-target time | hold or close, advance the stop | a row is reused by the next position, runs are lost, the clock | the stop only improves, profit stays locked in, deadlines hold |
| Risk engine, limits of accounts (`risk/engine.py`, `api/routes/accounts.py`) | limits | `tightened`, `evaluate_risk` | balance read twice, settings and day change in between | budget at the stop that is judged and its multiple at the stop that is sent, total exposure, quota of a day |
| Signals (`signals/`, `analytics/`) | none | score, size | rounding; two timeframes, one of them missing | a plan is within its budget, no entry against a trend both timeframes agree on |
| Decision graph, LLM access (`agents/graph.py`, `agents/llm.py`) | `GraphState`, attempts of a request | nodes and edges, request and repetition | which edges exist; merging; a search that fails in part; LLM answers late, malformed or repeated while the signal runs out | fails closed, names its vetoes, bounded requests, always returns |
| Private stream (`streams/`) | `exchange_order_events`, `exchange_fills`, symbol memory, `reported` gaps | record, reconnect, reconcile round | pushes lost, repeated, reordered; a row that comes twice in a frame; rows that do not parse; refused subscriptions; batches rolled back; rounds that fail | replays of what is stored cost nothing, gaps are counted once and found in the end |
| Control and scheduler loop (`src/backend/workers/scheduler.py`, `api/routes/control.py`) | `control_states`, `pending_immediate`, `next_run`, failures since the last decision | poll, consume the flag, walk through the round, breaker | the flag is deleted before the round it asks for; failing cycles, failing recording, restarts | a resume is served at once, every symbol gets its turn |
| Document pipeline (`workers/pipeline.py`, `workers/schedule.py`, `processing/`, `collectors/`) | `source_documents` with status and attempts, `document_summaries`, `macro_observations`, the vectors of Milvus; in memory the validators of the fetcher and the schedule of the series | collect, process a document, index, mark | two stores that cannot commit together; one session for the whole round; a failing document beside others; validators and schedule that run ahead of the tables; a crash after the request to the model | the requests for a document are limited, PostgreSQL leads Milvus, what is marked indexed can be searched and is left alone, a document that keeps coming is settled |
| Notifications (`notifications/lark.py`) | signatures of what was sent | notify | one recipient after the other without a retry; the memory is kept only if all succeeded and is lost by a restart | what is remembered as sent was received, nothing is repeated without a reason |
| Backtest (`backtest/engine.py`) | the open position, settled trades | walk over the bars: leave, hold, enter | two timeframes cut off at one moment; an order that fills bars after its signal | decided on what was known, one trade at a time |
| Attestation contract (`src/contracts`) | last batch id | `commitBatch` | – | consecutive ids; not modelled, section 8 |
| Exchange client (`exchange/`) | contracts | REST calls, rounding to the contract | errors wrapped, fills unknown, rounding after the judgement | an order is no larger than what was judged |
| Retrieval (`rag/`) | Milvus | search, rerank, index | partial failure | as the graph and the pipeline meet it |
| Auth, API reads, frontend, migrations, scripts | – | – | – | not modelled, section 8 |

`PROJECT.json` lists the same components with their status, and the hazards with the line at which
they bite and the properties that cover them.

## 2. Modules

| Module | Models | Kind |
|---|---|---|
| `PositionManager` | `PositionManager.evaluate` and its helpers as operators | algorithm |
| `PositionLife` | one `positions` row over successive positions; EXTENDS `PositionManager` | state machine |
| `TradingCycle` | the interleaved steps of a cycle with its failures, the API and the exchange | state machine |
| `AccountPromise` | what the worker promises of the positions of one account | abstract specification |
| `EntryGate` | signal, sizing, risk gates, order and record, with what happens in between | state machine |
| `SignalScore` | the score card of `signals/scorer.py` as operators | algorithm |
| `DecisionGraph` | one invocation of the compiled graph; EXTENDS `SignalScore` | state machine |
| `PrivateStream` | connection, recording and reconciliation of one account | state machine |
| `WorkerLoop` | poll, round, breaker and notifications of the worker in notify mode | state machine |
| `DocumentPipeline` | the pipeline over its rounds: collectors, schedule, session, both stores | state machine |
| `DocumentBacklog` | what the pipeline promises of each document | abstract specification |
| `Backtest` | a simulated run over a history; EXTENDS `PositionManager` | state machine |
| `MCEntryGate`, `MCPrivateStream`, `MCWorkerLoop`, `MCDocumentPipeline` | structured constants for TLC | instance |
| `…_proofs` of `PositionLife`, `TradingCycle`, `EntryGate`, `DecisionGraph`, `PrivateStream`, `WorkerLoop`, `DocumentPipeline`, `Backtest` | theorems | proofs |

**PositionManager / PositionLife.** `row` is the committed row (`db/models.py`, `Position`), `exch` what
the exchange holds, `price` and `now` the market and the clock. `ManageHold` and `ManageClose` are one
run of `_manage_positions` for the row, `ManageCloseUnconfirmed` the run whose closing order is
executed but not confirmed, `EnterAndRegister` an entry with `_register_position_metadata`,
`EnterUnrecorded` a position the program did not register, `Sync` `ReconciliationService._persist_db`.
A run that is rolled back is a stuttering step. `opens`, `owner` and `seen` are history.

**TradingCycle.** `pc` is the place in `run()`, `cycle` its local variables, `work` the session's rows
and `db` the committed ones: `ManageClose` changes `work`, `Persist`, `ReconcileWrite` and every
committed failure event flush it, `Abort` and `Crash` drop it. Prices are abstracted to `exitDue`, the
symbols whose price is at an exit of their row; the rules behind it are those of `PositionLife`. The
exchange's reply to an order and what it did are chosen independently as far as they can differ.

**AccountPromise** knows no cycles, sessions, rows or failures. A position of the system is *entered* where
none of its own is open, the cooldown after the last recorded exit is over, and no other was entered under
the pause in force; the user *opens* one where there is none; a position *leaves* once and its id is not
given again. The mapping (`Promise` in `TradingCycle`) reads the positions off the exchange and the pause off
`control`; the time since an exit and the entries under a pause are the histories of the cycle. A step of
the worker between two calls, a rollback and a crash all have to be one of these steps or none: that is
what re-reading the exchange, the rows and the control status before an order is for.

**EntryGate.** Fixed-point arithmetic at the program's precision: a price counts halves of the 1e-6
`size_position` rounds to, a share counts 1e-6. `Decide` is `signal_node`, `Evaluate` is
`_evaluate_proposal` with `evaluate_risk`, `Execute` is `_execute` with its second reading of the
balance and `place_order` (`Ordered`: quantity and stop rounded down to the steps of the `Contract`, nothing
below its minimum), `Persist` writes the row that `_daily_trades` counts. A lost reply is recorded as a
refusal: the client turns a timeout into an `ExchangeError`, for which nobody queries the order. Gates over
facts that live elsewhere (drawdown of the day, losing streak, leverage, age of the data, cooldown, missing
position) are one nondeterministic reason each for the early returns and the late ones; streak and halt are in
`TradingCycle`. A plan has two stops: `stop` (`stop_loss`) is what the gates judge and the position manager
watches, `disaster`, `DisasterMultiplier` times as far, is what the order carries (`execution/service.py:35`)
and what `place_order` rounds. No gate looks at the second.

**SignalScore.** What the scorer reads of two timeframes - the trend label, whether volume rises or falls, the
RSI - and the weights and the threshold in percent. The indicators behind it are numerics.

**DecisionGraph.** `active` is the set of nodes of the next superstep, `Successors` the edges the builder
adds, `st` the channels of `GraphState`. `RunSignal` reads any score card, `RunRetrieval` meets any outcome
of the search for the asset, the search without an asset and the reranker, `AskAgain` is one more attempt of
`complete_json` and `TakeAnswer` its end; each of the latter three may let `valid_until` pass (`late`).
`met` and `asked` are history.

**PrivateStream.** A frame is the list of rows of one push, which may name an order twice; its rows are
looked up in the tables as they were before the batch (`autoflush=False`, `db/session.py:9`), and an
insertion that the unique key refuses loses the batch. `channels` are the subscriptions in force (none
without a session; a refused one is only logged), `wire` is what was pushed and not read, `orderRow` and
`fillRow` the tables, `symbols` the repository's memory, `round` the reconciler's local state between its
steps, `reported` the set it keeps across rounds. `Garbled` are rows `parse_event` skips. Orders are
numbered by creation, which stands for `created_at`, and an order has one fill.

**WorkerLoop.** `pc` and `at` are the place in `run_forever` and in the round, `due` says that the clock has
reached `next_run`, `signature` is `_last_signatures`. `Poll` is `consume_pending_immediate` and the
comparison with the clock, `StartRound` reads the accounts, `Evaluate` is a cycle up to its notification,
`SendToNext`, `SendToLast` and `SendFails` are `notify` recipient by recipient, `Sync` and `Persist` the
rest of the cycle, `CycleFails` an exception that `run_once` records and `RoundBreaksOff` one of the
recording itself; `Ends` is either end of the cycle at a place of the round. A decision is its signature;
which one a cycle reaches is chosen. `inbox`, `ahead` and `owed` are history.

**Backtest.** `bars` is any history of candles; score and ATR of a bar are chosen, *which* candles they read
(`Read`) is modelled. Exits are those of `PositionManager`, after the extremes of the bar.

**DocumentPipeline.** `feed` is what each source shows. `validated` are the URLs whose ETag or Last-Modified
the `ConditionalFetcher` holds *and* the server would answer with a 304 (the validator is kept with the
answer, whether or not it can be parsed), `marked` the series the `SourceSchedule` does not fetch before
their interval ends; both live in the memory of the process. `pending` is what the session holds of the
observations before a commit, `stored` and `rows` the tables, `vectors` the chunks in Milvus under the id
`prepare_document` made. `todo` and `worker` are the place of `run_once` and `_process`. `Collect` is
`run_once` up to the loop, for any set of sources that answer and any part of them whose parse breaks off;
the RSS collector drops a URL it has seen in the round, the press releases of the Federal Reserve (`Press`)
are taken as they come; `Skip`, `Take`, `SummaryFails`, `Summarise`, `Index`, `IndexFails` and `Mark` are
`_process` between its commits and its calls; `Abort` is an exception that reaches the scheduler and its
rollback, `Restart` a new process. Rows are named by their URL, which is unique in the table, and the id of
an attempt by the URL and its number. The documents of a round come in any order.

**DocumentBacklog** knows no rounds, sessions or stores: a document is *tried* while it is not indexed and
has attempts left, each attempt allows one *request*, and a document is *completed* after a request. The
mapping (`Backlog` in `DocumentPipeline`) reads `state` and `tries` off the rows; `calls` is the history of
the requests. That `Take` is a step of one document, and a rollback of none, is what the pipeline's
transaction for each document is for.

## 3. Runs

| Run | Question | Bounds and why they suffice |
|---|---|---|
| `position_life` | rules of a row over its life | two positions on one row, so that a row is reused once; a clock of five hours against timeouts of two, three and four, so that each fires first in some run; prices below, at and above every threshold; a slippage of one |
| `trading_cycle` | safety of the interleaving, and that it implements `AccountPromise` | two symbols over one session, so that a rollback of one cycle meets the rows of another; two positions ever, the least for a duplicate; cooldown of two ticks, so that it can be half over; breaker at two failures |
| `trading_cycle_live` | liveness | one symbol, one position, both counters at one: liveness asks whether the row is left behind, not how many are |
| `entry_gate` | budget, exposure, quota | two symbols, so that exposure adds up; accounts that narrow the risk, the total, or nothing; a balance that is zero, small or doubled; a coin at 0.01 USD with a stop that is capped and one that needs rounding; one contract that rounds quantity and stop and whose minimum the small account misses with one of the plans, one that changes nothing; quota one, so that it is used up; one uncounted entry |
| `decision_graph` | fails closed, returns, costs | all readings of both timeframes, RSIs between and beyond the clipping points; every outcome of retriever, reranker and LLM; two repeated requests |
| `private_stream` | replays, gaps, symbols | three orders against a history window of one, so that orders leave it while a round runs; two frames on the wire; two rows in a replayed frame, so that a stored row comes beside a new one and a row comes twice; one order whose pushes carry a symbol and two that get it from the history only; a garbled order row and a garbled fill row; sessions with and without the channel of orders |
| `worker_loop` | resumes, cards, turns | two symbols of one account, so that a failure of one meets the turn of the other; two recipients, so that one is served and one is not; a breaker at two failures; the cycles may all succeed, all fail, or any mixture; every kind of decision `notify` tells apart but an entry, which it sends like a halt |
| `document_pipeline` | limits, both stores, the backlog, what gets settled | two URLs, the least for a document that matches one row by URL and another by content: they share a text, and one of them loses it; a URL that comes twice in a round, with a text and without; a limit of two attempts, so that one is a retry and the next is refused; one source with validators, the press releases, and one series without: what the RSS collector drops is also dropped by a parse that breaks off; observations are of the latest release or older |

`CHECK_DEADLOCK FALSE` is set where the model really stops: a position can no longer open when the
bound is used up (`TradingCycle`), and an invocation of the graph returns.

Violation runs check what a document or comment says and the code does not do:

| Run | What is claimed | What the code does |
|---|---|---|
| `trading_cycle_manual` | a manual position is not taken over (`services/cycle.py:681`) | the synchronisation writes an OPEN row for every reported position; from then on the management closes it |
| `trading_cycle_unknown` | a timeout is queried and, if not found, recorded UNKNOWN (implementation plan, line 354) | the client wraps timeouts in `ExchangeError`; an executed order is recorded REJECTED |
| `decision_graph_anomaly` | structure and data vetoes start at the fan-out (`src/docs/current-architecture.md:95`) | no edge leads to either node; neither runs |
| `backtest_lookahead` | a decision uses only data up to its bar (`backtest/engine.py:145`) | candles are cut off by their opening: the trend candle that is still open is read with its final close and volume |

## 4. Properties

Each is stated in full beside its definition. Every property of a passing run has a *mutant* in
`PROJECT.json`: a plausible bug in a mapped definition that TLC then finds.

- `PositionLife`: `StopNeverRetreats`, `ProfitLockedIn`, `NearTargetDeadline`, `HoldingLimit`,
  `UnregisteredIsNotHeldAtALoss`: a position whose exits were never registered and that takes over a closed
  row is closed by the first run that sees it at its entry or below, whatever the earlier position left.
- `TradingCycle`: `OneSystemPosition`, `RecordedExitCoolsDown`, `PauseAdmitsOneEntry`,
  `NotifyNeverTrades` (for every step the worker takes in a cycle, the closing orders of the management
  included); the refinement `ImplementsPromise`; liveness `PhantomRowIsClosed`,
  `DueExitIsExecuted`.
- `EntryGate`: `EntryWithinRisk`, `EntryFitsTotal`, `DailyEntriesBounded`. The exposure limit holds
  against the *higher* of the two balances the cycle reads; against the one at the order alone it does
  not, and the model shows it with a balance that falls in between. The risk is bounded by the budget at the
  stop that was judged, and at the disaster stop the order carries by `disaster_multiplier` times the budget
  *and what the roundings add* (`Slack`: the quantum of the sizing at both stops, a price step of the contract).
- `DecisionGraph`: `EntryIsCleared`, `VetoIsNamed`, `RequestsAreBounded`; liveness `GraphReturns`.
- `WorkerLoop`: `ResumeIsNotForgotten`, `NoRepeatedCard`, `RecordedIsDelivered`; liveness
  `EverySymbolIsServed`.
- `PrivateStream`: `AcceptedIsStored`, `GapIsCountedOnce`, `MissedOrdersAreReported`,
  `SymbolsGetKnown`. The first one excepts a batch that brings a new fill twice (section 7); with the exception
  taken out TLC refutes it.
- `DocumentPipeline`: `IndexedIsSearchable`, `PostgresFirst`, `IndexedIsFinal`, `ObservationIsKept`; the
  refinement `ImplementsBacklog`, from which `CallsWithinCap` follows (section 6); liveness
  `OfferedIsSettled`. The last one speaks of documents that are collected again and again: one that fails
  once and hides behind a 304 need not settle (section 7).
- `Backtest`: `LookAheadIsBounded` and `TradesAreInOrder` are proved, `NoLookAhead` is refuted.

## 5. Fairness

- `TradingCycle.FairSpec`: weak fairness of the worker and of the clock (`run_forever` survives every
  exception and calls `run_once` again, scheduler.py:76), and strong fairness of the single steps of a
  cycle in execute mode: a call that is attempted for ever does not fail for ever. Without the latter an
  exchange that is always down would refute every liveness property. Nothing is assumed of users, prices
  or crashes. Both liveness properties need a worker that runs in execute mode.
- `PrivateStream.FairSpec`: weak fairness of reading the history (`_reconcile_forever` sleeps and goes
  on after every exception), strong fairness of the later steps of a round. Nothing is assumed of the
  connection: the properties hold if it never comes back.
- `WorkerLoop.FairSpec`: weak fairness of the worker and of the clock; strong fairness of reading the
  accounts and, for each place in the round, of the cycle there coming to its end, stored or recorded as
  failed (`Ends`): what is reached in round after round is not broken off every time, by a restart or by a
  database that refuses even the failure. Whether the cycles succeed, fail, or trip the breaker is left
  open, for each place by itself; nothing is assumed of Lark or of users.
- `DecisionGraph.Spec`: weak fairness of `Next`; `invoke` runs until no node is active, and the LLM client
  has a timeout.
- `DocumentPipeline.FairSpec`: weak fairness of the worker's steps (`run_forever`, as above); strong
  fairness of `Take` for each document: its first commit does not fail every time it is reached, and no
  other document of the round ends the round before it for ever; strong fairness of a source answering: a
  feed that is asked again and again answers at some point, with what can be parsed or with a 304. Nothing
  is assumed of the model, of Milvus, of aborts or of restarts: a document whose every request fails uses up
  its attempts, which settles it.
- `EntryGate`, `PositionLife`, `Backtest`: safety only.

## 6. Theorems

TLAPS checks all of them to the last leaf, for all constants that satisfy the assumptions named in
the modules. The assumptions say only what the configuration guarantees: constants are of their type,
prices and distances are positive, an account stores no limit beyond the platform's (`update_account`
refuses it), the steps of a contract are positive. The theorems about `Backtest` name theirs, `Sensible`: bars
and candles have integer ends and a trend candle some length.

| Theorem | Property | Argument |
|---|---|---|
| `PositionLife_proofs!Typing` | `TypeOK` | one step per action |
| `…!StopNeverRetreatsHolds` | `StopNeverRetreats` | `AdvancedStopFacts`: every candidate of the advanced stop is compared with the old one by the side of the row |
| `…!UnregisteredIsReleased` | `UnregisteredIsNotHeldAtALoss` | `BareInv`: a closed row is clean, and the open row of an unregistered position that took one over has the position's side and entry and no level but a stop at the entry or better; needed because the property only sees the row when it is open |
| `…!ProfitStaysLockedIn`, `…!NearTargetDeadlineHolds` | | `RowInv`: for a row with its own metadata, what the runs saw is reflected in the stop and the latched time; needed because the properties speak of the past and the row only keeps the result |
| `…!HoldingLimitHolds` | `HoldingLimit` | `HoldInv`: the last holding run is not later than now and was within the limit of an opening time that no synchronisation changes |
| `…!SidesAreTreatedAlike` | – | each rule of `Manage` commutes with the mirror that swaps the sides and the signs of the prices and of the score; a rule with a wrong sign or comparison would favour a side |
| `…!RepeatedRunChangesNothing` | – | a run is a function of the row, the price, the score and the time: repeated on what it stored it moves nothing, for peak, stop and near-target time are already at their extremes. A rolled back or repeated run is harmless |
| `TradingCycle_proofs!Typing` | `TypeOK` | one step per action |
| `…!OnePositionPerSymbol` | `OneSystemPosition` | `EntryInv`: between `Allow` and `PlaceOrder` the symbol has no system position, an OPEN row of the session is OPEN in the database, and an exit within the cooldown is known to the rows |
| `…!RecordedExitsCoolDown` | `RecordedExitCoolsDown` | the same invariant |
| `…!PauseAdmitsAtMostOne` | `PauseAdmitsOneEntry` | `PauseInv`: an entry under a pause is counted only by a cycle that can then no longer enter |
| `…!NotifyLeavesTheExchangeAlone` | `NotifyNeverTrades` | `NotifyInv`: a cycle in notify mode is never in the management nor at an order, where the closing and the opening orders are sent; `EnvironmentIsNoMove` and `WorkerStepsAreMoves` tell the worker's steps (`WorkerMoves`) from what users and the exchange do |
| `…!CycleImplementsPromise` | `ImplementsPromise` | under `EntryInv` and `PauseInv`: `PlaceOrder` maps to `Enter` (what the evaluation found still holds, the pause has admitted nobody), whatever takes a position off the exchange to `Leave`, the breaker, the halt and the API to `Pause`, everything else to a stutter; `LeavingEmptiesAPlace`, `OpeningTakesAPlace` carry the positions over |
| `…!PromiseKeepsTheAccount` | – | of `AccountPromise` alone: `Accounted` (ids are given once, one system position per symbol, one entry under a pause) and `NothingReturns`. What the cycle owes the account follows from the refinement |
| `…!EveryCycleEnds` | – | `Left` counts the positions still to be managed and the places of `run()` ahead; every step of the worker in a cycle lessens it, nothing outside raises it: the part of the liveness properties that needs no fairness |
| `EntryGate_proofs!Typing` | `TypeOK` | `ShareIsCapped` bounds the share for every price and distance |
| `…!RiskStaysWithinBudget` | `EntryWithinRisk` | `NoReasonBoundsTheLoss`: a judgement without a reason bounds the loss at the rounded stop; `RiskInv` carries it to the order. `DisasterStopIsBounded` bounds the distance of the second stop by a multiple of the first and the roundings (`RoundingIsLessThanAStep`, `RoundedDistance`), and `LossAtDisasterStop` the loss there. That the sizing keeps the budget is not used: it does not guarantee it (section 7) |
| `…!QuotaBoundsTheDay` | `DailyEntriesBounded` | `QuotaInv`: every fill of a day has a row, will have one (`Pending`), or never will; a cycle that may order has room, which a new day only enlarges |
| `…!TotalStaysWithinLimit` | `EntryFitsTotal` | `NoReasonFitsTheTotal`: a judgement without a reason leaves room in the total; `TotalInv` carries it to the order, `HigherBalance` compares the two balances. The exposure is a fold over the symbols: `ExposureIsSum`, `SumsFollowTheRule` and `ExposureIsNatural` get what it computes from a least counterexample (`LeastOfNaturals`), not from an induction rule |
| `…!SizingKeepsTheBudgetUpToRounding` | – | `ShareKeepsTheBudget` at the exact stop, `RoundedStop` for what the rounding adds: the sizing passes the gate for a LONG with an aligned stop and a SHORT of at least one step, and is otherwise over the budget by less than the share of a step (section 7) |
| `DecisionGraph_proofs!Typing` | `TypeOK` | one step per node; no superstep has two |
| `…!EntriesAreCleared`, `…!VetoesAreNamed`, `…!CostIsBounded` | `EntryIsCleared`, `VetoIsNamed`, `RequestsAreBounded` | `Inv`: for each place in the graph what is known there (`AtBegin` to `AtEnd`), since the properties speak of what nodes met long before the end |
| `…!NeverAgainstTheTrend` | – | `SignalScore` alone: if trend weight and threshold together outweigh the other weights, as the defaults do, no entry opposes a trend both timeframes agree on |
| `…!EveryDecisionEnds` | – | `Remaining` counts the nodes and attempts ahead; every step lessens it, and `ProposalInv` has a proposal at the end: the part of `GraphReturns` that needs no fairness |
| `WorkerLoop_proofs!Typing`, `…!ResumesAreKept` | `TypeOK`, `ResumeIsNotForgotten` | `RequestInv`: within a round a resume is still pending, for requests are taken between rounds only |
| `…!RecordedCardsAreDelivered`, `…!CardsAreNotRepeated` | `RecordedIsDelivered`, `NoRepeatedCard` | `CardInv`: while a notification runs, the recipients before the present one have just got its card |
| `PrivateStream_proofs!Typing` | `TypeOK` | `FitInv`: `reported` and the orders of a round fit into the window; `WindowFits` bounds the window by its smallest order |
| `…!AcceptedStaysStored` | `AcceptedIsStored` | `RowsAreOrders`, `ReplayIsFrame`, and `ReplaysAreInsertable`: the fills that are added are new to the table, and unless the batch brings a new one twice, different from each other, so that the unique key refuses none |
| `…!GapsAreCountedOnce` | `GapIsCountedOnce` | `GapInv`: a counted order is still reported, or has left the window for good (`OutOfReach`, `WindowOnlyLosesOrders`) |
| `DocumentPipeline_proofs!Typing` | `TypeOK` | one step per action |
| `…!RequestsAreLimited` | – | `CallsWithinCap`, by `Budget`: the request that is about to be made counts already against the attempts of the row in hand (`Asked`), for the process may die with the request sent |
| `…!IndexedRowsAreSearchable`, `…!PostgresLeads` | `IndexedIsSearchable`, `PostgresFirst` | `InHand`: what the place in `_process` says of the row it is at, its summary, its vectors and its text; `GrowthKeepsOrder`: attempts and summaries never shrink |
| `…!IndexedRowsAreFinal` | `IndexedIsFinal` | the row in hand is never an indexed one |
| `…!PipelineImplementsBacklog` | `ImplementsBacklog` | initial states map to initial states; under the invariant, `Take` maps to `Try` of the row it is given, a request to `Request`, a `Mark` of INDEXED to `Complete`, a restart to `Request` or a stutter, everything else to a stutter (`StepIsPromised`) |
| `…!BacklogBoundsRequests` | – | of `DocumentBacklog` alone: `CallsWithinCap`, and an indexed document is left alone |
| `…!ObservationsAreKept` | `ObservationIsKept` | `SessionInv`: past the first commit of a document the session holds none; it is emptied by a commit or by the two actions the property names |
| `Backtest_proofs!LookAheadIsLessThanOneCandle` | `LookAheadIsBounded` | `Known`: what the open position's signal read ends within one trend candle of its entry |
| `…!SameTimeframeLooksAtNothingAhead` | `NoLookAhead`, with trend candles of one bar | the same invariant: the refuted property holds when there is no longer timeframe |
| `…!MarketTradesAreInOrder` | `TradesAreInOrder`, for market orders | the entry lies at most one bar after the one that decided it; limit orders break it (section 7) |

**Only model-checked.** The liveness properties: `PhantomRowIsClosed`, `DueExitIsExecuted`,
`MissedOrdersAreReported`, `SymbolsGetKnown`, `GraphReturns`, `EverySymbolIsServed`, `OfferedIsSettled`.
Fairness and ENABLED are out of the prover's reach; what of them is not is proved where it was found:
`EveryDecisionEnds` of `GraphReturns`, `EveryCycleEnds` of the two properties of `TradingCycle`.
Every invariant and every action property of a passing run is proved.

## 7. Further divergences, and behaviour worth knowing

Met while modelling; no run is spent on them.

- A pause is said to keep new decisions from being made (`services/cycle.py:819`). `halt_reason` is read
  before the management; a failure recorded there trips the breaker, and the same cycle goes on to open a
  position. `PauseAdmitsOneEntry` is the bound that remains.
- `signals/sizing.py:37` says that `single_trade_risk` passes necessarily. The stop of a LONG is rounded
  away from the price and the share is not recomputed: at 0.01 USD and a distance of 0.0003005 the share is
  0.166389, the stop 0.009699 and the risk 0.50083 %, which the gate rejects. The instance of
  `MCEntryGate` has this distance; `EntryWithinRisk` holds because the gate, not the sizing, enforces it.
  `SizingKeepsTheBudgetUpToRounding` says for which plans the claim is true and how far the others are off.
- `workers/pipeline.py:185` tells of vectors without a row, written once more by each retry, as of the past.
  `_process` calls `prepare_document` without a `document_id`, so every attempt makes a new one; the row keeps
  the first. The chunks of a retry have an id that no row has, and a retry after a lost answer of Milvus
  writes the document a second time.
- A row keeps the text it was created with, while a later attempt indexes the text of that day. A row that
  was SKIPPED for having none and is indexed later still has no `cleaned_text`, so `reindex_documents` cannot
  rebuild its vectors.
- A document that failed goes back to FAILED so that the next round tries it again
  (`workers/pipeline.py:292`). The fetcher keeps the validator of the feed before its documents are processed
  (`collectors/fetching.py:44`): while the feed is unchanged it answers 304 and no round sees the document.
- All documents without text share one content hash and therefore one row, and use up its attempts
  (`workers/pipeline.py:309`); a document with a text that later gets that row's URL may find none left.
- A document that matches one row by its URL and another by its content is processed for whichever the
  query returns first: a content that is indexed under another URL may be indexed again
  (`workers/pipeline.py:196`).
- A series is marked as fetched before its observations are committed (`workers/pipeline.py:77`): a round that
  ends by an exception before the first commit loses them for an interval, or longer behind a 304.
- `src/docs/runbook.md:90` says a restart leads to RUNNING; the control status is in the database and
  survives it.
- The reconciliation commits the row of a new position before `_register_position_metadata` stores its
  exits (`services/cycle.py:426`): a crash in between leaves a position that is managed with its entry price
  for a stop, without a target, and with the opening time of an earlier position or none.
  `PositionLife` has it as `EnterUnrecorded`, and `UnregisteredIsNotHeldAtALoss` says how far it stays safe.
- A row whose fill slipped onto its stop has no risk distance: every gain is 0 R and the target counts as
  reached (`positions/manager.py:145`).
- The stop is tested before it is moved (`positions/manager.py:180`); a moved stop that the same price
  already touches is executed one run later.
- `peak_price` and `opened_at` are not cleared when a row closes; the next registration overwrites them,
  an unregistered position inherits them.
- The cooldown is that of *recorded* exits: a position that opened and left between two synchronisations
  starts none.
- `_daily_trades` counts orders with an order id, filled or not, though its docstring says filled: the
  quota is stricter than described.
- `_consecutive_losses` counts CLOSE decisions; the management closes positions without persisting one, so
  that the streak stays zero.
- The reconciler's round changes `reported` before it commits: a gap of a round that fails is reported
  and never counted. An order whose push is still on the way counts as a gap.
- `streams/reconciler.py:9` has the history find what the stream did not see. It compares order ids with
  `exchange_order_events` only (`:169`): the fill of an order whose first push was stored is never missed,
  whether a disconnection or a refused subscription of the fill channel lost it.
- The stop that is judged never reaches the exchange: `proposal_to_order` sends the disaster stop
  (`execution/service.py:35`), three times as far, which no gate looks at. `place_order` rounds it down for
  both sides (`exchange/weex.py:422`), for a LONG away from the price; the rounding of the quantity keeps
  the order within the judgement (its comment, `:60`).
- Recording is said to be idempotent by the ids of the exchange (`streams/repository.py:3`), and
  `src/backend/tests/unit/test_stream_repository.py:111` records a fill twice before it commits. Its session
  flushes before a query; that of the program does not (`db/session.py:9`). A fill or an order that is new
  and comes twice in one frame is not found by the look-up (`:54`, `:88`), inserted twice, and the unique
  key refuses the batch with everything beside it.
- An answer whose parse breaks off has left its validator (`collectors/fetching.py:44`): the source answers
  304 until it changes, and what came behind the break is not seen until then.
- The press releases of the Federal Reserve are not de-duplicated within a round (`collectors/macro.py:128`),
  unlike the feeds (`collectors/rss.py:93`): one that fails and comes twice costs two attempts in one round.
- The execution queries a timed-out order by its client id (`execution/service.py:106`), but the client raises
  `ExchangeError` for timeouts; the query is never reached (`trading_cycle_unknown`).
- A paused account is always pushed, says `src/docs/runbook.md:116`. The second pause, after a resume with only
  muted HOLDs in between, has the signature of the first and is sent to nobody.
- A notification that fails at a recipient leaves the ones behind it without the card; if the decision then
  goes back to the remembered one, those before it keep a card that is no longer true, and nobody is told.
- A message that Lark rejects counts towards the breaker (`CYCLE_FAILURE`), which `services/cycle.py:366` rules
  out; the decision persisted at the end of the same cycle resets the count.
- A request to run that was consumed for a round whose reading of the accounts fails waits for the interval;
  it is an exception in `ResumeIsNotForgotten`. So is a round that breaks off before the first symbol of the
  user: the round counts as the one that was asked for.
- An exception while a failure is recorded ends the round for all later accounts, though one account must not
  stop the others (`src/backend/workers/scheduler.py:65`).
- A limit order of the backtest is managed from the bar after its signal, not after its fill: it can be left
  before it is entered (`backtest/engine.py:343`). A gap beyond the stop is settled at the stop, which is not
  the conservative side its docstring names; the position open at the end is not settled.
- Two accounts increment the merged error row in two threads and can lose an increment.
- `StreamListener` reads the enabled accounts once: one enabled later gets no stream until a restart.

## 8. Not modelled

- Attestation contract: three `require`-like guards over one counter, in one transaction; every property of
  it would restate one of them.
- Exchange signing and parsing; indicators; embeddings and ranking: numerics and external services.
- Exceptions raised inside a node of the graph, such as that of `size_position` for a negative balance
  (`signals/sizing.py:48`): they leave `invoke` and end the cycle, which `TradingCycle` (`Abort`) and
  `WorkerLoop` (`CycleFails`) have; `GraphReturns` speaks of invocations without one.
- Layout and wording of the Lark cards; the committee nodes of the graph that no edge leads to; the account
  samples of the private stream and the lengths of its backoff.
- Of the pipeline: cleaning, tagging, the parsing of feeds and summaries, dropping an entry of equal title
  and summary within one round, the retries inside one request, the rows of collector errors.
- Auth and webhooks: library calls and single-row upserts. API reads, frontend: presentation.
- Of the backtest: fees, fills, statistics, the parameter sweep.
- Migrations and operator scripts: run once, by hand.
- Balance and position reads of one evaluation are one step (`EntryGate.Evaluate`); both commits of a
  synchronisation and the registration are one step in `TradingCycle` (`PositionLife` splits the
  registration off).

## 9. What is left

Modelled in the order of what loses money first: the life of a position, the cycle around it, the entry, the
graph that decides, the stream that observes, the pipeline that feeds the graph, the loop that runs it all
and tells people, the backtest that chooses the parameters. Worth adding:

1. Measures as in `EveryCycleEnds` for a round of `WorkerLoop`, for one document of the pipeline and for a
   round of the reconciler.
2. An abstract specification of the delivery of cards (`WorkerLoop`) and of the stored events
   (`PrivateStream`), as `AccountPromise` and `DocumentBacklog` are for theirs.
3. `WorkerLoop` over two tenants: the instance has one, the theorems any number.

## 10. Running

In this directory, with TLC and TLAPS installed:

    tlc -workers 2 -config TradingCycle.cfg TradingCycle
    tlc -workers 2 -config EntryGate.cfg MCEntryGate
    tlc -workers 2 -config DocumentPipeline.cfg MCDocumentPipeline
    tlc -workers 2 -config WorkerLoop.cfg MCWorkerLoop
    tlapm TradingCycle_proofs.tla

The longest runs take about two minutes; `PROJECT.json` names the module and the configuration of each.
