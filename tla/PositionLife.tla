----------------------------- MODULE PositionLife -----------------------------
(***************************************************************************)
(* One symbol's positions row over the life of the positions it mirrors:   *)
(* management runs of the worker (cycle._manage_positions), closing orders *)
(* that are or are not confirmed, entries that register their metadata,    *)
(* entries the program did not record, exits it did not order, and the     *)
(* account synchronisation that reuses the row.  A run whose row is rolled *)
(* back, because a later step of its cycle failed, is a stuttering step.   *)
(*                                                                         *)
(* TradingCycle has the full interleaving of one cycle; this module keeps  *)
(* the prices and the clock that TradingCycle abstracts from.              *)
(***************************************************************************)
EXTENDS PositionManager

CONSTANTS
    Prices,         \* the prices the market may show
    Entries,        \* the prices at which positions are entered
    StopDistances,  \* distance of a proposal's stop from its reference price
    Slippage,       \* bound on |fill price - reference price|
    Atrs,           \* readings of atr_14, None when there is none
    MaxNow,         \* bound on the clock, in hours
    MaxOpens        \* bound on the number of positions

ASSUME BoundsAssumption ==
    /\ Prices \subseteq Int /\ Entries \subseteq Int /\ StopDistances \subseteq Nat
    /\ Atrs \subseteq Int \cup {None}
    /\ {Slippage, MaxNow, MaxOpens} \subseteq Nat

VARIABLES
    exch,       \* the position the exchange holds, None when flat
    row,        \* the committed positions row
    status,     \* its status column
    price,      \* last traded price
    now,        \* the clock
    opens,      \* number of the latest position (history)
    owner,      \* number of the position whose entry registered the metadata
    seen        \* what management runs saw of the latest position (history)

vars == <<exch, row, status, price, now, opens, owner, seen>>

ExchangePosition == [side : Sides, entry : Int]

History ==
    [bare : BOOLEAN,            \* entered unrecorded, its row being closed
     near : Optional(Int),      \* first committed run within reach of target
     profit : BOOLEAN,          \* a committed run held at 1R or more
     held : Optional(Int)]      \* the last committed run that held

NothingSeen ==
    [bare |-> FALSE, near |-> None, profit |-> FALSE, held |-> None]

EmptyRow ==
    [side |-> "LONG", entry_price |-> 0, stop_loss |-> None,
     effective_stop |-> None, take_profit |-> None, peak_price |-> None,
     near_target_at |-> None, opened_at |-> None]

\* Mutant: only what the runs have moved is reset, not the initial stop.
Cleared_KeepsStop(r) ==
    [r EXCEPT !.take_profit = None, !.effective_stop = None,
              !.near_target_at = None]

\* What closing a row resets: peak_price and opened_at keep their values.
Cleared(r) ==
    [r EXCEPT !.stop_loss = None, !.take_profit = None,
              !.effective_stop = None, !.near_target_at = None]

Init ==
    /\ exch = None /\ row = EmptyRow /\ status = "CLOSED"
    /\ price \in Prices /\ now = 0
    /\ opens = 0 /\ owner = 0 /\ seen = NothingSeen

-----------------------------------------------------------------------------
(* The worker.                                                             *)

NewPosition(side, entry) ==
    /\ exch = None
    /\ opens < MaxOpens
    /\ exch' = [side |-> side, entry |-> entry]
    /\ opens' = opens + 1

\* An entry that is confirmed FILLED and synchronised in its own cycle: the
\* row is written and _register_position_metadata stores the proposal's exits.
\* The proposal was made at a reference price, the fill may differ from it.
EnterAndRegister(side, entry, reference, distance) ==
    /\ Distance(entry, reference) <= Slippage
    /\ status = "CLOSED"
    /\ NewPosition(side, entry)
    /\ row' = [side |-> side, entry_price |-> entry,
               stop_loss |-> BetterBy(side, reference, -distance),
               effective_stop |-> BetterBy(side, reference, -distance),
               take_profit |-> BetterBy(side, reference, RewardRisk * distance),
               peak_price |-> entry, near_target_at |-> None, opened_at |-> now]
    /\ status' = "OPEN"
    /\ owner' = opens + 1
    /\ seen' = NothingSeen
    /\ UNCHANGED <<price, now>>

\* Management acts on a position that the exchange reports and that has an
\* OPEN row.  It runs before the graph, so the signal score is still None.
Managed == exch # None /\ status = "OPEN"
NoSignal == None
Decision(atr) == Manage(row, price, atr, now, NoSignal)

ReachedNear ==
    /\ NearTargetR > 0
    /\ ExceedsR(TargetExcursion(row), Risk(row), NearTargetR)
    /\ ReachesR(Gain(row, price), Risk(row), NearTargetR)
First(old, condition) == IF old = None /\ condition THEN now ELSE old

ManageHold(atr) ==
    /\ Managed
    /\ Decision(atr).action = "HOLD"
    /\ row' = [row EXCEPT !.effective_stop = Decision(atr).effective_stop,
                          !.peak_price = Decision(atr).peak_price,
                          !.near_target_at = Decision(atr).near_target_at]
    /\ seen' = [bare |-> seen.bare,
                near |-> First(seen.near, ReachedNear),
                profit |-> \/ seen.profit
                           \/ ReachesR(Gain(row, price), Risk(row), BreakevenR),
                held |-> now]
    /\ UNCHANGED <<exch, status, price, now, opens, owner>>

\* The closing order is confirmed FILLED and the row is committed.
ManageClose(atr) ==
    /\ Managed
    /\ Decision(atr).action = "CLOSE"
    /\ exch' = None
    /\ row' = Cleared(row)
    /\ status' = "CLOSED"
    /\ UNCHANGED <<price, now, opens, owner, seen>>

\* The closing order was executed but not confirmed, or the cycle was lost
\* after it: only the exchange knows.
ManageCloseUnconfirmed(atr) ==
    /\ Managed
    /\ Decision(atr).action = "CLOSE"
    /\ exch' = None
    /\ UNCHANGED <<row, status, price, now, opens, owner, seen>>

\* Mutant: a row without a position is marked, with a status nobody reads.
Sync_MarksMissing ==
    /\ IF exch = None
       THEN status = "OPEN" /\ row' = row /\ status' = "MISSING"
       ELSE /\ row' = [row EXCEPT !.side = exch.side, !.entry_price = exch.entry]
            /\ status' = "OPEN"
    /\ UNCHANGED <<exch, price, now, opens, owner, seen>>

\* reconcile(): the row follows what the exchange reports; a row that is OPEN
\* without a position is closed, a reported position takes the row over.
Sync ==
    /\ IF exch = None
       THEN /\ status = "OPEN"
            /\ row' = Cleared(row)
            /\ status' = "CLOSED"
       ELSE /\ row' = [row EXCEPT !.side = exch.side, !.entry_price = exch.entry]
            /\ status' = "OPEN"
    /\ UNCHANGED <<exch, price, now, opens, owner, seen>>

-----------------------------------------------------------------------------
(* The exchange, its user and the market.                                  *)

\* A position the program does not register: opened by hand, by an order
\* whose confirmation was lost, or in a cycle that was lost before it stored
\* the exits.
EnterUnrecorded(side, entry) ==
    /\ NewPosition(side, entry)
    /\ seen' = [NothingSeen EXCEPT !.bare = (status = "CLOSED")]
    /\ UNCHANGED <<row, status, price, now, owner>>

\* Take profit, disaster stop, liquidation or a manual close at the exchange.
ExchangeExit ==
    /\ exch # None
    /\ exch' = None
    /\ UNCHANGED <<row, status, price, now, opens, owner, seen>>

MarketMoves ==
    /\ price' \in Prices
    /\ UNCHANGED <<exch, row, status, now, opens, owner, seen>>

Tick ==
    /\ now < MaxNow
    /\ now' = now + 1
    /\ UNCHANGED <<exch, row, status, price, opens, owner, seen>>

Worker ==
    \/ \E atr \in Atrs :
          \/ ManageHold(atr) \/ ManageClose(atr) \/ ManageCloseUnconfirmed(atr)
    \/ \E side \in Sides, entry \in Entries, reference \in Prices,
          distance \in StopDistances :
          EnterAndRegister(side, entry, reference, distance)
    \/ Sync

Environment ==
    \/ \E side \in Sides, entry \in Entries : EnterUnrecorded(side, entry)
    \/ ExchangeExit
    \/ MarketMoves
    \/ Tick

Next == Worker \/ Environment

Spec == Init /\ [][Next]_vars

-----------------------------------------------------------------------------
(* Properties.                                                             *)

TypeOK ==
    /\ exch \in Optional(ExchangePosition)
    /\ row \in PositionRow
    /\ status \in {"OPEN", "CLOSED"}
    /\ price \in Int
    /\ now \in Int
    /\ opens \in Nat /\ owner \in Nat
    /\ seen \in History

\* The row describes the position whose entry registered its metadata.
OwnMetadata == status = "OPEN" /\ exch # None /\ owner = opens /\ owner # 0

\* While a row stays open its effective stop never moves to a worse price and
\* is never forgotten (models.Position.effective_stop, manager._advanced_stop):
\* whatever the market, the ATR and the lost runs do.
StopNeverRetreats ==
    [][(status = "OPEN" /\ status' = "OPEN" /\ row.effective_stop # None)
        => /\ row'.effective_stop # None
           /\ AtLeastAsGood(row'.side, row'.effective_stop, row.effective_stop)]_vars

\* Once a committed run held the position at 1R or more of profit, the stored
\* stop is at the entry or better for the rest of that position's life.
ProfitLockedIn ==
    OwnMetadata /\ seen.profit
        => AtLeastAsGood(row.side, row.effective_stop, row.entry_price)

\* A run that still holds the position does so less than NearTargetTimeout
\* after the first committed run within reach of the target, however far the
\* price has come back since: the latched time survives.
NearTargetDeadline ==
    OwnMetadata /\ NearTargetTimeout > 0 /\ seen.near # None
        => seen.held - seen.near < NearTargetTimeout

\* A run that still holds a position does so less than MaxHoldHours after the
\* position was opened: no path of the market, no synchronisation that rewrites
\* the row and no failed run lets a registered position be held for ever.
HoldingLimit ==
    OwnMetadata /\ MaxHoldHours > 0 /\ seen.held # None
        => seen.held - row.opened_at < MaxHoldHours

\* A position whose exits nobody registered, and which takes over a closed row,
\* is released by the first run that sees it at its entry or at a loss: what is
\* left of an earlier position in the row gives it no stop to be held at.  Nor
\* is it ever closed for the time an earlier position spent near its target.
UnregisteredIsNotHeldAtALoss ==
    seen.bare /\ Managed
        => /\ Excursion(exch.side, exch.entry, price) <= 0
                => Closes(row, price, now, NoSignal)
           /\ ~NearTargetExpired(row, price, now)
=============================================================================
