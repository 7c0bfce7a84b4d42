------------------------------ MODULE Backtest ------------------------------
(***************************************************************************)
(* app/backtest/engine.py: run_backtest() walks once over the bars of the  *)
(* entry timeframe with the exit rules of PositionManager.                 *)
(*                                                                         *)
(* Bar i lasts from moment i to moment i + 1; moments are in bars.  What   *)
(* the indicators say of the candles they read (score and atr) is chosen,  *)
(* which candles they read is modelled.  Amounts and fees are left out.    *)
(***************************************************************************)
EXTENDS PositionManager, Sequences, FiniteSets

CONSTANTS
    First, Last,        \* the bars: MIN_BARS is where the loop begins
    Prices,
    Scores, Atrs,
    Threshold,          \* entry_threshold
    AtrMultiplier,      \* atr_multiplier
    BarHours,           \* the length of a bar
    TrendLength,        \* the length of a trend candle in bars
    TrendOpens,         \* when the trend candles open
    EntryOrder,         \* "market" or "limit"
    LimitTtl            \* limit_ttl_bars

VARIABLES
    bars,       \* the candles of the entry timeframe
    index,      \* the bar the loop is at
    position,   \* the open position, as manage() reads it
    entry,      \* the bar that filled its order, and what its signal read
    trades      \* the settled trades

vars == <<bars, index, position, entry, trades>>

Bar == {b \in [open : Prices, high : Prices, low : Prices, close : Prices] :
            {b.open, b.close} \subseteq b.low..b.high}

\* When the candles end that _indicators_at() keeps: the filter looks at the
\* opening, in both timeframes.  (The candles before First ended long before.)
Read(i) == {c + 1 : c \in First..i} \cup {c + TrendLength : c \in {o \in TrendOpens : o <= i}}

Init ==
    /\ bars \in [First..Last -> Bar]
    /\ index = First
    /\ position = None /\ entry = None
    /\ trades = <<>>

-----------------------------------------------------------------------------
(* Leaving.                                                                *)

Touches(side, bar, price) ==
    IF side = "LONG" THEN bar.low <= price ELSE bar.high >= price

Opposite(side) == IF side = "LONG" THEN "SHORT" ELSE "LONG"

StoppedOut(bar) == Touches(position.side, bar, position.effective_stop)
TargetReached(bar) == Touches(Opposite(position.side), bar, position.take_profit)

\* The extremes of the bar count first, then manage() at its close.
Leaves(bar, decision) ==
    StoppedOut(bar) \/ TargetReached(bar) \/ decision.action = "CLOSE"

Settled == Append(trades, [read |-> entry.read, entered |-> entry.bar, left |-> index])

Decision(bar, atr, score) == Manage(position, bar.close, atr, index * BarHours, score)

\* The position is kept: no new signal is looked for.
Hold(score, atr) ==
    LET decision == Decision(bars[index], atr, score)
    IN  /\ position # None /\ ~Leaves(bars[index], decision)
        /\ position' = [position EXCEPT
                           !.effective_stop = decision.effective_stop,
                           !.peak_price = decision.peak_price,
                           !.near_target_at = decision.near_target_at]
        /\ UNCHANGED <<entry, trades>>

-----------------------------------------------------------------------------
(* Entering.                                                               *)

Direction(score) ==
    IF score >= Threshold THEN "LONG" ELSE IF score <= -Threshold THEN "SHORT" ELSE "HOLD"

\* The bars that may fill the order.  A market order takes the next one; a limit
\* order at the close of the signal's bar the first that touches it.
Filling(side) ==
    IF EntryOrder = "market" THEN {index + 1}
    ELSE LET touching == {i \in index + 1..Last :
                              i <= index + LimitTtl /\ Touches(side, bars[i], bars[index].close)}
         IN  {i \in touching : \A j \in touching : i <= j}

EntryPrice(i) == IF EntryOrder = "market" THEN bars[i].open ELSE bars[index].close

\* size_position() places the exits around the entry.
Opened(side, atr, i) ==
    LET stop == BetterBy(side, EntryPrice(i), -(atr * AtrMultiplier))
    IN  [side |-> side, entry_price |-> EntryPrice(i),
         stop_loss |-> stop, effective_stop |-> stop,
         take_profit |-> BetterBy(side, EntryPrice(i), atr * AtrMultiplier * RewardRisk),
         peak_price |-> EntryPrice(i), near_target_at |-> None,
         opened_at |-> i * BarHours]

Enter(score, atr) ==
    IF Direction(score) = "HOLD" \/ atr = None \/ Filling(Direction(score)) = {}
    THEN position' = None /\ entry' = None
    ELSE \E i \in Filling(Direction(score)) :
            /\ position' = Opened(Direction(score), atr, i)
            /\ entry' = [bar |-> i, read |-> Read(index)]

Wait(score, atr) ==
    /\ position = None
    /\ Enter(score, atr)
    /\ UNCHANGED trades

\* A bar that ends a position may begin the next one.
Leave(score, atr) ==
    /\ position # None /\ Leaves(bars[index], Decision(bars[index], atr, score))
    /\ trades' = Settled
    /\ Enter(score, atr)

\* The loop stops short of the last bar; what is open then is not settled.
Next ==
    /\ index < Last
    /\ \E score \in Scores, atr \in Atrs :
           Hold(score, atr) \/ Wait(score, atr) \/ Leave(score, atr)
    /\ index' = index + 1
    /\ UNCHANGED bars

Spec == Init /\ [][Next]_vars

-----------------------------------------------------------------------------
(* Properties.                                                             *)

TradeIndices == 1..Len(trades)

\* A trade is entered on what was known then: every candle its signal was
\* computed from had ended.
NoLookAhead ==
    \A n \in TradeIndices : \A moment \in trades[n].read : moment <= trades[n].entered

\* What a signal reads that is not known yet ends less than one trend candle
\* after the entry.
LookAheadIsBounded ==
    \A n \in TradeIndices : \A moment \in trades[n].read :
        moment < trades[n].entered + TrendLength

\* No trade is left before it is entered, and there is one at a time.
TradesAreInOrder ==
    \A n \in TradeIndices :
        /\ trades[n].entered <= trades[n].left
        /\ \A m \in 1..n - 1 : trades[m].left < trades[n].entered
=============================================================================
