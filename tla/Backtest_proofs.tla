--------------------------- MODULE Backtest_proofs ---------------------------
(***************************************************************************)
(* How far the backtest is from looking ahead, for every history, signal,  *)
(* length of the candles and exit rule.                                    *)
(***************************************************************************)
EXTENDS Backtest, TLAPS

\* What a setting of the constants means at all.
Sensible ==
    /\ {First, Last} \subseteq Int
    /\ TrendLength \in Nat \ {0} /\ TrendOpens \subseteq Int

\* What a signal at bar i reads ends before an order of that signal is filled,
\* but for one trend candle.
SoonKnown(read, i) == read \subseteq Int /\ \A moment \in read : moment < i + TrendLength

Known ==
    /\ index \in Int
    /\ position # None => entry.bar \in Int /\ SoonKnown(entry.read, entry.bar)
    /\ trades \in Seq([read : SUBSET Int, entered : Int, left : Int])
    /\ \A n \in TradeIndices : SoonKnown(trades[n].read, trades[n].entered)

LEMMA ReadIsSoonKnown ==
    ASSUME Sensible, NEW i \in Int, NEW j \in Int, j > i
    PROVE  SoonKnown(Read(i), j)
BY DEF Sensible, SoonKnown, Read

LEMMA FilledLater ==
    ASSUME Sensible, index \in Int, NEW side, NEW i \in Filling(side)
    PROVE  i \in Int /\ i > index
BY DEF Sensible, Filling

\* Entering leaves no position, or one of a later bar.
LEMMA EnterFacts ==
    ASSUME Sensible, Known, NEW score, NEW atr, Enter(score, atr), position' # None
    PROVE  entry'.bar \in Int /\ entry'.bar > index /\ SoonKnown(entry'.read, entry'.bar)
<1>1. index \in Int
  BY DEF Known
<1>2. PICK i \in Filling(Direction(score)) : entry' = [bar |-> i, read |-> Read(index)]
  BY DEF Enter
<1>3. i \in Int /\ i > index
  BY <1>1, <1>2, FilledLater
<1>4. QED
  BY <1>1, <1>2, <1>3, ReadIsSoonKnown

\* A trade more, and the others as they were.
LEMMA SettledFacts ==
    ASSUME Known, position # None, trades' = Settled
    PROVE  /\ trades' \in Seq([read : SUBSET Int, entered : Int, left : Int])
           /\ Len(trades) \in Nat /\ Len(trades') = Len(trades) + 1
           /\ \A n \in TradeIndices : trades'[n] = trades[n]
           /\ trades'[Len(trades')] = [read |-> entry.read, entered |-> entry.bar, left |-> index]
<1> DEFINE Trade == [read : SUBSET Int, entered : Int, left : Int]
           trade == [read |-> entry.read, entered |-> entry.bar, left |-> index]
<1>1. trades \in Seq(Trade) /\ trade \in Trade
  BY DEF Known, SoonKnown
<1>2. trades' = Append(trades, trade)
  BY DEF Settled
<1> HIDE DEF Trade, trade
<1>3. /\ trades' \in Seq(Trade)
      /\ Len(trades) \in Nat /\ Len(trades') = Len(trades) + 1
      /\ \A n \in 1..Len(trades) : trades'[n] = trades[n]
      /\ trades'[Len(trades')] = trade
  BY <1>1, <1>2
<1>4. QED
  BY <1>3 DEF Trade, trade, TradeIndices


LEMMA TradeTypes ==
    ASSUME Known, NEW n \in TradeIndices
    PROVE  trades[n].read \subseteq Int /\ trades[n].entered \in Int /\ trades[n].left \in Int
<1> DEFINE Trade == [read : SUBSET Int, entered : Int, left : Int]
<1>1. trades \in Seq(Trade)
  BY DEF Known
<1> HIDE DEF Trade
<1>2. trades[n] \in Trade
  BY <1>1 DEF TradeIndices
<1>3. QED
  BY <1>2 DEF Trade

LEMMA KnownInit == Sensible /\ Init => Known
BY DEF Sensible, Init, Known, TradeIndices

LEMMA KnownStep ==
    ASSUME Sensible, Known, [Next]_vars
    PROVE  Known'
<1>1. CASE UNCHANGED vars
  BY <1>1 DEF Known, vars, TradeIndices, SoonKnown
<1>2. CASE Next
  <2> PICK score \in Scores, atr \in Atrs :
        Hold(score, atr) \/ Wait(score, atr) \/ Leave(score, atr)
    BY <1>2 DEF Next
  <2>1. index' \in Int
    BY <1>2 DEF Next, Known
  <2>2. CASE Hold(score, atr)
    BY <2>1, <2>2 DEF Hold, Known, TradeIndices, SoonKnown
  <2>3. CASE Wait(score, atr)
    BY <2>1, <2>3, EnterFacts DEF Wait, Known, TradeIndices, SoonKnown
  <2>4. CASE Leave(score, atr)
    <3>1. position' # None => entry'.bar \in Int /\ SoonKnown(entry'.read, entry'.bar)
      BY <2>4, EnterFacts DEF Leave
    <3>2. position # None /\ trades' = Settled
      BY <2>4 DEF Leave
    <3>3. ASSUME NEW n \in TradeIndices'
          PROVE  SoonKnown(trades'[n].read, trades'[n].entered)
      <4>1. n \in TradeIndices \/ n = Len(trades')
        BY <3>2, SettledFacts DEF TradeIndices
      <4>2. CASE n \in TradeIndices
        BY <3>2, <4>2, SettledFacts DEF Known
      <4>3. CASE n = Len(trades')
        BY <3>2, <4>3, SettledFacts DEF Known
      <4>4. QED
        BY <4>1, <4>2, <4>3
    <3>4. QED
      BY <2>1, <3>1, <3>2, <3>3, SettledFacts DEF Known, SoonKnown
  <2>5. QED
    BY <2>2, <2>3, <2>4
<1>3. QED
  BY <1>1, <1>2

\* The signal of a trade reads no candle that ends a trend candle, or more, after
\* the order was filled: this is as far ahead as _indicators_at() looks.
THEOREM LookAheadIsLessThanOneCandle ==
    ASSUME Sensible
    PROVE  Spec => []LookAheadIsBounded
<1>1. Init => Known
  BY KnownInit
<1>2. Known /\ [Next]_vars => Known'
  BY KnownStep
<1>3. Known => LookAheadIsBounded
  BY DEF Known, LookAheadIsBounded, SoonKnown
<1>4. QED
  BY <1>1, <1>2, <1>3, PTL DEF Spec

\* With trend candles as short as the bars nothing is looked at ahead.
THEOREM SameTimeframeLooksAtNothingAhead ==
    ASSUME Sensible, TrendLength = 1
    PROVE  Spec => []NoLookAhead
<1>1. Init => Known
  BY KnownInit
<1>2. Known /\ [Next]_vars => Known'
  BY KnownStep
<1>3. Known => NoLookAhead
  <2> SUFFICES ASSUME Known, NEW n \in TradeIndices, NEW moment \in trades[n].read
               PROVE  moment <= trades[n].entered
    BY DEF NoLookAhead
  <2>1. trades[n].entered \in Int
    BY TradeTypes
  <2>2. moment \in Int /\ moment < trades[n].entered + TrendLength
    BY DEF Known, SoonKnown
  <2>3. QED
    BY <2>1, <2>2
<1>4. QED
  BY <1>1, <1>2, <1>3, PTL DEF Spec
-----------------------------------------------------------------------------
(* Market orders.                                                          *)

\* The open position was entered by now, after the trades that are settled.
Ordered ==
    /\ position # None => entry.bar <= index
    /\ \A n \in TradeIndices :
          /\ trades[n].left < index
          /\ position # None => trades[n].left < entry.bar
    /\ TradesAreInOrder

LEMMA FilledNext ==
    ASSUME Known, EntryOrder = "market", NEW score, NEW atr,
           Enter(score, atr), position' # None
    PROVE  entry'.bar = index + 1
BY DEF Enter, Filling

LEMMA OrderedStep ==
    ASSUME Sensible, Known, EntryOrder = "market", Ordered, [Next]_vars
    PROVE  Ordered'
<1>0. index \in Int /\ \A n \in TradeIndices : trades[n].left \in Int /\ trades[n].entered \in Int
  BY TradeTypes DEF Known
<1>1. CASE UNCHANGED vars
  BY <1>1 DEF Ordered, vars, TradesAreInOrder, TradeIndices
<1>2. CASE Next
  <2> PICK score \in Scores, atr \in Atrs :
        Hold(score, atr) \/ Wait(score, atr) \/ Leave(score, atr)
    BY <1>2 DEF Next
  <2>1. index' = index + 1
    BY <1>2 DEF Next
  <2>2. CASE Hold(score, atr)
    <3>1. position # None /\ entry' = entry /\ trades' = trades
      BY <2>2 DEF Hold
    <3>2. entry.bar \in Int
      BY <3>1 DEF Known
    <3>3. TradesAreInOrder' /\ TradeIndices' = TradeIndices
      BY <3>1 DEF Ordered, TradesAreInOrder, TradeIndices
    <3>4. QED
      BY <1>0, <2>1, <3>1, <3>2, <3>3 DEF Ordered
  <2>3. CASE Wait(score, atr)
    <3>1. trades' = trades /\ TradeIndices' = TradeIndices /\ TradesAreInOrder'
      BY <2>3 DEF Wait, Ordered, TradesAreInOrder, TradeIndices
    <3>2. position' # None => entry'.bar = index + 1
      BY <2>3, FilledNext DEF Wait
    <3>3. QED
      BY <1>0, <2>1, <3>1, <3>2 DEF Ordered
  <2>4. CASE Leave(score, atr)
    <3>1. position # None /\ trades' = Settled
      BY <2>4 DEF Leave
    <3>2. position' # None => entry'.bar = index + 1
      BY <2>4, FilledNext DEF Leave
    <3>3. entry.bar \in Int /\ entry.bar <= index
      BY <3>1 DEF Known, Ordered
    <3>4. /\ Len(trades) \in Nat /\ Len(trades') = Len(trades) + 1
          /\ \A n \in TradeIndices : trades'[n] = trades[n]
          /\ trades'[Len(trades')].entered = entry.bar
          /\ trades'[Len(trades')].left = index
      BY <3>1, SettledFacts
    <3>5. ASSUME NEW n \in TradeIndices' PROVE n \in TradeIndices \/ n = Len(trades')
      BY <3>4 DEF TradeIndices
    <3>6. \A n \in TradeIndices' : trades'[n].left < index'
      BY <1>0, <2>1, <3>4, <3>5 DEF Ordered
    <3>7. TradesAreInOrder'
      <4> SUFFICES ASSUME NEW n \in TradeIndices'
                   PROVE  /\ trades'[n].entered <= trades'[n].left
                          /\ \A m \in 1..n - 1 : trades'[m].left < trades'[n].entered
        BY DEF TradesAreInOrder
      <4>1. CASE n \in TradeIndices
        <5>1. \A m \in 1..n - 1 : m \in TradeIndices
          BY <3>4, <4>1 DEF TradeIndices
        <5>2. QED
          BY <3>4, <4>1, <5>1 DEF Ordered, TradesAreInOrder
      <4>2. CASE n = Len(trades')
        <5>1. \A m \in 1..n - 1 : m \in TradeIndices
          BY <3>4, <4>2 DEF TradeIndices
        <5>2. \A m \in TradeIndices : trades[m].left < entry.bar
          BY <3>1 DEF Ordered
        <5>3. QED
          BY <3>3, <3>4, <4>2, <5>1, <5>2
      <4>3. QED
        BY <3>5, <4>1, <4>2
    <3>8. ASSUME position' # None, NEW n \in TradeIndices' PROVE trades'[n].left < entry'.bar
      BY <2>1, <3>2, <3>6, <3>8
    <3>9. position' # None => entry'.bar <= index'
      BY <1>0, <2>1, <3>2
    <3>10. QED
      BY <3>6, <3>7, <3>8, <3>9 DEF Ordered
  <2>5. QED
    BY <2>2, <2>3, <2>4
<1>3. QED
  BY <1>1, <1>2

\* With market orders the trades of a run follow one another, and none is left
\* before it is entered.  (With limit orders one can be: the loop goes on with
\* the bar after the signal, whatever bar filled the order.)
THEOREM MarketTradesAreInOrder ==
    ASSUME Sensible, EntryOrder = "market"
    PROVE  Spec => []TradesAreInOrder
<1>1. Init => Known /\ Ordered
  BY KnownInit DEF Init, Ordered, TradesAreInOrder, TradeIndices
<1>2. Known /\ Ordered /\ [Next]_vars => (Known /\ Ordered)'
  BY KnownStep, OrderedStep
<1>3. Ordered => TradesAreInOrder
  BY DEF Ordered
<1>4. QED
  BY <1>1, <1>2, <1>3, PTL DEF Spec
=============================================================================
