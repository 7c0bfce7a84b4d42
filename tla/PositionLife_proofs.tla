-------------------------- MODULE PositionLife_proofs --------------------------
(***************************************************************************)
(* Theorems about PositionLife, for every choice of prices, thresholds,    *)
(* bounds and ATR readings.                                                *)
(***************************************************************************)
EXTENDS PositionLife, TLAPS

-----------------------------------------------------------------------------
(* What the helpers of PositionManager return.                             *)

\* Better picks one of its arguments, and one that is as good as both.
LEMMA BetterFacts ==
    ASSUME NEW side \in Sides, NEW a \in Int, NEW b \in Int
    PROVE  /\ Better(side, a, b) \in Int
           /\ AtLeastAsGood(side, Better(side, a, b), a)
           /\ AtLeastAsGood(side, Better(side, a, b), b)
BY DEF Better, AtLeastAsGood, Sides

\* "As good as" is transitive, and moves the gain with it.
LEMMA GoodnessTransitive ==
    ASSUME NEW side \in Sides, NEW a \in Int, NEW b \in Int, NEW c \in Int,
           AtLeastAsGood(side, a, b), AtLeastAsGood(side, b, c)
    PROVE  AtLeastAsGood(side, a, c)
BY DEF AtLeastAsGood, Sides

LEMMA BetterByType ==
    ASSUME NEW side \in Sides, NEW a \in Int, NEW d \in Int
    PROVE  BetterBy(side, a, d) \in Int
BY DEF BetterBy

\* The advanced stop is a price, never worse than the old stop, and at the
\* entry or better once the profit has reached the breakeven threshold.
LEMMA AdvancedStopFacts ==
    ASSUME NEW side \in Sides, NEW entry \in Int, NEW stop \in Int,
           NEW peak \in Int, NEW atr \in Optional(Int), NEW moved \in BOOLEAN
    PROVE  LET advanced == AdvancedStop(side, entry, stop, peak, atr, moved)
           IN  /\ advanced \in Int
               /\ AtLeastAsGood(side, advanced, stop)
               /\ moved => AtLeastAsGood(side, advanced, entry)
<1> DEFINE advanced == AdvancedStop(side, entry, stop, peak, atr, moved)
           trail == BetterBy(side, peak, -(atr * TrailAtrMultiplier))
           breakeven == Better(side, stop, entry)
<1>1. /\ breakeven \in Int
      /\ AtLeastAsGood(side, breakeven, stop)
      /\ AtLeastAsGood(side, breakeven, entry)
  BY BetterFacts
<1>2. CASE ~moved
  BY <1>2 DEF AdvancedStop, AtLeastAsGood, Sides
<1>3. CASE moved /\ atr # None /\ atr > 0
  <2>1. -(atr * TrailAtrMultiplier) \in Int
    BY <1>3, ParamsAssumption DEF Optional
  <2>2. trail \in Int
    BY <2>1, BetterByType
  <2>3. advanced = Better(side, breakeven, trail)
    BY <1>3 DEF AdvancedStop
  <2> HIDE DEF advanced, trail, breakeven
  <2>4. advanced \in Int /\ AtLeastAsGood(side, advanced, breakeven)
    BY <1>1, <2>2, <2>3, BetterFacts
  <2>5. QED
    BY <1>1, <1>3, <2>4, GoodnessTransitive DEF advanced
<1>4. CASE moved /\ ~(atr # None /\ atr > 0)
  <2>1. advanced = breakeven
    BY <1>4 DEF AdvancedStop
  <2> HIDE DEF breakeven
  <2>2. QED
    BY <1>1, <1>4, <2>1
<1>5. QED
  BY <1>2, <1>3, <1>4

LEMMA InitialStopType ==
    ASSUME NEW r \in PositionRow
    PROVE  InitialStop(r) \in Int
BY DEF InitialStop, PositionRow, Optional

LEMMA CurrentStopType ==
    ASSUME NEW r \in PositionRow
    PROVE  CurrentStop(r) \in Int
BY InitialStopType DEF CurrentStop, PositionRow, Optional

\* The peak is a price as good as the sampled one.
LEMMA PeakFacts ==
    ASSUME NEW r \in PositionRow, NEW p \in Int
    PROVE  Peak(r, p) \in Int /\ AtLeastAsGood(r.side, Peak(r, p), p)
<1>1. r.side \in Sides /\ r.entry_price \in Int /\ r.peak_price \in Optional(Int)
  BY DEF PositionRow
<1>2. QED
  BY <1>1, BetterFacts DEF Peak, Optional

\* What a decision to hold stores: a stop that is not worse than the current
\* one, and at the entry or better if the price has reached breakeven.
LEMMA HoldFacts ==
    ASSUME NEW r \in PositionRow, NEW p \in Int, NEW atr \in Optional(Int),
           NEW t \in Int, NEW score,
           Manage(r, p, atr, t, score).action = "HOLD"
    PROVE  LET d == Manage(r, p, atr, t, score)
           IN  /\ ~Closes(r, p, t, score)
               /\ d.effective_stop \in Int
               /\ AtLeastAsGood(r.side, d.effective_stop, CurrentStop(r))
               /\ ReachesR(Gain(r, p), Risk(r), BreakevenR)
                    => AtLeastAsGood(r.side, d.effective_stop, r.entry_price)
               /\ d.peak_price \in Int
               /\ d.near_target_at = NearTargetAt(r, p, t)
<1> DEFINE d == Manage(r, p, atr, t, score)
           moved == ReachesR(Gain(r, p), Risk(r), BreakevenR)
<1>1. ~Closes(r, p, t, score)
  <2>1. d.action = IF Closes(r, p, t, score) THEN "CLOSE" ELSE "HOLD"
    BY DEF Manage
  <2>2. QED
    BY <2>1
<1>2. d.effective_stop = AdvancedStop(r.side, r.entry_price, CurrentStop(r),
                                      Peak(r, p), atr, moved)
  BY <1>1 DEF Manage
<1>3. /\ r.side \in Sides /\ r.entry_price \in Int /\ CurrentStop(r) \in Int
      /\ Peak(r, p) \in Int
  BY CurrentStopType, PeakFacts DEF PositionRow
<1>8. moved \in BOOLEAN
  <2>1. CASE Risk(r) > 0
    BY <2>1, SMT DEF ReachesR
  <2>2. CASE ~(Risk(r) > 0)
    BY <2>2, SMT DEF ReachesR
  <2>3. QED
    BY <2>1, <2>2
<1>4. d.peak_price \in Int
  BY <1>3 DEF Manage
<1>5. d.near_target_at = NearTargetAt(r, p, t)
  BY <1>1 DEF Manage, Closes
<1> HIDE DEF d, moved
<1>6. /\ d.effective_stop \in Int
      /\ AtLeastAsGood(r.side, d.effective_stop, CurrentStop(r))
      /\ moved => AtLeastAsGood(r.side, d.effective_stop, r.entry_price)
  <2> DEFINE advanced == AdvancedStop(r.side, r.entry_price, CurrentStop(r),
                                      Peak(r, p), atr, moved)
  <2>1. /\ advanced \in Int
        /\ AtLeastAsGood(r.side, advanced, CurrentStop(r))
        /\ moved => AtLeastAsGood(r.side, advanced, r.entry_price)
    BY <1>3, <1>8, AdvancedStopFacts, ZenonT(30)
  <2> HIDE DEF advanced
  <2>2. QED
    BY <1>2, <2>1 DEF advanced
<1>7. QED
  BY <1>1, <1>4, <1>5, <1>6 DEF d, moved

-----------------------------------------------------------------------------
(* Type correctness.                                                       *)

\* A management run that holds computes columns of the right type.
LEMMA HoldRowType ==
    ASSUME TypeOK, NEW atr \in Atrs, ManageHold(atr)
    PROVE  row' \in PositionRow
<1> DEFINE d == Decision(atr)
<1>1. row \in PositionRow /\ price \in Int /\ now \in Int
      /\ atr \in Optional(Int)
  BY BoundsAssumption DEF TypeOK, Optional
<1>2. d.action = "HOLD"
  BY DEF ManageHold
<1>3. /\ d.effective_stop \in Int
      /\ d.peak_price \in Int
      /\ d.near_target_at = NearTargetAt(row, price, now)
  BY <1>1, <1>2, HoldFacts, ZenonT(30) DEF Decision
<1>4. NearTargetAt(row, price, now) \in Optional(Int)
  BY <1>1 DEF NearTargetAt, PositionRow, Optional
<1>5. row' = [row EXCEPT !.effective_stop = d.effective_stop,
                         !.peak_price = d.peak_price,
                         !.near_target_at = d.near_target_at]
  BY DEF ManageHold
<1> HIDE DEF d
<1>6. QED
  BY <1>1, <1>3, <1>4, <1>5 DEF PositionRow, Optional

LEMMA ClearedType ==
    ASSUME NEW r \in PositionRow
    PROVE  Cleared(r) \in PositionRow
BY DEF Cleared, PositionRow, Optional

LEMMA SeenType ==
    ASSUME TypeOK, NEW atr, ManageHold(atr)
    PROVE  seen' \in History
<1>1. seen \in History /\ now \in Int
  BY DEF TypeOK
<1>2. First(seen.near, ReachedNear) \in Optional(Int)
  BY <1>1 DEF First, History, Optional
<1>3. (seen.profit \/ ReachesR(Gain(row, price), Risk(row), BreakevenR)) \in BOOLEAN
  BY <1>1 DEF History
<1>4. QED
  BY <1>1, <1>2, <1>3 DEF ManageHold, History, Optional

LEMMA EnterRowType ==
    ASSUME TypeOK, NEW side \in Sides, NEW entry \in Entries,
           NEW reference \in Prices, NEW distance \in StopDistances,
           EnterAndRegister(side, entry, reference, distance)
    PROVE  row' \in PositionRow
<1>1. /\ entry \in Int /\ reference \in Int /\ distance \in Int /\ now \in Int
      /\ RewardRisk * distance \in Int /\ -distance \in Int
  BY BoundsAssumption, ParamsAssumption DEF TypeOK
<1>2. /\ BetterBy(side, reference, -distance) \in Int
      /\ BetterBy(side, reference, RewardRisk * distance) \in Int
  BY <1>1, BetterByType
<1>3. QED
  BY <1>1, <1>2 DEF EnterAndRegister, PositionRow, Optional

LEMMA TypeStep == TypeOK /\ [Next]_vars => TypeOK'
<1> SUFFICES ASSUME TypeOK, [Next]_vars PROVE TypeOK'
  OBVIOUS
<1>1. ASSUME NEW atr \in Atrs, ManageHold(atr) PROVE TypeOK'
  BY <1>1, HoldRowType, SeenType DEF TypeOK, ManageHold
<1>3. ASSUME NEW atr \in Atrs, ManageClose(atr) PROVE TypeOK'
  BY <1>3, ClearedType DEF TypeOK, ManageClose, Optional
<1>4. ASSUME NEW atr \in Atrs, ManageCloseUnconfirmed(atr) PROVE TypeOK'
  BY <1>4 DEF TypeOK, ManageCloseUnconfirmed, Optional
<1>5. ASSUME NEW side \in Sides, NEW entry \in Entries, NEW reference \in Prices,
             NEW distance \in StopDistances,
             EnterAndRegister(side, entry, reference, distance)
      PROVE  TypeOK'
  <2>1. /\ exch' \in Optional(ExchangePosition)
        /\ seen' \in History
    BY <1>5, BoundsAssumption
       DEF EnterAndRegister, NewPosition, ExchangePosition, Optional, History,
           NothingSeen
  <2>2. row' \in PositionRow
    BY <1>5, EnterRowType
  <2>3. QED
    BY <1>5, <2>1, <2>2 DEF TypeOK, EnterAndRegister, NewPosition
<1>6. CASE Sync
  <2>1. row' \in PositionRow
    <3>1. CASE exch = None
      BY <1>6, <3>1, ClearedType DEF Sync, TypeOK
    <3>2. CASE exch # None
      <4>1. exch.side \in Sides /\ exch.entry \in Int
        BY <3>2 DEF TypeOK, Optional, ExchangePosition
      <4>2. QED
        BY <1>6, <3>2, <4>1 DEF Sync, TypeOK, PositionRow
    <3>3. QED
      BY <3>1, <3>2
  <2>2. QED
    BY <1>6, <2>1 DEF Sync, TypeOK
<1>7. ASSUME NEW side \in Sides, NEW entry \in Entries,
             EnterUnrecorded(side, entry)
      PROVE  TypeOK'
  <2>1. exch' \in Optional(ExchangePosition)
    BY <1>7, BoundsAssumption
       DEF EnterUnrecorded, NewPosition, ExchangePosition, Optional
  <2>2. (status = "CLOSED") \in BOOLEAN
    OBVIOUS
  <2>3. seen' \in History
    BY <1>7, <2>2, Zenon DEF EnterUnrecorded, History, NothingSeen, Optional
  <2>4. QED
    BY <1>7, <2>1, <2>3 DEF TypeOK, EnterUnrecorded, NewPosition
<1>8. CASE ExchangeExit
  BY <1>8 DEF TypeOK, ExchangeExit, Optional
<1>9. CASE MarketMoves
  BY <1>9, BoundsAssumption DEF TypeOK, MarketMoves
<1>10. CASE Tick
  BY <1>10 DEF TypeOK, Tick
<1>11. CASE UNCHANGED vars
  BY <1>11 DEF TypeOK, vars
<1>12. QED
  BY <1>1, <1>3, <1>4, <1>5, <1>6, <1>7, <1>8, <1>9, <1>10, <1>11
     DEF Next, Worker, Environment

LEMMA TypeInit == Init => TypeOK
BY BoundsAssumption
   DEF Init, TypeOK, EmptyRow, NothingSeen, PositionRow, History, Optional, Sides

\* Every reachable state of the row, of the exchange and of the history is
\* well typed, whatever the prices and thresholds.
THEOREM Typing == Spec => []TypeOK
BY TypeInit, TypeStep, PTL DEF Spec
-----------------------------------------------------------------------------
(* The stop never retreats.                                                *)

\* The stored stop is only written by runs that hold, which advance it, and
\* by the actions that open or close the row.
LEMMA StopStep ==
    ASSUME TypeOK, [Next]_vars, status = "OPEN", status' = "OPEN",
           row.effective_stop # None
    PROVE  /\ row'.effective_stop # None
           /\ AtLeastAsGood(row'.side, row'.effective_stop, row.effective_stop)
<1>1. row \in PositionRow /\ price \in Int /\ now \in Int
  BY DEF TypeOK
<1>2. row.effective_stop \in Int
  BY <1>1 DEF PositionRow, Optional
<1>3. ASSUME NEW atr \in Atrs, ManageHold(atr)
      PROVE  /\ row'.effective_stop # None
             /\ AtLeastAsGood(row'.side, row'.effective_stop, row.effective_stop)
  <2> DEFINE d == Decision(atr)
  <2>1. atr \in Optional(Int) /\ d.action = "HOLD"
    BY <1>3, BoundsAssumption DEF ManageHold, Optional
  <2>2. /\ d.effective_stop \in Int
        /\ AtLeastAsGood(row.side, d.effective_stop, CurrentStop(row))
    BY <1>1, <2>1, HoldFacts, ZenonT(30) DEF Decision
  <2>3. CurrentStop(row) = row.effective_stop
    BY DEF CurrentStop
  <2>4. row'.effective_stop = d.effective_stop /\ row'.side = row.side
    BY <1>1, <1>3 DEF ManageHold, PositionRow
  <2> HIDE DEF d
  <2>5. QED
    BY <2>2, <2>3, <2>4, NoneAssumption
<1>4. CASE Sync
  <2>1. exch # None
    BY <1>4 DEF Sync
  <2>2. row'.effective_stop = row.effective_stop
    BY <1>1, <1>4, <2>1 DEF Sync, PositionRow
  <2>3. QED
    BY <1>2, <2>2, NoneAssumption DEF AtLeastAsGood
<1>5. CASE row' = row
  BY <1>2, <1>5, NoneAssumption DEF AtLeastAsGood
<1>6. QED
  BY <1>3, <1>4, <1>5
     DEF Next, Worker, Environment, ManageClose,
         ManageCloseUnconfirmed, EnterAndRegister, EnterUnrecorded,
         ExchangeExit, MarketMoves, Tick, vars

\* While a row stays open, its effective stop never moves to a worse price
\* and is never forgotten, whatever the market and the ATR do.
THEOREM StopNeverRetreatsHolds == Spec => StopNeverRetreats
<1>1. TypeOK /\ [Next]_vars =>
        [(status = "OPEN" /\ status' = "OPEN" /\ row.effective_stop # None)
          => /\ row'.effective_stop # None
             /\ AtLeastAsGood(row'.side, row'.effective_stop, row.effective_stop)]_vars
  BY StopStep
<1>2. QED
  BY <1>1, TypeInit, TypeStep, PTL DEF Spec, StopNeverRetreats

-----------------------------------------------------------------------------
(* A position that nobody registered.                                      *)

\* A closed row holds no stop, target or near-target time.
ClosedRowIsClean ==
    status = "CLOSED"
        => /\ {row.stop_loss, row.effective_stop, row.take_profit} = {None}
           /\ row.near_target_at = None

\* The open row of a position that took over a closed one: the position's side
\* and entry, no levels but a stop that management put at the entry or better.
BareRowIsOwn ==
    seen.bare /\ Managed
        => /\ row.side = exch.side /\ row.entry_price = exch.entry
           /\ row.stop_loss = None /\ row.near_target_at = None
           /\ row.effective_stop # None
                => AtLeastAsGood(row.side, row.effective_stop, row.entry_price)

BareInv == TypeOK /\ ClosedRowIsClean /\ BareRowIsOwn

\* Without a stop of its own a position has no risk distance, no near-target
\* time is ever stored, and its stop is at the entry or better.
LEMMA BareRowFacts ==
    ASSUME TypeOK, BareRowIsOwn, seen.bare, Managed
    PROVE  /\ AtLeastAsGood(row.side, CurrentStop(row), row.entry_price)
           /\ NearTargetAt(row, price, now) = None
<1>1. /\ row.side \in Sides /\ row.entry_price \in Int
      /\ row.stop_loss = None /\ row.near_target_at = None
      /\ row.effective_stop # None
            => AtLeastAsGood(row.side, row.effective_stop, row.entry_price)
  BY DEF TypeOK, BareRowIsOwn, PositionRow
<1>2. InitialStop(row) = row.entry_price
  BY <1>1 DEF InitialStop
<1>3. AtLeastAsGood(row.side, CurrentStop(row), row.entry_price)
  BY <1>1, <1>2 DEF CurrentStop, AtLeastAsGood
<1>4. Risk(row) = 0
  BY <1>1, <1>2 DEF Risk, Distance
<1>5. ~(NearTargetR > 0 /\ ExceedsR(TargetExcursion(row), Risk(row), NearTargetR))
  BY <1>4, ParamsAssumption DEF ExceedsR
<1>6. NearTargetAt(row, price, now) = None
  BY <1>1, <1>5 DEF NearTargetAt
<1>7. QED
  BY <1>3, <1>6

LEMMA CleanStep == ClosedRowIsClean /\ [Next]_vars => ClosedRowIsClean'
<1> SUFFICES ASSUME ClosedRowIsClean, [Next]_vars, status' = "CLOSED"
             PROVE  /\ {row.stop_loss, row.effective_stop, row.take_profit}' = {None}
                    /\ row'.near_target_at = None
  BY DEF ClosedRowIsClean
<1>1. CASE row' = Cleared(row)
  BY <1>1 DEF Cleared
<1>2. CASE row' = row /\ status = "CLOSED"
  BY <1>2 DEF ClosedRowIsClean
<1>3. row' = Cleared(row) \/ (row' = row /\ status = "CLOSED")
  BY DEF Next, Worker, Environment, ManageHold, ManageClose,
         ManageCloseUnconfirmed, EnterAndRegister, EnterUnrecorded, Sync,
         ExchangeExit, MarketMoves, Tick, vars, Managed
<1>4. QED
  BY <1>1, <1>2, <1>3

\* A run that holds moves the stop from the entry to the entry or better.
LEMMA BareHoldStep ==
    ASSUME BareInv, NEW atr \in Atrs, ManageHold(atr)
    PROVE  BareRowIsOwn'
<1>1. /\ row \in PositionRow /\ price \in Int /\ now \in Int /\ seen \in History
      /\ atr \in Optional(Int)
  BY BoundsAssumption DEF BareInv, TypeOK, Optional
<1> DEFINE d == Decision(atr)
<1>2. /\ d.effective_stop \in Int
      /\ AtLeastAsGood(row.side, d.effective_stop, CurrentStop(row))
      /\ d.near_target_at = NearTargetAt(row, price, now)
  BY <1>1, HoldFacts, ZenonT(30) DEF Decision, ManageHold
<1>3. /\ row'.side = row.side /\ row'.entry_price = row.entry_price
      /\ row'.stop_loss = row.stop_loss
      /\ row'.effective_stop = d.effective_stop
      /\ row'.near_target_at = d.near_target_at
      /\ seen'.bare = seen.bare /\ exch' = exch /\ Managed
  BY <1>1 DEF ManageHold, PositionRow
<1> HIDE DEF d
<1>4. SUFFICES ASSUME seen.bare
               PROVE  /\ row'.near_target_at = None
                      /\ AtLeastAsGood(row.side, d.effective_stop, row.entry_price)
  BY <1>3, <1>4 DEF BareInv, BareRowIsOwn
<1>5. /\ AtLeastAsGood(row.side, CurrentStop(row), row.entry_price)
      /\ NearTargetAt(row, price, now) = None
  BY <1>3, <1>4, BareRowFacts DEF BareInv
<1>6. row.side \in Sides /\ row.entry_price \in Int /\ CurrentStop(row) \in Int
  BY <1>1, CurrentStopType DEF PositionRow
<1>7. QED
  BY <1>2, <1>3, <1>5, <1>6, GoodnessTransitive

\* The synchronisation gives a closed row the side and the entry of the position.
LEMMA BareSyncStep ==
    ASSUME BareInv, Sync
    PROVE  BareRowIsOwn'
<1>1. row \in PositionRow /\ status \in {"OPEN", "CLOSED"}
  BY DEF BareInv, TypeOK
<1>2. CASE exch = None
  BY <1>2 DEF Sync, BareRowIsOwn, Managed
<1>3. CASE exch # None
  <2>1. /\ row'.side = exch.side /\ row'.entry_price = exch.entry
        /\ row'.stop_loss = row.stop_loss
        /\ row'.effective_stop = row.effective_stop
        /\ row'.near_target_at = row.near_target_at
        /\ UNCHANGED <<exch, seen>>
    BY <1>1, <1>3 DEF Sync, PositionRow
  <2>2. CASE status = "CLOSED"
    BY <2>1, <2>2 DEF BareInv, ClosedRowIsClean, BareRowIsOwn
  <2>3. CASE status = "OPEN"
    BY <1>3, <2>1, <2>3 DEF BareInv, BareRowIsOwn, Managed
  <2>4. QED
    BY <1>1, <2>2, <2>3
<1>4. QED
  BY <1>2, <1>3

LEMMA BareStep == BareInv /\ [Next]_vars => BareInv'
<1> SUFFICES ASSUME BareInv, [Next]_vars PROVE BareInv'
  OBVIOUS
<1>1. TypeOK' /\ ClosedRowIsClean'
  BY TypeStep, CleanStep DEF BareInv
<1>2. ASSUME NEW side \in Sides, NEW entry \in Entries,
             EnterUnrecorded(side, entry)
      PROVE  BareRowIsOwn'
  BY <1>2 DEF EnterUnrecorded, NothingSeen, BareRowIsOwn, Managed
<1>3. ASSUME NEW side \in Sides, NEW entry \in Entries, NEW reference \in Prices,
             NEW distance \in StopDistances,
             EnterAndRegister(side, entry, reference, distance)
      PROVE  BareRowIsOwn'
  BY <1>3 DEF EnterAndRegister, NothingSeen, BareRowIsOwn
<1>4. ASSUME exch' = None PROVE BareRowIsOwn'
  BY <1>4 DEF BareRowIsOwn, Managed
<1>5. ASSUME UNCHANGED <<exch, row, status, seen>> PROVE BareRowIsOwn'
  BY <1>5 DEF BareInv, BareRowIsOwn, Managed
<1>6. BareRowIsOwn'
  BY <1>2, <1>3, <1>4, <1>5, BareHoldStep, BareSyncStep
     DEF Next, Worker, Environment, ManageClose, ManageCloseUnconfirmed,
         ExchangeExit, MarketMoves, Tick, vars
<1>7. QED
  BY <1>1, <1>6 DEF BareInv

\* A position that nobody registered and that took over a closed row is never
\* held at its entry or at a loss, and never closed for an earlier position's
\* time near the target.
THEOREM UnregisteredIsReleased == Spec => []UnregisteredIsNotHeldAtALoss
<1>1. Init => BareInv
  BY TypeInit
     DEF Init, EmptyRow, NothingSeen, BareInv, ClosedRowIsClean, BareRowIsOwn
<1>2. BareInv => UnregisteredIsNotHeldAtALoss
  <2> SUFFICES ASSUME BareInv, seen.bare, Managed
               PROVE  /\ Excursion(exch.side, exch.entry, price) <= 0
                            => Closes(row, price, now, NoSignal)
                      /\ ~NearTargetExpired(row, price, now)
    BY DEF UnregisteredIsNotHeldAtALoss
  <2>1. /\ AtLeastAsGood(row.side, CurrentStop(row), row.entry_price)
        /\ NearTargetAt(row, price, now) = None
        /\ row.side = exch.side /\ row.entry_price = exch.entry
    BY BareRowFacts DEF BareInv, BareRowIsOwn
  <2>2. /\ row.side \in Sides /\ row.entry_price \in Int /\ price \in Int
        /\ CurrentStop(row) \in Int
    BY CurrentStopType DEF BareInv, TypeOK, PositionRow
  <2>3. Excursion(row.side, row.entry_price, price) <= 0
          => AtLeastAsGood(row.side, CurrentStop(row), price)
    BY <2>1, <2>2 DEF Excursion, AtLeastAsGood, Sides
  <2>4. QED
    BY <2>1, <2>3
       DEF Closes, PriceExit, StopHit, StopTouched, NearTargetExpired
<1>3. QED
  BY <1>1, <1>2, BareStep, PTL DEF Spec
-----------------------------------------------------------------------------
(* The profit lock and the near-target deadline: one inductive invariant.  *)

\* Only an open row is the row of the latest position, and then it has that
\* position's side and entry, and a stop.
RowIsOwn ==
    /\ owner <= opens
    /\ exch # None /\ owner = opens /\ owner # 0 => status = "OPEN"
    /\ OwnMetadata => /\ row.side = exch.side
                      /\ row.entry_price = exch.entry
                      /\ row.effective_stop # None

\* The latched time is in the past, and not later than the first run that came
\* within reach of the target.
LatchIsEarly ==
    /\ row.near_target_at # None => row.near_target_at <= now
    /\ OwnMetadata /\ seen.near # None
        => /\ row.near_target_at # None
           /\ row.near_target_at <= seen.near
           /\ seen.held # None

RowInv ==
    TypeOK /\ RowIsOwn /\ LatchIsEarly /\ ProfitLockedIn /\ NearTargetDeadline

\* A run that holds keeps the row and adds to the history of its position.
LEMMA HoldStep ==
    ASSUME RowInv, NEW atr \in Atrs, ManageHold(atr)
    PROVE  RowIsOwn' /\ LatchIsEarly' /\ ProfitLockedIn' /\ NearTargetDeadline'
<1> DEFINE d == Decision(atr)
           near == NearTargetAt(row, price, now)
           reaches == ReachesR(Gain(row, price), Risk(row), BreakevenR)
<1>1. /\ row \in PositionRow /\ price \in Int /\ now \in Int
      /\ seen \in History /\ opens \in Nat /\ owner \in Nat
  BY DEF RowInv, TypeOK
<1>2. atr \in Optional(Int) /\ d.action = "HOLD"
  BY BoundsAssumption DEF ManageHold, Optional
<1>3. /\ ~Closes(row, price, now, NoSignal)
      /\ d.effective_stop \in Int
      /\ AtLeastAsGood(row.side, d.effective_stop, CurrentStop(row))
      /\ reaches => AtLeastAsGood(row.side, d.effective_stop, row.entry_price)
      /\ d.near_target_at = near
  BY <1>1, <1>2, HoldFacts, ZenonT(30) DEF Decision
<1>4. /\ row'.side = row.side /\ row'.entry_price = row.entry_price
      /\ row'.effective_stop = d.effective_stop
      /\ row'.near_target_at = near
  BY <1>1, <1>3 DEF ManageHold, PositionRow
<1>5. /\ seen'.near = First(seen.near, ReachedNear)
      /\ seen'.profit = (seen.profit \/ reaches)
      /\ seen'.held = now
      /\ UNCHANGED <<exch, status, price, now, opens, owner>>
  BY DEF ManageHold
<1>6. OwnMetadata' = OwnMetadata
  BY <1>5 DEF OwnMetadata
<1>7. RowIsOwn'
  BY <1>3, <1>4, <1>5, <1>6, NoneAssumption DEF RowInv, RowIsOwn
<1>8. ProfitLockedIn'
  <2> SUFFICES ASSUME OwnMetadata, seen.profit \/ reaches
               PROVE  AtLeastAsGood(row.side, d.effective_stop, row.entry_price)
    BY <1>4, <1>5, <1>6 DEF ProfitLockedIn
  <2>1. CASE reaches
    BY <1>3, <2>1
  <2>2. CASE seen.profit
    <3>1. AtLeastAsGood(row.side, row.effective_stop, row.entry_price)
      BY <2>2 DEF RowInv, ProfitLockedIn
    <3>2. row.effective_stop # None
      BY DEF RowInv, RowIsOwn
    <3>3. CurrentStop(row) = row.effective_stop /\ row.effective_stop \in Int
      BY <1>1, <3>2 DEF CurrentStop, PositionRow, Optional
    <3>4. row.side \in Sides /\ row.entry_price \in Int
      BY <1>1 DEF PositionRow
    <3> HIDE DEF d
    <3>5. QED
      BY <1>3, <3>1, <3>3, <3>4, GoodnessTransitive
  <2>3. QED
    BY <2>1, <2>2
<1>9. near # None => near \in Int /\ near <= now
  BY <1>1 DEF RowInv, LatchIsEarly, NearTargetAt, PositionRow, Optional
<1>10. ReachedNear => near # None
  <2> SUFFICES ASSUME ReachedNear, row.near_target_at = None
               PROVE  near = now
    BY <1>1, NoneAssumption DEF NearTargetAt
  <2>1. /\ NearTargetR > 0
        /\ ExceedsR(TargetExcursion(row), Risk(row), NearTargetR)
        /\ ReachesR(Gain(row, price), Risk(row), NearTargetR)
    BY DEF ReachedNear
  <2>2. ReachesR(PeakGain(row, price), Risk(row), NearTargetR)
    <3>1. /\ row.side \in Sides /\ row.entry_price \in Int
          /\ InitialStop(row) \in Int
      BY <1>1, InitialStopType DEF PositionRow
    <3>2. Peak(row, price) \in Int /\ AtLeastAsGood(row.side, Peak(row, price), price)
      BY <1>1, PeakFacts
    <3>3. /\ Gain(row, price) \in Int /\ PeakGain(row, price) \in Int
          /\ Gain(row, price) <= PeakGain(row, price)
      BY <1>1, <3>1, <3>2
         DEF Gain, PeakGain, Excursion, AtLeastAsGood, Sides
    <3>4. Risk(row) \in Int
      BY <3>1 DEF Risk, Distance
    <3>5. NearTargetR \in Int
      BY ParamsAssumption
    <3>6. CASE Risk(row) > 0
      BY <2>1, <3>3, <3>4, <3>5, <3>6, SMT DEF ReachesR
    <3>7. CASE ~(Risk(row) > 0)
      BY <2>1, <3>7 DEF ReachesR
    <3>8. QED
      BY <3>6, <3>7
  <2>3. QED
    BY <2>1, <2>2 DEF NearTargetAt
<1>11. ASSUME OwnMetadata, seen'.near # None
       PROVE  near # None /\ near <= seen'.near /\ seen'.near \in Int
  <2>1. CASE seen.near # None
    <3>1. seen'.near = seen.near
      BY <1>5, <2>1 DEF First
    <3>2. row.near_target_at # None /\ row.near_target_at <= seen.near
      BY <1>11, <2>1 DEF RowInv, LatchIsEarly
    <3>3. near = row.near_target_at
      BY <3>2 DEF NearTargetAt
    <3>4. seen.near \in Int
      BY <1>1, <2>1 DEF History, Optional
    <3>5. QED
      BY <3>1, <3>2, <3>3, <3>4
  <2>2. CASE seen.near = None
    <3>1. ReachedNear /\ seen'.near = now
      BY <1>5, <1>11, <2>2 DEF First
    <3>2. QED
      BY <1>1, <1>9, <1>10, <3>1
  <2>3. QED
    BY <2>1, <2>2
<1> HIDE DEF near, d
<1>12. LatchIsEarly'
  BY <1>1, <1>4, <1>5, <1>6, <1>9, <1>11, NoneAssumption DEF LatchIsEarly
<1>13. NearTargetDeadline'
  <2> SUFFICES ASSUME OwnMetadata, NearTargetTimeout > 0, seen'.near # None
               PROVE  now - seen'.near < NearTargetTimeout
    BY <1>5, <1>6 DEF NearTargetDeadline
  <2>1. near # None /\ near <= seen'.near /\ near \in Int /\ seen'.near \in Int
    BY <1>9, <1>11
  <2>2. NearTargetTimeout \in Int
    BY ParamsAssumption
  <2>3. ~(now - near >= NearTargetTimeout)
    BY <1>3, <2>1, <2>2 DEF Closes, TimeExit, NearTargetExpired, near
  <2>4. QED
    BY <1>1, <2>1, <2>2, <2>3
<1>14. QED
  BY <1>7, <1>8, <1>12, <1>13

\* A new position has no history; the row is its own only if it was registered.
LEMMA EnterStep ==
    ASSUME RowInv, NEW side \in Sides, NEW entry \in Entries,
           \/ \E reference \in Prices, distance \in StopDistances :
                  EnterAndRegister(side, entry, reference, distance)
           \/ EnterUnrecorded(side, entry)
    PROVE  RowIsOwn' /\ LatchIsEarly' /\ ProfitLockedIn' /\ NearTargetDeadline'
<1>1. opens \in Nat /\ owner \in Nat /\ owner <= opens /\ now \in Int
      /\ row \in PositionRow
  BY DEF RowInv, TypeOK, RowIsOwn
<1>2. seen'.near = None /\ seen'.profit = FALSE /\ opens' = opens + 1 /\ now' = now
      /\ exch' = [side |-> side, entry |-> entry]
  BY DEF EnterAndRegister, EnterUnrecorded, NewPosition, NothingSeen
<1>3. ~seen'.profit /\ seen'.near = None
  BY <1>2
<1>4. ProfitLockedIn' /\ NearTargetDeadline'
  BY <1>3 DEF ProfitLockedIn, NearTargetDeadline
<1>5. ASSUME NEW reference \in Prices, NEW distance \in StopDistances,
             EnterAndRegister(side, entry, reference, distance)
      PROVE  RowIsOwn' /\ LatchIsEarly'
  <2>1. /\ row'.side = side /\ row'.entry_price = entry
        /\ row'.effective_stop = BetterBy(side, reference, -distance)
        /\ row'.near_target_at = None
        /\ status' = "OPEN" /\ owner' = opens + 1
    BY <1>5 DEF EnterAndRegister
  <2>2. BetterBy(side, reference, -distance) \in Int
    <3>1. reference \in Int /\ -distance \in Int
      BY BoundsAssumption
    <3>2. QED
      BY <3>1, BetterByType
  <2>3. QED
    BY <1>1, <1>2, <1>3, <2>1, <2>2, NoneAssumption
       DEF RowIsOwn, LatchIsEarly, OwnMetadata
<1>6. CASE EnterUnrecorded(side, entry)
  <2>1. row' = row /\ owner' = owner /\ owner' # opens'
    BY <1>1, <1>2, <1>6 DEF EnterUnrecorded
  <2>2. ~OwnMetadata' /\ owner' <= opens'
    BY <1>1, <1>2, <2>1 DEF OwnMetadata
  <2>3. row.near_target_at # None => row.near_target_at <= now
    BY DEF RowInv, LatchIsEarly
  <2>4. RowIsOwn'
    BY <2>1, <2>2 DEF RowIsOwn
  <2>5. LatchIsEarly'
    BY <1>2, <2>1, <2>2, <2>3 DEF LatchIsEarly
  <2>6. QED
    BY <1>4, <2>4, <2>5
<1>7. QED
  BY <1>4, <1>5, <1>6

\* Actions that end the position, or that leave the row's history alone.
LEMMA OtherStep ==
    ASSUME RowInv,
           \/ \E atr \in Atrs : ManageClose(atr) \/ ManageCloseUnconfirmed(atr)
           \/ Sync \/ ExchangeExit \/ MarketMoves \/ Tick \/ UNCHANGED vars
    PROVE  RowIsOwn' /\ LatchIsEarly' /\ ProfitLockedIn' /\ NearTargetDeadline'
<1>1. /\ row \in PositionRow /\ now \in Int /\ opens \in Nat /\ owner \in Nat
      /\ seen \in History /\ exch \in Optional(ExchangePosition)
  BY DEF RowInv, TypeOK
<1>2. owner' = owner /\ opens' = opens
  BY DEF ManageClose, ManageCloseUnconfirmed, Sync, ExchangeExit,
         MarketMoves, Tick, vars
<1>3. CASE exch' = None
  <2>1. ~OwnMetadata'
    BY <1>3 DEF OwnMetadata
  <2>2. row'.near_target_at \in {row.near_target_at, None}
    BY <1>1
       DEF ManageClose, ManageCloseUnconfirmed, Sync,
           ExchangeExit, MarketMoves, Tick, vars, Cleared, PositionRow
  <2>3. now' \in Int /\ now' >= now
    BY <1>1
       DEF ManageClose, ManageCloseUnconfirmed, Sync,
           ExchangeExit, MarketMoves, Tick, vars
  <2>4. row.near_target_at # None => row.near_target_at \in Int
    BY <1>1 DEF PositionRow, Optional
  <2>5. QED
    BY <1>1, <1>2, <1>3, <2>1, <2>2, <2>3, <2>4
       DEF RowInv, RowIsOwn, LatchIsEarly, ProfitLockedIn, NearTargetDeadline
<1>4. CASE exch' # None
  <2>1. exch' = exch /\ exch # None /\ exch.side \in Sides /\ exch.entry \in Int
    BY <1>1, <1>4
       DEF ManageClose, ManageCloseUnconfirmed, Sync,
           ExchangeExit, MarketMoves, Tick, vars, Optional, ExchangePosition
  <2>2. /\ seen'.near = seen.near /\ seen'.profit = seen.profit
        /\ seen'.held = seen.held
    BY <1>1, <1>4
       DEF ManageClose, ManageCloseUnconfirmed, Sync,
           ExchangeExit, MarketMoves, Tick, vars, History
  <2>3. /\ row'.effective_stop = row.effective_stop
        /\ row'.near_target_at = row.near_target_at
    BY <1>1, <1>4, <2>1
       DEF ManageClose, ManageCloseUnconfirmed, Sync,
           ExchangeExit, MarketMoves, Tick, vars, PositionRow
  <2>4. \/ row'.side = row.side /\ row'.entry_price = row.entry_price
        \/ row'.side = exch.side /\ row'.entry_price = exch.entry
    BY <1>1, <1>4, <2>1
       DEF ManageClose, ManageCloseUnconfirmed, Sync,
           ExchangeExit, MarketMoves, Tick, vars, PositionRow
  <2>5. status' = status \/ status' = "OPEN"
    BY <1>4
       DEF ManageClose, ManageCloseUnconfirmed, Sync,
           ExchangeExit, MarketMoves, Tick, vars
  <2>6. OwnMetadata' => OwnMetadata
    BY <1>2, <2>1 DEF OwnMetadata, RowInv, RowIsOwn
  <2>7. OwnMetadata => row'.side = row.side /\ row'.entry_price = row.entry_price
    BY <2>1, <2>4 DEF RowInv, RowIsOwn
  <2>8. now' \in Int /\ now' >= now
    BY <1>1
       DEF ManageClose, ManageCloseUnconfirmed, Sync,
           ExchangeExit, MarketMoves, Tick, vars
  <2>9. row.near_target_at # None => row.near_target_at \in Int
    BY <1>1 DEF PositionRow, Optional
  <2>10. RowIsOwn'
    BY <1>2, <2>1, <2>3, <2>5, <2>6, <2>7 DEF RowInv, RowIsOwn
  <2>11. LatchIsEarly'
    BY <1>1, <2>2, <2>3, <2>6, <2>8, <2>9 DEF RowInv, LatchIsEarly
  <2>12. ProfitLockedIn' /\ NearTargetDeadline'
    BY <2>2, <2>3, <2>6, <2>7 DEF RowInv, ProfitLockedIn, NearTargetDeadline
  <2>13. QED
    BY <2>10, <2>11, <2>12
<1>5. QED
  BY <1>3, <1>4

LEMMA RowInvStep == RowInv /\ [Next]_vars => RowInv'
<1> SUFFICES ASSUME RowInv, [Next]_vars PROVE RowInv'
  OBVIOUS
<1>1. TypeOK'
  BY TypeStep DEF RowInv
<1>2. RowIsOwn' /\ LatchIsEarly' /\ ProfitLockedIn' /\ NearTargetDeadline'
  BY HoldStep, EnterStep, OtherStep DEF Next, Worker, Environment
<1>3. QED
  BY <1>1, <1>2 DEF RowInv

LEMMA RowInvInit == Init => RowInv
<1> SUFFICES ASSUME Init PROVE RowInv
  OBVIOUS
<1>1. RowIsOwn /\ LatchIsEarly /\ ProfitLockedIn /\ NearTargetDeadline
  BY DEF Init, EmptyRow, NothingSeen, OwnMetadata, RowIsOwn, LatchIsEarly,
         ProfitLockedIn, NearTargetDeadline
<1>2. QED
  BY <1>1, TypeInit DEF RowInv

\* Once a committed run held a position at 1R or more, the stored stop stays at
\* its entry or better until the position is gone.
THEOREM ProfitStaysLockedIn == Spec => []ProfitLockedIn
<1>1. RowInv => ProfitLockedIn
  BY DEF RowInv
<1>2. QED
  BY <1>1, RowInvInit, RowInvStep, PTL DEF Spec

\* No run holds a position NearTargetTimeout or longer after the first committed
\* run within reach of its target.
THEOREM NearTargetDeadlineHolds == Spec => []NearTargetDeadline
<1>1. RowInv => NearTargetDeadline
  BY DEF RowInv
<1>2. QED
  BY <1>1, RowInvInit, RowInvStep, PTL DEF Spec
-----------------------------------------------------------------------------
(* The holding limit.                                                      *)

\* The row of a registered position has the time at which it was opened.
OpeningIsKnown == OwnMetadata => row.opened_at # None

HoldInv == RowInv /\ OpeningIsKnown /\ HoldingLimit

LEMMA HoldLimitStep ==
    ASSUME HoldInv, NEW atr \in Atrs, ManageHold(atr)
    PROVE  OpeningIsKnown' /\ HoldingLimit'
<1>1. /\ row \in PositionRow /\ price \in Int /\ now \in Int
      /\ atr \in Optional(Int)
  BY BoundsAssumption DEF HoldInv, RowInv, TypeOK, Optional
<1>2. /\ row'.opened_at = row.opened_at /\ seen'.held = now
      /\ OwnMetadata' = OwnMetadata
  BY <1>1 DEF ManageHold, PositionRow, OwnMetadata
<1>3. ~HeldTooLong(row, now)
  <2>1. ~Closes(row, price, now, NoSignal)
    BY <1>1, HoldFacts, ZenonT(30) DEF ManageHold, Decision
  <2>2. QED
    BY <2>1 DEF Closes, TimeExit
<1>4. ASSUME OwnMetadata, MaxHoldHours > 0
      PROVE  now - row.opened_at < MaxHoldHours
  <2>1. row.opened_at # None /\ row.opened_at \in Int /\ MaxHoldHours \in Int
    BY <1>1, <1>4, ParamsAssumption DEF HoldInv, OpeningIsKnown, PositionRow, Optional
  <2>2. QED
    BY <1>1, <1>3, <1>4, <2>1 DEF HeldTooLong
<1>5. QED
  BY <1>2, <1>4 DEF HoldInv, OpeningIsKnown, HoldingLimit

LEMMA HoldEnterStep ==
    ASSUME HoldInv, NEW side \in Sides, NEW entry \in Entries,
           \/ \E reference \in Prices, distance \in StopDistances :
                  EnterAndRegister(side, entry, reference, distance)
           \/ EnterUnrecorded(side, entry)
    PROVE  OpeningIsKnown' /\ HoldingLimit'
<1>1. seen'.held = None
  BY DEF EnterAndRegister, EnterUnrecorded, NewPosition, NothingSeen
<1>2. CASE EnterUnrecorded(side, entry)
  <2>1. owner' # opens'
    BY <1>2 DEF EnterUnrecorded, NewPosition, HoldInv, RowInv, RowIsOwn, TypeOK
  <2>2. QED
    BY <1>1, <2>1 DEF OpeningIsKnown, HoldingLimit, OwnMetadata
<1>3. ASSUME NEW reference \in Prices, NEW distance \in StopDistances,
             EnterAndRegister(side, entry, reference, distance)
      PROVE  OpeningIsKnown' /\ HoldingLimit'
  <2>1. row'.opened_at = now /\ now \in Int
    BY <1>3 DEF EnterAndRegister, HoldInv, RowInv, TypeOK
  <2>2. QED
    BY <1>1, <2>1, NoneAssumption DEF OpeningIsKnown, HoldingLimit
<1>4. QED
  BY <1>2, <1>3

LEMMA HoldOtherStep ==
    ASSUME HoldInv,
           \/ \E atr \in Atrs : ManageClose(atr) \/ ManageCloseUnconfirmed(atr)
           \/ Sync \/ ExchangeExit \/ MarketMoves \/ Tick \/ UNCHANGED vars
    PROVE  OpeningIsKnown' /\ HoldingLimit'
<1>1. row \in PositionRow /\ seen \in History
  BY DEF HoldInv, RowInv, TypeOK
<1>2. /\ seen'.held = seen.held /\ row'.opened_at = row.opened_at
      /\ UNCHANGED <<opens, owner>>
      /\ exch' = None \/ exch' = exch
  BY <1>1
     DEF ManageClose, ManageCloseUnconfirmed, Sync, ExchangeExit, MarketMoves, Tick,
         vars, Cleared, PositionRow, History
<1>3. OwnMetadata' => OwnMetadata
  <2>1. CASE exch' = None
    BY <2>1 DEF OwnMetadata
  <2>2. CASE exch' # None
    BY <1>2, <2>2 DEF OwnMetadata, HoldInv, RowInv, RowIsOwn
  <2>3. QED
    BY <2>1, <2>2
<1>4. QED
  BY <1>2, <1>3 DEF HoldInv, OpeningIsKnown, HoldingLimit

\* Whatever the market does and whatever the synchronisation rewrites, no run
\* holds a registered position MaxHoldHours or longer.
THEOREM HoldingLimitHolds == Spec => []HoldingLimit
<1>1. Init => HoldInv
  BY RowInvInit DEF Init, HoldInv, OpeningIsKnown, HoldingLimit, OwnMetadata
<1>2. HoldInv /\ [Next]_vars => HoldInv'
  BY RowInvStep, HoldLimitStep, HoldEnterStep, HoldOtherStep
     DEF HoldInv, Next, Worker, Environment
<1>3. HoldInv => HoldingLimit
  BY DEF HoldInv
<1>4. QED
  BY <1>1, <1>2, <1>3, PTL DEF Spec
-----------------------------------------------------------------------------
(* The rules treat both sides alike: a position, its market and its signal  *)
(* seen in a mirror get the mirrored decision.                              *)

Other(side) == IF side = "LONG" THEN "SHORT" ELSE "LONG"
Negative(x) == IF x = None THEN None ELSE -x

Mirrored(r) ==
    [side |-> Other(r.side), entry_price |-> -r.entry_price,
     stop_loss |-> Negative(r.stop_loss), effective_stop |-> Negative(r.effective_stop),
     take_profit |-> Negative(r.take_profit), peak_price |-> Negative(r.peak_price),
     near_target_at |-> r.near_target_at, opened_at |-> r.opened_at]

LEMMA MirroredFields ==
    ASSUME NEW r \in PositionRow
    PROVE  /\ Mirrored(r) \in PositionRow
           /\ Mirrored(r).side = Other(r.side) /\ Mirrored(r).entry_price = -r.entry_price
           /\ Mirrored(r).stop_loss = Negative(r.stop_loss)
           /\ Mirrored(r).effective_stop = Negative(r.effective_stop)
           /\ Mirrored(r).take_profit = Negative(r.take_profit)
           /\ Mirrored(r).peak_price = Negative(r.peak_price)
           /\ Mirrored(r).near_target_at = r.near_target_at
           /\ Mirrored(r).opened_at = r.opened_at
<1>1. \A x \in Optional(Int) : Negative(x) \in Optional(Int)
  BY DEF Optional, Negative
<1>2. Mirrored(r) \in PositionRow
  BY <1>1 DEF Mirrored, PositionRow, Other, Sides
<1>3. QED
  BY <1>2 DEF Mirrored

\* The comparisons and the measures of a price, in the mirror.
LEMMA MirroredMeasures ==
    ASSUME NEW side \in Sides, NEW a \in Int, NEW b \in Int
    PROVE  /\ AtLeastAsGood(Other(side), -a, -b) <=> AtLeastAsGood(side, a, b)
           /\ Better(Other(side), -a, -b) = -Better(side, a, b)
           /\ BetterBy(Other(side), -a, b) = -BetterBy(side, a, b)
           /\ Excursion(Other(side), -a, -b) = Excursion(side, a, b)
           /\ Distance(-a, -b) = Distance(a, b)
BY DEF AtLeastAsGood, Better, BetterBy, Excursion, Distance, Other, Sides

\* The values manage() starts from, in the mirror.
LEMMA MirroredStart ==
    ASSUME NEW r \in PositionRow, NEW p \in Int
    PROVE  /\ InitialStop(Mirrored(r)) = -InitialStop(r)
           /\ CurrentStop(Mirrored(r)) = -CurrentStop(r)
           /\ Risk(Mirrored(r)) = Risk(r)
           /\ Peak(Mirrored(r), -p) = -Peak(r, p)
           /\ Gain(Mirrored(r), -p) = Gain(r, p)
           /\ PeakGain(Mirrored(r), -p) = PeakGain(r, p)
<1> DEFINE m == Mirrored(r)
<1>1. /\ r.side \in Sides /\ r.entry_price \in Int /\ r.stop_loss \in Optional(Int)
      /\ r.effective_stop \in Optional(Int) /\ r.peak_price \in Optional(Int)
  BY DEF PositionRow
<1>2. InitialStop(m) = -InitialStop(r) /\ InitialStop(r) \in Int
  BY <1>1, MirroredFields, InitialStopType, NoneAssumption DEF InitialStop, Negative, Optional
<1>3. CurrentStop(m) = -CurrentStop(r)
  BY <1>1, <1>2, MirroredFields, NoneAssumption DEF CurrentStop, Negative, Optional
<1>4. Risk(m) = Risk(r)
  BY <1>1, <1>2, MirroredFields, MirroredMeasures DEF Risk
<1>5. Peak(m, -p) = -Peak(r, p)
  <2>1. CASE r.peak_price = None
    BY <1>1, <2>1, MirroredFields, MirroredMeasures DEF Peak, Negative
  <2>2. CASE r.peak_price # None
    <3>1. r.peak_price \in Int /\ m.peak_price = -r.peak_price /\ m.peak_price # None
      BY <1>1, <2>2, MirroredFields, NoneAssumption DEF Negative, Optional
    <3>2. QED
      BY <1>1, <2>2, <3>1, MirroredFields, MirroredMeasures DEF Peak
  <2>3. QED
    BY <2>1, <2>2
<1>6. Gain(m, -p) = Gain(r, p)
  BY <1>1, MirroredFields, MirroredMeasures DEF Gain
<1>7. PeakGain(m, -p) = PeakGain(r, p)
  <2>1. Peak(r, p) \in Int
    BY PeakFacts
  <2>2. QED
    BY <1>1, <1>5, <2>1, MirroredFields, MirroredMeasures DEF PeakGain
<1>8. QED
  BY <1>2, <1>3, <1>4, <1>5, <1>6, <1>7

LEMMA TargetType ==
    ASSUME NEW r \in PositionRow
    PROVE  Target(r) \in Optional(Int)
<1>1. Risk(r) \in Int /\ r.take_profit \in Optional(Int) /\ r.side \in Sides
      /\ r.entry_price \in Int
  BY InitialStopType DEF PositionRow, Risk, Distance
<1>2. BetterBy(r.side, r.entry_price, Risk(r) * RewardRisk) \in Int
  <2>1. Risk(r) * RewardRisk \in Int
    BY <1>1, ParamsAssumption
  <2>2. QED
    BY <1>1, <2>1, BetterByType
<1>3. QED
  BY <1>1, <1>2 DEF Target, Optional

LEMMA MirroredTarget ==
    ASSUME NEW r \in PositionRow
    PROVE  /\ Target(Mirrored(r)) = Negative(Target(r))
           /\ TargetExcursion(Mirrored(r)) = TargetExcursion(r)
<1> DEFINE m == Mirrored(r)
<1>1. /\ r.side \in Sides /\ r.entry_price \in Int /\ r.take_profit \in Optional(Int)
  BY DEF PositionRow
<1>2. Risk(m) = Risk(r) /\ Risk(r) \in Int
  <2>1. 0 \in Int
    OBVIOUS
  <2>2. QED
    BY <1>1, <2>1, MirroredStart, InitialStopType DEF Risk, Distance
<1>3. Target(m) = Negative(Target(r))
  <2>1. CASE r.take_profit # None
    <3>1. r.take_profit \in Int /\ m.take_profit = -r.take_profit /\ m.take_profit # None
      BY <1>1, <2>1, MirroredFields, NoneAssumption DEF Negative, Optional
    <3>2. Excursion(m.side, m.entry_price, m.take_profit)
            = Excursion(r.side, r.entry_price, r.take_profit)
      BY <1>1, <3>1, MirroredFields, MirroredMeasures
    <3>3. QED
      BY <2>1, <3>1, <3>2, NoneAssumption DEF Target, Negative
  <2>2. CASE r.take_profit = None
    <3> DEFINE reward == Risk(r) * RewardRisk
    <3>1. m.take_profit = None
      BY <2>2, MirroredFields DEF Negative
    <3>2. reward \in Int
      BY <1>2, ParamsAssumption
    <3>3. /\ BetterBy(m.side, m.entry_price, Risk(m) * RewardRisk)
               = -BetterBy(r.side, r.entry_price, reward)
          /\ BetterBy(r.side, r.entry_price, reward) \in Int
      <4> HIDE DEF reward
      <4>1. /\ BetterBy(m.side, m.entry_price, reward) = -BetterBy(r.side, r.entry_price, reward)
            /\ BetterBy(r.side, r.entry_price, reward) \in Int
        BY <1>1, <3>2, MirroredFields, MirroredMeasures, BetterByType
      <4>2. QED
        BY <1>2, <4>1 DEF reward
    <3>4. QED
      BY <1>2, <2>2, <3>1, <3>3, NoneAssumption DEF Target, Negative
  <2>3. QED
    BY <2>1, <2>2
<1>4. TargetExcursion(m) = TargetExcursion(r)
  <2>1. Target(r) \in Optional(Int)
    BY TargetType
  <2>2. Target(m) \in {None, 0} <=> Target(r) \in {None, 0}
    BY <1>3, <2>1, NoneAssumption DEF Negative, Optional
  <2>3. CASE Target(r) \in {None, 0}
    BY <2>2, <2>3 DEF TargetExcursion
  <2>4. CASE Target(r) \notin {None, 0}
    <3>1. Target(r) \in Int /\ Target(m) = -Target(r)
      BY <1>3, <2>1, <2>4 DEF Negative, Optional
    <3>2. QED
      BY <1>1, <2>2, <2>4, <3>1, MirroredFields, MirroredMeasures DEF TargetExcursion
  <2>5. QED
    BY <2>3, <2>4
<1>5. QED
  BY <1>3, <1>4

\* Every rule decides alike, the stop moves alike, and the same is remembered:
\* no comparison of manage() is for one side only.
THEOREM SidesAreTreatedAlike ==
    ASSUME NEW r \in PositionRow, NEW p \in Int, NEW atr \in Optional(Int),
           NEW t \in Int, NEW score \in Optional(Int)
    PROVE  LET d == Manage(r, p, atr, t, score)
               m == Manage(Mirrored(r), -p, atr, t, Negative(score))
           IN  /\ m.action = d.action
               /\ m.effective_stop = -d.effective_stop
               /\ m.peak_price = -d.peak_price
               /\ m.near_target_at = d.near_target_at
<1> DEFINE m == Mirrored(r)
<1>1. /\ r.side \in Sides /\ r.entry_price \in Int /\ CurrentStop(r) \in Int
      /\ Peak(r, p) \in Int /\ Target(r) \in Optional(Int)
  BY CurrentStopType, PeakFacts, TargetType DEF PositionRow
<1>2. /\ m.side = Other(r.side) /\ m.entry_price = -r.entry_price
      /\ m.near_target_at = r.near_target_at /\ m.opened_at = r.opened_at
  BY MirroredFields
<1>3. /\ CurrentStop(m) = -CurrentStop(r) /\ Risk(m) = Risk(r) /\ Peak(m, -p) = -Peak(r, p)
      /\ Gain(m, -p) = Gain(r, p) /\ PeakGain(m, -p) = PeakGain(r, p)
  BY MirroredStart
<1>4. Target(m) = Negative(Target(r)) /\ TargetExcursion(m) = TargetExcursion(r)
  BY MirroredTarget
<1>5. StopHit(m, -p) <=> StopHit(r, p)
  BY <1>1, <1>2, <1>3, MirroredMeasures DEF StopHit, StopTouched
<1>6. TargetHit(m, -p) <=> TargetHit(r, p)
  <2>1. Target(m) = None <=> Target(r) = None
    BY <1>1, <1>4, NoneAssumption DEF Negative, Optional
  <2>2. QED
    BY <1>3, <1>4, <2>1 DEF TargetHit
<1>7. Invalidated(m, Negative(score)) <=> Invalidated(r, score)
  BY <1>1, <1>2, NoneAssumption DEF Invalidated, Negative, Optional, Other, Sides
<1> HIDE DEF m
<1>8. PriceExit(m, -p, Negative(score)) <=> PriceExit(r, p, score)
  BY <1>5, <1>6, <1>7 DEF PriceExit
<1>9. NearTargetAt(m, -p, t) = NearTargetAt(r, p, t)
  BY <1>2, <1>3, <1>4 DEF NearTargetAt
<1>10. TimeExit(m, -p, t) <=> TimeExit(r, p, t)
  BY <1>2, <1>3, <1>9 DEF TimeExit, NearTargetExpired, HeldTooLong, Stagnant
<1>11. Closes(m, -p, t, Negative(score)) <=> Closes(r, p, t, score)
  BY <1>8, <1>10 DEF Closes
<1> DEFINE moved == ReachesR(Gain(r, p), Risk(r), BreakevenR)
<1>12. AdvancedStop(m.side, m.entry_price, CurrentStop(m), Peak(m, -p), atr, moved)
         = -AdvancedStop(r.side, r.entry_price, CurrentStop(r), Peak(r, p), atr, moved)
  <2> DEFINE breakeven == Better(r.side, CurrentStop(r), r.entry_price)
             distance == -(atr * TrailAtrMultiplier)
             trail == BetterBy(r.side, Peak(r, p), distance)
  <2>1. /\ breakeven \in Int
        /\ Better(m.side, CurrentStop(m), m.entry_price) = -breakeven
    BY <1>1, <1>2, <1>3, BetterFacts, MirroredMeasures
  <2>2. ASSUME atr # None
        PROVE  trail \in Int /\ BetterBy(m.side, Peak(m, -p), distance) = -trail
    <3>1. distance \in Int
      BY <2>2, ParamsAssumption DEF Optional
    <3> HIDE DEF distance
    <3>2. QED
      BY <1>1, <1>2, <1>3, <3>1, BetterByType, MirroredMeasures
  <2>3. ASSUME atr # None
        PROVE  Better(m.side, -breakeven, -trail) = -Better(r.side, breakeven, trail)
    <3> HIDE DEF breakeven, trail
    <3>1. QED
      BY <1>1, <1>2, <2>1, <2>2, <2>3, MirroredMeasures
  <2>4. CASE ~moved
    BY <1>3, <2>4 DEF AdvancedStop
  <2>5. CASE moved /\ atr # None /\ atr > 0
    <3>1. AdvancedStop(m.side, m.entry_price, CurrentStop(m), Peak(m, -p), atr, moved)
            = Better(m.side, -breakeven, -trail)
      BY <2>1, <2>2, <2>5 DEF AdvancedStop
    <3>2. AdvancedStop(r.side, r.entry_price, CurrentStop(r), Peak(r, p), atr, moved)
            = Better(r.side, breakeven, trail)
      BY <2>5 DEF AdvancedStop
    <3>3. QED
      BY <2>3, <2>5, <3>1, <3>2
  <2>6. CASE moved /\ ~(atr # None /\ atr > 0)
    BY <2>1, <2>6 DEF AdvancedStop
  <2>7. QED
    BY <2>4, <2>5, <2>6
<1>13. ReachesR(Gain(m, -p), Risk(m), BreakevenR) = moved
  BY <1>3
<1> DEFINE d == Manage(r, p, atr, t, score)
           n == Manage(m, -p, atr, t, Negative(score))
<1>14. n.action = d.action
  BY <1>11 DEF Manage
<1>15. n.effective_stop = -d.effective_stop
  BY <1>3, <1>11, <1>12, <1>13 DEF Manage
<1>16. n.peak_price = -d.peak_price
  BY <1>3 DEF Manage
<1>17. n.near_target_at = d.near_target_at
  BY <1>2, <1>8, <1>9 DEF Manage
<1> HIDE DEF d, n
<1>18. QED
  BY <1>14, <1>15, <1>16, <1>17 DEF d, n, m
-----------------------------------------------------------------------------
(* A run that is made again.                                                *)

\* The row a run that holds leaves behind (_manage_positions).
Held(r, d) ==
    [r EXCEPT !.effective_stop = d.effective_stop, !.peak_price = d.peak_price,
              !.near_target_at = d.near_target_at]

\* A price already reached, and a stop already advanced, stay as they are.
LEMMA BetterAgain ==
    ASSUME NEW side \in Sides, NEW a \in Int, NEW b \in Int, AtLeastAsGood(side, a, b)
    PROVE  Better(side, a, b) = a
BY DEF Better, AtLeastAsGood, Sides

LEMMA AdvancedAgain ==
    ASSUME NEW side \in Sides, NEW entry \in Int, NEW stop \in Int,
           NEW peak \in Int, NEW atr \in Optional(Int), NEW moved \in BOOLEAN
    PROVE  AdvancedStop(side, entry, AdvancedStop(side, entry, stop, peak, atr, moved),
                        peak, atr, moved)
             = AdvancedStop(side, entry, stop, peak, atr, moved)
<1> DEFINE advanced == AdvancedStop(side, entry, stop, peak, atr, moved)
           trail == BetterBy(side, peak, -(atr * TrailAtrMultiplier))
           breakeven == Better(side, stop, entry)
<1>1. advanced \in Int /\ (moved => AtLeastAsGood(side, advanced, entry))
  BY AdvancedStopFacts, ZenonT(30)
<1>2. breakeven \in Int
  BY BetterFacts
<1>3. moved => Better(side, advanced, entry) = advanced
  <2> HIDE DEF advanced
  <2>1. QED
    BY <1>1, BetterAgain
<1>4. CASE ~moved
  BY <1>4 DEF AdvancedStop
<1>5. CASE moved /\ atr # None /\ atr > 0
  <2>1. trail \in Int
    <3>1. -(atr * TrailAtrMultiplier) \in Int
      BY <1>5, ParamsAssumption DEF Optional
    <3>2. QED
      BY <3>1, BetterByType
  <2>2. advanced = Better(side, breakeven, trail)
    BY <1>5 DEF AdvancedStop
  <2>3. Better(side, advanced, trail) = advanced
    <3> HIDE DEF advanced, trail, breakeven
    <3>1. AtLeastAsGood(side, advanced, trail)
      BY <1>2, <2>1, <2>2, BetterFacts
    <3>2. QED
      BY <1>1, <2>1, <3>1, BetterAgain
  <2>4. AdvancedStop(side, entry, advanced, peak, atr, moved)
          = Better(side, Better(side, advanced, entry), trail)
    <3> HIDE DEF advanced
    <3>1. QED
      BY <1>5 DEF AdvancedStop
  <2>5. QED
    BY <1>3, <1>5, <2>3, <2>4
<1>6. CASE moved /\ ~(atr # None /\ atr > 0)
  <2>1. AdvancedStop(side, entry, advanced, peak, atr, moved) = Better(side, advanced, entry)
    <3> HIDE DEF advanced
    <3>1. QED
      BY <1>6 DEF AdvancedStop
  <2>2. QED
    BY <1>3, <1>6, <2>1
<1>7. QED
  BY <1>4, <1>5, <1>6

\* A run repeated on what it stored, with nothing else changed, stores the same
\* and closes only for a stop that the first run moved past the price: what a run
\* stores does not depend on how often it is made.
THEOREM RepeatedRunChangesNothing ==
    ASSUME NEW r \in PositionRow, NEW p \in Int, NEW atr \in Optional(Int),
           NEW t \in Int, NEW score,
           Manage(r, p, atr, t, score).action = "HOLD"
    PROVE  LET d == Manage(r, p, atr, t, score)
               again == Manage(Held(r, d), p, atr, t, score)
           IN  /\ again.effective_stop = d.effective_stop
               /\ again.peak_price = d.peak_price
               /\ again.near_target_at = d.near_target_at
               /\ again.action = "CLOSE" <=> StopTouched(r.side, p, d.effective_stop)
<1> DEFINE d == Manage(r, p, atr, t, score)
           h == Held(r, d)
           moved == ReachesR(Gain(r, p), Risk(r), BreakevenR)
           peak == Peak(r, p)
           near == NearTargetAt(r, p, t)
           stop == AdvancedStop(r.side, r.entry_price, CurrentStop(r), peak, atr, moved)
<1>1. /\ ~Closes(r, p, t, score)
      /\ d.effective_stop = stop /\ d.peak_price = peak /\ d.near_target_at = near
  <2>1. ~Closes(r, p, t, score) /\ d.near_target_at = near
    BY HoldFacts
  <2>2. QED
    BY <2>1 DEF Manage
<1>2. /\ r.side \in Sides /\ r.entry_price \in Int /\ CurrentStop(r) \in Int /\ peak \in Int
      /\ AtLeastAsGood(r.side, peak, p) /\ r.near_target_at \in Optional(Int)
  BY CurrentStopType, PeakFacts DEF PositionRow
<1>3. moved \in BOOLEAN
  <2>1. CASE Risk(r) > 0
    BY <2>1, SMT DEF ReachesR
  <2>2. CASE ~(Risk(r) > 0)
    BY <2>2, SMT DEF ReachesR
  <2>3. QED
    BY <2>1, <2>2
<1>4. stop \in Int /\ stop # None /\ peak # None
  <2>1. stop \in Int
    BY <1>2, <1>3, AdvancedStopFacts, ZenonT(30)
  <2>2. QED
    BY <1>2, <2>1, NoneAssumption
<1>5. /\ h.side = r.side /\ h.entry_price = r.entry_price /\ h.stop_loss = r.stop_loss
      /\ h.take_profit = r.take_profit /\ h.opened_at = r.opened_at
      /\ h.effective_stop = stop /\ h.peak_price = peak /\ h.near_target_at = near
  <2> HIDE DEF d, stop, peak, near
  <2>1. QED
    BY <1>1 DEF Held, PositionRow
<1> HIDE DEF d, h
<1>6. Risk(h) = Risk(r) /\ Target(h) = Target(r) /\ TargetExcursion(h) = TargetExcursion(r)
      /\ Gain(h, p) = Gain(r, p)
  BY <1>5 DEF Risk, Target, TargetExcursion, Gain, InitialStop
<1>7. CurrentStop(h) = stop
  BY <1>4, <1>5 DEF CurrentStop
<1>8. Peak(h, p) = peak
  <2> HIDE DEF peak
  <2>1. QED
    BY <1>2, <1>4, <1>5, BetterAgain DEF Peak
<1>9. PeakGain(h, p) = PeakGain(r, p)
  BY <1>5, <1>8 DEF PeakGain
<1>10. NearTargetAt(h, p, t) = near
  BY <1>5, <1>6, <1>9 DEF NearTargetAt
<1> HIDE DEF near, peak, stop
<1>11. TargetHit(h, p) <=> TargetHit(r, p)
  BY <1>6, <1>9 DEF TargetHit
<1>12. Invalidated(h, score) <=> Invalidated(r, score)
  BY <1>5 DEF Invalidated
<1>13. TimeExit(h, p, t) <=> TimeExit(r, p, t)
  BY <1>5, <1>6, <1>10 DEF TimeExit, NearTargetExpired, HeldTooLong, Stagnant, near
<1>14. StopHit(h, p) <=> StopTouched(r.side, p, stop)
  BY <1>5, <1>7 DEF StopHit
<1>15. Closes(h, p, t, score) <=> StopTouched(r.side, p, stop)
  BY <1>1, <1>11, <1>12, <1>13, <1>14 DEF Closes, PriceExit
<1>16. AdvancedStop(r.side, r.entry_price, stop, peak, atr, moved) = stop
  <2> DEFINE old == CurrentStop(r)
             side == r.side
             entry == r.entry_price
  <2>1. side \in Sides /\ entry \in Int /\ old \in Int /\ peak \in Int
    BY <1>2
  <2> HIDE DEF moved, old, side, entry
  <2>2. AdvancedStop(side, entry, AdvancedStop(side, entry, old, peak, atr, moved),
                     peak, atr, moved)
          = AdvancedStop(side, entry, old, peak, atr, moved)
    BY <1>3, <2>1, AdvancedAgain
  <2>3. QED
    BY <2>2 DEF stop, old, side, entry
<1> DEFINE again == Manage(h, p, atr, t, score)
<1>17. again.action = "CLOSE" <=> StopTouched(r.side, p, stop)
  BY <1>15 DEF Manage
<1>18. again.effective_stop = stop
  BY <1>5, <1>6, <1>7, <1>8, <1>16 DEF Manage
<1>19. again.peak_price = peak
  BY <1>8 DEF Manage
<1>20. again.near_target_at = near
  BY <1>5, <1>10 DEF Manage
<1> HIDE DEF again
<1>21. QED
  BY <1>1, <1>17, <1>18, <1>19, <1>20 DEF again, h, d
=============================================================================
