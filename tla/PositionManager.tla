--------------------------- MODULE PositionManager ---------------------------
(***************************************************************************)
(* The software exit rules of app/positions/manager.py: a pure function    *)
(* from the stored state of a position and a price sample to a decision.   *)
(*                                                                         *)
(* Prices are integers in ticks, times are whole hours.  Distances are     *)
(* measured in R, the distance from the entry to the initial stop; every R *)
(* threshold that the settings keep as a decimal is given in tenths of R   *)
(* and compared after multiplying out, so no division is needed.           *)
(***************************************************************************)
EXTENDS Integers

CONSTANTS
    None,                   \* the value of a field that is not set
    RewardRisk,             \* reward_risk, a whole number of R
    NearTargetR,            \* near_target_r, in tenths of R
    NearTargetTimeout,      \* near_target_timeout_hours
    BreakevenR,             \* breakeven_r, in tenths of R
    TimeStopHours,          \* time_stop_hours
    TimeStopMinR,           \* time_stop_min_r, in tenths of R
    MaxHoldHours,           \* max_hold_hours
    TrailAtrMultiplier      \* trail_atr_multiplier

ASSUME NoneAssumption == None \notin Int

ASSUME ParamsAssumption ==
    /\ {RewardRisk, NearTargetR, NearTargetTimeout, BreakevenR,
        TimeStopHours, TimeStopMinR, MaxHoldHours} \subseteq Int
    /\ TrailAtrMultiplier \in Nat

Sides == {"LONG", "SHORT"}

Optional(S) == S \cup {None}

\* The columns of a positions row that the exit rules read.
PositionRow ==
    [side : Sides, entry_price : Int,
     stop_loss : Optional(Int), effective_stop : Optional(Int),
     take_profit : Optional(Int), peak_price : Optional(Int),
     near_target_at : Optional(Int), opened_at : Optional(Int)]

-----------------------------------------------------------------------------
(* Measuring a price against a position.                                   *)

\* a is at least as good a price as b for a position on this side.
AtLeastAsGood(side, a, b) == IF side = "LONG" THEN a >= b ELSE a <= b

\* The better of two prices, and the price a distance better than another.
Better(side, a, b) == IF AtLeastAsGood(side, a, b) THEN a ELSE b
BetterBy(side, price, distance) ==
    IF side = "LONG" THEN price + distance ELSE price - distance

\* The signed gain of a price over the entry.
Excursion(side, entry, price) ==
    IF side = "LONG" THEN price - entry ELSE entry - price

Distance(a, b) == IF a >= b THEN a - b ELSE b - a

\* An excursion is at least (more than) tenths/10 of R.  With no risk
\* distance the code takes the gain to be 0 R whatever the price is.
ReachesR(excursion, risk, tenths) ==
    IF risk > 0 THEN 10 * excursion >= tenths * risk ELSE 0 >= tenths
ExceedsR(excursion, risk, tenths) ==
    IF risk > 0 THEN 10 * excursion > tenths * risk ELSE 0 > tenths

-----------------------------------------------------------------------------
(* The values manage() starts from.                                        *)

\* The caller passes "row.stop_loss or row.entry_price": an unset stop, and a
\* stop of zero, become the entry price.
InitialStop(row) ==
    IF row.stop_loss \in {None, 0} THEN row.entry_price ELSE row.stop_loss

Risk(row) == Distance(row.entry_price, InitialStop(row))

CurrentStop(row) ==
    IF row.effective_stop = None THEN InitialStop(row) ELSE row.effective_stop

Peak(row, price) ==
    IF row.peak_price = None THEN Better(row.side, row.entry_price, price)
    ELSE Better(row.side, row.peak_price, price)

\* The stored target when it lies on the profitable side of the entry, or one
\* derived from the risk distance for a row that has none.
Target(row) ==
    IF row.take_profit # None
    THEN IF Excursion(row.side, row.entry_price, row.take_profit) > 0
         THEN row.take_profit ELSE None
    ELSE IF Risk(row) > 0 /\ RewardRisk > 0
         THEN BetterBy(row.side, row.entry_price, Risk(row) * RewardRisk)
         ELSE None

\* The target as an excursion; a target of zero counts as no target here.
TargetExcursion(row) ==
    IF Target(row) \in {None, 0} THEN 0
    ELSE Excursion(row.side, row.entry_price, Target(row))

Gain(row, price)     == Excursion(row.side, row.entry_price, price)
PeakGain(row, price) == Excursion(row.side, row.entry_price, Peak(row, price))

-----------------------------------------------------------------------------
(* One predicate per exit rule.                                            *)

StopTouched(side, price, stop) == AtLeastAsGood(side, stop, price)

StopHit(row, price) == StopTouched(row.side, price, CurrentStop(row))

\* peak_favorable >= target_r: with no risk distance both sides are 0 R.
TargetHit(row, price) ==
    /\ Target(row) # None
    /\ Risk(row) > 0 => PeakGain(row, price) >= TargetExcursion(row)

\* score is the sign of the current signal, None when there is no signal.
Invalidated(row, score) ==
    /\ score # None
    /\ IF row.side = "LONG" THEN score <= 0 ELSE score >= 0

PriceExit(row, price, score) ==
    \/ StopHit(row, price)
    \/ TargetHit(row, price)
    \/ Invalidated(row, score)

\* Mutant: the time is not latched, it is lost when the price falls back.
NearTargetAt_NotLatched(row, price, now) ==
    IF NearTargetR > 0 /\ ReachesR(Gain(row, price), Risk(row), NearTargetR)
    THEN IF row.near_target_at = None THEN now ELSE row.near_target_at
    ELSE None

\* The first moment the peak came within reach of the target, once reached.
NearTargetAt(row, price, now) ==
    IF /\ row.near_target_at = None
       /\ NearTargetR > 0
       /\ ExceedsR(TargetExcursion(row), Risk(row), NearTargetR)
       /\ ReachesR(PeakGain(row, price), Risk(row), NearTargetR)
    THEN now
    ELSE row.near_target_at

NearTargetExpired(row, price, now) ==
    /\ NearTargetAt(row, price, now) # None
    /\ NearTargetTimeout >= 0
    /\ now - NearTargetAt(row, price, now) >= NearTargetTimeout

\* Mutant: the limit is only read as a switch that must be off.
HeldTooLong_WrongSwitch(row, now) ==
    /\ row.opened_at # None
    /\ MaxHoldHours <= 0
    /\ now - row.opened_at >= MaxHoldHours

HeldTooLong(row, now) ==
    /\ row.opened_at # None
    /\ MaxHoldHours > 0
    /\ now - row.opened_at >= MaxHoldHours

Stagnant(row, price, now) ==
    /\ row.opened_at # None
    /\ now - row.opened_at >= TimeStopHours
    /\ ~ReachesR(Gain(row, price), Risk(row), TimeStopMinR)

TimeExit(row, price, now) ==
    \/ NearTargetExpired(row, price, now)
    \/ HeldTooLong(row, now)
    \/ Stagnant(row, price, now)

Closes(row, price, now, score) ==
    PriceExit(row, price, score) \/ TimeExit(row, price, now)

-----------------------------------------------------------------------------
(* The decision.                                                           *)

\* Mutants: the trail replaces the stop; the breakeven level is forgotten.
AdvancedStop_FollowsTrail(side, entry, stop, peak, atr, moved) ==
    IF moved /\ atr # None THEN BetterBy(side, peak, -(atr * TrailAtrMultiplier))
    ELSE stop
AdvancedStop_NoBreakeven(side, entry, stop, peak, atr, moved) ==
    IF moved /\ atr # None
    THEN Better(side, stop, BetterBy(side, peak, -(atr * TrailAtrMultiplier)))
    ELSE stop

\* From 1R of profit on, the stop moves to the entry or to a trail one ATR
\* behind the peak, whichever is better, and never to a worse price.
AdvancedStop(side, entry, stop, peak, atr, moved) ==
    LET trail == BetterBy(side, peak, -(atr * TrailAtrMultiplier))
        atBreakeven == Better(side, stop, entry)
    IN  IF ~moved THEN stop
        ELSE IF atr # None /\ atr > 0 THEN Better(side, atBreakeven, trail)
        ELSE atBreakeven

Manage(row, price, atr, now, score) ==
    LET closes == Closes(row, price, now, score)
        moved == ReachesR(Gain(row, price), Risk(row), BreakevenR)
    IN  [action |-> IF closes THEN "CLOSE" ELSE "HOLD",
         effective_stop |->
             IF closes THEN CurrentStop(row)
             ELSE AdvancedStop(row.side, row.entry_price, CurrentStop(row),
                               Peak(row, price), atr, moved),
         peak_price |-> Peak(row, price),
         near_target_at |->
             IF PriceExit(row, price, score) THEN row.near_target_at
             ELSE NearTargetAt(row, price, now)]
=============================================================================
