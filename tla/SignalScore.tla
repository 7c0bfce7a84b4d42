----------------------------- MODULE SignalScore -----------------------------
(***************************************************************************)
(* The score card of app/signals/scorer.py: from what the indicators of    *)
(* two timeframes say to a direction.  Weights, scores and the threshold   *)
(* are in percent.                                                         *)
(***************************************************************************)
EXTENDS Integers

CONSTANTS
    None,               \* no indicators of a timeframe, no RSI
    TrendWeight, MomentumWeight, VolumeWeight,
    EntryThreshold,
    Rsis                \* the readings of rsi_14

ASSUME ScoreAssumption ==
    /\ {TrendWeight, MomentumWeight, VolumeWeight} \subseteq Nat
    /\ EntryThreshold \in Nat \ {0} /\ Rsis \subseteq 0..100 \cup {None}
    /\ None \notin [trend : {"BULLISH", "BEARISH", "NEUTRAL"},
                    volume : {"rises", "falls", "unknown"}]

Timeframe == [trend : {"BULLISH", "BEARISH", "NEUTRAL"},
              volume : {"rises", "falls", "unknown"}]

Indicators == [entry : Timeframe \cup {None}, trend : Timeframe \cup {None},
               rsi : Rsis]

\* Two timeframes count when they say the same.
Agreement(one, other, up, down) ==
    IF one = up /\ other = up THEN 100
    ELSE IF one = down /\ other = down THEN -100 ELSE 0

TrendScore(i) == Agreement(i.entry.trend, i.trend.trend, "BULLISH", "BEARISH")
VolumeScore(i) == Agreement(i.entry.volume, i.trend.volume, "rises", "falls")

\* 4 percent for each point off 50, clipped.
MomentumScore(i) ==
    IF i.rsi = None THEN 0
    ELSE IF i.rsi >= 75 THEN 100 ELSE IF i.rsi <= 25 THEN -100 ELSE 4 * (i.rsi - 50)

Composite(i) ==
    TrendScore(i) * TrendWeight + MomentumScore(i) * MomentumWeight + VolumeScore(i) * VolumeWeight

\* Without one of the timeframes there is no direction.
Direction(i) ==
    IF None \in {i.entry, i.trend} THEN "HOLD"
    ELSE IF Composite(i) >= 100 * EntryThreshold THEN "LONG"
    ELSE IF Composite(i) <= -(100 * EntryThreshold) THEN "SHORT" ELSE "HOLD"
=============================================================================
