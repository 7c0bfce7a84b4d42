------------------------------- MODULE EntryGate -------------------------------
(***************************************************************************)
(* From a signal to a position: size_position turns the risk budget into a *)
(* share of the balance, evaluate_risk judges it against the limits of the *)
(* platform and of the account, _execute reads the balance again and sends *)
(* the order, which place_order rounds to the contract, _persist records it*)
(* for the daily quota.  Between any two of these steps the account lives  *)
(* on: fills, deposits, the user's own orders and settings, midnight.      *)
(*                                                                         *)
(* A plan has two stops.  evaluate_risk judges the near one, stop_loss,    *)
(* which the position manager watches; the order carries the wide one,     *)
(* disaster_stop, for the time when nobody watches.                        *)
(*                                                                         *)
(* Numbers.  A price counts the Quantum-th parts of the 1e-6 that          *)
(* size_position rounds to; a share counts PctUnit-ths; the notional of a  *)
(* position is share * balance, in PctUnit-ths too, and so are the steps of*)
(* its quantity.  Every signal is at the price Entry.                      *)
(***************************************************************************)
EXTENDS Integers, FiniteSets, FiniteSetsExt

CONSTANTS
    Symbols,
    Entry, Quantum,     \* the last price, and the parts of a rounding step
    Dists,              \* stop distances (atr_multiplier * ATR) of signals
    RewardRisk,         \* StrategyParams.reward_risk
    DisasterMultiplier, \* StrategyParams.disaster_multiplier
    Contract,           \* steps of price and quantity, least quantity, by symbol
    PctUnit,
    Platform,           \* RiskLimits: [risk, position, total], shares
    AccountLimits,      \* what an account may store; the API refuses more
    MaxDailyTrades,
    Balances,           \* balances the account can have
    UserNotionals,      \* bound: notionals of the user's own orders
    MaxUncounted        \* bound: entries of a day that no row counts

Sides == {"LONG", "SHORT"}
Limits == [risk : Nat, position : Nat, total : Nat]

ASSUME PricesAssumption ==
    /\ Entry \in Nat \ {0} /\ Quantum \in Nat \ {0} /\ RewardRisk \in Nat
    /\ Dists \subseteq Nat \ {0} /\ DisasterMultiplier \in Nat \ {0}
    /\ \A d \in Dists :                         \* no price below zero
          d * RewardRisk < Entry /\ d * DisasterMultiplier < Entry
ASSUME ContractAssumption ==
    Contract \in [Symbols -> [tick : Nat \ {0}, step : Nat \ {0}, least : Nat]]
ASSUME LimitsAssumption ==
    /\ PctUnit \in Nat \ {0} /\ Platform \in Limits
    /\ AccountLimits \subseteq Limits
    /\ \A l \in AccountLimits : /\ l.risk <= Platform.risk
                                /\ l.position <= Platform.position
                                /\ l.total <= Platform.total
    /\ MaxDailyTrades \in Nat /\ MaxUncounted \in Nat
ASSUME AccountAssumption ==
    /\ Balances \subseteq Nat /\ Balances # {}
    /\ UserNotionals \subseteq Nat
    /\ IsFiniteSet(Symbols) /\ AccountLimits # {}

VARIABLES
    balance,    \* of the account at the exchange
    held,       \* notional of the positions at the exchange, whoever opened them
    limits,     \* account.risk_limits
    entries,    \* today's decisions with an exchange_order_id
    filled,     \* today's entries of the system at the exchange (history)
    uncounted,  \* today's entries that no row will count (history)
    cycle       \* the cycle in progress

vars == <<balance, held, limits, entries, filled, uncounted, cycle>>

Idle == [phase |-> "idle"]

Init ==
    /\ balance \in Balances
    /\ held = [s \in Symbols |-> 0]
    /\ limits \in AccountLimits
    /\ entries = 0 /\ filled = 0 /\ uncounted = 0
    /\ cycle = Idle

-----------------------------------------------------------------------------
(* size_position.                                                          *)

RoundDown(x) == (x \div Quantum) * Quantum

\* Mutant: the cap of the notional is forgotten.
Share_Uncapped(d) == (Platform.risk * Entry) \div d

\* The share of the balance that loses the risk budget at the stop, at most
\* max_notional_pct; the platform's values, whatever the account stored.
Share(d) ==
    LET byRisk == (Platform.risk * Entry) \div d
    IN  IF byRisk <= Platform.position THEN byRisk ELSE Platform.position

\* A price at a distance from Entry, on the losing side.
Against(side, distance) == IF side = "LONG" THEN Entry - distance ELSE Entry + distance

Plan(side, d) ==
    [side |-> side, share |-> Share(d),
     stop |-> RoundDown(Against(side, d)),
     disaster |-> RoundDown(Against(side, d * DisasterMultiplier)),
     target |-> RoundDown(IF side = "LONG" THEN Entry + d * RewardRisk
                                           ELSE Entry - d * RewardRisk)]

-----------------------------------------------------------------------------
(* evaluate_risk: the reasons against an order.                            *)

Distance(x, y) == IF x >= y THEN x - y ELSE y - x

\* What the stop of a plan really loses, per unit of Entry and of balance.
LossAtStop(plan) == plan.share * Distance(Entry, plan.stop)

Least(a, b) == IF a <= b THEN a ELSE b

Tightened(account) ==
    [risk |-> Least(Platform.risk, account.risk),
     position |-> Least(Platform.position, account.position),
     total |-> Least(Platform.total, account.total)]

\* current_notional of all symbols.
Exposure == MapThenSumSet(LAMBDA s : held[s], Symbols)

\* Mutant: the limit of the account is applied to each symbol alone.
Notional_PerSymbol(plan, exposure, account) ==
    (IF plan.share * balance > balance * Tightened(account).position
     THEN {"max_position_notional"} ELSE {})
    \cup (IF plan.share * balance > balance * Tightened(account).total
          THEN {"max_notional"} ELSE {})

Notional(plan, exposure, account) ==
    (IF plan.share * balance > balance * Tightened(account).position
     THEN {"max_position_notional"} ELSE {})
    \cup (IF exposure + plan.share * balance > balance * Tightened(account).total
          THEN {"max_notional"} ELSE {})

\* Mutant: the quota ends one entry late.
Quota_Late == IF entries > MaxDailyTrades THEN {"daily_trade_limit"} ELSE {}

Quota == IF entries >= MaxDailyTrades THEN {"daily_trade_limit"} ELSE {}

\* Mutant: the sizing is trusted to keep the budget.
RiskReasons_SizingTrusted(plan, account) == {}

RiskReasons(plan, account) ==
    IF LossAtStop(plan) > Tightened(account).risk * Entry
    THEN {"single_trade_risk"} ELSE {}

\* The sides of the stop and of the target, and min_reward_risk, 1.5.
SideReasons(plan) ==
    {r \in {"stop_side", "target_side", "reward_risk_too_low"} :
        \/ r = "stop_side" /\ IF plan.side = "LONG" THEN plan.stop >= Entry
                                                    ELSE plan.stop <= Entry
        \/ r = "target_side" /\ IF plan.side = "LONG" THEN plan.target <= Entry
                                                      ELSE plan.target >= Entry
        \/ /\ r = "reward_risk_too_low"
           /\ Distance(Entry, plan.stop) > 0
           /\ 2 * Distance(plan.target, Entry) < 3 * Distance(Entry, plan.stop)}

\* Gates of evaluate_risk over facts this module has no state for: the age of
\* the market data, today's drawdown, the losing streak, the leverage.
OutsideReasons == {{}, {"outside"}}

Reasons(plan, outside, exposure, account) ==
    outside
    \cup (IF balance <= 0 THEN {"equity_non_positive"}
          ELSE Notional(plan, exposure, account))
    \cup Quota
    \cup (IF plan.share * balance > 0 THEN RiskReasons(plan, account) \cup SideReasons(plan) ELSE {})

-----------------------------------------------------------------------------
(* A cycle of one symbol.  A cycle that holds does not appear here.        *)

Decide(s) ==
    /\ cycle.phase = "idle"
    /\ \E side \in Sides, d \in Dists :
          cycle' = [phase |-> "decided", symbol |-> s, plan |-> Plan(side, d)]
    /\ UNCHANGED <<balance, held, limits, entries, filled, uncounted>>

\* _evaluate_proposal reads balance, positions and limits, at one moment here.
\* It returns early for a position of the symbol, and for facts without state
\* here: no balance, a local row without a position, the cooldown.
Evaluate ==
    /\ cycle.phase = "decided"
    /\ \E early \in BOOLEAN, outside \in OutsideReasons :
          LET against == IF held[cycle.symbol] # 0 THEN {"position_already_open"}
                         ELSE IF early THEN {"early"}
                         ELSE Reasons(cycle.plan, outside, Exposure, limits)
          IN  cycle' = [phase |-> "evaluated", symbol |-> cycle.symbol, plan |-> cycle.plan,
                        reasons |-> against, account |-> limits,
                        balance |-> balance, exposure |-> Exposure]
    /\ UNCHANGED <<balance, held, limits, entries, filled, uncounted>>

\* _round_down, for quantities and prices, whatever the side.
Down(x, step) == x - (x % step)

\* place_order rounds to the contract; a quantity below the minimum is not sent.
\* The stop it carries is the disaster stop (proposal_to_order).
Ordered(plan, contract) ==
    LET quantity == Down(plan.share * balance, contract.step)
    IN  [notional |-> IF quantity < contract.least THEN 0 ELSE quantity,
         stop |-> Down(plan.disaster, contract.tick)]

\* The order is for the share of the balance now.  The exchange refuses it (a
\* zero quantity always), or takes it and fills it or not.  The answer is
\* known or lost; with a lost one the order is recorded as refused.  A fill
\* joins what the user may have opened meanwhile.
Execute ==
    /\ cycle.phase = "evaluated"
    /\ \E outcome \in {"refused", "taken", "filled"}, known \in BOOLEAN :
          LET order == Ordered(cycle.plan, Contract[cycle.symbol])
              fills == outcome = "filled"
          IN  /\ outcome # "refused" => cycle.reasons = {} /\ order.notional > 0
              /\ fills => known \/ uncounted < MaxUncounted
              /\ cycle' = [phase |-> "executed", stop |-> order.stop,
                           fills |-> fills, counts |-> outcome # "refused" /\ known]
              /\ held' = IF fills THEN [held EXCEPT ![cycle.symbol] = @ + order.notional]
                                   ELSE held
              /\ filled' = IF fills THEN filled + 1 ELSE filled
              /\ uncounted' = IF fills /\ ~known THEN uncounted + 1 ELSE uncounted
    /\ UNCHANGED <<balance, limits, entries>>

\* The decision is recorded with the time of the commit, or the commit fails.
Persist ==
    /\ cycle.phase = "executed"
    /\ \/ /\ entries' = IF cycle.counts THEN entries + 1 ELSE entries
          /\ UNCHANGED uncounted
       \/ /\ uncounted < MaxUncounted
          /\ uncounted' = IF cycle.fills /\ cycle.counts THEN uncounted + 1 ELSE uncounted
          /\ UNCHANGED entries
    /\ cycle' = Idle
    /\ UNCHANGED <<balance, held, limits, filled>>

-----------------------------------------------------------------------------
(* The account meanwhile.                                                  *)

BalanceMoves ==
    /\ balance' \in Balances \ {balance}
    /\ UNCHANGED <<held, limits, entries, filled, uncounted, cycle>>

PositionCloses(s) ==
    /\ held[s] # 0
    /\ held' = [held EXCEPT ![s] = 0]
    /\ UNCHANGED <<balance, limits, entries, filled, uncounted, cycle>>

UserOpens(s) ==
    /\ held[s] = 0
    /\ \E n \in UserNotionals : held' = [held EXCEPT ![s] = n]
    /\ UNCHANGED <<balance, limits, entries, filled, uncounted, cycle>>

\* update_account replaces the stored limits, at any time.
UserSetsLimits ==
    /\ limits' \in AccountLimits \ {limits}
    /\ UNCHANGED <<balance, held, entries, filled, uncounted, cycle>>

\* Midnight UTC: _daily_trades counts from here.
NewDay ==
    /\ entries' = 0 /\ filled' = 0 /\ uncounted' = 0
    /\ UNCHANGED <<balance, held, limits, cycle>>

Next ==
    \/ \E s \in Symbols : Decide(s) \/ PositionCloses(s) \/ UserOpens(s)
    \/ Evaluate \/ Execute \/ Persist
    \/ BalanceMoves \/ UserSetsLimits \/ NewDay

Spec == Init /\ [][Next]_vars

-----------------------------------------------------------------------------
(* Properties.                                                             *)

Plans == {Plan(side, d) : side \in Sides, d \in Dists}
AllReasons ==
    {"outside", "early", "position_already_open", "equity_non_positive", "max_position_notional",
     "max_notional", "daily_trade_limit", "single_trade_risk", "stop_side",
     "target_side", "reward_risk_too_low"}

\* Every variable has its type, and no plan is for more than the cap of one
\* position (size_position, sizing.py:54).
TypeOK ==
    /\ balance \in Balances
    /\ held \in [Symbols -> Nat]
    /\ limits \in AccountLimits
    /\ entries \in Nat /\ filled \in Nat /\ uncounted \in Nat
    /\ cycle.phase \in {"idle", "decided", "evaluated", "executed"}
    /\ cycle.phase \in {"decided", "evaluated"} =>
          /\ cycle.symbol \in Symbols /\ cycle.plan \in Plans
          /\ cycle.plan.share <= Platform.position
    /\ cycle.phase = "evaluated" =>
          /\ cycle.reasons \subseteq AllReasons
          /\ cycle.account \in AccountLimits /\ cycle.balance \in Balances
    /\ cycle.phase = "executed" => cycle.fills \in BOOLEAN /\ cycle.counts \in BOOLEAN

\* An order of the system adds to the positions.
Enters == cycle.phase = "evaluated" /\ held' # held

\* What rounding can add to the distance of the stop at the exchange, over so many
\* times that of the judged one: size_position rounds both, place_order one of them.
Slack(contract) == (DisasterMultiplier + 1) * (Quantum - 1) + (contract.tick - 1)

\* An order that goes out loses, at the stop the manager watches, no more than the
\* share of the balance that the account allowed when it was judged.  No gate looks
\* at the stop that stays at the exchange when nobody watches (service.py:35): there
\* it loses at most disaster_multiplier times as much, and what the roundings add.
EntryWithinRisk ==
    [][Enters /\ cycle'.phase = "executed" =>
        /\ LossAtStop(cycle.plan) <= cycle.account.risk * Entry
        /\ cycle.plan.share * Distance(Entry, cycle'.stop) <=
              DisasterMultiplier * (cycle.account.risk * Entry)
                  + cycle.plan.share * Slack(Contract[cycle.symbol])]_vars

\* The balance is read for the judgement and again for the order.  With what
\* it adds, the positions that were judged stay within max_total_notional_pct
\* of the higher of the two: only what the user opens in between, or a
\* balance that falls, can exceed the limit (cycle.py:525, :966).
EntryFitsTotal ==
    [][Enters /\ cycle'.phase = "executed" =>
        cycle.exposure + (held'[cycle.symbol] - held[cycle.symbol]) <=
            cycle.account.total * (IF balance >= cycle.balance THEN balance
                                                               ELSE cycle.balance)]_vars

\* Of the entries the exchange filled on a day, at most max_daily_trades and
\* those no row counts: midnight may fall between the count and the order, or
\* between the order and its row (_daily_trades, cycle.py:841).
DailyEntriesBounded == filled <= MaxDailyTrades + uncounted
=============================================================================
