---------------------------- MODULE EntryGate_proofs ----------------------------
(***************************************************************************)
(* Proofs about EntryGate, for every account, every price and every limit. *)
(***************************************************************************)
EXTENDS EntryGate, FiniteSetTheorems, TLAPS

-----------------------------------------------------------------------------
(* The arithmetic of a plan and of its judgement.                          *)

\* size_position never asks for more than max_notional_pct, nor for less
\* than nothing.
LEMMA ShareIsCapped ==
    ASSUME NEW d \in Dists
    PROVE  Share(d) \in Nat /\ Share(d) <= Platform.position
BY PricesAssumption, LimitsAssumption, SMT DEF Share, Limits

\* Rounding a price takes away less than a step of the sizing.
LEMMA RoundingIsLessThanAStep ==
    ASSUME NEW x \in Int
    PROVE  RoundDown(x) \in Int /\ RoundDown(x) <= x /\ x <= RoundDown(x) + (Quantum - 1)
<1>1. Quantum \in Nat \ {0}
    BY PricesAssumption
<1>2. RoundDown(x) = x - (x % Quantum) /\ x % Quantum \in 0..(Quantum - 1)
    BY <1>1, SMT DEF RoundDown
<1> QED BY <1>1, <1>2

\* A plan of the sizing has a share within the cap and integer stops.
LEMMA PlansAreTyped ==
    ASSUME NEW plan \in Plans
    PROVE  /\ plan.share \in Nat /\ plan.share <= Platform.position
           /\ plan.stop \in Int /\ plan.disaster \in Int
<1>1. PICK side \in Sides, d \in Dists : plan = Plan(side, d)
    BY DEF Plans
<1>2. plan.share = Share(d)
    BY <1>1 DEF Plan
<1>3. d \in Int /\ d * DisasterMultiplier \in Int
    BY PricesAssumption, SMT
<1>4. Against(side, d) \in Int /\ Against(side, d * DisasterMultiplier) \in Int
    BY <1>3, PricesAssumption DEF Against
<1>5. plan.stop \in Int /\ plan.disaster \in Int
    BY <1>1, <1>4, RoundingIsLessThanAStep DEF Plan
<1> QED BY <1>2, <1>5, ShareIsCapped

\* The distance of two integers is a natural number.
LEMMA DistanceIsNat ==
    ASSUME NEW x \in Int, NEW y \in Int
    PROVE  Distance(x, y) \in Nat
BY DEF Distance

\* Rounding down takes away less than a step.
LEMMA DownTakesLessThanAStep ==
    ASSUME NEW x \in Int, NEW step \in Nat \ {0}
    PROVE  /\ Down(x, step) \in Int /\ x - Down(x, step) \in 0..(step - 1)
           /\ x \in Nat => Down(x, step) \in Nat
<1>1. x % step \in 0..(step - 1)
    OBVIOUS
<1>2. x \in Nat => x % step <= x
    OBVIOUS
<1> QED BY <1>1, <1>2 DEF Down

\* What goes out is at most the share of the balance, and its stop at most a
\* step of the price further from the price than the disaster stop.
LEMMA OrdersAreTyped ==
    ASSUME NEW plan \in Plans, NEW s \in Symbols, balance \in Nat
    PROVE  /\ Ordered(plan, Contract[s]).notional \in Nat
           /\ Ordered(plan, Contract[s]).notional <= plan.share * balance
           /\ Ordered(plan, Contract[s]).stop \in Int
           /\ Distance(Entry, Ordered(plan, Contract[s]).stop) <=
                Distance(Entry, plan.disaster) + (Contract[s].tick - 1)
<1> DEFINE contract == Contract[s]
<1>1. /\ contract.tick \in Nat \ {0} /\ contract.step \in Nat \ {0}
      /\ contract.least \in Nat
    BY ContractAssumption
<1>2. plan.share \in Nat /\ plan.disaster \in Int /\ Entry \in Nat
    BY PlansAreTyped, PricesAssumption
<1>3. plan.share * balance \in Nat
    BY <1>2, SMT
<1> DEFINE quantity == Down(plan.share * balance, contract.step)
           stop == Down(plan.disaster, contract.tick)
<1>4. quantity \in Nat /\ quantity <= plan.share * balance
  <2>1. \A x \in Nat, step \in Nat \ {0} : Down(x, step) \in Nat /\ Down(x, step) <= x
    <3> TAKE x \in Nat, step \in Nat \ {0}
    <3>1. Down(x, step) \in Nat /\ x - Down(x, step) \in 0..(step - 1)
        BY DownTakesLessThanAStep
    <3> QED BY <3>1
  <2> QED BY <1>1, <1>3, <2>1
<1>5. stop \in Int /\ plan.disaster - stop \in 0..(contract.tick - 1)
    BY <1>1, <1>2, DownTakesLessThanAStep
<1>6. Distance(Entry, stop) <= Distance(Entry, plan.disaster) + (contract.tick - 1)
  <2> HIDE DEF stop, contract
  <2> QED BY <1>1, <1>2, <1>5, SMT DEF Distance
<1> QED BY <1>1, <1>3, <1>4, <1>5, <1>6 DEF Ordered

\* A rounded price at a distance is less than a step nearer or further.
LEMMA RoundedDistance ==
    ASSUME NEW side \in Sides, NEW far \in Nat
    PROVE  LET sent == Distance(Entry, RoundDown(Against(side, far)))
           IN  sent \in Nat /\ sent <= far + (Quantum - 1) /\ far <= sent + (Quantum - 1)
<1>1. Entry \in Nat /\ Quantum \in Nat \ {0}
    BY PricesAssumption
<1>2. Against(side, far) \in Int
    BY <1>1 DEF Against
<1> DEFINE price == RoundDown(Against(side, far))
<1>3. price \in Int /\ price <= Against(side, far) /\ Against(side, far) <= price + (Quantum - 1)
    BY <1>2, RoundingIsLessThanAStep
<1> HIDE DEF price
<1>4. /\ Distance(Entry, price) \in Nat
      /\ Distance(Entry, price) <= far + (Quantum - 1)
      /\ far <= Distance(Entry, price) + (Quantum - 1)
    BY <1>1, <1>3, SMT DEF Against, Distance
<1> QED BY <1>4 DEF price

\* The disaster stop of a plan is no further than so many times the judged stop, but
\* for the roundings of the two.
LEMMA DisasterStopIsBounded ==
    ASSUME NEW plan \in Plans
    PROVE  Distance(Entry, plan.disaster) <=
               DisasterMultiplier * Distance(Entry, plan.stop)
                   + (DisasterMultiplier + 1) * (Quantum - 1)
<1>1. PICK side \in Sides, d \in Dists : plan = Plan(side, d)
    BY DEF Plans
<1> DEFINE judged == Distance(Entry, plan.stop)
           wide == Distance(Entry, plan.disaster)
           times == DisasterMultiplier
           most == Quantum - 1
<1>2. d \in Nat /\ times \in Nat /\ most \in Nat /\ d * times \in Nat
  <2>1. d \in Nat /\ DisasterMultiplier \in Nat /\ Quantum \in Nat \ {0}
      BY PricesAssumption
  <2>2. d * DisasterMultiplier \in Nat
      BY <2>1, SMT
  <2> QED BY <2>1, <2>2
<1>3. judged \in Nat /\ d <= judged + most
    BY <1>1, <1>2, RoundedDistance DEF Plan
<1>4. wide \in Nat /\ wide <= d * times + most
    BY <1>1, <1>2, RoundedDistance DEF Plan
<1>5. wide <= times * judged + (times + 1) * most
  <2> HIDE DEF judged, wide, times, most
  <2>1. d * times <= (judged + most) * times
      BY <1>2, <1>3, SMT
  <2>2. (judged + most) * times + most = times * judged + (times + 1) * most
      BY <1>2, <1>3, SMT
  <2>3. (judged + most) * times \in Nat
      BY <1>2, <1>3, SMT
  <2> QED BY <1>2, <1>4, <2>1, <2>2, <2>3, SMT
<1> QED BY <1>5

\* So what a plan loses at the disaster stop is bounded by what it loses at the
\* judged one.
LEMMA LossAtDisasterStop ==
    ASSUME NEW plan \in Plans, NEW s \in Symbols, balance \in Nat,
           NEW budget \in Nat, LossAtStop(plan) <= budget
    PROVE  plan.share * Distance(Entry, Ordered(plan, Contract[s]).stop) <=
               DisasterMultiplier * budget + plan.share * Slack(Contract[s])
<1> DEFINE share == plan.share
           judged == Distance(Entry, plan.stop)
           wide == Distance(Entry, plan.disaster)
           sent == Distance(Entry, Ordered(plan, Contract[s]).stop)
           step == Contract[s].tick - 1
           times == DisasterMultiplier
           rounding == (DisasterMultiplier + 1) * (Quantum - 1)
<1>1. /\ share \in Nat /\ times \in Nat /\ step \in Nat /\ rounding \in Nat
      /\ judged \in Nat /\ wide \in Nat /\ sent \in Nat
  <2>1. /\ plan.share \in Nat /\ plan.stop \in Int /\ plan.disaster \in Int
        /\ Entry \in Int /\ DisasterMultiplier \in Nat /\ Quantum \in Nat \ {0}
      BY PlansAreTyped, PricesAssumption
  <2>2. Ordered(plan, Contract[s]).stop \in Int
      BY OrdersAreTyped
  <2>3. judged \in Nat /\ wide \in Nat /\ sent \in Nat
      BY <2>1, <2>2, DistanceIsNat
  <2>4. rounding \in Nat
      BY <2>1, SMT
  <2>5. step \in Nat
      BY ContractAssumption
  <2> QED BY <2>1, <2>3, <2>4, <2>5
<1>2. sent <= wide + step
    BY OrdersAreTyped
<1>3. wide <= times * judged + rounding
    BY DisasterStopIsBounded
<1>4. share * judged <= budget
    BY DEF LossAtStop
<1>5. Slack(Contract[s]) = rounding + step
    BY DEF Slack
<1> HIDE DEF share, judged, wide, sent, step, times, rounding
<1>6. times * judged \in Nat /\ share * judged \in Nat
    BY <1>1, SMT
<1>7. sent <= times * judged + (rounding + step)
    BY <1>1, <1>2, <1>3, <1>6, SMT
<1>8. share * sent <= share * (times * judged + (rounding + step))
  <2>1. times * judged + (rounding + step) \in Nat
      BY <1>1, <1>6, SMT
  <2> DEFINE bound == times * judged + (rounding + step)
  <2> HIDE DEF bound
  <2>2. \A x, y, z \in Nat : x <= y => z * x <= z * y
      BY SMT
  <2> QED BY <1>1, <1>7, <2>1, <2>2
<1>9. share * (times * judged + (rounding + step)) =
          times * (share * judged) + share * (rounding + step)
    BY <1>1, SMT
<1>10. times * (share * judged) <= times * budget
  <2>1. \A x, y, z \in Nat : x <= y => z * x <= z * y
      BY SMT
  <2> QED BY <1>1, <1>4, <1>6, <2>1
<1>11. share * sent <= times * budget + share * (rounding + step)
  <2>1. \A x, y \in Nat : x * y \in Nat
      BY SMT
  <2>2. rounding + step \in Nat
      BY <1>1
  <2>3. /\ share * sent \in Nat /\ times * budget \in Nat
        /\ share * (rounding + step) \in Nat /\ times * (share * judged) \in Nat
      BY <1>1, <1>6, <2>1, <2>2
  <2> QED BY <1>8, <1>9, <1>10, <2>3, SMT
<1> QED BY <1>5, <1>11 DEF share, sent, times

\* An account within the platform's limits is judged by its own.
LEMMA AccountDecides ==
    ASSUME NEW account \in AccountLimits
    PROVE  Tightened(account).risk = account.risk
<1>1. Platform.risk \in Nat /\ account.risk \in Nat /\ account.risk <= Platform.risk
    BY LimitsAssumption DEF Limits
<1> QED BY <1>1, SMT DEF Tightened, Least

\* A judgement without a reason bounds what the stop loses.
LEMMA NoReasonBoundsTheLoss ==
    ASSUME TypeOK, NEW plan \in Plans, NEW account \in AccountLimits,
           NEW outside, NEW exposure,
           Reasons(plan, outside, exposure, account) = {}
    PROVE  LossAtStop(plan) <= account.risk * Entry
<1>1. balance \in Nat /\ balance > 0
    <2>1. balance \in Nat
        BY AccountAssumption DEF TypeOK
    <2>2. balance <= 0 => "equity_non_positive" \in Reasons(plan, outside, exposure, account)
        BY DEF Reasons
    <2> QED BY <2>1, <2>2, SMT
<1>2. plan.share \in Nat /\ Distance(Entry, plan.stop) \in Nat
    <2>1. plan.share \in Nat /\ plan.stop \in Int
        BY PlansAreTyped
    <2>2. Entry \in Int
        BY PricesAssumption
    <2> QED BY <2>1, <2>2, DistanceIsNat
<1>3. account.risk \in Nat /\ Entry \in Nat
    BY LimitsAssumption, PricesAssumption DEF Limits
<1>4. CASE plan.share = 0
    <2>1. LossAtStop(plan) = 0
        BY <1>2, <1>4, SMT DEF LossAtStop
    <2>2. account.risk * Entry >= 0
        BY <1>3, SMT
    <2> QED BY <2>1, <2>2
<1>5. CASE plan.share > 0
    <2>1. plan.share * balance > 0
        BY <1>1, <1>2, <1>5, SMT
    <2>2. RiskReasons(plan, account) = {}
        BY <2>1 DEF Reasons
    <2>3. ~(LossAtStop(plan) > account.risk * Entry)
        BY <2>2, AccountDecides DEF RiskReasons
    <2>4. LossAtStop(plan) \in Int /\ account.risk * Entry \in Int
        BY <1>2, <1>3, SMT DEF LossAtStop
    <2> QED BY <2>3, <2>4, SMT
<1> QED BY <1>2, <1>4, <1>5, SMT

\* What fits a share of one balance fits the same share of the higher of two.
LEMMA HigherBalance ==
    ASSUME NEW held0 \in Nat, NEW share \in Nat, NEW total \in Nat,
           NEW judged \in Nat \ {0}, NEW now \in Nat,
           held0 + share * judged <= judged * total
    PROVE  held0 + share * now <= total * (IF now >= judged THEN now ELSE judged)
<1>1. /\ share * judged \in Nat /\ judged * total \in Nat /\ share * now \in Nat
      /\ total * now \in Nat /\ judged * total = total * judged
    BY SMT
<1>2. CASE now < judged
  <2>1. share * now <= share * judged
      BY <1>2, SMT
  <2> QED BY <1>1, <1>2, <2>1, SMT
<1>3. CASE now >= judged
  <2>1. share <= total
    <3>1. ASSUME share > total PROVE FALSE
      <4>1. share * judged > total * judged
          BY <3>1, SMT
      <4> QED BY <1>1, <4>1, SMT
    <3> QED BY <3>1, SMT
  <2>2. PICK rest \in Nat : total = share + rest
    <3>1. total - share \in Nat /\ total = share + (total - share)
        BY <2>1, SMT
    <3> QED BY <3>1
  <2>3. total * judged = share * judged + rest * judged
      BY <2>2, SMT
  <2>4. total * now = share * now + rest * now
      BY <2>2, SMT
  <2>5. rest * judged \in Nat /\ rest * now \in Nat /\ rest * judged <= rest * now
      BY <1>3, SMT
  <2>6. held0 <= rest * judged
      BY <1>1, <2>3, <2>5, SMT
  <2> QED BY <1>1, <1>3, <2>4, <2>5, <2>6, SMT
<1> QED BY <1>2, <1>3, SMT

-----------------------------------------------------------------------------
(* The sum over the symbols.  The library's induction takes an operator for *)
(* a parameter; a least counterexample does the same here.                  *)

\* Every inhabited set of natural numbers has a least element.
LEMMA LeastOfNaturals ==
    ASSUME NEW T \in SUBSET Nat, T # {}
    PROVE  \E m \in T : \A k \in T : m <= k
<1>1. IsWellFoundedOn(OpToRel(<, Nat), Nat)
      BY NatLessThanWellFounded
<1>2. PICK m \in T : \A k \in T : ~(<<k, m>> \in OpToRel(<, Nat))
      BY <1>1, WFMin
<1>3. ASSUME NEW k \in T PROVE m <= k
  <2>1. k \in Nat /\ m \in Nat
      OBVIOUS
  <2>2. k < m => <<k, m>> \in OpToRel(<, Nat)
      BY <2>1 DEF OpToRel
  <2>3. ~(k < m)
      BY <1>2, <2>2
  <2> QED BY <2>1, <2>3
<1> QED BY <1>3

\* MapThenSumSet takes one symbol out at a time and adds what it holds to the
\* sum of the others.
Chosen(S) == CHOOSE s \in S : TRUE
SumRule(sum, T) ==
    IF T = {} THEN 0 ELSE held[Chosen(T)] + sum[T \ {Chosen(T)}]
Sums == CHOOSE sum : sum = [T \in SUBSET Symbols |-> SumRule(sum, T)]

\* The fold of Exposure is the sum of the set of all symbols.
LEMMA ExposureIsSum == Exposure = Sums[Symbols]
    BY DEF Exposure, MapThenSumSet, MapThenFoldSet, Sums, SumRule, Chosen

\* sum follows the rule on the sets of at most n symbols.
Sums_UpTo(sum, n) ==
    \A T \in SUBSET Symbols : Cardinality(T) <= n => sum[T] = SumRule(sum, T)

\* A set without its chosen symbol is one smaller.
LEMMA SmallerSets ==
    ASSUME IsFiniteSet(Symbols), NEW T \in SUBSET Symbols, T # {}
    PROVE  /\ Chosen(T) \in T /\ T \ {Chosen(T)} \in SUBSET Symbols
           /\ Cardinality(T) \in Nat /\ Cardinality(T \ {Chosen(T)}) = Cardinality(T) - 1
           /\ Cardinality(T \ {Chosen(T)}) \in Nat
<1>1. Chosen(T) \in T
    BY DEF Chosen
<1>2. IsFiniteSet(T)
    BY FS_Subset
<1>3. Cardinality(T \ {Chosen(T)}) = Cardinality(T) - 1
    BY <1>1, <1>2, FS_RemoveElement
<1>4. Cardinality(T) \in Nat
    BY <1>2, FS_CardinalityType
<1>5. Cardinality(T \ {Chosen(T)}) \in Nat
    BY <1>2, FS_RemoveElement, FS_CardinalityType
<1> QED BY <1>1, <1>3, <1>4, <1>5

\* A function that follows the rule up to n can be changed above n so that it
\* follows it up to n + 1.
LEMMA SumsGrow ==
    ASSUME IsFiniteSet(Symbols), NEW n \in Nat,
           NEW sum, Sums_UpTo(sum, n)
    PROVE  \E more : Sums_UpTo(more, n + 1) /\ more = [T \in SUBSET Symbols |-> more[T]]
<1> DEFINE more == [T \in SUBSET Symbols |->
                      IF Cardinality(T) <= n THEN sum[T] ELSE SumRule(sum, T)]
<1>1. ASSUME NEW T \in SUBSET Symbols, Cardinality(T) <= n + 1
      PROVE  more[T] = SumRule(more, T)
  <2>1. more[T] = SumRule(sum, T)
      BY DEF Sums_UpTo
  <2>2. CASE T = {}
      BY <2>1, <2>2 DEF SumRule
  <2>3. CASE T # {}
    <3> DEFINE rest == T \ {Chosen(T)}
    <3>1. rest \in SUBSET Symbols /\ Cardinality(rest) <= n
        BY <1>1, <2>3, SmallerSets
    <3>2. more[rest] = sum[rest]
        BY <3>1
    <3> QED BY <2>1, <2>3, <3>2 DEF SumRule
  <2> QED BY <2>2, <2>3
<1>2. more = [T \in SUBSET Symbols |-> more[T]]
    OBVIOUS
<1> HIDE DEF more
<1> QED BY <1>1, <1>2 DEF Sums_UpTo

\* So some function follows the rule however far.
LEMMA SumsExist ==
    ASSUME IsFiniteSet(Symbols), NEW n \in Nat
    PROVE  \E sum : Sums_UpTo(sum, n) /\ sum = [T \in SUBSET Symbols |-> sum[T]]
<1> DEFINE Found(k) == \E sum : Sums_UpTo(sum, k) /\ sum = [T \in SUBSET Symbols |-> sum[T]]
           Missing == {k \in Nat : ~Found(k)}
<1>1. Found(0)
  <2> DEFINE zero == [T \in SUBSET Symbols |-> 0]
  <2>1. ASSUME NEW T \in SUBSET Symbols, Cardinality(T) <= 0
        PROVE  zero[T] = SumRule(zero, T)
    <3>1. T = {}
      <4>1. Cardinality(T) \in Nat /\ IsFiniteSet(T)
          BY FS_Subset, FS_CardinalityType
      <4>2. Cardinality(T) = 0
          BY <2>1, <4>1
      <4> QED BY <4>1, <4>2, FS_EmptySet
    <3> QED BY <3>1 DEF SumRule
  <2>2. zero = [T \in SUBSET Symbols |-> zero[T]]
      OBVIOUS
  <2> HIDE DEF zero
  <2> QED BY <2>1, <2>2 DEF Sums_UpTo
<1>2. \A k \in Nat : Found(k) => Found(k + 1)
    BY SumsGrow
<1> HIDE DEF Found
<1>3. ASSUME Missing # {} PROVE FALSE
  <2>1. PICK m \in Missing : \A k \in Missing : m <= k
      BY <1>3, LeastOfNaturals
  <2>2. m \in Nat /\ ~Found(m) /\ m # 0
      BY <1>1
  <2>3. m - 1 \in Nat /\ m - 1 \notin Missing
      BY <2>1, <2>2
  <2>4. Found(m - 1)
      BY <2>3
  <2>5. Found((m - 1) + 1)
      BY <1>2, <2>3, <2>4
  <2>6. (m - 1) + 1 = m
      BY <2>2
  <2> QED BY <2>2, <2>5, <2>6
<1>4. Found(n)
  <2>1. n \notin Missing
      BY <1>3
  <2> QED BY <2>1
<1> QED BY <1>4 DEF Found

\* The sums the definition of the fold chooses follow the rule.
LEMMA SumsFollowTheRule ==
    ASSUME IsFiniteSet(Symbols)
    PROVE  Sums = [T \in SUBSET Symbols |-> SumRule(Sums, T)]
<1>1. Cardinality(Symbols) \in Nat
    BY FS_CardinalityType
<1>2. PICK sum : /\ Sums_UpTo(sum, Cardinality(Symbols))
                 /\ sum = [T \in SUBSET Symbols |-> sum[T]]
    BY <1>1, SumsExist
<1>3. \A T \in SUBSET Symbols : sum[T] = SumRule(sum, T)
  <2> TAKE T \in SUBSET Symbols
  <2>1. Cardinality(T) <= Cardinality(Symbols)
      BY FS_Subset
  <2> QED BY <1>2, <2>1 DEF Sums_UpTo
<1>4. sum = [T \in SUBSET Symbols |-> SumRule(sum, T)]
    BY <1>2, <1>3
<1> QED BY <1>4, Zenon DEF Sums

\* The exposure of the account is a natural number: a smallest set of symbols
\* with another sum would have a smaller one.
LEMMA ExposureIsNatural ==
    ASSUME IsFiniteSet(Symbols), held \in [Symbols -> Nat]
    PROVE  Exposure \in Nat
<1> DEFINE Odd == {Cardinality(T) : T \in {U \in SUBSET Symbols : Sums[U] \notin Nat}}
<1>1. \A T \in SUBSET Symbols : Sums[T] = SumRule(Sums, T)
    BY SumsFollowTheRule
<1>2. Odd \in SUBSET Nat
  <2>1. ASSUME NEW T \in SUBSET Symbols PROVE Cardinality(T) \in Nat
      BY FS_Subset, FS_CardinalityType
  <2> QED BY <2>1
<1>3. ASSUME Odd # {} PROVE FALSE
  <2>1. PICK m \in Odd : \A k \in Odd : m <= k
      BY <1>2, <1>3, LeastOfNaturals
  <2>2. PICK T \in SUBSET Symbols : Sums[T] \notin Nat /\ Cardinality(T) = m
      BY <2>1
  <2>3. CASE T = {}
      BY <1>1, <2>2, <2>3 DEF SumRule
  <2>4. CASE T # {}
    <3> DEFINE rest == T \ {Chosen(T)}
    <3>1. /\ Chosen(T) \in Symbols /\ rest \in SUBSET Symbols
          /\ Cardinality(rest) = m - 1 /\ m \in Nat
        BY <2>2, <2>4, SmallerSets
    <3>2. Sums[rest] \in Nat
        BY <2>1, <3>1
    <3>3. Sums[T] = held[Chosen(T)] + Sums[rest]
        BY <1>1, <2>4 DEF SumRule
    <3> QED BY <2>2, <3>1, <3>2, <3>3
  <2> QED BY <2>3, <2>4
<1>4. Sums[Symbols] \in Nat
    BY <1>3
<1> QED BY <1>4, ExposureIsSum

-----------------------------------------------------------------------------
(* What holds between the steps of a cycle.                                *)

\* A cycle that may order has its loss within the account's budget.
RiskInv ==
    cycle.phase = "evaluated" /\ cycle.reasons = {} =>
        LossAtStop(cycle.plan) <= cycle.account.risk * Entry

\* The entry of the cycle that its row will count.
Pending ==
    IF cycle.phase = "executed" /\ cycle.fills /\ cycle.counts THEN 1 ELSE 0

\* A cycle that may order, or has an order to count, has room in the quota;
\* every fill of the day has a row, will have one, or never will.
QuotaInv ==
    /\ cycle.phase = "evaluated" /\ cycle.reasons = {} => entries < MaxDailyTrades
    /\ cycle.phase = "executed" /\ cycle.counts => entries < MaxDailyTrades
    /\ entries <= MaxDailyTrades
    /\ filled <= entries + uncounted + Pending

\* A cycle that may order fits the total limit at the balance it was judged by.
TotalInv ==
    cycle.phase = "evaluated" /\ cycle.reasons = {} =>
        /\ cycle.exposure \in Nat /\ cycle.balance \in Nat \ {0}
        /\ cycle.exposure + cycle.plan.share * cycle.balance <=
             cycle.balance * cycle.account.total

IInv == TypeOK /\ RiskInv /\ QuotaInv /\ TotalInv

-----------------------------------------------------------------------------

\* The initial states satisfy the invariant.
LEMMA InitIInv == Init => IInv
BY LimitsAssumption, SMT DEF Init, IInv, TypeOK, RiskInv, QuotaInv, Pending, TotalInv, Idle

\* Every step keeps the types.
LEMMA TypeStep == TypeOK /\ [Next]_vars => TypeOK'
<1> SUFFICES ASSUME TypeOK, [Next]_vars PROVE TypeOK'
    OBVIOUS
<1> USE DEF TypeOK
<1>1. ASSUME NEW s \in Symbols, Decide(s) PROVE TypeOK'
    <2>1. PICK side \in Sides, d \in Dists :
             cycle' = [phase |-> "decided", symbol |-> s, plan |-> Plan(side, d)]
        BY <1>1 DEF Decide
    <2>2. Plan(side, d) \in Plans
        BY DEF Plans
    <2>3. Plan(side, d).share <= Platform.position
        BY <2>2, PlansAreTyped
    <2> QED BY <1>1, <2>1, <2>2, <2>3 DEF Decide
<1>2. ASSUME NEW s \in Symbols, PositionCloses(s) PROVE TypeOK'
    BY <1>2 DEF PositionCloses
<1>3. ASSUME NEW s \in Symbols, UserOpens(s) PROVE TypeOK'
    BY <1>3, AccountAssumption DEF UserOpens
<1>4. ASSUME Evaluate PROVE TypeOK'
    <2>1. PICK early \in BOOLEAN, outside \in OutsideReasons :
             cycle' = [phase |-> "evaluated", symbol |-> cycle.symbol, plan |-> cycle.plan,
                       reasons |-> IF held[cycle.symbol] # 0 THEN {"position_already_open"}
                           ELSE IF early THEN {"early"}
                           ELSE Reasons(cycle.plan, outside, Exposure, limits),
                       account |-> limits, balance |-> balance, exposure |-> Exposure]
        BY <1>4 DEF Evaluate
    <2>2. Reasons(cycle.plan, outside, Exposure, limits) \subseteq AllReasons
        BY DEF Reasons, OutsideReasons, Notional, Quota, RiskReasons, SideReasons, AllReasons
    <2>3. cycle'.reasons \subseteq AllReasons
        BY <2>1, <2>2 DEF AllReasons
    <2> QED BY <1>4, <2>1, <2>3 DEF Evaluate
<1>5. ASSUME Execute PROVE TypeOK'
    <2>0. PICK outcome \in {"refused", "taken", "filled"}, known \in BOOLEAN :
             /\ cycle' = [phase |-> "executed",
                          stop |-> Ordered(cycle.plan, Contract[cycle.symbol]).stop,
                          fills |-> outcome = "filled",
                          counts |-> outcome # "refused" /\ known]
             /\ held' = IF outcome = "filled"
                        THEN [held EXCEPT ![cycle.symbol] =
                                 @ + Ordered(cycle.plan, Contract[cycle.symbol]).notional]
                        ELSE held
             /\ filled' = IF outcome = "filled" THEN filled + 1 ELSE filled
             /\ uncounted' = IF outcome = "filled" /\ ~known THEN uncounted + 1 ELSE uncounted
        BY <1>5 DEF Execute
    <2>1. Ordered(cycle.plan, Contract[cycle.symbol]).notional \in Nat
        BY <1>5, AccountAssumption, OrdersAreTyped DEF Execute
    <2>2. held' \in [Symbols -> Nat]
        <3>1. held[cycle.symbol] \in Nat
            BY <1>5 DEF Execute
        <3>2. held[cycle.symbol] + Ordered(cycle.plan, Contract[cycle.symbol]).notional \in Nat
            BY <2>1, <3>1, SMT
        <3> QED BY <2>0, <3>2
    <2>3. filled' \in Nat /\ uncounted' \in Nat
        BY <2>0
    <2>4. cycle'.phase = "executed" /\ cycle'.fills \in BOOLEAN /\ cycle'.counts \in BOOLEAN
        BY <2>0
    <2> QED BY <1>5, <2>2, <2>3, <2>4 DEF Execute
<1>6. ASSUME Persist PROVE TypeOK'
    BY <1>6 DEF Persist, Idle
<1>7. ASSUME BalanceMoves \/ UserSetsLimits \/ NewDay PROVE TypeOK'
    BY <1>7 DEF BalanceMoves, UserSetsLimits, NewDay
<1>8. CASE UNCHANGED vars
    BY <1>8 DEF vars
<1> QED BY <1>1, <1>2, <1>3, <1>4, <1>5, <1>6, <1>7, <1>8 DEF Next

\* Every step keeps the budget of the cycle in progress.
LEMMA RiskStep == TypeOK /\ RiskInv /\ [Next]_vars => RiskInv'
<1> SUFFICES ASSUME TypeOK, RiskInv, [Next]_vars PROVE RiskInv'
    OBVIOUS
<1>1. ASSUME Evaluate PROVE RiskInv'
    <2> SUFFICES ASSUME cycle'.reasons = {}
                 PROVE  LossAtStop(cycle'.plan) <= cycle'.account.risk * Entry
        BY DEF RiskInv
    <2>1. PICK outside \in OutsideReasons :
             Reasons(cycle.plan, outside, Exposure, limits) = {}
        BY <1>1 DEF Evaluate
    <2>2. cycle.plan \in Plans /\ limits \in AccountLimits
        BY <1>1 DEF Evaluate, TypeOK
    <2>3. cycle'.plan = cycle.plan /\ cycle'.account = limits
        BY <1>1 DEF Evaluate
    <2> QED BY <2>1, <2>2, <2>3, NoReasonBoundsTheLoss
<1>2. ASSUME cycle'.phase # "evaluated" PROVE RiskInv'
    BY <1>2 DEF RiskInv
<1>3. ASSUME UNCHANGED cycle PROVE RiskInv'
    BY <1>3 DEF RiskInv, LossAtStop
<1> QED BY <1>1, <1>2, <1>3 DEF Next, vars, Decide, Execute, Persist, Idle, PositionCloses,
            UserOpens, BalanceMoves, UserSetsLimits, NewDay

\* Every step keeps the account of the daily quota.
LEMMA QuotaStep == TypeOK /\ QuotaInv /\ [Next]_vars => QuotaInv'
<1> SUFFICES ASSUME TypeOK, QuotaInv, [Next]_vars PROVE QuotaInv'
    OBVIOUS
<1>0. entries \in Nat /\ filled \in Nat /\ uncounted \in Nat /\ MaxDailyTrades \in Nat
    BY LimitsAssumption DEF TypeOK
<1> USE DEF QuotaInv, Pending
<1>1. ASSUME NEW s \in Symbols, Decide(s) PROVE QuotaInv'
    BY <1>0, <1>1 DEF Decide
<1>2. ASSUME Evaluate PROVE QuotaInv'
    <2>1. cycle'.reasons = {} => entries < MaxDailyTrades
        BY <1>0, <1>2 DEF Evaluate, Reasons, Quota
    <2>2. cycle.phase = "decided" /\ cycle'.phase = "evaluated"
          /\ UNCHANGED <<entries, filled, uncounted>>
        BY <1>2 DEF Evaluate
    <2> QED BY <1>0, <2>1, <2>2
<1>3. ASSUME Execute PROVE QuotaInv'
    <2>1. PICK outcome \in {"refused", "taken", "filled"}, known \in BOOLEAN :
             /\ outcome # "refused" => cycle.reasons = {}
             /\ cycle' = [phase |-> "executed",
                          stop |-> Ordered(cycle.plan, Contract[cycle.symbol]).stop,
                          fills |-> outcome = "filled",
                          counts |-> outcome # "refused" /\ known]
             /\ filled' = IF outcome = "filled" THEN filled + 1 ELSE filled
             /\ uncounted' = IF outcome = "filled" /\ ~known THEN uncounted + 1 ELSE uncounted
        BY <1>3 DEF Execute
    <2>2. entries' = entries /\ cycle.phase = "evaluated"
        BY <1>3 DEF Execute
    <2>3. cycle'.counts => entries < MaxDailyTrades
        BY <2>1, <2>2
    <2>4. filled' <= entries + uncounted' + Pending'
        BY <1>0, <2>1, <2>2
    <2> QED BY <2>1, <2>2, <2>3, <2>4
<1>4. ASSUME Persist PROVE QuotaInv'
    BY <1>0, <1>4 DEF Persist, Idle, TypeOK
<1>5. ASSUME NewDay PROVE QuotaInv'
    BY <1>0, <1>5 DEF NewDay
<1>6. ASSUME UNCHANGED <<cycle, entries, filled, uncounted>> PROVE QuotaInv'
    BY <1>6
<1> QED BY <1>1, <1>2, <1>3, <1>4, <1>5, <1>6 DEF Next, vars, PositionCloses, UserOpens,
            BalanceMoves, UserSetsLimits

\* A judgement without a reason keeps the account's total.
LEMMA NoReasonFitsTheTotal ==
    ASSUME TypeOK, NEW plan \in Plans, NEW account \in AccountLimits,
           NEW outside, NEW exposure \in Nat,
           Reasons(plan, outside, exposure, account) = {}
    PROVE  /\ balance \in Nat \ {0}
           /\ exposure + plan.share * balance <= balance * account.total
<1>1. balance \in Nat \ {0}
    <2>1. balance \in Nat
        BY AccountAssumption DEF TypeOK
    <2>2. balance <= 0 => "equity_non_positive" \in Reasons(plan, outside, exposure, account)
        BY DEF Reasons
    <2> QED BY <2>1, <2>2, SMT
<1>2. Notional(plan, exposure, account) = {}
    BY <1>1 DEF Reasons
<1>3. Tightened(account).total = account.total
    <2>1. /\ Platform.total \in Nat /\ account.total \in Nat
          /\ account.total <= Platform.total
        BY LimitsAssumption DEF Limits
    <2> QED BY <2>1, SMT DEF Tightened, Least
<1>4. ~(exposure + plan.share * balance > balance * account.total)
    BY <1>2, <1>3 DEF Notional
<1>5. exposure + plan.share * balance \in Nat /\ balance * account.total \in Nat
  <2>1. plan.share \in Nat /\ account.total \in Nat
      BY PlansAreTyped, LimitsAssumption DEF Limits
  <2>2. plan.share * balance \in Nat /\ balance * account.total \in Nat
      BY <1>1, <2>1, SMT
  <2> QED BY <2>2, SMT
<1> QED BY <1>1, <1>4, <1>5, SMT

\* Every step keeps the fit of the cycle in progress.
LEMMA TotalStep == TypeOK /\ TotalInv /\ [Next]_vars => TotalInv'
<1> SUFFICES ASSUME TypeOK, TotalInv, [Next]_vars PROVE TotalInv'
    OBVIOUS
<1>1. ASSUME Evaluate PROVE TotalInv'
    <2> SUFFICES ASSUME cycle'.reasons = {} PROVE TotalInv'
        BY DEF TotalInv
    <2>1. PICK outside \in OutsideReasons :
             Reasons(cycle.plan, outside, Exposure, limits) = {}
        BY <1>1 DEF Evaluate
    <2>2. cycle.plan \in Plans /\ limits \in AccountLimits
        BY <1>1 DEF Evaluate, TypeOK
    <2>3. Exposure \in Nat
        BY AccountAssumption, ExposureIsNatural DEF TypeOK
    <2>4. /\ cycle'.plan = cycle.plan /\ cycle'.account = limits
          /\ cycle'.exposure = Exposure /\ cycle'.balance = balance
        BY <1>1 DEF Evaluate
    <2>5. /\ balance \in Nat \ {0}
          /\ Exposure + cycle.plan.share * balance <= balance * limits.total
        BY <2>1, <2>2, <2>3, NoReasonFitsTheTotal
    <2> QED BY <2>3, <2>4, <2>5, Zenon DEF TotalInv
<1>2. ASSUME cycle'.phase # "evaluated" PROVE TotalInv'
    BY <1>2 DEF TotalInv
<1>3. ASSUME UNCHANGED cycle PROVE TotalInv'
    BY <1>3 DEF TotalInv
<1> QED BY <1>1, <1>2, <1>3 DEF Next, vars, Decide, Execute, Persist, Idle, PositionCloses,
            UserOpens, BalanceMoves, UserSetsLimits, NewDay

-----------------------------------------------------------------------------

\* The variables keep their types, and no plan exceeds the cap of a position
\* (size_position).
THEOREM Typing == Spec => []TypeOK
<1>1. Init => TypeOK
    BY InitIInv DEF IInv
<1> QED BY <1>1, TypeStep, PTL DEF Spec

\* An order that goes out stays within what the account allowed at the stop that was
\* judged, whatever the sizing rounds, and within disaster_multiplier times as much,
\* and the roundings, at the disaster stop it carries.
THEOREM RiskStaysWithinBudget == Spec => EntryWithinRisk
<1>1. Init => TypeOK /\ RiskInv
    BY InitIInv DEF IInv
<1>2. TypeOK /\ RiskInv /\ [Next]_vars =>
        [Enters /\ cycle'.phase = "executed" =>
            /\ LossAtStop(cycle.plan) <= cycle.account.risk * Entry
            /\ cycle.plan.share * Distance(Entry, cycle'.stop) <=
                  DisasterMultiplier * (cycle.account.risk * Entry)
                      + cycle.plan.share * Slack(Contract[cycle.symbol])]_vars
    <2> SUFFICES ASSUME TypeOK, RiskInv, [Next]_vars, Enters, cycle'.phase = "executed"
                 PROVE  /\ LossAtStop(cycle.plan) <= cycle.account.risk * Entry
                        /\ cycle.plan.share * Distance(Entry, cycle'.stop) <=
                              DisasterMultiplier * (cycle.account.risk * Entry)
                                  + cycle.plan.share * Slack(Contract[cycle.symbol])
        OBVIOUS
    <2>1. Execute
        BY DEF Enters, Next, vars, Decide, Evaluate, Persist, Idle, PositionCloses,
               UserOpens, BalanceMoves, UserSetsLimits, NewDay
    <2>2. cycle.reasons = {}
        BY <2>1 DEF Execute, Enters
    <2>3. LossAtStop(cycle.plan) <= cycle.account.risk * Entry
        BY <2>2 DEF RiskInv, Enters
    <2>4. /\ cycle.plan \in Plans /\ cycle.symbol \in Symbols
          /\ cycle.account \in AccountLimits /\ balance \in Nat
        BY AccountAssumption DEF Enters, TypeOK
    <2>5. cycle'.stop = Ordered(cycle.plan, Contract[cycle.symbol]).stop
        BY <2>1 DEF Execute
    <2>6. cycle.account.risk * Entry \in Nat
      <3>1. cycle.account.risk \in Nat /\ Entry \in Nat
          BY <2>4, LimitsAssumption, PricesAssumption DEF Limits
      <3> QED BY <3>1, SMT
    <2> QED BY <2>3, <2>4, <2>5, <2>6, LossAtDisasterStop
<1> QED BY <1>1, <1>2, TypeStep, RiskStep, PTL DEF Spec, EntryWithinRisk

\* The quota of _daily_trades bounds the fills of a day, up to those that
\* never get a row.
THEOREM QuotaBoundsTheDay == Spec => []DailyEntriesBounded
<1>1. Init => TypeOK /\ QuotaInv
    BY InitIInv DEF IInv
<1>2. TypeOK /\ QuotaInv => DailyEntriesBounded
    BY LimitsAssumption, SMT DEF TypeOK, QuotaInv, Pending, DailyEntriesBounded
<1> QED BY <1>1, <1>2, TypeStep, QuotaStep, PTL DEF Spec

\* What was judged and what the order adds stay within max_total_notional_pct
\* of the higher of the balance judged and the balance ordered with.
THEOREM TotalStaysWithinLimit == Spec => EntryFitsTotal
<1>1. Init => TypeOK /\ TotalInv
    BY InitIInv DEF IInv
<1>2. TypeOK /\ TotalInv /\ [Next]_vars =>
        [Enters /\ cycle'.phase = "executed" =>
            cycle.exposure + (held'[cycle.symbol] - held[cycle.symbol]) <=
                cycle.account.total * (IF balance >= cycle.balance THEN balance
                                                                   ELSE cycle.balance)]_vars
    <2> SUFFICES ASSUME TypeOK, TotalInv, [Next]_vars, Enters, cycle'.phase = "executed"
                 PROVE  cycle.exposure + (held'[cycle.symbol] - held[cycle.symbol]) <=
                            cycle.account.total * (IF balance >= cycle.balance
                                                   THEN balance ELSE cycle.balance)
        OBVIOUS
    <2>1. Execute
        BY DEF Enters, Next, vars, Decide, Evaluate, Persist, Idle, PositionCloses,
               UserOpens, BalanceMoves, UserSetsLimits, NewDay
    <2>2. cycle.reasons = {} /\ cycle.phase = "evaluated"
        BY <2>1 DEF Execute, Enters
    <2> DEFINE order == Ordered(cycle.plan, Contract[cycle.symbol])
    <2>3. /\ cycle.plan \in Plans /\ cycle.symbol \in Symbols
          /\ cycle.account.total \in Nat /\ balance \in Nat
        BY <2>2, AccountAssumption, LimitsAssumption DEF TypeOK, Limits
    <2>4. held' = [held EXCEPT ![cycle.symbol] = @ + order.notional]
        BY <2>1 DEF Execute, Enters
    <2>5. order.notional \in Nat /\ order.notional <= cycle.plan.share * balance
        BY <2>3, OrdersAreTyped
    <2>6. held'[cycle.symbol] - held[cycle.symbol] = order.notional
      <3>1. held \in [Symbols -> Nat]
          BY DEF TypeOK
      <3>2. held'[cycle.symbol] = held[cycle.symbol] + order.notional
          BY <2>3, <2>4, <3>1
      <3>3. held[cycle.symbol] \in Nat
          BY <2>3, <3>1
      <3> QED BY <2>5, <3>2, <3>3, SMT
    <2>7. cycle.plan.share \in Nat
        BY <2>3, PlansAreTyped
    <2>8. /\ cycle.exposure \in Nat /\ cycle.balance \in Nat \ {0}
          /\ cycle.exposure + cycle.plan.share * cycle.balance <=
               cycle.balance * cycle.account.total
        BY <2>2 DEF TotalInv
    <2> DEFINE most == cycle.account.total * (IF balance >= cycle.balance THEN balance
                                                                         ELSE cycle.balance)
    <2>9. cycle.exposure + cycle.plan.share * balance <= most
        BY <2>3, <2>7, <2>8, HigherBalance
    <2>10. cycle.plan.share * balance \in Nat /\ most \in Nat
      <3>1. \A x \in Nat, y \in Nat : x * y \in Nat
          BY SMT
      <3> QED BY <2>3, <2>7, <2>8, <3>1
    <2> HIDE DEF most, order
    <2>11. cycle.exposure + order.notional <= most
        BY <2>5, <2>8, <2>9, <2>10, SMT
    <2> QED BY <2>6, <2>11 DEF most
<1> QED BY <1>1, <1>2, TypeStep, TotalStep, PTL DEF Spec, EntryFitsTotal

-----------------------------------------------------------------------------
(* The claim of size_position (sizing.py:37): what it sizes passes the      *)
(* gate single_trade_risk, up to the rounding of the stop.                  *)

\* The share loses at most the budget at a stop in the distance of the signal.
LEMMA ShareKeepsTheBudget ==
    ASSUME NEW d \in Dists
    PROVE  Share(d) * d <= Platform.risk * Entry
<1> DEFINE budget == Platform.risk * Entry
<1>1. d \in Nat \ {0} /\ Share(d) \in Nat
    BY PricesAssumption, ShareIsCapped
<1>2. budget \in Nat
  <2>1. Platform.risk \in Nat /\ Entry \in Nat
      BY LimitsAssumption, PricesAssumption DEF Limits
  <2> QED BY <2>1, SMT
<1>3. Share(d) <= budget \div d
  <2>1. budget \div d \in Int /\ Platform.position \in Nat
      BY <1>1, <1>2, LimitsAssumption DEF Limits
  <2> HIDE DEF budget
  <2>2. Share(d) = IF budget \div d <= Platform.position THEN budget \div d
                                                         ELSE Platform.position
      BY DEF Share, budget
  <2> QED BY <2>1, <2>2, SMT
<1> HIDE DEF budget
<1>4. (budget \div d) * d <= budget /\ budget \div d \in Nat
    BY <1>1, <1>2, SMT
<1>5. Share(d) * d <= (budget \div d) * d
    BY <1>1, <1>3, <1>4, SMT
<1>6. Share(d) * d \in Nat /\ (budget \div d) * d \in Nat
    BY <1>1, <1>4, SMT
<1>7. Share(d) * d <= budget
    BY <1>2, <1>4, <1>5, <1>6, SMT
<1> QED BY <1>7 DEF budget

\* The rounded stop of a LONG is further away by the remainder, and that of a
\* SHORT nearer.
LEMMA RoundedStop ==
    ASSUME NEW side \in Sides, NEW d \in Dists
    PROVE  LET rest == (IF side = "LONG" THEN Entry - d ELSE Entry + d) % Quantum
           IN  /\ rest \in 0..(Quantum - 1)
               /\ side = "LONG" => Distance(Entry, Plan(side, d).stop) = d + rest
               /\ side = "SHORT" => Distance(Entry, Plan(side, d).stop) = Distance(d, rest)
<1> DEFINE exact == IF side = "LONG" THEN Entry - d ELSE Entry + d
           rest == exact % Quantum
<1>1. d \in Nat \ {0} /\ Entry \in Nat \ {0} /\ Quantum \in Nat \ {0} /\ exact \in Int
    BY PricesAssumption
<1>2. Plan(side, d).stop = (exact \div Quantum) * Quantum
    BY DEF Plan, RoundDown, Against
<1> HIDE DEF exact
<1>3. rest \in 0..(Quantum - 1) /\ (exact \div Quantum) * Quantum = exact - rest
    BY <1>1, SMT
<1> HIDE DEF rest
<1>4. side = "LONG" => Distance(Entry, Plan(side, d).stop) = d + rest
    BY <1>1, <1>2, <1>3, SMT DEF Distance, exact
<1>5. side = "SHORT" => Distance(Entry, Plan(side, d).stop) = Distance(d, rest)
    BY <1>1, <1>2, <1>3, SMT DEF Distance, exact
<1> QED BY <1>3, <1>4, <1>5 DEF rest, exact

\* The sizing passes single_trade_risk of the platform, for a SHORT as soon as
\* the distance is a rounding step, for a LONG whose exact stop is a multiple of
\* one; a LONG with another stop loses too much by less than the share of a step.
THEOREM SizingKeepsTheBudgetUpToRounding ==
    ASSUME NEW side \in Sides, NEW d \in Dists
    PROVE  /\ LossAtStop(Plan(side, d)) <= Platform.risk * Entry
                                             + Share(d) * (Quantum - 1)
           /\ (IF side = "LONG" THEN (Entry - d) % Quantum = 0 ELSE d >= Quantum) =>
                \A account \in AccountLimits :
                    account.risk = Platform.risk => RiskReasons(Plan(side, d), account) = {}
<1> DEFINE plan == Plan(side, d)
           rest == (IF side = "LONG" THEN Entry - d ELSE Entry + d) % Quantum
           budget == Platform.risk * Entry
           share == Share(d)
           exact == IF side = "LONG" THEN (Entry - d) % Quantum = 0 ELSE d >= Quantum
<1>1. /\ d \in Nat \ {0} /\ Quantum \in Nat \ {0} /\ share \in Nat /\ budget \in Nat
      /\ rest \in 0..(Quantum - 1)
  <2>1. Platform.risk \in Nat /\ Entry \in Nat
      BY LimitsAssumption, PricesAssumption DEF Limits
  <2>2. budget \in Nat
      BY <2>1, SMT
  <2> QED BY <2>2, PricesAssumption, ShareIsCapped, RoundedStop
<1>2. LossAtStop(plan) = share * Distance(Entry, plan.stop)
    BY DEF LossAtStop, Plan
<1>3. /\ Distance(Entry, plan.stop) \in Nat
      /\ Distance(Entry, plan.stop) <= d + (Quantum - 1)
      /\ exact => Distance(Entry, plan.stop) <= d
  <2>1. CASE side = "LONG"
    <3>1. Distance(Entry, plan.stop) = d + rest
        BY <2>1, RoundedStop
    <3>2. exact => rest = 0
        BY <2>1
    <3> HIDE DEF rest, exact, plan
    <3> QED BY <1>1, <3>1, <3>2, SMT
  <2>2. CASE side = "SHORT"
    <3>1. Distance(Entry, plan.stop) = Distance(d, rest)
        BY <2>2, RoundedStop
    <3>2. exact => d >= Quantum
        BY <2>2
    <3> HIDE DEF rest, exact, plan
    <3> QED BY <1>1, <3>1, <3>2, SMT DEF Distance
  <2> QED BY <2>1, <2>2 DEF Sides
<1>4. share * d <= budget
    BY ShareKeepsTheBudget
<1> DEFINE loss == Distance(Entry, plan.stop)
<1>5. share * loss <= budget + share * (Quantum - 1)
  <2> HIDE DEF share, loss, budget
  <2>1. share * loss <= share * (d + (Quantum - 1))
      BY <1>1, <1>3, SMT DEF loss
  <2>2. share * (d + (Quantum - 1)) = share * d + share * (Quantum - 1)
      BY <1>1, SMT
  <2>3. share * loss \in Nat /\ share * d \in Nat /\ share * (Quantum - 1) \in Nat
      BY <1>1, <1>3, SMT DEF loss
  <2> QED BY <1>1, <1>4, <2>1, <2>2, <2>3, SMT
<1>6. exact => share * loss <= budget
  <2> HIDE DEF share, loss, budget, exact
  <2>1. exact => share * loss <= share * d
      BY <1>1, <1>3, SMT DEF loss
  <2>2. share * loss \in Nat /\ share * d \in Nat
      BY <1>1, <1>3, SMT DEF loss
  <2> QED BY <1>1, <1>4, <2>1, <2>2, SMT
<1>7. ASSUME exact, NEW account \in AccountLimits, account.risk = Platform.risk
      PROVE  RiskReasons(plan, account) = {}
  <2>1. Tightened(account).risk = Platform.risk
      BY <1>7, AccountDecides
  <2>2. LossAtStop(plan) <= budget
      BY <1>2, <1>6, <1>7
  <2>3. LossAtStop(plan) \in Nat
    <3> HIDE DEF share, loss, plan
    <3>1. share * loss \in Nat
        BY <1>1, <1>3, SMT DEF loss
    <3> QED BY <1>2, <3>1 DEF loss
  <2>4. ~(LossAtStop(plan) > budget)
    <3> HIDE DEF budget
    <3> QED BY <1>1, <2>2, <2>3, SMT
  <2> QED BY <2>1, <2>4 DEF RiskReasons
<1> QED BY <1>2, <1>5, <1>7

=============================================================================
