------------------------------ MODULE Strategy ------------------------------
(***************************************************************************)
(* From a discovered pool to a range: the scoring of core/scanner, and the *)
(* decisions of core/strategy on entering, moving the range and rotating.  *)
(* The market moves between the scan and every decision taken from it; who *)
(* carries the decisions out is external.  Amounts are in thousands of USD *)
(* and scores in thousandths of a point, rounded down where the code keeps *)
(* a float; a missing number of a source is zero.                          *)
(***************************************************************************)
EXTENDS Integers, FiniteSets

CONSTANTS
  Pools,
  Profiles,   \* what a pool may look like: tvl, vol, tick
  Volatilities  \* per mille, as the callers of the range calculators give it

VARIABLES
  market,     \* pool -> its profile now
  found,      \* pools of the last scan -> their profile then
  scored,     \* the same pools -> their score
  intent,     \* the last intent, or None
  held,       \* the position held, or None
  visited     \* history: pools held since the last scan or opening

vars == <<market, found, scored, intent, held, visited>>

None == [none |-> TRUE]
MaxTick == 887272
MaxScore == 100000
MinTVL == 10

Least(a, b) == IF a < b THEN a ELSE b
Most(a, b) == IF a > b THEN a ELSE b

-----------------------------------------------------------------------------
(* normalizeScore: 0 to 100 points. *)
NormalizeScore(value, min, max) ==
  IF value <= min THEN 0
  ELSE IF value >= max THEN MaxScore
  ELSE ((value - min) * MaxScore) \div (max - min)

(* calculateFeeAPRScore: a fee of 0.3 % of the volume, over a year, times ten. *)
FeeAPRScore(tvl, vol) == IF tvl = 0 THEN 0 ELSE Least(10 * ((vol * 1095) \div tvl), MaxScore)

(* calculateVolatilityScore. *)
VolatilityScore(tvl, vol) == IF vol = 0 THEN 50000 ELSE Least((tvl * 10000) \div vol, MaxScore)

SecurityScore(tvl) == NormalizeScore(tvl, 10, 50000)

(* ComputeTotal. *)
Total(fee, tvl, vol, volatility, security) ==
  (3 * fee + 2 * tvl + 2 * vol + volatility + 2 * security) \div 10

(* Score. *)
Score(p) ==
  Total(FeeAPRScore(p.tvl, p.vol), NormalizeScore(p.tvl, 0, 10000),
        NormalizeScore(p.vol, 0, 1000), VolatilityScore(p.tvl, p.vol), SecurityScore(p.tvl))

(* AssignTier. *)
AssignTier(total) == IF total >= 75000 THEN "A" ELSE IF total >= 50000 THEN "B" ELSE "C"

(* TierThresholdsFor: the multiplier of the range in hundredths, and the limit
   per pool in USD. *)
TierThresholds ==
  [A |-> [kSigma |-> 175, maxPerPool |-> 1000],
   B |-> [kSigma |-> 125, maxPerPool |-> 200],
   C |-> [kSigma |-> 75, maxPerPool |-> 50]]

-----------------------------------------------------------------------------
(* Mutant: only the upper end is cut off. *)
BoundedAbove(lower, upper) == [lower |-> lower, upper |-> Least(upper, MaxTick)]

Bounded(lower, upper) == [lower |-> Most(lower, -MaxTick), upper |-> Least(upper, MaxTick)]

Around(tick, width) == Bounded(tick - width \div 2, tick + width \div 2)

(* calculateVolatility: volume over TVL, between 0.01 and 2, on a scale of 0
   to 1000. *)
Volatility(p) ==
  IF p.tvl = 0 THEN 500
  ELSE ((Most(Least((1000 * p.vol) \div p.tvl, 2000), 10) - 10) * 1000) \div 1990

BaseWidth(tier) == CASE tier = "A" -> 800 [] tier = "B" -> 500 [] tier = "C" -> 300

RangeWidth(tier, volatility) ==
  Most((BaseWidth(tier) * TierThresholds[tier].kSigma * (volatility + 1000)) \div 100000, 100)

(* The limit of the tier, or the TVL if it is less; in USD. *)
MaxAmount(p, tier) == Least(TierThresholds[tier].maxPerPool, 1000 * p.tvl)

(* EvaluatePool: no intent below 60 points.  A pool at tick 0 is given a tick
   from its score.  total stands for ComputeTotal(), which the threshold is
   compared with, and for the field Total, which the tier is taken from: scores
   come from the scanner, which sets one to the other. *)
EvaluatePool(pool, p, total) ==
  LET tier == AssignTier(total)
      tick == IF p.tick = 0 THEN total \div 10 ELSE p.tick
      range == Around(tick, RangeWidth(tier, Volatility(p)))
  IN IF total < 60000 THEN None
     ELSE [pool |-> pool, tier |-> tier, lower |-> range.lower, upper |-> range.upper,
           amount |-> MaxAmount(p, tier), total |-> total]

(* SelectCandidates: a score of its own, in hundredths; fees are not known. *)
CompositeScore(p) ==
  (45 * NormalizeScore(p.tvl, 10, 10000) + 20 * NormalizeScore(p.vol, 1, 1000)) \div 100

(* Any choice of the best among the found, up to limit: the order of equals is
   that of the sort. *)
SelectCandidates(limit) ==
  {S \in SUBSET DOMAIN found :
     /\ Cardinality(S) = Least(limit, Cardinality(DOMAIN found))
     /\ \A p \in S, q \in DOMAIN found \ S : CompositeScore(found[p]) >= CompositeScore(found[q])}

(* CalculateRange, for a tick, a volatility in thousandths and a tier. *)
CalculateRange(tick, volatility, tier) ==
  LET tenths == CASE tier = "A" -> 15 [] tier = "B" -> 12 [] tier = "C" -> 8 IN
  Around(tick, (Most((volatility * TierThresholds[tier].kSigma) \div 1000, 100) * tenths) \div 10)

(* CalculateRangeFromScore: around tick 0. *)
CalculateRangeFromScore(tier) == Around(0, RangeWidth(tier, 500))

(* AdjustRangeForRebalance: beyond a breach of 20 % the range is centred again,
   and cut off at the last tick. *)
AdjustRangeForRebalance(tick, lower, upper, breachPct) ==
  IF breachPct > 20 THEN Around(tick, upper - lower) ELSE [lower |-> lower, upper |-> upper]

(* Mutant: a range that passes the last tick stays there. *)
CalculateDynamicRangeUnbounded(tick, volatility, tier) ==
  LET bonus == IF tier = "A" THEN 2 ELSE 1
      spread == Least(100 + (volatility * 8 * TierThresholds[tier].kSigma * bonus) \div 100, 10000)
  IN [lower |-> tick - spread \div 2, upper |-> tick + spread \div 2]

(* CalculateDynamicRange: a range that passes the last tick is shifted back. *)
CalculateDynamicRange(tick, volatility, tier) ==
  LET bonus == IF tier = "A" THEN 2 ELSE 1
      spread == Least(100 + (volatility * 8 * TierThresholds[tier].kSigma * bonus) \div 100, 10000)
      up   == Most(-MaxTick - (tick - spread \div 2), 0)
      down == Most(tick + spread \div 2 + up - MaxTick, 0)
  IN [lower |-> tick - spread \div 2 + up - down, upper |-> tick + spread \div 2 + up - down]

(* calculateBreachPercentage: how far the price is outside, in hundredths of
   the bound. *)
BreachPercentage(price, lower, upper) ==
  IF price < lower /\ lower > 0 THEN (100 * (lower - price)) \div lower
  ELSE IF price > upper /\ upper > 0 THEN (100 * (price - upper)) \div upper
  ELSE 0

(* calculateNewRange: around a placeholder tick. *)
NewRange(lower, upper) == Around(200000, upper - lower)

-----------------------------------------------------------------------------
MarketMoves(p) ==
  /\ market' \in {[market EXCEPT ![p] = profile] : profile \in Profiles}
  /\ UNCHANGED <<found, scored, intent, held, visited>>

(* scanOnce over what the data source lists.  It only logs its scores: that
   they reach the decisions below is external. *)
ScanOnce ==
  /\ found' = [p \in {q \in Pools : market[q].tvl >= MinTVL} |-> market[p]]
  /\ scored' = [p \in DOMAIN found' |-> Score(found'[p])]
  /\ visited' = IF held = None THEN {} ELSE {held.pool}
  /\ UNCHANGED <<market, intent, held>>

(* A candidate is evaluated from what the scan saw; external: while a position
   is held, nobody asks for another. *)
Evaluate(p) ==
  /\ held = None
  /\ \E S \in SelectCandidates(1) : p \in S
  /\ intent' = EvaluatePool(p, found[p], scored[p])
  /\ UNCHANGED <<market, found, scored, held, visited>>

Take(range) == held' = [held EXCEPT !.lower = range.lower, !.upper = range.upper]

(* External: the intent is carried out; a position starts as a young one. *)
OpenIntent ==
  /\ held = None /\ intent # None
  /\ held' = [pool |-> intent.pool, tier |-> intent.tier, total |-> intent.total,
              lower |-> intent.lower, upper |-> intent.upper, seasoned |-> FALSE]
  /\ visited' = {intent.pool}
  /\ intent' = None
  /\ UNCHANGED <<market, found, scored>>

(* The range of the position is moved by one of the calculators. *)
MoveRange ==
  /\ held # None
  /\ LET tick == market[held.pool].tick IN
       \/ \E pct \in {20, 21} : Take(AdjustRangeForRebalance(tick, held.lower, held.upper, pct))
       \/ \E v \in Volatilities : Take(CalculateDynamicRange(tick, v, held.tier))
       \/ \E v \in Volatilities : Take(CalculateRange(tick, v, held.tier))
       \/ Take(CalculateRangeFromScore(held.tier))
  /\ UNCHANGED <<market, found, scored, intent, visited>>

(* ShouldRebalance: a breach of more than 3 %; prices stand for ticks. *)
Rebalance ==
  /\ held # None
  /\ BreachPercentage(market[held.pool].tick, held.lower, held.upper) > 3
  /\ Take(NewRange(held.lower, held.upper))
  /\ UNCHANGED <<market, found, scored, intent, visited>>

(* Seven days have passed. *)
HoldOn ==
  /\ held # None
  /\ held' = [held EXCEPT !.seasoned = TRUE]
  /\ UNCHANGED <<market, found, scored, intent, visited>>

CurrentScore == IF held.pool \in DOMAIN scored THEN scored[held.pool] ELSE held.total

(* Mutant: a candidate need only not be worse. *)
ShouldRotateToEqual(p) ==
  /\ held # None /\ held.seasoned
  /\ p \in DOMAIN scored
  /\ \A q \in DOMAIN scored : scored[q] <= scored[p]
  /\ scored[p] >= CurrentScore

(* ShouldRotate: the best candidate, if the position is old enough and the
   improvement is ten points. *)
ShouldRotate(p) ==
  /\ held # None /\ held.seasoned
  /\ p \in DOMAIN scored
  /\ \A q \in DOMAIN scored : scored[q] <= scored[p]
  /\ scored[p] > CurrentScore /\ scored[p] - CurrentScore >= 10000

(* External: the rotation is carried out; a position without a date of opening
   counts as old. *)
Rotate(p) ==
  /\ ShouldRotate(p)
  /\ \E seasoned \in BOOLEAN :
       held' = [held EXCEPT !.pool = p, !.total = scored[p], !.tier = AssignTier(scored[p]),
                            !.seasoned = seasoned]
  /\ visited' = visited \cup {p}
  /\ UNCHANGED <<market, found, scored, intent>>

Close ==
  /\ held # None
  /\ held' = None
  /\ UNCHANGED <<market, found, scored, intent, visited>>

Init ==
  /\ market \in [Pools -> Profiles]
  /\ found = [p \in {} |-> 0] /\ scored = [p \in {} |-> 0]
  /\ intent = None /\ held = None
  /\ visited = {}

Next ==
  \/ \E p \in Pools : MarketMoves(p)
  \/ ScanOnce
  \/ \E p \in DOMAIN found : Evaluate(p)
  \/ OpenIntent \/ MoveRange \/ Rebalance \/ HoldOn
  \/ \E p \in Pools : Rotate(p)
  \/ Close

Spec == Init /\ [][Next]_vars

-----------------------------------------------------------------------------
(* Types of the pipeline. *)
TypeOK ==
  /\ DOMAIN found \subseteq Pools /\ DOMAIN scored = DOMAIN found
  /\ \A p \in DOMAIN scored : scored[p] \in 0..MaxScore
  /\ held # None => held.pool \in Pools /\ held.tier \in {"A", "B", "C"}

(* However pools look, an intent can be carried out: its range lies within the
   ticks and is not empty, its amount is positive and neither above what the
   pool held nor above the limit of its tier, and the worst tier is never
   entered. *)
IntentsAreUsable ==
  intent # None =>
    /\ -MaxTick <= intent.lower /\ intent.lower < intent.upper /\ intent.upper <= MaxTick
    /\ intent.tier \in {"A", "B"}
    /\ 0 < intent.amount /\ intent.amount <= TierThresholds[intent.tier].maxPerPool
    /\ intent.pool \in DOMAIN found /\ intent.total = scored[intent.pool]
         => intent.amount <= 1000 * found[intent.pool].tvl

(* Whatever the order of calculators, markets and breaches, the range held
   never leaves the ticks and is never turned around. *)
HeldRangeIsSound ==
  held # None =>
    -MaxTick <= held.lower /\ held.lower <= held.upper /\ held.upper <= MaxTick

(* From one scan to the next, the rotations of a position never come back to a
   pool it has left: they cannot go around. *)
RotationsNeverReturn ==
  [][held # None /\ held' # None /\ held'.pool # held.pool
       => held'.pool \notin visited]_vars
=============================================================================
