------------------------------ MODULE Scoring ------------------------------
(***************************************************************************)
(* The arithmetic of the score: crates/aipow-types, aipow-classifier and   *)
(* aipow-score as operators.  Amounts are naturals.  The code's checked    *)
(* u128 arithmetic either gives the exact value or aborts the epoch, so an *)
(* operator gives the exact value, and the operator named ...Peak the      *)
(* largest number the code computes on the way: the abort is Peak >        *)
(* MaxU128.  Divisions floor, as the code's do.                            *)
(***************************************************************************)
EXTENDS Integers, FiniteSetsExt

CONSTANTS
    MaxU128,                 \* u128::MAX, a small number here
    Bps,                     \* BPS_DENOMINATOR, 10_000 in the code: 1.0
    Percent,                 \* what percentages are divided by, 100 in the code
    DomainMap,               \* the disclosed domains: identity -> domain
    TopPayerFullBps,         \* ClassifierParams
    TopPayerZeroBps,
    PayoutCapShareBps,       \* ScoreParams
    MaxPoolShareBps,         \* ChallengeBudgetParams
    OrganicMultiplePercent,
    ColdStartFloor,
    PerIdentityCap,
    NoCap, NoHistory         \* Option::None

ASSUME ScoringAssumption ==
    /\ MaxU128 \in Nat
    /\ Bps \in Nat \ {0} /\ Percent \in Nat \ {0}
    /\ TopPayerFullBps \in Nat /\ TopPayerZeroBps \in 0..Bps
    /\ TopPayerFullBps < TopPayerZeroBps        \* ClassifierParams::validate
    /\ PayoutCapShareBps \in 1..Bps           \* ScoreParams::validate
    /\ MaxPoolShareBps \in 0..Bps             \* ChallengeBudgetParams::validate
    /\ OrganicMultiplePercent \in Nat
    /\ ColdStartFloor \in 0..MaxU128           \* a u128
    /\ PerIdentityCap \in Nat
    /\ NoCap \notin Nat

Least(a, b) == IF a <= b THEN a ELSE b
Greatest(a, b) == IF a <= b THEN b ELSE a

\* The largest of a set of naturals, 0 if there is none.
Peak(S) == Max(S \cup {0})

-----------------------------------------------------------------------------
(* aipow-types                                                             *)

\* DomainMap::domain_of.  An identity without a disclosed domain is its own.
DomainOf(id) == IF id \in DOMAIN DomainMap THEN DomainMap[id] ELSE id

EvidenceLevel ==
    {"Declared", "Observed", "Benchmarked", "Audited", "Attested", "Replicated"}

MultiplierPercent ==
    [Declared    |-> 0,
     Observed    |-> Percent,
     Benchmarked |-> (12 * Percent) \div 10,
     Audited     |-> (15 * Percent) \div 10,
     Attested    |-> (17 * Percent) \div 10,
     Replicated  |-> 2 * Percent]

-----------------------------------------------------------------------------
(* aipow-classifier                                                        *)

IsScoreEligible(unit) ==
    /\ ~unit.related
    /\ DomainOf(unit.identity) # DomainOf(unit.payer)

IsOrganic(unit) == IsScoreEligible(unit) /\ ~unit.challenge

\* counterparty_discount_bps, of an earner's totals by payer domain.
DiscountBps(settled) ==
    LET total == SumFunction(settled)
        share == (Peak({settled[d] : d \in DOMAIN settled}) * Bps) \div total
        span  == TopPayerZeroBps - TopPayerFullBps
    IN  IF total = 0 \/ share <= TopPayerFullBps THEN Bps
        ELSE IF share >= TopPayerZeroBps THEN 0
        ELSE ((TopPayerZeroBps - share) * Bps) \div span

\* Mutant: the payers of one domain count as many.
MutantSettledByPayer(units, earner) ==
    LET of(p) == {i \in DOMAIN units : /\ IsOrganic(units[i])
                                       /\ units[i].identity = earner
                                       /\ units[i].payer = p}
        all == {units[i].payer : i \in DOMAIN units}
    IN  [p \in {q \in all : of(q) # {}} |->
            MapThenSumSet(LAMBDA i : units[i].price, of(p))]

\* The settled prices of an earner's organic units, by payer domain.
SettledByPayer(units, earner) ==
    LET of(d) == {i \in DOMAIN units : /\ IsOrganic(units[i])
                                       /\ units[i].identity = earner
                                       /\ d = DomainOf(units[i].payer)}
        all == {DomainOf(units[i].payer) : i \in DOMAIN units}
    IN  [d \in {e \in all : of(e) # {}} |->
            MapThenSumSet(LAMBDA i : units[i].price, of(d))]

OrganicEarners(units) ==
    {units[i].identity : i \in {j \in DOMAIN units : IsOrganic(units[j])}}

EarnerValue(settled) == (SumFunction(settled) * DiscountBps(settled)) \div Bps

OrganicSettledValue(units) ==
    MapThenSumSet(LAMBDA e : EarnerValue(SettledByPayer(units, e)),
                  OrganicEarners(units))

\* The share of the top payer is computed in full before it is divided.
OrganicSettledPeak(units) ==
    Peak({Peak({SumFunction(settled),
                Peak({settled[d] : d \in DOMAIN settled}) * Bps,
                SumFunction(settled) * DiscountBps(settled)}) :
             settled \in {SettledByPayer(units, e) : e \in OrganicEarners(units)}}
         \cup {OrganicSettledValue(units)})

-----------------------------------------------------------------------------
(* aipow-score: scores                                                     *)

ApplyBps(value, bps) == (value * bps) \div Bps

UnitBase(unit) == Least(unit.value, unit.price) * MultiplierPercent[unit.evidence]

WorkUnitScore(unit) == UnitBase(unit) \div Percent

\* ReliabilityInputs that reliability_factor_bps accepts.
ValidHistory(history) ==
    history # NoHistory =>
        /\ history.success <= Bps
        /\ history.disputes <= Bps
        /\ history.breaches <= Bps

ReliabilityFactorBps(history) ==
    IF history = NoHistory THEN Bps
    ELSE LET penalty == (Bps - history.success) + history.disputes
                        + history.breaches
         IN  IF penalty = 0 THEN Bps + Bps \div 10 ELSE Greatest(Bps - penalty, Bps \div 2)

-----------------------------------------------------------------------------
(* aipow-score: budgets                                                    *)

EpochPool(scheduleCap, kPercent, organicValue) ==
    Least(scheduleCap, (organicValue * kPercent) \div Percent)

\* The part of the pool that challenge work may take.
PoolShare(pool) == ApplyBps(pool, MaxPoolShareBps)

ChallengeBudget(pool, organicValue) ==
    Greatest(Least(PoolShare(pool), (organicValue * OrganicMultiplePercent) \div Percent),
             ColdStartFloor)

\* Mutant: the floor is taken from organic work.
MutantCarve(pool, organicValue) == ChallengeBudget(pool, organicValue)

\* What the challenge budget takes out of the pool: not the floor's excess.
Carve(pool, organicValue) == Least(ChallengeBudget(pool, organicValue), PoolShare(pool))

OrganicBudget(pool, organicValue) == pool - Carve(pool, organicValue)

BudgetPeak(pool, organicValue) ==
    Peak({pool * MaxPoolShareBps, organicValue * OrganicMultiplePercent})

-----------------------------------------------------------------------------
(* aipow-score: allocate_bucket, of scores: entry -> score, where dom gives *)
(* the entries' control domains                                            *)

CapAmount(budget) == ApplyBps(budget, PayoutCapShareBps)

\* The share of an entry before the domain cap.
ProRata(budget, scores, identityCap) ==
    LET total == SumFunction(scores)
    IN  [e \in DOMAIN scores |->
            IF total = 0 \/ budget = 0 THEN 0
            ELSE LET share == (budget * scores[e]) \div total
                 IN  IF identityCap = NoCap THEN share ELSE Least(share, identityCap)]

DomainTotal(shares, dom, d) ==
    SumFunctionOnSet(shares, {e \in DOMAIN shares : dom[e] = d})

\* Mutant: only the entries above the cap themselves are scaled down.
MutantAllocation(budget, scores, dom, identityCap) ==
    LET shares == ProRata(budget, scores, identityCap)
        cap    == CapAmount(budget)
    IN  [e \in DOMAIN scores |->
            IF shares[e] > cap
            THEN (shares[e] * cap) \div DomainTotal(shares, dom, dom[e])
            ELSE shares[e]]

Allocation(budget, scores, dom, identityCap) ==
    LET shares == ProRata(budget, scores, identityCap)
        cap    == CapAmount(budget)
    IN  [e \in DOMAIN scores |->
            LET taken == DomainTotal(shares, dom, dom[e])
            IN  IF taken > cap THEN (shares[e] * cap) \div taken ELSE shares[e]]

\* The early return multiplies nothing.
AllocationPeak(budget, scores, dom, identityCap) ==
    LET shares == ProRata(budget, scores, identityCap)
        total  == SumFunction(scores)
        cap    == CapAmount(budget)
    IN  IF total = 0 \/ budget = 0 THEN total
        ELSE Peak({total, budget * PayoutCapShareBps}
                  \cup {budget * scores[e] : e \in DOMAIN scores}
                  \cup {shares[e] * cap : e \in {f \in DOMAIN scores :
                           DomainTotal(shares, dom, dom[f]) > cap}})
=============================================================================
