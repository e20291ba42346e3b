----------------------------- MODULE EpochScore -----------------------------
(***************************************************************************)
(* One epoch through the scorer, as run() of aipow-cli drives it: the      *)
(* attributed settlements are valued, the units are summed per identity    *)
(* into two buckets, the sums are adjusted by reliability, the organic     *)
(* value of the units sets the pool, the pool is split into two budgets,   *)
(* each bucket is allocated, and the scores are merged for the commitment. *)
(* Each stage either finishes or aborts the epoch.                         *)
(*                                                                         *)
(* The order in which a source lists the units is not specified, so the    *)
(* loop of score_epoch takes them in any order.                            *)
(***************************************************************************)
EXTENDS Scoring, Attribution

CONSTANTS
    EpochDatas,      \* the inputs: EpochData, with reliability as a map
    RateCards,       \* the inputs: --rate-card
    ScheduleCaps,    \* the inputs: --schedule-cap
    KPercents        \* the inputs: --k

\* The amounts of an input are unsigned; its lists are lists of records.
ASSUME InputAssumption ==
    /\ \A d \in EpochDatas :
          /\ d.units \in Seq(Range(d.units))
          /\ \A unit \in Range(d.units) :
                /\ unit.value \in Nat /\ unit.price \in Nat
                /\ unit.evidence \in EvidenceLevel /\ unit.challenge \in BOOLEAN
          /\ d.attributed \in Seq(Range(d.attributed))
          /\ \A settlement \in Range(d.attributed) :
                /\ settlement.price \in Nat /\ settlement.work.amount \in Nat
                /\ settlement.work.evidence \in EvidenceLevel
                /\ settlement.work.challenge \in BOOLEAN
          /\ \A history \in Range(d.reliability) :
                history # NoHistory =>
                    {history.success, history.disputes, history.breaches} \subseteq Nat
    /\ \A card \in RateCards : Range(card.prices) \subseteq Nat
    /\ ScheduleCaps \subseteq Nat
    /\ KPercents \subseteq Nat

VARIABLES
    data,        \* the EpochData: units, attributed, reliability
    rateCard, scheduleCap, kPercent,
    stage,       \* what run() does next
    units,       \* what valued_units returned
    pending,     \* indices of the units that score_epoch has not reached
    raw,         \* bucket -> identity -> sum of unit scores
    scores,      \* bucket -> identity -> score
    organicValue,
    pool,
    budget,      \* bucket -> budget
    payouts,     \* bucket -> identity -> amount
    committed    \* identity -> score: the entries of the score root

arguments == <<data, rateCard, scheduleCap, kPercent>>
input == <<arguments, units>>
vars == <<input, stage, pending, raw, scores, organicValue, pool, budget, payouts,
          committed>>

Buckets == {"organic", "challenge"}
Stages == {"attribute", "units", "adjust", "value", "pool", "budget", "organic", "challenge",
           "merge", "done", "error"}

Nothing == [id \in {} |-> 0]
Empty == [b \in Buckets |-> Nothing]

Init ==
    /\ data \in EpochDatas
    /\ rateCard \in RateCards
    /\ scheduleCap \in ScheduleCaps
    /\ kPercent \in KPercents
    /\ stage = "attribute"
    /\ units = <<>>
    /\ pending = {}
    /\ raw = Empty
    /\ scores = Empty
    /\ organicValue = 0
    /\ pool = 0
    /\ budget = [b \in Buckets |-> 0]
    /\ payouts = Empty
    /\ committed = Nothing

\* checked arithmetic: the stage aborts the epoch when the peak does not fit.
Fits(peak) == peak <= MaxU128

Abort(peak) ==
    /\ ~Fits(peak)
    /\ stage' = "error"
    /\ UNCHANGED <<input, pending, raw, scores, organicValue, pool, budget, payouts,
                   committed>>

-----------------------------------------------------------------------------
(* valued_units                                                            *)

Valued == ValuedUnits(data.units, data.attributed, rateCard)

ValueUnits ==
    /\ stage = "attribute"
    /\ Valued # Err
    /\ units' = Valued
    /\ pending' = DOMAIN Valued
    /\ stage' = "units"
    /\ UNCHANGED <<arguments, raw, scores, organicValue, pool, budget, payouts, committed>>

AttributionError ==
    /\ stage = "attribute"
    /\ Valued = Err
    /\ stage' = "error"
    /\ UNCHANGED <<input, pending, raw, scores, organicValue, pool, budget, payouts,
                   committed>>

-----------------------------------------------------------------------------
(* score_epoch                                                             *)

BucketOf(unit) == IF unit.challenge THEN "challenge" ELSE "organic"

\* Mutant: insert instead of entry().or_insert(0): the sum is overwritten.
MutantRawWith(unit) == WorkUnitScore(unit)

\* The sum of the identity's bucket with the unit in it.
RawWith(unit) ==
    LET sums == raw[BucketOf(unit)]
    IN  (IF unit.identity \in DOMAIN sums THEN sums[unit.identity] ELSE 0)
        + WorkUnitScore(unit)

\* Mutant: the sums are kept per control domain.
MutantAddUnit(sums, unit) ==
    [id \in DOMAIN sums \cup {DomainOf(unit.identity)} |->
        IF id = DomainOf(unit.identity) THEN RawWith(unit) ELSE sums[id]]

AddUnit(sums, unit) ==
    [id \in DOMAIN sums \cup {unit.identity} |->
        IF id = unit.identity THEN RawWith(unit) ELSE sums[id]]

\* One turn of the loop over the eligible units.
ScoreUnit(i) ==
    /\ stage = "units"
    /\ i \in pending
    /\ LET unit == units[i]
       IN  /\ IsScoreEligible(unit)
           /\ Fits(UnitBase(unit)) /\ Fits(RawWith(unit))
           /\ raw' = [raw EXCEPT ![BucketOf(unit)] = AddUnit(@, unit)]
    /\ pending' = pending \ {i}
    /\ UNCHANGED <<input, stage, scores, organicValue, pool, budget, payouts, committed>>

\* The loop's filter.
SkipUnit(i) ==
    /\ stage = "units"
    /\ i \in pending
    /\ ~IsScoreEligible(units[i])
    /\ pending' = pending \ {i}
    /\ UNCHANGED <<input, stage, raw, scores, organicValue, pool, budget, payouts, committed>>

ScoreUnitOverflow(i) ==
    /\ stage = "units"
    /\ i \in pending
    /\ IsScoreEligible(units[i])
    /\ Abort(Greatest(UnitBase(units[i]), RawWith(units[i])))

UnitsDone ==
    /\ stage = "units"
    /\ pending = {}
    /\ stage' = "adjust"
    /\ UNCHANGED <<input, pending, raw, scores, organicValue, pool, budget, payouts,
                   committed>>

HistoryOf(id) == IF id \in DOMAIN data.reliability THEN data.reliability[id] ELSE NoHistory

Scored == DOMAIN raw["organic"] \cup DOMAIN raw["challenge"]

FactorPeak ==
    Peak(UNION {{raw[b][id] * ReliabilityFactorBps(HistoryOf(id)) : id \in DOMAIN raw[b]} :
                   b \in Buckets})

AllHistoriesValid == \A id \in Scored : ValidHistory(HistoryOf(id))

\* The closure adjust, on both buckets.
Adjust ==
    /\ stage = "adjust"
    /\ AllHistoriesValid
    /\ Fits(FactorPeak)
    /\ scores' = [b \in Buckets |->
                    [id \in DOMAIN raw[b] |->
                        ApplyBps(raw[b][id], ReliabilityFactorBps(HistoryOf(id)))]]
    /\ stage' = "value"
    /\ UNCHANGED <<input, pending, raw, organicValue, pool, budget, payouts, committed>>

AdjustInvalid ==
    /\ stage = "adjust"
    /\ ~AllHistoriesValid
    /\ stage' = "error"
    /\ UNCHANGED <<input, pending, raw, scores, organicValue, pool, budget, payouts,
                   committed>>

AdjustOverflow == stage = "adjust" /\ AllHistoriesValid /\ Abort(FactorPeak)

ValueOrganic ==
    /\ stage = "value"
    /\ Fits(OrganicSettledPeak(units))
    /\ organicValue' = OrganicSettledValue(units)
    /\ stage' = "pool"
    /\ UNCHANGED <<input, pending, raw, scores, pool, budget, payouts, committed>>

ValueOverflow == stage = "value" /\ Abort(OrganicSettledPeak(units))

-----------------------------------------------------------------------------
(* epoch_pool and allocate_epoch                                           *)

SetPool ==
    /\ stage = "pool"
    /\ Fits(organicValue * kPercent)
    /\ pool' = EpochPool(scheduleCap, kPercent, organicValue)
    /\ stage' = "budget"
    /\ UNCHANGED <<input, pending, raw, scores, organicValue, budget, payouts, committed>>

PoolOverflow == stage = "pool" /\ Abort(organicValue * kPercent)

SetBudgets ==
    /\ stage = "budget"
    /\ Fits(BudgetPeak(pool, organicValue))
    /\ budget' = [organic |-> OrganicBudget(pool, organicValue),
                  challenge |-> ChallengeBudget(pool, organicValue)]
    /\ stage' = "organic"
    /\ UNCHANGED <<input, pending, raw, scores, organicValue, pool, payouts, committed>>

BudgetOverflow == stage = "budget" /\ Abort(BudgetPeak(pool, organicValue))

IdentityCapOf(b) == IF b = "challenge" THEN PerIdentityCap ELSE NoCap

DomainsOf(b) == [id \in DOMAIN scores[b] |-> DomainOf(id)]

BucketPeak(b) == AllocationPeak(budget[b], scores[b], DomainsOf(b), IdentityCapOf(b))

\* allocate_bucket: the organic bucket first, then the challenge bucket.
Allocate(b) ==
    /\ stage = b
    /\ Fits(BucketPeak(b))
    /\ payouts' = [payouts EXCEPT ![b] =
                     Allocation(budget[b], scores[b], DomainsOf(b), IdentityCapOf(b))]
    /\ stage' = IF b = "organic" THEN "challenge" ELSE "merge"
    /\ UNCHANGED <<input, pending, raw, scores, organicValue, pool, budget, committed>>

AllocateOverflow(b) == stage = b /\ Abort(BucketPeak(b))

\* Mutant: the organic score hides the challenge score.
MutantMerged ==
    [id \in Scored |-> IF id \in DOMAIN scores["organic"] THEN scores["organic"][id]
                       ELSE scores["challenge"][id]]

\* run() merges the buckets' scores per identity; they are what is committed.
Merged ==
    [id \in Scored |->
        SumFunctionOnSet([b \in Buckets |-> IF id \in DOMAIN scores[b]
                                            THEN scores[b][id] ELSE 0], Buckets)]

\* An identity's two scores are added, score_root is computed (its entries are
\* of different identities: it cannot fail), and all are added up; both sums are
\* checked, and the first is no greater than the second.
Merge ==
    /\ stage = "merge"
    /\ Fits(SumFunction(Merged))
    /\ committed' = Merged
    /\ stage' = "done"
    /\ UNCHANGED <<input, pending, raw, scores, organicValue, pool, budget, payouts>>

MergeOverflow == stage = "merge" /\ Abort(SumFunction(Merged))

Next ==
    \/ ValueUnits \/ AttributionError
    \/ \E i \in pending : ScoreUnit(i) \/ SkipUnit(i) \/ ScoreUnitOverflow(i)
    \/ UnitsDone
    \/ Adjust \/ AdjustInvalid \/ AdjustOverflow
    \/ ValueOrganic \/ ValueOverflow
    \/ SetPool \/ PoolOverflow
    \/ SetBudgets \/ BudgetOverflow
    \/ \E b \in Buckets : Allocate(b) \/ AllocateOverflow(b)
    \/ Merge \/ MergeOverflow

Spec == Init /\ [][Next]_vars

-----------------------------------------------------------------------------
Ids == {units[i].identity : i \in DOMAIN units}

TypeOK ==
    /\ stage \in Stages
    /\ pending \subseteq DOMAIN units
    /\ \A b \in Buckets :
          /\ DOMAIN raw[b] \subseteq Ids /\ raw[b] \in [DOMAIN raw[b] -> 0..MaxU128]
          /\ DOMAIN scores[b] \subseteq Ids
          /\ scores[b] \in [DOMAIN scores[b] -> 0..MaxU128]
          /\ DOMAIN payouts[b] \subseteq Ids
          /\ payouts[b] \in [DOMAIN payouts[b] -> 0..MaxU128]
          /\ budget[b] \in 0..MaxU128
    /\ organicValue \in 0..MaxU128
    /\ pool \in 0..MaxU128
    /\ DOMAIN committed \subseteq Ids /\ committed \in [DOMAIN committed -> 0..MaxU128]

\* crates/aipow-types/src/lib.rs, AttributionError: "a malformed or unpriceable
\* attribution is rejected, never repaired or silently skipped".  Each unit and
\* each settlement of an epoch that is scored is scored: none is left out, and
\* a settlement that is not valued at its price is valued by the rate card.
NothingIsSkipped ==
    stage \notin {"attribute", "error"} =>
        /\ Len(units) = Len(data.units) + Len(data.attributed)
        /\ \A k \in DOMAIN data.units : units[k] = data.units[k]
        /\ \A k \in DOMAIN data.attributed :
              LET settlement == data.attributed[k]
                  unit       == units[Len(data.units) + k]
              IN  /\ unit.price = settlement.price
                  /\ unit.identity = settlement.earner
                  /\ unit.value # settlement.price =>
                        /\ settlement.work.version = rateCard.version
                        /\ unit.value = settlement.work.amount
                                        * rateCard.prices[settlement.work.class]

\* What the units of an identity add up to in a bucket, in no order at all.
UnitsOf(b, id) ==
    {i \in DOMAIN units : /\ IsScoreEligible(units[i])
                          /\ BucketOf(units[i]) = b
                          /\ units[i].identity = id}

SumOf(b, id) == MapThenSumSet(LAMBDA i : WorkUnitScore(units[i]), UnitsOf(b, id))

\* Two sources that list an epoch's units in different orders lead to the same
\* sums, and to an abort in the same epochs: score_epoch's running sums, its
\* filter and its two buckets do not depend on the order, nor does the place
\* where checked_add gives up.
SumsAreOrderFree ==
    /\ pending = {} =>
          \A b \in Buckets :
              raw[b] = [id \in {j \in Ids : UnitsOf(b, j) # {}} |-> SumOf(b, id)]
    /\ stage = "error" /\ pending # {} =>
          \/ \E i \in DOMAIN units : ~Fits(UnitBase(units[i]))
          \/ \E b \in Buckets, id \in Ids : ~Fits(SumOf(b, id))

Paid(b) == SumFunction(payouts[b])

\* Consumers' demand: what organic units were settled for.
Demand == MapThenSumSet(LAMBDA i : units[i].price,
                        {i \in DOMAIN units : IsOrganic(units[i])})

\* Whatever the units are, an epoch creates no more than k percent of what
\* consumers settled, plus the cold-start floor; and the floor is not taken
\* from organic work, which keeps all of the pool but the challenge share.
EmissionIsDemandGated ==
    /\ (Paid("organic") + Paid("challenge")) * Percent
          <= Demand * kPercent + ColdStartFloor * Percent
    /\ stage \in {"organic", "challenge", "merge", "done"} =>
          budget["organic"] >= pool - PoolShare(pool)

\* The control domains whose consumers an identity's organic units come from.
PayerDomains(id) ==
    {DomainOf(units[i].payer) : i \in {j \in DOMAIN units : /\ IsOrganic(units[j])
                                                           /\ units[j].identity = id}}

\* What organic units were settled for, but for those of earners that one control
\* domain alone pays, however many payers it shows.
OpenDemand ==
    MapThenSumSet(LAMBDA i : units[i].price,
                  {i \in DOMAIN units :
                      /\ IsOrganic(units[i])
                      /\ \E d, e \in PayerDomains(units[i].identity) : d # e})

\* Demand that reaches an earner from inside one control domain creates nothing,
\* whatever else is in the epoch: the pool is at most k percent of the demand
\* of the earners that have another, and no more is paid than the pool and the
\* cold-start floor.
WashDemandMintsNothing ==
    /\ pool * Percent <= OpenDemand * kPercent
    /\ Paid("organic") <= pool
    /\ Paid("organic") + Paid("challenge") <= pool + ColdStartFloor

\* Inside one control domain, who scores no less is paid no less: rounding and
\* the two caps never turn the order of two members round.
FairWithinDomain ==
    \A b \in Buckets :
        \A x, y \in DOMAIN payouts[b] :
            DomainOf(x) = DomainOf(y) /\ scores[b][x] <= scores[b][y]
                => payouts[b][x] <= payouts[b][y]

\* The commitment covers what is paid: who is paid from either bucket is
\* committed, and the committed scores add up to the scores both buckets were
\* allocated by, with the identities that earned in both counted once.
PaidIsCommitted ==
    stage = "done" =>
        /\ SumFunction(committed)
              = SumFunction(scores["organic"]) + SumFunction(scores["challenge"])
        /\ \A b \in Buckets :
              \A id \in DOMAIN payouts[b] :
                  payouts[b][id] > 0 => /\ id \in DOMAIN committed
                                        /\ committed[id] >= scores[b][id]

-----------------------------------------------------------------------------
\* docs/methodology.md, section 7.1: "In a zero-demand epoch, total emission is
\* exactly the floor."
ZeroDemandEmitsTheFloor ==
    stage = "done" /\ Demand = 0 /\ SumFunction(scores["challenge"]) > 0 =>
        Paid("organic") + Paid("challenge") = ColdStartFloor
=============================================================================
