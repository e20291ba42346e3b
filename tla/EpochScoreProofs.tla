-------------------------- MODULE EpochScoreProofs --------------------------
(***************************************************************************)
(* What holds of an epoch's scores, budgets and payouts for every value of *)
(* the constants: any inputs, any parameters the code accepts, and any     *)
(* width of its integers.                                                  *)
(***************************************************************************)
EXTENDS EpochScore, ScoringProofs

-----------------------------------------------------------------------------
(* The sums of the model as sums of functions                              *)

Score(us) == [i \in DOMAIN us |-> WorkUnitScore(us[i])]

LEMMA ScoreSum ==
    ASSUME NEW b, NEW id
    PROVE  SumOf(b, id) = SumFunctionOnSet(Score(units), UnitsOf(b, id))
  <1>1. UnitsOf(b, id) \in SUBSET DOMAIN units
    BY DEF UnitsOf
  <1> QED
    BY <1>1, ZenonT(60) DEF SumOf, MapThenSumSet, SumFunctionOnSet, FoldFunctionOnSet,
       MapThenFoldSet, Score

USE ScoringAssumption

-----------------------------------------------------------------------------
(* The inductive invariant, stage by stage                                 *)

UnitsOK(us) ==
    /\ IsFiniteSet(DOMAIN us)
    /\ \A i \in DOMAIN us :
          /\ us[i].value \in Nat /\ us[i].price \in Nat
          /\ us[i].evidence \in EvidenceLevel /\ us[i].challenge \in BOOLEAN

\* The inputs stay, and the units are what valued_units returned for them.
UnitsInv ==
    /\ data \in EpochDatas /\ rateCard \in RateCards
    /\ scheduleCap \in ScheduleCaps /\ kPercent \in KPercents
    /\ stage \in Stages
    /\ pending \subseteq DOMAIN units
    /\ stage \notin {"attribute", "units", "error"} => pending = {}
    /\ \/ stage \in {"attribute", "error"} /\ units = <<>>
       \/ stage # "attribute" /\ Valued # Err /\ units = Valued

\* The units of an identity that the loop has reached.
Reached(b, id) == UnitsOf(b, id) \ pending

\* A bucket's sums are those of the units reached, whatever the order was.
SumsInv ==
    /\ DOMAIN raw = Buckets
    /\ \A b \in Buckets :
          /\ DOMAIN raw[b] = {id \in Ids : Reached(b, id) # {}}
          /\ raw[b] \in [DOMAIN raw[b] -> 0..MaxU128]
          /\ \A id \in DOMAIN raw[b] :
                raw[b][id] = SumFunctionOnSet(Score(units), Reached(b, id))

\* The loop gives up only if some unit or some full sum does not fit.
OverflowInv ==
    stage = "error" /\ pending # {} =>
        \/ \E i \in DOMAIN units : ~Fits(UnitBase(units[i]))
        \/ \E b \in Buckets, id \in Ids : ~Fits(SumFunctionOnSet(Score(units), UnitsOf(b, id)))

ScoresInv ==
    /\ DOMAIN scores = Buckets
    /\ \A b \in Buckets :
          /\ DOMAIN scores[b] \subseteq DOMAIN raw[b]
          /\ scores[b] \in [DOMAIN scores[b] -> 0..MaxU128]

Paying == {"organic", "challenge", "merge", "done"}

\* What is not zero has been computed from what came before.
MoneyInv ==
    /\ organicValue \in 0..MaxU128 /\ pool \in 0..MaxU128
    /\ organicValue # 0 => stage # "attribute" /\ organicValue = OrganicSettledValue(units)
    /\ pool # 0 => /\ stage \in Paying \cup {"budget", "error"}
                   /\ pool = EpochPool(scheduleCap, kPercent, organicValue)

BudgetsInv ==
    /\ budget \in [Buckets -> 0..MaxU128]
    /\ \/ stage \notin Paying /\ budget = [b \in Buckets |-> 0]
       \/ /\ stage \in Paying \cup {"error"}
          /\ budget["organic"] = OrganicBudget(pool, organicValue)
          /\ budget["challenge"] = ChallengeBudget(pool, organicValue)

PayoutsInv ==
    /\ DOMAIN payouts = Buckets
    /\ \A b \in Buckets :
          \/ payouts[b] = Nothing
          \/ /\ stage \in Paying \cup {"error"}
             /\ payouts[b] =
                   Allocation(budget[b], scores[b], DomainsOf(b), IdentityCapOf(b))

CommittedInv ==
    /\ committed = IF stage = "done" THEN Merged ELSE Nothing
    /\ stage = "done" => Fits(SumFunction(Merged))

EpochInv ==
    /\ UnitsInv /\ SumsInv /\ OverflowInv /\ ScoresInv
    /\ MoneyInv /\ BudgetsInv /\ PayoutsInv /\ CommittedInv

-----------------------------------------------------------------------------
(* The units                                                               *)

LEMMA Concatenation ==
    ASSUME NEW A, NEW s \in Seq(A), NEW t \in Seq(A)
    PROVE  /\ Len(s \o t) = Len(s) + Len(t) /\ DOMAIN (s \o t) = 1..(Len(s) + Len(t))
           /\ \A k \in 1..Len(s) : (s \o t)[k] = s[k]
           /\ \A k \in 1..Len(t) : (s \o t)[Len(s) + k] = t[k]
  OBVIOUS

\* What valued_units returned without an error.
AreValued(us, d, card) == us = ValuedUnits(d.units, d.attributed, card) /\ us # Err

\* The units are those of the input, and one for each settlement.
NoneIsSkipped(us, d, card) ==
    /\ Len(us) = Len(d.units) + Len(d.attributed)
    /\ \A k \in DOMAIN d.units : us[k] = d.units[k]
    /\ \A k \in DOMAIN d.attributed :
          /\ us[Len(d.units) + k] = SettledWorkUnit(d.attributed[k], card)
          /\ Converts(d.attributed[k], card)

LEMMA ValuedFacts ==
    ASSUME NEW d \in EpochDatas, NEW card \in RateCards, NEW us, AreValued(us, d, card)
    PROVE  UnitsOK(us) /\ NoneIsSkipped(us, d, card)
  <1> DEFINE m == Len(d.units)
             n == Len(d.attributed)
             settled == [k \in DOMAIN d.attributed |-> SettledWorkUnit(d.attributed[k], card)]
  <1>1. us = d.units \o settled /\ \A k \in DOMAIN d.attributed : Converts(d.attributed[k], card)
    BY DEF AreValued, ValuedUnits
  <1>2. /\ d.units \in Seq(Range(d.units)) /\ d.attributed \in Seq(Range(d.attributed))
        /\ \A unit \in Range(d.units) :
              /\ unit.value \in Nat /\ unit.price \in Nat
              /\ unit.evidence \in EvidenceLevel /\ unit.challenge \in BOOLEAN
        /\ \A settlement \in Range(d.attributed) :
              /\ settlement.price \in Nat /\ settlement.work.amount \in Nat
              /\ settlement.work.evidence \in EvidenceLevel
              /\ settlement.work.challenge \in BOOLEAN
        /\ Range(card.prices) \subseteq Nat
    BY InputAssumption
  <1>3. m \in Nat /\ n \in Nat /\ DOMAIN d.units = 1..m /\ DOMAIN d.attributed = 1..n
    BY <1>2
  <1>4. settled \in Seq(Range(settled)) /\ Len(settled) = n
    BY <1>3 DEF Range
  <1>5. /\ Len(us) = m + n /\ DOMAIN us = 1..(m + n)
        /\ \A k \in 1..m : us[k] = d.units[k]
        /\ \A k \in 1..n : us[m + k] = settled[k]
    <2> DEFINE A == Range(d.units) \cup Range(settled)
    <2>1. d.units \in Seq(A) /\ settled \in Seq(A)
      <3> HIDE DEF settled
      <3> QED
        BY <1>2, <1>4
    <2> HIDE DEF settled, A
    <2> DEFINE c == d.units \o settled
               p == Len(settled)
    <2>2. /\ Len(c) = m + p /\ DOMAIN c = 1..(m + p)
          /\ \A k \in 1..m : c[k] = d.units[k]
          /\ \A k \in 1..p : c[m + k] = settled[k]
      BY <2>1, Concatenation
    <2>3. us = c /\ p = n
      BY <1>1, <1>4
    <2> HIDE DEF c, m, n, p
    <2> QED
      BY <2>2, <2>3
  <1>6. ASSUME NEW k \in 1..n
        PROVE  /\ settled[k].value \in Nat /\ settled[k].price \in Nat
               /\ settled[k].evidence \in EvidenceLevel /\ settled[k].challenge \in BOOLEAN
    <2> DEFINE s == d.attributed[k]
    <2>1. s \in Range(d.attributed) /\ Converts(s, card)
      BY <1>1, <1>3 DEF Range
    <2>2. /\ s.price \in Nat /\ s.work.amount \in Nat
          /\ s.work.evidence \in EvidenceLevel /\ s.work.challenge \in BOOLEAN
      BY <1>2, <2>1
    <2>3. settled[k] = SettledWorkUnit(s, card)
      BY <1>3
    <2> HIDE DEF s, settled
    <2>4. AttributedValue(s, card) \in Nat
      <3>1. CASE s.work.class = DefaultClass
        BY <2>2, <3>1 DEF AttributedValue
      <3>2. CASE s.work.class # DefaultClass
        <4>1. s.work.class \in DOMAIN card.prices
          BY <2>1, <3>2 DEF Converts
        <4>2. card.prices[s.work.class] \in Nat
          BY <1>2, <4>1 DEF Range
        <4>3. s.work.amount * card.prices[s.work.class] \in Nat
          BY <2>2, <4>2, Product
        <4> QED
          BY <3>2, <4>3 DEF AttributedValue
      <3> QED
        BY <3>1, <3>2
    <2> QED
      BY <2>2, <2>3, <2>4 DEF SettledWorkUnit
  <1>7. UnitsOK(us)
    <2> HIDE DEF m, n, settled
    <2>1. IsFiniteSet(1..(m + n))
      <3>1. 1 \in Int /\ m + n \in Int
        BY <1>3
      <3> QED
        BY <3>1, FS_Interval
    <2>2. ASSUME NEW k \in 1..(m + n)
          PROVE  /\ us[k].value \in Nat /\ us[k].price \in Nat
                 /\ us[k].evidence \in EvidenceLevel /\ us[k].challenge \in BOOLEAN
      <3>1. CASE k <= m
        <4>1. k \in 1..m
          BY <1>3, <3>1
        <4>2. us[k] = d.units[k] /\ d.units[k] \in Range(d.units)
          BY <1>3, <1>5, <4>1 DEF Range
        <4> QED
          BY <1>2, <4>2
      <3>2. CASE ~(k <= m)
        <4>1. k - m \in 1..n /\ m + (k - m) = k
          BY <1>3, <3>2
        <4>2. us[k] = settled[k - m]
          BY <1>5, <4>1
        <4> HIDE DEF settled
        <4> QED
          BY <1>6, <4>1, <4>2
      <3> QED
        BY <3>1, <3>2
    <2> QED
      BY <1>5, <2>1, <2>2 DEF UnitsOK
  <1>8. \A k \in 1..n : settled[k] = SettledWorkUnit(d.attributed[k], card)
    BY <1>3
  <1> QED
    BY <1>1, <1>3, <1>5, <1>7, <1>8 DEF NoneIsSkipped

LEMMA UnitsFacts == ASSUME UnitsInv PROVE UnitsOK(units)
  <1>1. CASE units = <<>>
    <2>1. DOMAIN units = {}
      BY <1>1
    <2> QED
      BY <2>1, FS_EmptySet DEF UnitsOK
  <1>2. CASE Valued # Err /\ units = Valued
    <2>1. data \in EpochDatas /\ rateCard \in RateCards
      BY DEF UnitsInv
    <2> QED
      BY <1>2, <2>1, ValuedFacts DEF Valued, AreValued
  <1> QED
    BY <1>1, <1>2 DEF UnitsInv

\* The next unit's sum is the sum over the units reached and this one.
LEMMA RawWithFacts ==
    ASSUME UnitsOK(units), SumsInv, pending \subseteq DOMAIN units,
           NEW i \in pending, IsScoreEligible(units[i])
    PROVE  LET b  == BucketOf(units[i])
               id == units[i].identity
           IN  /\ b \in Buckets /\ id \in Ids /\ i \in UnitsOf(b, id)
               /\ RawWith(units[i]) \in Nat
               /\ RawWith(units[i]) =
                     SumFunctionOnSet(Score(units), Reached(b, id) \cup {i})
  <1> DEFINE b == BucketOf(units[i])
             id == units[i].identity
             sum(S) == SumFunctionOnSet(Score(units), S)
  <1>1. b \in Buckets /\ id \in Ids /\ i \in UnitsOf(b, id) /\ i \in DOMAIN units
    BY DEF BucketOf, Buckets, Ids, UnitsOf
  <1>2. /\ IsFiniteSet(Reached(b, id)) /\ i \notin Reached(b, id)
        /\ Reached(b, id) \in SUBSET DOMAIN units
    <2>1. Reached(b, id) \in SUBSET DOMAIN units /\ i \notin Reached(b, id)
      BY DEF Reached, UnitsOf
    <2> QED
      BY <2>1, FS_Subset DEF UnitsOK
  <1>3. \A j \in DOMAIN units : Score(units)[j] \in Nat
    BY UnitScoreIsNat DEF UnitsOK, Score
  <1>4. Score(units)[i] = WorkUnitScore(units[i])
    BY <1>1 DEF Score
  <1>5. sum(Reached(b, id) \cup {i}) = WorkUnitScore(units[i]) + sum(Reached(b, id))
    BY <1>1, <1>2, <1>3, <1>4, SumAdds
  <1>6. (IF id \in DOMAIN raw[b] THEN raw[b][id] ELSE 0) = sum(Reached(b, id))
    <2>1. CASE id \in DOMAIN raw[b]
      BY <1>1, <2>1 DEF SumsInv
    <2>2. CASE id \notin DOMAIN raw[b]
      <3>1. Reached(b, id) = {}
        BY <1>1, <2>2 DEF SumsInv
      <3> QED
        BY <2>2, <3>1, SumOfNone
    <2> QED
      BY <2>1, <2>2
  <1>7. RawWith(units[i]) = sum(Reached(b, id)) + WorkUnitScore(units[i])
    BY <1>6 DEF RawWith
  <1>8. sum(Reached(b, id)) \in Nat /\ WorkUnitScore(units[i]) \in Nat
    BY <1>1, <1>2, <1>3, <1>4, SumIsNat
  <1> HIDE DEF sum
  <1>9. /\ RawWith(units[i]) \in Nat
        /\ RawWith(units[i]) = sum(Reached(b, id) \cup {i})
    BY <1>5, <1>7, <1>8
  <1> QED
    BY <1>1, <1>9 DEF sum

-----------------------------------------------------------------------------
(* What a step that leaves its variables alone does to each part            *)

LEMMA InvInit == Init => EpochInv
  <1> SUFFICES ASSUME Init PROVE EpochInv
    OBVIOUS
  <1>1. /\ stage = "attribute" /\ units = <<>> /\ pending = {} /\ raw = Empty
        /\ scores = Empty /\ payouts = Empty /\ organicValue = 0 /\ pool = 0
        /\ budget = [b \in Buckets |-> 0] /\ committed = Nothing
        /\ data \in EpochDatas /\ rateCard \in RateCards
        /\ scheduleCap \in ScheduleCaps /\ kPercent \in KPercents
    BY DEF Init
  <1>2. DOMAIN units = {} /\ Ids = {}
    BY <1>1 DEF Ids
  <1>3. \A b \in Buckets : Empty[b] = Nothing
    BY DEF Empty
  <1>4. DOMAIN Nothing = {} /\ Nothing \in [DOMAIN Nothing -> 0..MaxU128] /\ DOMAIN Empty = Buckets
    BY DEF Nothing, Empty
  <1>5. UnitsInv
    BY <1>1, <1>2 DEF UnitsInv, Stages
  <1>6. SumsInv
    BY <1>1, <1>2, <1>3, <1>4 DEF SumsInv
  <1>7. OverflowInv /\ ScoresInv
    BY <1>1, <1>3, <1>4 DEF OverflowInv, ScoresInv
  <1>8. MoneyInv /\ BudgetsInv /\ CommittedInv
    BY <1>1 DEF MoneyInv, BudgetsInv, CommittedInv, Paying
  <1>9. PayoutsInv
    BY <1>1, <1>3, <1>4 DEF PayoutsInv
  <1> QED
    BY <1>5, <1>6, <1>7, <1>8, <1>9 DEF EpochInv

LEMMA UnitsKept ==
    ASSUME UnitsInv, UNCHANGED <<input, pending>>,
           stage \in {"attribute", "error"} => stage' = "error",
           stage' \in Stages \ {"attribute"},
           pending = {} \/ stage' \in {"units", "error"}
    PROVE  UnitsInv'
  <1>1. /\ UNCHANGED <<data, rateCard, scheduleCap, kPercent, units, pending>>
        /\ Valued' = Valued
    BY DEF input, arguments, Valued
  <1> QED
    BY <1>1 DEF UnitsInv

LEMMA SumsKept == ASSUME SumsInv, UNCHANGED <<units, pending, raw>> PROVE SumsInv'
  BY DEF SumsInv, Reached, UnitsOf, Ids

LEMMA ScoresKept == ASSUME ScoresInv, UNCHANGED <<raw, scores>> PROVE ScoresInv'
  BY DEF ScoresInv

LEMMA MoneyKept ==
    ASSUME MoneyInv, UNCHANGED <<input, organicValue, pool>>,
           stage' # "attribute",
           stage \in Paying \cup {"budget", "error"} => stage' \in Paying \cup {"error"}
    PROVE  MoneyInv'
  BY DEF MoneyInv, input, arguments

LEMMA BudgetsKept ==
    ASSUME BudgetsInv, UNCHANGED <<organicValue, pool, budget>>,
           stage \in Paying \cup {"error"} => stage' \in Paying \cup {"error"},
           stage \notin Paying => stage' \notin Paying
    PROVE  BudgetsInv'
  BY DEF BudgetsInv

LEMMA PayoutsKept ==
    ASSUME PayoutsInv, UNCHANGED <<scores, budget, payouts>>,
           stage \in Paying \cup {"error"} => stage' \in Paying \cup {"error"}
    PROVE  PayoutsInv'
  BY DEF PayoutsInv, DomainsOf

LEMMA CommittedKept ==
    ASSUME CommittedInv, UNCHANGED committed, stage # "done", stage' # "done"
    PROVE  CommittedInv'
  BY DEF CommittedInv

\* An epoch that is given up keeps all it has.
LEMMA ErrorKeeps ==
    ASSUME EpochInv, stage # "done", stage' = "error",
           UNCHANGED <<input, pending, raw, scores, organicValue, pool, budget, payouts,
                       committed>>,
           OverflowInv'
    PROVE  EpochInv'
  <1>1. /\ UnitsInv /\ SumsInv /\ ScoresInv /\ MoneyInv /\ BudgetsInv /\ PayoutsInv
        /\ CommittedInv
    BY DEF EpochInv
  <1>2. UNCHANGED units
    BY DEF input
  <1>3. UnitsInv' /\ SumsInv' /\ ScoresInv'
    BY <1>1, <1>2, UnitsKept, SumsKept, ScoresKept DEF Stages
  <1>4. MoneyInv' /\ PayoutsInv' /\ CommittedInv'
    BY <1>1, MoneyKept, PayoutsKept, CommittedKept DEF Paying
  <1>5. BudgetsInv'
    BY <1>1, BudgetsKept DEF Paying
  <1> QED
    BY <1>3, <1>4, <1>5 DEF EpochInv

-----------------------------------------------------------------------------
(* valued_units and score_epoch                                            *)

\* Before the units there is nothing.
LEMMA NothingBeforeUnits ==
    ASSUME EpochInv, stage = "attribute"
    PROVE  /\ units = <<>> /\ \A b \in Buckets : DOMAIN raw[b] = {}
           /\ organicValue = 0 /\ pool = 0
  <1>1. units = <<>>
    BY DEF EpochInv, UnitsInv
  <1>2. Ids = {}
    BY <1>1 DEF Ids
  <1> QED
    BY <1>1, <1>2 DEF EpochInv, SumsInv, MoneyInv, Paying

LEMMA ValueUnitsKeeps == EpochInv /\ ValueUnits => EpochInv'
  <1> SUFFICES ASSUME EpochInv, ValueUnits PROVE EpochInv'
    OBVIOUS
  <1>1. /\ stage = "attribute" /\ stage' = "units" /\ units' = Valued /\ pending' = DOMAIN Valued
        /\ Valued # Err
        /\ UNCHANGED <<data, rateCard, scheduleCap, kPercent, raw, scores, organicValue, pool,
                       budget, payouts, committed>>
    BY DEF ValueUnits, arguments
  <1>2. /\ UnitsInv /\ SumsInv /\ ScoresInv /\ MoneyInv /\ BudgetsInv /\ PayoutsInv
        /\ CommittedInv
    BY DEF EpochInv
  <1>3. \A b \in Buckets : DOMAIN raw[b] = {}
    BY <1>1, NothingBeforeUnits
  <1>4. UnitsInv'
    <2>1. Valued' = Valued
      BY <1>1 DEF Valued
    <2> QED
      BY <1>1, <1>2, <2>1 DEF UnitsInv, Stages
  <1>5. SumsInv'
    <2>1. ASSUME NEW b, NEW id PROVE Reached(b, id)' = {}
      BY <1>1 DEF Reached, UnitsOf
    <2> QED
      BY <1>1, <1>2, <1>3, <2>1 DEF SumsInv
  <1>6. ScoresInv' /\ OverflowInv'
    BY <1>1, <1>2, ScoresKept DEF OverflowInv
  <1>7. MoneyInv'
    BY <1>1, <1>2, NothingBeforeUnits DEF MoneyInv
  <1>8. BudgetsInv' /\ PayoutsInv' /\ CommittedInv'
    BY <1>1, <1>2, BudgetsKept, PayoutsKept, CommittedKept DEF Paying
  <1> QED
    BY <1>4, <1>5, <1>6, <1>7, <1>8 DEF EpochInv

\* What a turn of the loop leaves to show.
LEMMA LoopTurnKeeps ==
    ASSUME EpochInv, stage = "units", pending' \subseteq pending,
           UNCHANGED <<input, stage, scores, organicValue, pool, budget, payouts, committed>>,
           SumsInv', \A b \in Buckets : DOMAIN raw[b] \subseteq DOMAIN raw'[b]
    PROVE  EpochInv'
  <1>1. /\ UnitsInv /\ SumsInv /\ ScoresInv /\ MoneyInv /\ BudgetsInv /\ PayoutsInv
        /\ CommittedInv
    BY DEF EpochInv
  <1>2. /\ UNCHANGED <<data, rateCard, scheduleCap, kPercent, units, stage>>
        /\ Valued' = Valued
    BY DEF input, arguments, Valued
  <1>3. UnitsInv' /\ OverflowInv'
    BY <1>1, <1>2 DEF UnitsInv, OverflowInv
  <1>4. ScoresInv'
    BY <1>1 DEF ScoresInv
  <1>5. MoneyInv' /\ BudgetsInv' /\ PayoutsInv' /\ CommittedInv'
    BY <1>1, MoneyKept, BudgetsKept, PayoutsKept, CommittedKept DEF Paying
  <1> QED
    BY <1>3, <1>4, <1>5 DEF EpochInv

LEMMA ScoreUnitKeeps ==
    ASSUME EpochInv, NEW i \in pending, ScoreUnit(i) PROVE EpochInv'
  <1> DEFINE unit == units[i]
  <1>0. PICK B, J : B = BucketOf(unit) /\ J = unit.identity
    OBVIOUS
  <1>1. /\ UnitsInv /\ SumsInv /\ UnitsOK(units) /\ pending \subseteq DOMAIN units
    BY UnitsFacts DEF EpochInv, UnitsInv
  <1>2. /\ stage = "units" /\ IsScoreEligible(unit) /\ RawWith(unit) <= MaxU128
        /\ raw' = [raw EXCEPT ![B] = AddUnit(raw[B], unit)]
        /\ pending' = pending \ {i} /\ units' = units
        /\ UNCHANGED <<input, stage, scores, organicValue, pool, budget, payouts, committed>>
    BY <1>0 DEF ScoreUnit, Fits, input
  <1>3. /\ B \in Buckets /\ J \in Ids /\ i \in UnitsOf(B, J) /\ RawWith(unit) \in 0..MaxU128
        /\ RawWith(unit) = SumFunctionOnSet(Score(units), Reached(B, J) \cup {i})
    BY <1>0, <1>1, <1>2, RawWithFacts
  <1>4. /\ raw'[B] = AddUnit(raw[B], unit) /\ DOMAIN raw' = Buckets
        /\ \A b \in Buckets : b # B => raw'[b] = raw[b]
    BY <1>1, <1>2, <1>3 DEF SumsInv
  <1>5. /\ DOMAIN raw'[B] = DOMAIN raw[B] \cup {J}
        /\ raw'[B][J] = RawWith(unit)
        /\ \A id \in DOMAIN raw[B] : id # J => raw'[B][id] = raw[B][id]
        /\ raw'[B] = [id \in DOMAIN raw'[B] |-> raw'[B][id]]
    BY <1>0, <1>4 DEF AddUnit
  <1>6. /\ Ids' = Ids /\ Score(units') = Score(units)
        /\ Reached(B, J)' = Reached(B, J) \cup {i}
        /\ \A b, id : b # B \/ id # J => Reached(b, id)' = Reached(b, id)
    <2>1. ASSUME NEW b, NEW id PROVE UnitsOf(b, id)' = UnitsOf(b, id)
      BY <1>2 DEF UnitsOf
    <2>2. ASSUME NEW b, NEW id, b # B \/ id # J PROVE i \notin UnitsOf(b, id)
      BY <1>0, <2>2 DEF UnitsOf
    <2> QED
      BY <1>2, <1>3, <2>1, <2>2 DEF Reached, Ids
  <1> HIDE DEF unit
  <1>7. ASSUME NEW b \in Buckets
        PROVE  /\ DOMAIN raw'[b] = {id \in Ids : Reached(b, id)' # {}}
               /\ raw'[b] \in [DOMAIN raw'[b] -> 0..MaxU128]
               /\ \A id \in DOMAIN raw'[b] :
                     raw'[b][id] = SumFunctionOnSet(Score(units), Reached(b, id)')
    <2>1. /\ DOMAIN raw[b] = {id \in Ids : Reached(b, id) # {}}
          /\ raw[b] \in [DOMAIN raw[b] -> 0..MaxU128]
          /\ \A id \in DOMAIN raw[b] :
                raw[b][id] = SumFunctionOnSet(Score(units), Reached(b, id))
      BY <1>1 DEF SumsInv
    <2>2. CASE b # B
      BY <1>4, <1>6, <2>1, <2>2
    <2>3. CASE b = B
      <3>1. DOMAIN raw'[b] = {id \in Ids : Reached(b, id)' # {}}
        BY <1>3, <1>5, <1>6, <2>1, <2>3
      <3>2. \A id \in DOMAIN raw'[b] :
                /\ raw'[b][id] \in 0..MaxU128
                /\ raw'[b][id] = SumFunctionOnSet(Score(units), Reached(b, id)')
        <4> TAKE id \in DOMAIN raw'[b]
        <4>1. CASE id = J
          BY <1>3, <1>5, <1>6, <2>3, <4>1
        <4>2. CASE id # J
          <5>1. id \in DOMAIN raw[b] /\ raw'[b][id] = raw[b][id]
            BY <1>5, <2>3, <4>2
          <5> QED
            BY <1>6, <2>1, <4>2, <5>1
        <4> QED
          BY <4>1, <4>2
      <3> QED
        BY <1>5, <2>3, <3>1, <3>2
    <2> QED
      BY <2>2, <2>3
  <1>8. SumsInv'
    BY <1>2, <1>4, <1>6, <1>7 DEF SumsInv
  <1>9. \A b \in Buckets : DOMAIN raw[b] \subseteq DOMAIN raw'[b]
    BY <1>4, <1>5
  <1> QED
    BY <1>2, <1>8, <1>9, LoopTurnKeeps

LEMMA SkipUnitKeeps ==
    ASSUME EpochInv, NEW i \in pending, SkipUnit(i) PROVE EpochInv'
  <1>1. /\ stage = "units" /\ ~IsScoreEligible(units[i]) /\ pending' = pending \ {i}
        /\ units' = units /\ raw' = raw
        /\ UNCHANGED <<input, stage, scores, organicValue, pool, budget, payouts, committed>>
    BY DEF SkipUnit, input
  <1>2. \A b, id : Reached(b, id)' = Reached(b, id)
    BY <1>1 DEF Reached, UnitsOf
  <1>3. SumsInv'
    BY <1>1, <1>2 DEF EpochInv, SumsInv, Ids
  <1> QED
    BY <1>1, <1>3, LoopTurnKeeps

LEMMA ScoreUnitOverflowKeeps ==
    ASSUME EpochInv, NEW i \in pending, ScoreUnitOverflow(i) PROVE EpochInv'
  <1> DEFINE unit == units[i]
             b == BucketOf(unit)
             id == unit.identity
  <1>1. /\ stage = "units" /\ stage' = "error" /\ IsScoreEligible(unit)
        /\ ~Fits(Greatest(UnitBase(unit), RawWith(unit)))
        /\ UNCHANGED <<input, pending, raw, scores, organicValue, pool, budget, payouts,
                       committed>>
    BY DEF ScoreUnitOverflow, Abort
  <1>2. SumsInv /\ UnitsOK(units) /\ pending \subseteq DOMAIN units
    BY UnitsFacts DEF EpochInv, UnitsInv
  <1>3. /\ b \in Buckets /\ id \in Ids /\ i \in UnitsOf(b, id) /\ RawWith(unit) \in Nat
        /\ RawWith(unit) = SumFunctionOnSet(Score(units), Reached(b, id) \cup {i})
    BY <1>1, <1>2, RawWithFacts
  <1>4. RawWith(unit) <= SumFunctionOnSet(Score(units), UnitsOf(b, id))
    <2>1. /\ UnitsOf(b, id) \in SUBSET DOMAIN units
          /\ Reached(b, id) \cup {i} \in SUBSET UnitsOf(b, id)
      BY <1>3 DEF UnitsOf, Reached
    <2>2. IsFiniteSet(UnitsOf(b, id))
      BY <1>2, <2>1, FS_Subset DEF UnitsOK
    <2>3. \A j \in UnitsOf(b, id) : Score(units)[j] \in Nat
      BY <1>2, <2>1, UnitScoreIsNat DEF UnitsOK, Score
    <2> HIDE DEF unit, b, id
    <2> QED
      BY <1>3, <2>1, <2>2, <2>3, SumOfPart
  <1>5. SumFunctionOnSet(Score(units), UnitsOf(b, id)) \in Nat /\ UnitBase(unit) \in Nat
    <2>1. /\ UnitsOf(b, id) \in SUBSET DOMAIN units /\ unit \in {units[j] : j \in DOMAIN units}
      BY <1>2 DEF UnitsOf
    <2>2. IsFiniteSet(UnitsOf(b, id))
      BY <1>2, <2>1, FS_Subset DEF UnitsOK
    <2>3. \A j \in UnitsOf(b, id) : Score(units)[j] \in Nat
      BY <1>2, <2>1, UnitScoreIsNat DEF UnitsOK, Score
    <2> QED
      BY <1>2, <2>2, <2>3, SumIsNat, UnitScoreIsNat DEF UnitsOK
  <1>6. \/ ~Fits(UnitBase(unit))
        \/ ~Fits(SumFunctionOnSet(Score(units), UnitsOf(b, id)))
    BY <1>1, <1>3, <1>4, <1>5 DEF Greatest, Fits
  <1>7. OverflowInv'
    <2>1. i \in DOMAIN units /\ units' = units
      BY <1>1, <1>2 DEF input
    <2>2. Ids' = Ids /\ \A c, j : UnitsOf(c, j)' = UnitsOf(c, j)
      BY <2>1 DEF Ids, UnitsOf
    <2>3. \/ \E j \in DOMAIN units' : ~Fits(UnitBase(units'[j]))
          \/ \E c \in Buckets, j \in Ids' :
                ~Fits(SumFunctionOnSet(Score(units'), UnitsOf(c, j)'))
      BY <1>3, <1>6, <2>1, <2>2
    <2> QED
      BY <2>3 DEF OverflowInv, Fits
  <1> QED
    BY <1>1, <1>7, ErrorKeeps

LEMMA UnitsDoneKeeps == EpochInv /\ UnitsDone => EpochInv'
  <1> SUFFICES ASSUME EpochInv, UnitsDone PROVE EpochInv'
    OBVIOUS
  <1>1. /\ stage = "units" /\ stage' = "adjust" /\ pending = {}
        /\ UNCHANGED <<input, units, pending, raw, scores, organicValue, pool, budget,
                       payouts, committed>>
    BY DEF UnitsDone, input
  <1>2. /\ UnitsInv /\ SumsInv /\ ScoresInv /\ MoneyInv /\ BudgetsInv /\ PayoutsInv
        /\ CommittedInv
    BY DEF EpochInv
  <1>3. UnitsInv' /\ OverflowInv'
    BY <1>1, <1>2, UnitsKept DEF OverflowInv, Stages
  <1>4. SumsInv' /\ ScoresInv'
    BY <1>1, <1>2, SumsKept, ScoresKept
  <1>5. MoneyInv' /\ BudgetsInv' /\ PayoutsInv' /\ CommittedInv'
    BY <1>1, <1>2, MoneyKept, BudgetsKept, PayoutsKept, CommittedKept DEF Paying
  <1> QED
    BY <1>3, <1>4, <1>5 DEF EpochInv

-----------------------------------------------------------------------------
(* The adjusted scores                                                     *)

LEMMA IdsAreFinite == ASSUME UnitsOK(units) PROVE IsFiniteSet(Ids)
  <1> DEFINE who == [i \in DOMAIN units |-> units[i].identity]
  <1>1. Ids = {who[i] : i \in DOMAIN units}
    BY DEF Ids
  <1>2. IsFiniteSet(DOMAIN units)
    BY DEF UnitsOK
  <1> HIDE DEF who
  <1> QED
    BY <1>1, <1>2, FiniteImage

LEMMA FactorIsNat ==
    ASSUME data \in EpochDatas, NEW id, ValidHistory(HistoryOf(id))
    PROVE  ReliabilityFactorBps(HistoryOf(id)) \in Nat
  <1> DEFINE history == HistoryOf(id)
  <1>1. CASE history = NoHistory
    BY <1>1 DEF ReliabilityFactorBps
  <1>2. CASE history # NoHistory
    <2>1. id \in DOMAIN data.reliability /\ history \in Range(data.reliability)
      BY <1>2 DEF HistoryOf, Range
    <2>2. history.success \in Nat /\ history.disputes \in Nat /\ history.breaches \in Nat
      BY <1>2, <2>1, InputAssumption
    <2>3. history.success <= Bps
      BY <1>2 DEF ValidHistory
    <2> DEFINE penalty == (Bps - history.success) + history.disputes + history.breaches
    <2>4. penalty \in Nat
      BY <2>2, <2>3
    <2>5. ReliabilityFactorBps(history) =
             IF penalty = 0 THEN Bps + Bps \div 10 ELSE Greatest(Bps - penalty, Bps \div 2)
      BY <1>2 DEF ReliabilityFactorBps
    <2>6. Bps \div 10 \in Nat /\ Bps \div 2 \in Nat
      BY Quotient
    <2> HIDE DEF penalty
    <2> QED
      BY <2>4, <2>5, <2>6 DEF Greatest
  <1> QED
    BY <1>1, <1>2

\* What Adjust multiplies is at most the peak.
LEMMA FactorPeakFacts ==
    ASSUME EpochInv, AllHistoriesValid, NEW b \in Buckets, NEW id \in DOMAIN raw[b]
    PROVE  /\ raw[b][id] \in Nat /\ ReliabilityFactorBps(HistoryOf(id)) \in Nat
           /\ FactorPeak \in Nat
           /\ raw[b][id] * ReliabilityFactorBps(HistoryOf(id)) <= FactorPeak
  <1> DEFINE times(c) == [x \in DOMAIN raw[c] |-> raw[c][x] * ReliabilityFactorBps(HistoryOf(x))]
             P(c) == {times(c)[x] : x \in DOMAIN raw[c]}
  <1>1. /\ SumsInv /\ UnitsOK(units) /\ data \in EpochDatas
    BY UnitsFacts DEF EpochInv, UnitsInv
  <1>2. ASSUME NEW c \in Buckets, NEW x \in DOMAIN raw[c]
        PROVE  /\ raw[c][x] \in Nat /\ ReliabilityFactorBps(HistoryOf(x)) \in Nat
               /\ times(c)[x] \in Nat
    <2>1. x \in Scored
      BY DEF Scored, Buckets
    <2>2. ReliabilityFactorBps(HistoryOf(x)) \in Nat
      BY <1>1, <2>1, FactorIsNat DEF AllHistoriesValid
    <2>3. raw[c][x] \in Nat
      BY <1>1 DEF SumsInv
    <2> QED
      BY <2>2, <2>3, Product
  <1>3. ASSUME NEW c \in Buckets PROVE IsFiniteSet(P(c)) /\ P(c) \subseteq Nat
    <2>1. IsFiniteSet(DOMAIN raw[c])
      <3>1. DOMAIN raw[c] \subseteq Ids
        BY <1>1 DEF SumsInv
      <3> QED
        BY <1>1, <3>1, IdsAreFinite, FS_Subset
    <2>2. P(c) \subseteq Nat
      BY <1>2
    <2> HIDE DEF times
    <2> QED
      BY <2>1, <2>2, FiniteImage
  <1>4. FactorPeak = Peak(P("organic") \cup P("challenge"))
    <2>1. ASSUME NEW c \in Buckets
          PROVE  {raw[c][x] * ReliabilityFactorBps(HistoryOf(x)) : x \in DOMAIN raw[c]} = P(c)
      OBVIOUS
    <2>2. UNION {{raw[c][x] * ReliabilityFactorBps(HistoryOf(x)) : x \in DOMAIN raw[c]} :
                    c \in Buckets} = P("organic") \cup P("challenge")
      <3> HIDE DEF P
      <3> QED
        BY <2>1 DEF Buckets
    <2> QED
      BY <2>2 DEF FactorPeak
  <1>5. times(b)[id] \in P("organic") \cup P("challenge")
    BY DEF Buckets
  <1>6. /\ IsFiniteSet(P("organic") \cup P("challenge"))
        /\ P("organic") \cup P("challenge") \subseteq Nat
    <2> HIDE DEF P
    <2> QED
      BY <1>3, FS_Union DEF Buckets
  <1>7. FactorPeak \in Nat /\ times(b)[id] <= FactorPeak
    <2> HIDE DEF P, times
    <2> QED
      BY <1>4, <1>5, <1>6, PeakOfNats
  <1> QED
    BY <1>2, <1>7

LEMMA AdjustKeeps == EpochInv /\ Adjust => EpochInv'
  <1> SUFFICES ASSUME EpochInv, Adjust PROVE EpochInv'
    OBVIOUS
  <1> DEFINE adjusted(b, id) == ApplyBps(raw[b][id], ReliabilityFactorBps(HistoryOf(id)))
  <1>1. /\ stage = "adjust" /\ stage' = "value" /\ AllHistoriesValid /\ FactorPeak <= MaxU128
        /\ scores' = [b \in Buckets |-> [id \in DOMAIN raw[b] |-> adjusted(b, id)]]
        /\ UNCHANGED <<input, units, pending, raw, organicValue, pool, budget, payouts,
                       committed>>
    BY DEF Adjust, Fits, input
  <1>2. /\ UnitsInv /\ SumsInv /\ ScoresInv /\ MoneyInv /\ BudgetsInv /\ PayoutsInv
        /\ CommittedInv /\ pending = {}
    BY <1>1 DEF EpochInv, UnitsInv
  <1>3. UnitsInv' /\ SumsInv' /\ OverflowInv'
    BY <1>1, <1>2, UnitsKept, SumsKept DEF OverflowInv, Stages
  <1>4. ASSUME NEW b \in Buckets, NEW id \in DOMAIN raw[b] PROVE adjusted(b, id) \in 0..MaxU128
    <2>1. /\ raw[b][id] \in Nat /\ ReliabilityFactorBps(HistoryOf(id)) \in Nat
          /\ FactorPeak \in Nat
          /\ raw[b][id] * ReliabilityFactorBps(HistoryOf(id)) <= FactorPeak
      BY <1>1, FactorPeakFacts
    <2>2. adjusted(b, id) \in Nat
          /\ adjusted(b, id) <= raw[b][id] * ReliabilityFactorBps(HistoryOf(id))
      BY <2>1, ApplyBpsFacts
    <2>3. raw[b][id] * ReliabilityFactorBps(HistoryOf(id)) \in Nat
      BY <2>1, Product
    <2> QED
      BY <1>1, <2>1, <2>2, <2>3
  <1> HIDE DEF adjusted
  <1>5. ScoresInv'
    BY <1>1, <1>4 DEF ScoresInv
  <1>6. MoneyInv' /\ BudgetsInv' /\ CommittedInv'
    BY <1>1, <1>2, MoneyKept, BudgetsKept, CommittedKept DEF Paying
  <1>7. PayoutsInv'
    BY <1>1, <1>2 DEF PayoutsInv, Paying
  <1> QED
    BY <1>3, <1>5, <1>6, <1>7 DEF EpochInv

-----------------------------------------------------------------------------
(* The pool and the budgets                                                *)

LEMMA ValueOrganicKeeps == EpochInv /\ ValueOrganic => EpochInv'
  <1> SUFFICES ASSUME EpochInv, ValueOrganic PROVE EpochInv'
    OBVIOUS
  <1>1. /\ stage = "value" /\ stage' = "pool" /\ OrganicSettledPeak(units) <= MaxU128
        /\ organicValue' = OrganicSettledValue(units)
        /\ UNCHANGED <<input, units, pending, raw, scores, pool, budget, payouts, committed>>
    BY DEF ValueOrganic, Fits, input
  <1>2. /\ UnitsInv /\ SumsInv /\ ScoresInv /\ MoneyInv /\ BudgetsInv /\ PayoutsInv
        /\ CommittedInv /\ pending = {} /\ UnitsOK(units)
    BY <1>1, UnitsFacts DEF EpochInv, UnitsInv
  <1>3. UnitsInv' /\ SumsInv' /\ ScoresInv' /\ OverflowInv'
    BY <1>1, <1>2, UnitsKept, SumsKept, ScoresKept DEF OverflowInv, Stages
  <1>4. OrganicSettledValue(units) \in 0..MaxU128
    BY <1>1, <1>2, OrganicPeakFacts DEF UnitsOK
  <1>5. pool = 0
    BY <1>1, <1>2 DEF MoneyInv, Paying
  <1>6. MoneyInv'
    BY <1>1, <1>4, <1>5 DEF MoneyInv
  <1>7. BudgetsInv' /\ PayoutsInv' /\ CommittedInv'
    BY <1>1, <1>2, PayoutsKept, CommittedKept DEF BudgetsInv, Paying
  <1> QED
    BY <1>3, <1>6, <1>7 DEF EpochInv

LEMMA SetPoolKeeps == EpochInv /\ SetPool => EpochInv'
  <1> SUFFICES ASSUME EpochInv, SetPool PROVE EpochInv'
    OBVIOUS
  <1>1. /\ stage = "pool" /\ stage' = "budget" /\ organicValue * kPercent <= MaxU128
        /\ pool' = EpochPool(scheduleCap, kPercent, organicValue)
        /\ UNCHANGED <<input, units, scheduleCap, kPercent, pending, raw, scores,
                       organicValue, budget, payouts, committed>>
    BY DEF SetPool, Fits, input, arguments
  <1>2. /\ UnitsInv /\ SumsInv /\ ScoresInv /\ MoneyInv /\ BudgetsInv /\ PayoutsInv
        /\ CommittedInv /\ pending = {}
    BY <1>1 DEF EpochInv, UnitsInv
  <1>3. UnitsInv' /\ SumsInv' /\ ScoresInv' /\ OverflowInv'
    BY <1>1, <1>2, UnitsKept, SumsKept, ScoresKept DEF OverflowInv, Stages
  <1>4. pool' \in 0..MaxU128
    <2>1. scheduleCap \in Nat /\ kPercent \in Nat /\ organicValue \in Nat
      BY <1>2, InputAssumption DEF UnitsInv, MoneyInv
    <2>2. organicValue * kPercent \in Nat
      BY <2>1, Product
    <2> DEFINE p == EpochPool(scheduleCap, kPercent, organicValue)
    <2>3. p \in Nat /\ p <= organicValue * kPercent
      BY <2>1, PoolFacts
    <2> HIDE DEF p
    <2>4. p \in 0..MaxU128
      BY <1>1, <2>2, <2>3
    <2> QED
      BY <1>1, <2>4 DEF p
  <1>5. MoneyInv'
    BY <1>1, <1>2, <1>4 DEF MoneyInv
  <1>6. BudgetsInv' /\ PayoutsInv' /\ CommittedInv'
    BY <1>1, <1>2, PayoutsKept, CommittedKept DEF BudgetsInv, Paying
  <1> QED
    BY <1>3, <1>5, <1>6 DEF EpochInv

LEMMA SetBudgetsKeeps == EpochInv /\ SetBudgets => EpochInv'
  <1> SUFFICES ASSUME EpochInv, SetBudgets PROVE EpochInv'
    OBVIOUS
  <1>1. /\ stage = "budget" /\ stage' = "organic"
        /\ budget' = [organic |-> OrganicBudget(pool, organicValue),
                      challenge |-> ChallengeBudget(pool, organicValue)]
        /\ UNCHANGED <<input, units, pending, raw, scores, organicValue, pool, payouts,
                       committed>>
    BY DEF SetBudgets, input
  <1>2. /\ UnitsInv /\ SumsInv /\ ScoresInv /\ MoneyInv /\ BudgetsInv /\ PayoutsInv
        /\ CommittedInv /\ pending = {}
    BY <1>1 DEF EpochInv, UnitsInv
  <1>3. UnitsInv' /\ SumsInv' /\ ScoresInv' /\ OverflowInv'
    BY <1>1, <1>2, UnitsKept, SumsKept, ScoresKept DEF OverflowInv, Stages
  <1>4. MoneyInv' /\ CommittedInv'
    BY <1>1, <1>2, MoneyKept, CommittedKept DEF Paying
  <1>5. BudgetsInv'
    <2>1. pool \in 0..MaxU128 /\ pool \in Nat /\ organicValue \in Nat
      BY <1>2 DEF MoneyInv
    <2>2. /\ OrganicBudget(pool, organicValue) \in 0..MaxU128
          /\ ChallengeBudget(pool, organicValue) \in 0..MaxU128
      <3>1. /\ OrganicBudget(pool, organicValue) \in Nat
            /\ ChallengeBudget(pool, organicValue) \in Nat
            /\ OrganicBudget(pool, organicValue) <= pool
            /\ ChallengeBudget(pool, organicValue) <= Greatest(pool, ColdStartFloor)
        BY <2>1, BudgetFacts
      <3>2. Greatest(pool, ColdStartFloor) \in 0..MaxU128
        BY <2>1 DEF Greatest
      <3> QED
        BY <2>1, <3>1, <3>2
    <2>3. /\ budget' \in [Buckets -> 0..MaxU128]
          /\ budget'["organic"] = OrganicBudget(pool, organicValue)
          /\ budget'["challenge"] = ChallengeBudget(pool, organicValue)
      BY <1>1, <2>2 DEF Buckets
    <2> QED
      BY <1>1, <2>3 DEF BudgetsInv, Paying
  <1>6. PayoutsInv'
    <2>1. \A b \in Buckets : payouts[b] = Nothing
      BY <1>1, <1>2 DEF PayoutsInv, Paying
    <2> QED
      BY <1>1, <1>2, <2>1 DEF PayoutsInv
  <1> QED
    BY <1>3, <1>4, <1>5, <1>6 DEF EpochInv

-----------------------------------------------------------------------------
(* The payouts and the commitment                                          *)

\* The amounts of a bucket that has been allocated, or of one that has not.
LEMMA PayoutFacts ==
    ASSUME EpochInv, NEW b \in Buckets
    PROVE  /\ IsFiniteSet(DOMAIN scores[b])
           /\ \A id \in DOMAIN scores[b] : scores[b][id] \in Nat
           /\ budget[b] \in 0..MaxU128 /\ IdentityCapOf(b) \in Nat \cup {NoCap}
  <1>1. UnitsInv /\ SumsInv /\ ScoresInv /\ BudgetsInv /\ UnitsOK(units)
    BY UnitsFacts DEF EpochInv
  <1>2. DOMAIN scores[b] \subseteq Ids
    BY <1>1 DEF SumsInv, ScoresInv
  <1>3. IsFiniteSet(DOMAIN scores[b])
    BY <1>1, <1>2, IdsAreFinite, FS_Subset
  <1> QED
    BY <1>1, <1>3 DEF ScoresInv, BudgetsInv, IdentityCapOf

LEMMA AllocateKeeps == ASSUME EpochInv, NEW b \in Buckets, Allocate(b) PROVE EpochInv'
  <1>1. /\ stage = b /\ stage' \in {"challenge", "merge"}
        /\ payouts' = [payouts EXCEPT ![b] =
                         Allocation(budget[b], scores[b], DomainsOf(b), IdentityCapOf(b))]
        /\ UNCHANGED <<input, units, pending, raw, scores, organicValue, pool, budget,
                       committed>>
    BY DEF Allocate, input
  <1>2. /\ UnitsInv /\ SumsInv /\ ScoresInv /\ MoneyInv /\ BudgetsInv /\ PayoutsInv
        /\ CommittedInv /\ pending = {}
    BY <1>1 DEF EpochInv, UnitsInv, Buckets
  <1>3. UnitsInv' /\ SumsInv' /\ ScoresInv' /\ OverflowInv'
    BY <1>1, <1>2, UnitsKept, SumsKept, ScoresKept DEF OverflowInv, Stages, Buckets
  <1>4. MoneyInv' /\ BudgetsInv' /\ CommittedInv'
    BY <1>1, <1>2, MoneyKept, BudgetsKept, CommittedKept DEF Paying, Buckets
  <1>5. PayoutsInv'
    <2>1. \A c : DomainsOf(c)' = DomainsOf(c)
      BY <1>1 DEF DomainsOf
    <2>2. /\ DOMAIN payouts' = Buckets
          /\ \A c \in Buckets :
                payouts'[c] = IF c = b THEN Allocation(budget[b], scores[b], DomainsOf(b),
                                                       IdentityCapOf(b))
                              ELSE payouts[c]
      BY <1>1, <1>2 DEF PayoutsInv
    <2>3. stage' \in Paying /\ stage \in Paying
      BY <1>1 DEF Paying, Buckets
    <2> QED
      BY <1>1, <1>2, <2>1, <2>2, <2>3 DEF PayoutsInv
  <1> QED
    BY <1>3, <1>4, <1>5 DEF EpochInv

LEMMA MergeKeeps == EpochInv /\ Merge => EpochInv'
  <1> SUFFICES ASSUME EpochInv, Merge PROVE EpochInv'
    OBVIOUS
  <1>1. /\ stage = "merge" /\ stage' = "done" /\ committed' = Merged
        /\ Fits(SumFunction(Merged))
        /\ UNCHANGED <<input, units, pending, raw, scores, organicValue, pool, budget,
                       payouts>>
    BY DEF Merge, input
  <1>2. /\ UnitsInv /\ SumsInv /\ ScoresInv /\ MoneyInv /\ BudgetsInv /\ PayoutsInv
        /\ CommittedInv /\ pending = {}
    BY <1>1 DEF EpochInv, UnitsInv
  <1>3. UnitsInv' /\ SumsInv' /\ ScoresInv' /\ OverflowInv'
    BY <1>1, <1>2, UnitsKept, SumsKept, ScoresKept DEF OverflowInv, Stages
  <1>4. MoneyInv' /\ BudgetsInv' /\ PayoutsInv'
    BY <1>1, <1>2, MoneyKept, BudgetsKept, PayoutsKept DEF Paying
  <1>5. CommittedInv'
    <2>1. Merged' = Merged
      BY <1>1 DEF Merged, Scored
    <2>2. (Fits(SumFunction(Merged)))'
      BY <1>1, <2>1 DEF Fits
    <2> QED
      BY <1>1, <2>1, <2>2 DEF CommittedInv
  <1> QED
    BY <1>3, <1>4, <1>5 DEF EpochInv

\* A stage outside the loop that gives up.
LEMMA AbortKeeps ==
    ASSUME EpochInv, stage \notin {"units", "done", "error"}, stage' = "error",
           UNCHANGED <<input, pending, raw, scores, organicValue, pool, budget, payouts,
                       committed>>
    PROVE  EpochInv'
  <1>1. pending = {}
    BY DEF EpochInv, UnitsInv
  <1>2. OverflowInv'
    BY <1>1 DEF OverflowInv
  <1> QED
    BY <1>2, ErrorKeeps

LEMMA StutterKeeps == EpochInv /\ UNCHANGED vars => EpochInv'
  <1> SUFFICES ASSUME EpochInv, UNCHANGED vars PROVE EpochInv'
    OBVIOUS
  <1>1. /\ UNCHANGED <<data, rateCard, scheduleCap, kPercent, input, units, stage, pending,
                       raw, scores, organicValue, pool, budget, payouts, committed>>
        /\ Valued' = Valued
    BY DEF vars, input, arguments, Valued
  <1>2. /\ \A b, id : UnitsOf(b, id)' = UnitsOf(b, id)
        /\ Ids' = Ids
        /\ \A b : DomainsOf(b)' = DomainsOf(b)
        /\ Merged' = Merged /\ Fits(SumFunction(Merged))' = Fits(SumFunction(Merged))
    BY <1>1 DEF UnitsOf, Ids, DomainsOf, Merged, Scored, Fits
  <1>3. /\ UnitsInv /\ SumsInv /\ ScoresInv /\ MoneyInv /\ BudgetsInv /\ PayoutsInv
        /\ CommittedInv /\ OverflowInv
    BY DEF EpochInv
  <1>4. UnitsInv' /\ SumsInv' /\ ScoresInv'
    BY <1>1, <1>3, SumsKept, ScoresKept DEF UnitsInv
  <1>5. MoneyInv' /\ BudgetsInv'
    BY <1>1, <1>3 DEF MoneyInv, BudgetsInv
  <1>6. PayoutsInv' /\ CommittedInv' /\ OverflowInv'
    BY <1>1, <1>2, <1>3 DEF PayoutsInv, CommittedInv, OverflowInv
  <1> QED
    BY <1>4, <1>5, <1>6 DEF EpochInv

LEMMA EpochStep == EpochInv /\ [Next]_vars => EpochInv'
  <1> SUFFICES ASSUME EpochInv, [Next]_vars PROVE EpochInv'
    OBVIOUS
  <1>1. CASE ValueUnits
    BY <1>1, ValueUnitsKeeps
  <1>2. CASE AttributionError
    BY <1>2, AbortKeeps DEF AttributionError
  <1>3. CASE \E i \in pending : ScoreUnit(i) \/ SkipUnit(i) \/ ScoreUnitOverflow(i)
    BY <1>3, ScoreUnitKeeps, SkipUnitKeeps, ScoreUnitOverflowKeeps
  <1>4. CASE UnitsDone
    BY <1>4, UnitsDoneKeeps
  <1>5. CASE Adjust
    BY <1>5, AdjustKeeps
  <1>6. CASE AdjustInvalid
    BY <1>6, AbortKeeps DEF AdjustInvalid
  <1>7. CASE AdjustOverflow
    BY <1>7, AbortKeeps DEF AdjustOverflow, Abort
  <1>8. CASE ValueOrganic
    BY <1>8, ValueOrganicKeeps
  <1>9. CASE ValueOverflow
    BY <1>9, AbortKeeps DEF ValueOverflow, Abort
  <1>10. CASE SetPool
    BY <1>10, SetPoolKeeps
  <1>11. CASE PoolOverflow
    BY <1>11, AbortKeeps DEF PoolOverflow, Abort
  <1>12. CASE SetBudgets
    BY <1>12, SetBudgetsKeeps
  <1>13. CASE BudgetOverflow
    BY <1>13, AbortKeeps DEF BudgetOverflow, Abort
  <1>14. CASE \E b \in Buckets : Allocate(b)
    BY <1>14, AllocateKeeps
  <1>15. CASE \E b \in Buckets : AllocateOverflow(b)
    BY <1>15, AbortKeeps DEF AllocateOverflow, Abort, Buckets
  <1>16. CASE Merge
    BY <1>16, MergeKeeps
  <1>17. CASE MergeOverflow
    BY <1>17, AbortKeeps DEF MergeOverflow, Abort
  <1>18. CASE UNCHANGED vars
    BY <1>18, StutterKeeps
  <1> QED
    BY <1>1, <1>2, <1>3, <1>4, <1>5, <1>6, <1>7, <1>8, <1>9, <1>10, <1>11, <1>12, <1>13,
       <1>14, <1>15, <1>16, <1>17, <1>18 DEF Next

LEMMA EpochAlways == Spec => []EpochInv
  BY InvInit, EpochStep, PTL DEF Spec

-----------------------------------------------------------------------------
(* The payouts, the pool and the commitment in every reachable state       *)

\* The two cases of PayoutsInv at once.
LEMMA PaidFacts ==
    ASSUME EpochInv, NEW b \in Buckets
    PROVE  /\ DOMAIN payouts[b] \subseteq DOMAIN scores[b]
           /\ \A id \in DOMAIN payouts[b] : payouts[b][id] \in 0..budget[b]
           /\ payouts[b] = [id \in DOMAIN payouts[b] |-> payouts[b][id]]
           /\ Paid(b) \in 0..budget[b]
           /\ \A x, y \in DOMAIN payouts[b] :
                 DomainOf(x) = DomainOf(y) /\ scores[b][x] <= scores[b][y]
                    => payouts[b][x] <= payouts[b][y]
  <1> DEFINE amounts == Allocation(budget[b], scores[b], DomainsOf(b), IdentityCapOf(b))
  <1>1. /\ IsFiniteSet(DOMAIN scores[b])
        /\ \A id \in DOMAIN scores[b] : scores[b][id] \in Nat
        /\ budget[b] \in Nat /\ IdentityCapOf(b) \in Nat \cup {NoCap}
    BY PayoutFacts
  <1>2. payouts[b] = Nothing \/ payouts[b] = amounts
    BY DEF EpochInv, PayoutsInv
  <1>3. CASE payouts[b] = Nothing
    <2>1. DOMAIN payouts[b] = {} /\ payouts[b] = [id \in DOMAIN payouts[b] |-> payouts[b][id]]
      BY <1>3 DEF Nothing
    <2>2. Paid(b) = 0
      BY <2>1, SumOfNone DEF Paid, SumFunction
    <2> QED
      BY <1>1, <2>1, <2>2
  <1>4. CASE payouts[b] = amounts
    <2>1. /\ DOMAIN amounts = DOMAIN scores[b]
          /\ \A id \in DOMAIN scores[b] : amounts[id] \in 0..budget[b]
          /\ SumFunction(amounts) \in 0..budget[b]
          /\ \A x, y \in DOMAIN scores[b] :
                DomainsOf(b)[x] = DomainsOf(b)[y] /\ scores[b][x] <= scores[b][y]
                   => amounts[x] <= amounts[y]
      BY <1>1, AllocationFacts
    <2>2. \A x \in DOMAIN scores[b] : DomainsOf(b)[x] = DomainOf(x)
      BY DEF DomainsOf
    <2>3. amounts = [id \in DOMAIN amounts |-> amounts[id]]
      BY DEF Allocation
    <2> HIDE DEF amounts
    <2> QED
      BY <1>4, <2>1, <2>2, <2>3 DEF Paid
  <1> QED
    BY <1>2, <1>3, <1>4

\* The chain from demand to the pool.
LEMMA DemandFacts ==
    ASSUME EpochInv
    PROVE  /\ Demand \in Nat /\ kPercent \in Nat /\ organicValue \in Nat /\ pool \in Nat
           /\ organicValue <= Demand
           /\ pool * Percent <= organicValue * kPercent
           /\ organicValue = 0 => pool = 0
  <1>1. /\ MoneyInv /\ UnitsOK(units) /\ scheduleCap \in Nat /\ kPercent \in Nat
        /\ organicValue \in Nat /\ pool \in Nat
    BY UnitsFacts, InputAssumption DEF EpochInv, UnitsInv, MoneyInv
  <1>2. Demand = SumFunctionOnSet(Price(units), Organic(units))
    <2>1. Organic(units) \in SUBSET DOMAIN units
      BY DEF Organic
    <2>2. Demand = MapThenSumSet(LAMBDA i : units[i].price, Organic(units))
      BY Zenon DEF Demand, Organic
    <2> QED
      BY <2>1, <2>2, PriceSum
  <1>3. Demand \in Nat /\ organicValue <= Demand
    <2>1. /\ OrganicSettledValue(units) \in Nat /\ Demand \in Nat
          /\ OrganicSettledValue(units) <= Demand
      BY <1>1, <1>2, OrganicValueFacts DEF UnitsOK
    <2> QED
      BY <1>1, <2>1 DEF MoneyInv
  <1>4. pool * Percent <= organicValue * kPercent /\ (organicValue = 0 => pool = 0)
    <2>1. CASE pool = 0
      BY <1>1, <2>1, Product
    <2>2. CASE pool # 0
      <3>1. pool = EpochPool(scheduleCap, kPercent, organicValue)
        BY <1>1, <2>2 DEF MoneyInv
      <3> QED
        BY <1>1, <3>1, PoolFacts
    <2> QED
      BY <2>1, <2>2
  <1> QED
    BY <1>1, <1>3, <1>4

\* Together the budgets are at most the pool and the floor.
LEMMA SplitFacts ==
    ASSUME EpochInv
    PROVE  /\ budget["organic"] \in Nat /\ budget["challenge"] \in Nat
           /\ budget["organic"] + budget["challenge"] <= pool + ColdStartFloor
           /\ budget["organic"] <= pool
           /\ budget["challenge"] <= Greatest(pool, ColdStartFloor)
           /\ stage \in Paying => budget["organic"] >= pool - PoolShare(pool)
  <1>1. BudgetsInv /\ pool \in Nat /\ organicValue \in Nat
    BY DEF EpochInv, MoneyInv
  <1>2. budget["organic"] \in Nat /\ budget["challenge"] \in Nat
    BY <1>1 DEF BudgetsInv, Buckets
  <1>3. CASE stage \notin Paying /\ budget = [b \in Buckets |-> 0]
    <2>1. budget["organic"] = 0 /\ budget["challenge"] = 0
      BY <1>3 DEF Buckets
    <2> QED
      BY <1>1, <1>3, <2>1 DEF Greatest
  <1>4. CASE /\ budget["organic"] = OrganicBudget(pool, organicValue)
             /\ budget["challenge"] = ChallengeBudget(pool, organicValue)
    BY <1>1, <1>4, BudgetFacts
  <1> QED
    BY <1>1, <1>3, <1>4 DEF BudgetsInv

\* An identity's committed score is what it scored in one bucket and in the
\* other.
LEMMA MergedFacts ==
    ASSUME EpochInv
    PROVE  /\ DOMAIN Merged = Scored
           /\ \A id \in Scored :
                 Merged[id] = (IF id \in DOMAIN scores["organic"] THEN scores["organic"][id]
                               ELSE 0)
                              + (IF id \in DOMAIN scores["challenge"]
                                 THEN scores["challenge"][id] ELSE 0)
  <1> DEFINE part(id) == [b \in Buckets |-> IF id \in DOMAIN scores[b] THEN scores[b][id] ELSE 0]
  <1>1. Merged = [id \in Scored |-> SumFunctionOnSet(part(id), Buckets)]
    BY DEF Merged
  <1>2. ASSUME NEW id
        PROVE  SumFunctionOnSet(part(id), Buckets) = part(id)["organic"] + part(id)["challenge"]
    <2> DEFINE p == part(id)
    <2>1. \A b \in Buckets : p[b] \in Nat
      BY DEF EpochInv, ScoresInv
    <2> HIDE DEF p
    <2>2. /\ Buckets = {"challenge"} \cup {"organic"} /\ "organic" \notin {"challenge"}
          /\ IsFiniteSet({"challenge"})
      BY FS_Singleton DEF Buckets
    <2>3. p["organic"] \in Nat /\ p["challenge"] \in Nat
      BY <2>1 DEF Buckets
    <2>4. SumFunctionOnSet(p, Buckets) = p["organic"] + SumFunctionOnSet(p, {"challenge"})
      BY <2>2, <2>3, SumAdds
    <2>5. SumFunctionOnSet(p, {"challenge"}) = p["challenge"]
      BY <2>3, SumOfOne
    <2> QED
      BY <2>4, <2>5 DEF p
  <1>3. ASSUME NEW id, NEW b \in Buckets
        PROVE  part(id)[b] = IF id \in DOMAIN scores[b] THEN scores[b][id] ELSE 0
    OBVIOUS
  <1> HIDE DEF part
  <1> QED
    BY <1>1, <1>2, <1>3 DEF Buckets

-----------------------------------------------------------------------------
(* The theorems                                                            *)

\* Every amount of an epoch that is not given up fits the code's integers, and
\* only identities of units are scored, paid and committed.
THEOREM TypeCorrect == Spec => []TypeOK
  <1>1. EpochInv => TypeOK
    <2> SUFFICES ASSUME EpochInv PROVE TypeOK
      OBVIOUS
    <2>1. UnitsInv /\ SumsInv /\ ScoresInv /\ MoneyInv /\ BudgetsInv
      BY DEF EpochInv
    <2>2. ASSUME NEW b \in Buckets
          PROVE  /\ DOMAIN raw[b] \subseteq Ids /\ raw[b] \in [DOMAIN raw[b] -> 0..MaxU128]
                 /\ DOMAIN scores[b] \subseteq Ids
                 /\ scores[b] \in [DOMAIN scores[b] -> 0..MaxU128]
                 /\ budget[b] \in 0..MaxU128
      BY <2>1 DEF SumsInv, ScoresInv, BudgetsInv
    <2>3. ASSUME NEW b \in Buckets
          PROVE  /\ DOMAIN payouts[b] \subseteq Ids
                 /\ payouts[b] \in [DOMAIN payouts[b] -> 0..MaxU128]
      <3>1. /\ DOMAIN payouts[b] \subseteq DOMAIN scores[b]
            /\ \A id \in DOMAIN payouts[b] : payouts[b][id] \in 0..budget[b]
            /\ payouts[b] = [id \in DOMAIN payouts[b] |-> payouts[b][id]]
        BY PaidFacts
      <3>2. \A id \in DOMAIN payouts[b] : payouts[b][id] \in 0..MaxU128
        BY <2>2, <3>1
      <3> QED
        BY <2>2, <3>1, <3>2
    <2>4. DOMAIN committed \subseteq Ids /\ committed \in [DOMAIN committed -> 0..MaxU128]
      <3>1. CASE committed = Nothing
        BY <3>1 DEF Nothing
      <3>2. CASE committed = Merged /\ Fits(SumFunction(Merged))
        <4>1. /\ DOMAIN Merged = Scored
              /\ \A id \in Scored :
                    Merged[id] = (IF id \in DOMAIN scores["organic"]
                                  THEN scores["organic"][id] ELSE 0)
                                 + (IF id \in DOMAIN scores["challenge"]
                                    THEN scores["challenge"][id] ELSE 0)
          BY MergedFacts
        <4>2. Scored \subseteq Ids
          BY <2>2 DEF Scored, Buckets
        <4>3. \A id : /\ id \in DOMAIN scores["organic"] => scores["organic"][id] \in Nat
                      /\ id \in DOMAIN scores["challenge"] => scores["challenge"][id] \in Nat
          BY <2>2 DEF Buckets
        <4>4. \A id \in Scored : Merged[id] \in Nat
          BY <4>1, <4>3
        <4>5. Merged = [id \in Scored |-> Merged[id]]
          BY DEF Merged
        <4>6. IsFiniteSet(Scored)
          BY <4>2, UnitsFacts, IdsAreFinite, FS_Subset DEF EpochInv
        <4>7. SumFunctionOnSet(Merged, Scored) \in Nat
              /\ SumFunctionOnSet(Merged, Scored) <= MaxU128
          BY <3>2, <4>1, <4>4, <4>6, SumIsNat DEF Fits, SumFunction
        <4>8. \A id \in Scored : Merged[id] \in 0..MaxU128
          <5> TAKE id \in Scored
          <5>1. Merged[id] <= SumFunctionOnSet(Merged, Scored)
            BY <4>4, <4>6, SumBoundsElement
          <5> QED
            BY <4>4, <4>7, <5>1
        <4> QED
          BY <3>2, <4>1, <4>2, <4>5, <4>8
      <3> QED
        BY <3>1, <3>2 DEF EpochInv, CommittedInv
    <2> QED
      BY <2>1, <2>2, <2>3, <2>4 DEF TypeOK, UnitsInv, MoneyInv
  <1> QED
    BY <1>1, EpochAlways, PTL

\* The units that are scored are those of the input and one for each settlement,
\* valued at its price or by the rate card: none is skipped or repaired.
THEOREM EverySettlementIsScored == Spec => []NothingIsSkipped
  <1>1. EpochInv => NothingIsSkipped
    <2> SUFFICES ASSUME EpochInv, stage \notin {"attribute", "error"}
                 PROVE  NothingIsSkipped!2
      BY DEF NothingIsSkipped
    <2>1. /\ data \in EpochDatas /\ rateCard \in RateCards
          /\ AreValued(units, data, rateCard)
      BY DEF EpochInv, UnitsInv, Valued, AreValued
    <2>2. NoneIsSkipped(units, data, rateCard)
      BY <2>1, ValuedFacts
    <2>3. ASSUME NEW settlement, Converts(settlement, rateCard),
                 NEW unit, unit = SettledWorkUnit(settlement, rateCard)
          PROVE  /\ unit.price = settlement.price
                 /\ unit.identity = settlement.earner
                 /\ unit.value # settlement.price =>
                       /\ settlement.work.version = rateCard.version
                       /\ unit.value = settlement.work.amount
                                       * rateCard.prices[settlement.work.class]
      BY <2>3 DEF SettledWorkUnit, AttributedValue, Converts
    <2> QED
      BY <2>2, <2>3 DEF NoneIsSkipped
  <1> QED
    BY <1>1, EpochAlways, PTL

\* The sums, and the epochs that overflow, do not depend on the order in which
\* the units are listed.
THEOREM SumsDoNotDependOnTheOrder == Spec => []SumsAreOrderFree
  <1>1. EpochInv => SumsAreOrderFree
    <2> SUFFICES ASSUME EpochInv PROVE SumsAreOrderFree
      OBVIOUS
    <2>1. SumsInv /\ OverflowInv
      BY DEF EpochInv
    <2>2. ASSUME pending = {}, NEW b \in Buckets
          PROVE  raw[b] = [id \in {j \in Ids : UnitsOf(b, j) # {}} |-> SumOf(b, id)]
      <3>1. \A id : Reached(b, id) = UnitsOf(b, id)
        BY <2>2 DEF Reached
      <3>2. /\ DOMAIN raw[b] = {id \in Ids : UnitsOf(b, id) # {}}
            /\ raw[b] \in [DOMAIN raw[b] -> 0..MaxU128]
            /\ \A id \in DOMAIN raw[b] : raw[b][id] = SumOf(b, id)
        BY <2>1, <3>1, ScoreSum DEF SumsInv
      <3> QED
        BY <3>2
    <2>3. ASSUME stage = "error", pending # {}
          PROVE  \/ \E i \in DOMAIN units : ~Fits(UnitBase(units[i]))
                 \/ \E b \in Buckets, id \in Ids : ~Fits(SumOf(b, id))
      BY <2>1, <2>3, ScoreSum DEF OverflowInv
    <2> QED
      BY <2>2, <2>3 DEF SumsAreOrderFree
  <1> QED
    BY <1>1, EpochAlways, PTL

\* An epoch creates at most k percent of what consumers settled and the
\* cold-start floor, and organic work keeps all but the challenge share.
THEOREM EmissionNeedsDemand == Spec => []EmissionIsDemandGated
  <1>1. EpochInv => EmissionIsDemandGated
    <2> SUFFICES ASSUME EpochInv PROVE EmissionIsDemandGated
      OBVIOUS
    <2> DEFINE paid == Paid("organic") + Paid("challenge")
    <2>1. /\ Demand \in Nat /\ kPercent \in Nat /\ organicValue \in Nat /\ pool \in Nat
          /\ organicValue <= Demand
          /\ pool * Percent <= organicValue * kPercent
      BY DemandFacts
    <2>2. /\ budget["organic"] \in Nat /\ budget["challenge"] \in Nat
          /\ budget["organic"] + budget["challenge"] <= pool + ColdStartFloor
          /\ stage \in Paying => budget["organic"] >= pool - PoolShare(pool)
      BY SplitFacts
    <2>3. paid \in Nat /\ paid <= pool + ColdStartFloor
      <3>1. Paid("organic") \in 0..budget["organic"]
        BY PaidFacts DEF Buckets
      <3>2. Paid("challenge") \in 0..budget["challenge"]
        BY PaidFacts DEF Buckets
      <3> QED
        BY <2>1, <2>2, <3>1, <3>2
    <2> HIDE DEF paid
    <2>4. /\ paid * Percent \in Nat /\ pool * Percent \in Nat /\ ColdStartFloor * Percent \in Nat
          /\ paid * Percent <= pool * Percent + ColdStartFloor * Percent
      <3>1. ColdStartFloor \in Nat /\ pool + ColdStartFloor \in Nat
        BY <2>1
      <3>2. paid * Percent <= (pool + ColdStartFloor) * Percent
        BY <2>3, <3>1, Monotone
      <3>3. (pool + ColdStartFloor) * Percent = pool * Percent + ColdStartFloor * Percent
        BY <2>1, <3>1, Distribute
      <3>4. /\ paid * Percent \in Nat /\ pool * Percent \in Nat
            /\ ColdStartFloor * Percent \in Nat
        BY <2>1, <2>3, <3>1, Product
      <3> QED
        BY <3>2, <3>3, <3>4
    <2>5. organicValue * kPercent <= Demand * kPercent
      BY <2>1, Monotone
    <2>6. paid * Percent <= Demand * kPercent + ColdStartFloor * Percent
      <3>1. organicValue * kPercent \in Nat /\ Demand * kPercent \in Nat
        BY <2>1, Product
      <3> QED
        BY <2>1, <2>3, <2>4, <2>5, <3>1
    <2> QED
      BY <2>2, <2>6 DEF EmissionIsDemandGated, Paying, paid
  <1> QED
    BY <1>1, EpochAlways, PTL

\* Demand that reaches an earner from inside one control domain creates nothing:
\* the pool is at most k percent of the demand for the others.
THEOREM WashDemandIsWorthless == Spec => []WashDemandMintsNothing
  <1>1. EpochInv => WashDemandMintsNothing
    <2> SUFFICES ASSUME EpochInv PROVE WashDemandMintsNothing
      OBVIOUS
    <2> DEFINE W == {id \in Ids : \E d, e \in PayerDomains(id) : d # e}
    <2>1. /\ UnitsOK(units) /\ MoneyInv
          /\ IsFiniteSet(DOMAIN units) /\ \A i \in DOMAIN units : units[i].price \in Nat
      BY UnitsFacts DEF EpochInv, UnitsOK
    <2>2. ASSUME NEW earner \in OrganicEarners(units), earner \notin W
          PROVE  EarnerValue(SettledByPayer(units, earner)) = 0
      <3> DEFINE settled == SettledByPayer(units, earner)
      <3>1. /\ IsFiniteSet(DOMAIN settled)
            /\ \A d \in DOMAIN settled :
                  settled[d] \in Nat /\ OrganicFrom(units, earner, d) # {}
        BY <2>1, SettledFacts
      <3>2. earner \in Ids
        BY DEF OrganicEarners, Ids
      <3>3. \A d, e \in PayerDomains(earner) : d = e
        BY <2>2, <3>2
      <3> HIDE DEF settled, W
      <3>4. \A d \in DOMAIN settled : d \in PayerDomains(earner)
        BY <3>1 DEF OrganicFrom, PayerDomains
      <3>5. EarnerValue(settled) = 0
        BY <3>1, <3>3, <3>4, OneDomainIsWorthless
      <3> QED
        BY <3>5 DEF settled
    <2>3. OpenDemand = SumFunctionOnSet(Price(units), OrganicIn(units, W))
      <3>1. OrganicIn(units, W) \in SUBSET DOMAIN units
        BY DEF OrganicIn
      <3>2. OrganicIn(units, W) =
               {i \in DOMAIN units : /\ IsOrganic(units[i])
                                     /\ \E d, e \in PayerDomains(units[i].identity) : d # e}
        BY DEF OrganicIn, Ids
      <3>3. OpenDemand = MapThenSumSet(LAMBDA i : units[i].price, OrganicIn(units, W))
        BY <3>2, Zenon DEF OpenDemand
      <3> QED
        BY <3>1, <3>3, PriceSum
    <2> HIDE DEF W
    <2>4. OpenDemand \in Nat /\ organicValue <= OpenDemand
      <3>1. /\ OrganicSettledValue(units) <= OpenDemand /\ OpenDemand \in Nat
        BY <2>1, <2>2, <2>3, ValueOfEarners
      <3> QED
        BY <2>1, <3>1 DEF MoneyInv
    <2>5. /\ kPercent \in Nat /\ organicValue \in Nat /\ pool \in Nat
          /\ pool * Percent <= organicValue * kPercent
      BY DemandFacts
    <2>6. pool * Percent <= OpenDemand * kPercent
      <3>1. organicValue * kPercent <= OpenDemand * kPercent
        BY <2>4, <2>5, Monotone
      <3>2. /\ pool * Percent \in Nat /\ organicValue * kPercent \in Nat
            /\ OpenDemand * kPercent \in Nat
        BY <2>4, <2>5, Product
      <3> QED
        BY <2>5, <3>1, <3>2
    <2>7. /\ budget["organic"] \in Nat /\ budget["organic"] <= pool
          /\ budget["challenge"] \in Nat
          /\ budget["organic"] + budget["challenge"] <= pool + ColdStartFloor
      BY SplitFacts
    <2>8. Paid("organic") \in 0..budget["organic"]
      BY PaidFacts DEF Buckets
    <2>9. Paid("challenge") \in 0..budget["challenge"]
      BY PaidFacts DEF Buckets
    <2>10. Paid("organic") <= pool /\ Paid("organic") + Paid("challenge") <= pool + ColdStartFloor
      BY <2>5, <2>7, <2>8, <2>9
    <2> QED
      BY <2>6, <2>10 DEF WashDemandMintsNothing
  <1> QED
    BY <1>1, EpochAlways, PTL

\* Inside a control domain, who scores no less is paid no less.
THEOREM PaymentsKeepTheOrder == Spec => []FairWithinDomain
  <1>1. EpochInv => FairWithinDomain
    BY PaidFacts DEF FairWithinDomain
  <1> QED
    BY <1>1, EpochAlways, PTL

\* The committed scores add up to the scores both buckets are allocated by, and
\* cover everyone who is paid.
THEOREM CommitmentCoversPayouts == Spec => []PaidIsCommitted
  <1>1. EpochInv => PaidIsCommitted
    <2> SUFFICES ASSUME EpochInv, stage = "done" PROVE PaidIsCommitted!2
      BY DEF PaidIsCommitted
    <2> DEFINE part(b) == [id \in Scored |-> IF id \in DOMAIN scores[b] THEN scores[b][id]
                                             ELSE 0]
    <2>1. committed = Merged /\ SumsInv /\ ScoresInv /\ UnitsOK(units)
      BY UnitsFacts DEF EpochInv, CommittedInv
    <2>2. IsFiniteSet(Scored)
      <3>1. Scored \subseteq Ids
        BY <2>1 DEF SumsInv, Scored, Buckets
      <3> QED
        BY <2>1, <3>1, IdsAreFinite, FS_Subset
    <2>3. ASSUME NEW b \in Buckets
          PROVE  /\ DOMAIN scores[b] \in SUBSET Scored
                 /\ \A id \in DOMAIN scores[b] : scores[b][id] \in Nat
      BY <2>1 DEF ScoresInv, Scored, Buckets
    <2>4. ASSUME NEW b \in Buckets
          PROVE  /\ \A id \in Scored : part(b)[id] \in Nat
                 /\ SumFunctionOnSet(part(b), Scored) = SumFunction(scores[b])
      <3>1. \A id \in Scored : part(b)[id] = IF id \in DOMAIN scores[b] THEN scores[b][id]
                                             ELSE 0
        OBVIOUS
      <3>2. \A id \in Scored : part(b)[id] \in Nat
        BY <2>3
      <3> HIDE DEF part
      <3> QED
        BY <2>2, <2>3, <3>1, <3>2, SumOfExtension DEF SumFunction
    <2>5. /\ DOMAIN Merged = Scored
          /\ \A id \in Scored : Merged[id] = part("organic")[id] + part("challenge")[id]
      BY MergedFacts
    <2>6. SumFunction(committed)
             = SumFunction(scores["organic"]) + SumFunction(scores["challenge"])
      <3>1. /\ \A id \in Scored : part("organic")[id] \in Nat /\ part("challenge")[id] \in Nat
            /\ SumFunctionOnSet(part("organic"), Scored) = SumFunction(scores["organic"])
            /\ SumFunctionOnSet(part("challenge"), Scored) = SumFunction(scores["challenge"])
        BY <2>4 DEF Buckets
      <3> HIDE DEF part
      <3>2. SumFunctionOnSet(Merged, Scored)
               = SumFunctionOnSet(part("organic"), Scored)
                 + SumFunctionOnSet(part("challenge"), Scored)
        BY <2>2, <2>5, <3>1, SumOfSums
      <3>3. SumFunction(committed) = SumFunctionOnSet(Merged, Scored)
        BY <2>1, <2>5 DEF SumFunction
      <3> QED
        BY <3>1, <3>2, <3>3
    <2>7. ASSUME NEW b \in Buckets, NEW id \in DOMAIN payouts[b], payouts[b][id] > 0
          PROVE  id \in DOMAIN committed /\ committed[id] >= scores[b][id]
      <3>1. id \in DOMAIN scores[b] /\ id \in Scored
        BY <2>3, PaidFacts
      <3>2. part(b)[id] = scores[b][id]
        BY <3>1
      <3>3. part("organic")[id] \in Nat /\ part("challenge")[id] \in Nat
        BY <2>4, <3>1 DEF Buckets
      <3>4. b = "organic" \/ b = "challenge"
        BY DEF Buckets
      <3> HIDE DEF part
      <3>5. part("organic")[id] + part("challenge")[id] >= scores[b][id]
        BY <3>2, <3>3, <3>4
      <3> QED
        BY <2>1, <2>5, <3>1, <3>5
    <2> QED
      BY <2>6, <2>7
  <1> QED
    BY <1>1, EpochAlways, PTL
=============================================================================
