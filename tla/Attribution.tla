----------------------------- MODULE Attribution -----------------------------
(***************************************************************************)
(* The valuation of settlements whose receipts carry a work attribution:   *)
(* WorkAttribution::to_settled_work_unit (crates/aipow-types) and          *)
(* EpochData::valued_units (crates/aipow-indexer).                         *)
(***************************************************************************)
EXTENDS Integers, Sequences

CONSTANTS
    MaxU64,            \* u64::MAX, a small number here
    RateCardVersion,   \* vocabulary::RATE_CARD_VERSION
    DefaultClass,      \* vocabulary::DEFAULT_CLASS
    ClassUnits,        \* vocabulary::CLASS_UNITS: class -> billing unit
    Err                \* Result::Err(AttributionError)

ASSUME AttributionAssumption ==
    /\ MaxU64 \in Nat
    /\ DefaultClass \in DOMAIN ClassUnits

\* rate_card_value of an attribution that Converts.
AttributedValue(settlement, card) ==
    IF settlement.work.class = DefaultClass THEN settlement.price
    ELSE settlement.work.amount * card.prices[settlement.work.class]

\* The checks of to_settled_work_unit.
Converts(settlement, card) ==
    LET work == settlement.work
    IN  /\ work.version = RateCardVersion /\ card.version = RateCardVersion
        /\ work.class \in DOMAIN ClassUnits
        /\ work.unit = ClassUnits[work.class]
        /\ work.commitmentsParse
        /\ work.class # DefaultClass => work.class \in DOMAIN card.prices
        /\ AttributedValue(settlement, card) <= MaxU64

\* The settled work unit of a settlement that Converts.
SettledWorkUnit(settlement, card) ==
    [identity |-> settlement.earner, payer |-> settlement.payer,
     value |-> AttributedValue(settlement, card), price |-> settlement.price,
     evidence |-> settlement.work.evidence,
     challenge |-> settlement.work.challenge, related |-> FALSE]

\* Mutant: what does not convert is skipped.
MutantValuedUnits(units, attributed, card) ==
    LET valued == SelectSeq(attributed, LAMBDA s : Converts(s, card))
    IN  units \o [k \in DOMAIN valued |-> SettledWorkUnit(valued[k], card)]

\* valued_units: the units that have a value, and one for each settlement; or
\* Err, if a settlement does not convert.
ValuedUnits(units, attributed, card) ==
    IF \A k \in DOMAIN attributed : Converts(attributed[k], card)
    THEN units \o [k \in DOMAIN attributed |-> SettledWorkUnit(attributed[k], card)]
    ELSE Err
=============================================================================
