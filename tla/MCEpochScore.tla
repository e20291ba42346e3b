---------------------------- MODULE MCEpochScore ----------------------------
(* Small epochs for TLC: two earners of one domain and one of their own,    *)
(* two payers of one domain and one of their own.                           *)
EXTENDS EpochScore

CONSTANTS a, b, c, p, q, r, Da, Dp

MCDomainMap == [id \in {a, b, p, q} |-> IF id \in {a, b} THEN Da ELSE Dp]

Work(id, payer, value, price, evidence, kind) ==
    [identity |-> id, payer |-> payer, value |-> value, price |-> price,
     evidence |-> evidence, challenge |-> kind = "challenge",
     related |-> kind = "related"]

UnitChoices ==
    << Work(a, p, 40, 30, "Observed", "organic"),
       Work(a, r, 20, 20, "Replicated", "organic"),
       Work(b, q, 10, 20, "Attested", "organic"),
       Work(b, r, 7, 5, "Observed", "organic"),
       Work(c, p, 30, 30, "Benchmarked", "organic"),
       Work(c, r, 9, 50, "Audited", "organic"),
       Work(c, q, 30, 30, "Declared", "organic"),
       Work(a, r, 12, 15, "Observed", "challenge"),
       Work(b, p, 30, 30, "Observed", "challenge"),
       Work(c, p, 25, 20, "Audited", "challenge"),
       Work(b, a, 30, 30, "Observed", "organic"),
       Work(c, r, 30, 30, "Observed", "related"),
       Work(b, r, 24, 60, "Replicated", "organic") >>

History(success, disputes, breaches) ==
    [success |-> success, disputes |-> disputes, breaches |-> breaches]

NoHistories == [id \in {} |-> NoHistory]

Reliabilities ==
    {NoHistories,
     [id \in {a, c} |-> IF id = a THEN History(10, 0, 0) ELSE History(6, 3, 0)],
     [id \in {b} |-> History(10, 11, 0)]}

\* The machine takes the units in any order, so a list in one order is enough.
UnitLists ==
    {<<>>} \cup
    UNION {{[i \in 1..n |-> UnitChoices[f[i]]] :
              f \in {g \in [1..n -> DOMAIN UnitChoices] :
                       \A i \in 1..(n - 1) : g[i] <= g[i + 1]}} : n \in 1..3}

\* Amounts for which a checked operation of each stage overflows, or just does
\* not: a unit, the value of an earner's settlements, the challenge budget, ...
LargeUnits ==
    << Work(c, p, 1000, 1000, "Observed", "organic"),
       Work(c, r, 1000, 1000, "Replicated", "challenge"),
       Work(b, p, 300, 300, "Observed", "organic"),
       Work(b, r, 300, 300, "Observed", "organic"),
       Work(a, p, 30, 700, "Observed", "organic"),
       Work(a, r, 30, 700, "Observed", "organic") >>

\* ... an identity's sum, which ten of its eleven units fill up, ...
OneIdentity ==
    [i \in 1..12 |-> Work(IF i = 1 THEN b ELSE c, r, 1000, 1000, "Observed", "organic")]

\* ... and the sum of both buckets, each of which still fits.
BothBuckets ==
    LET earner == <<a, b, c, p, q, r>>
        one(i, kind) == Work(earner[i], IF earner[i] = r THEN c ELSE r, 1000, 1000,
                             "Observed", kind)
    IN  [i \in 1..12 |-> IF i <= 6 THEN one(i, "organic") ELSE one(i - 6, "challenge")]

LargeLists ==
    {<<LargeUnits[i]>> : i \in DOMAIN LargeUnits}
    \cup {<<LargeUnits[i], LargeUnits[j], UnitChoices[1]>> : i, j \in DOMAIN LargeUnits}
    \cup {OneIdentity, BothBuckets}

Attributed(earner, payer, price, class, amount, challenge) ==
    [earner |-> earner, payer |-> payer, price |-> price,
     work |-> [class |-> class, unit |-> IF class = "text" THEN "tokens" ELSE "nanotos",
               amount |-> amount, version |-> "v0", evidence |-> "Observed",
               commitmentsParse |-> TRUE, challenge |-> challenge]]

Good == {Attributed(a, p, 30, "default", 1, FALSE),
         Attributed(b, r, 20, "text", 3, FALSE),
         Attributed(c, r, 10, "text", 9, TRUE)}

\* One settlement for each error of to_settled_work_unit.
Bad == LET good == Attributed(a, r, 20, "text", 3, FALSE)
       IN  {[good EXCEPT !.work.version = "v1"],
            [good EXCEPT !.work.class = "poetry"],
            [good EXCEPT !.work.class = "image", !.work.unit = "nanotos"],
            [good EXCEPT !.work.unit = "image"],
            [good EXCEPT !.work.commitmentsParse = FALSE],
            [good EXCEPT !.work.amount = 201]}

SettlementLists == {<<x>> : x \in Good \cup Bad} \cup {<<x, y>> : x, y \in Good \cup Bad}

MCClassUnits == [class \in {"default", "text", "image"} |->
                    IF class = "text" THEN "tokens" ELSE "nanotos"]

Card(version) == [version |-> version, prices |-> [class \in {"text"} |-> 5]]

MCRateCards == {Card("v0")}

Data(us, attributed, reliability) ==
    [units |-> us, attributed |-> attributed, reliability |-> reliability]

MCEpochDatas ==
    {Data(us, <<>>, h) : us \in UnitLists, h \in Reliabilities}
    \cup {Data(us, <<>>, NoHistories) : us \in LargeLists}
    \cup {Data(us, l, NoHistories) :
             us \in {<<>>, <<UnitChoices[1], UnitChoices[2]>>}, l \in SettlementLists}

MCScheduleCaps == {60, 120, 400}
MCKPercents == {8, 30, 300}
=============================================================================
