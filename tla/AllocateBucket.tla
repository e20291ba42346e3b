--------------------------- MODULE AllocateBucket ---------------------------
(***************************************************************************)
(* allocate_bucket (crates/aipow-score/src/lib.rs), loop by loop: the sum  *)
(* of the scores, the pro-rata shares, the totals per control domain, and  *)
(* the scaling of the domains above their cap.  The entries are 1..Entries *)
(* in identity order.                                                      *)
(*                                                                         *)
(* A running sum of the code is a function here that keeps its value after *)
(* each turn of its loop: sumTo[k] is `total` after k scores.  paidTo and  *)
(* takenTo, the running sums of what is paid, are history variables.       *)
(***************************************************************************)
EXTENDS Scoring

CONSTANTS
    Entries,       \* how many scores the bucket has
    Domains,       \* the control domains of the entries
    Scores,        \* the inputs: the scores an entry may have
    Budgets,       \* the inputs: the budgets
    IdentityCaps   \* the inputs: the per-identity caps, NoCap included

ASSUME AllocateAssumption ==
    /\ Entries \in Nat
    /\ Scores \subseteq Nat
    /\ Budgets \subseteq Nat
    /\ IdentityCaps \subseteq Nat \cup {NoCap}

VARIABLES
    budget, scores, dom, identityCap,   \* the arguments
    phase,      \* the loop that runs
    i,          \* the turns it has done
    sumTo,      \* k -> the sum of the first k scores
    shares,     \* entry -> its pro-rata share
    shareTo,    \* k -> the sum of the first k shares
    domainTo,   \* domain -> k -> the domain's sum of the first k shares
    amounts,    \* entry -> what it is paid
    paidTo,     \* k -> the sum of the first k amounts
    takenTo     \* domain -> k -> the domain's sum of the first k amounts

args == <<budget, scores, dom, identityCap>>
vars == <<args, phase, i, sumTo, shares, shareTo, domainTo, amounts, paidTo, takenTo>>

Entry == 1..Entries
Turns == 0..Entries
Zeroes == [k \in Turns |-> 0]

TypeOK ==
    /\ budget \in Nat
    /\ scores \in [Entry -> Nat]
    /\ dom \in [Entry -> Domains]
    /\ identityCap \in Nat \cup {NoCap}
    /\ phase \in {"sum", "share", "domain", "scale", "done", "error"}
    /\ i \in Turns
    /\ sumTo \in [Turns -> Nat]
    /\ shares \in [Entry -> Nat]
    /\ shareTo \in [Turns -> Nat]
    /\ domainTo \in [Domains -> [Turns -> Nat]]
    /\ amounts \in [Entry -> Nat]
    /\ paidTo \in [Turns -> Nat]
    /\ takenTo \in [Domains -> [Turns -> Nat]]

Init ==
    /\ budget \in Budgets
    /\ scores \in [Entry -> Scores]
    /\ dom \in [Entry -> Domains]
    /\ identityCap \in IdentityCaps
    /\ phase = "sum"
    /\ i = 0
    /\ sumTo = Zeroes
    /\ shares = [e \in Entry |-> 0]
    /\ shareTo = Zeroes
    /\ domainTo = [d \in Domains |-> Zeroes]
    /\ amounts = [e \in Entry |-> 0]
    /\ paidTo = Zeroes
    /\ takenTo = [d \in Domains |-> Zeroes]

Fits(x) == x <= MaxU128

\* A checked operation fails: the call returns Overflow.
Abort ==
    /\ phase' = "error"
    /\ UNCHANGED <<args, i, sumTo, shares, shareTo, domainTo, amounts, paidTo, takenTo>>

total == sumTo[Entries]
capAmount == CapAmount(budget)
domainTotal(d) == domainTo[d][Entries]

\* The sum over a domain, one entry further.
FurtherBy(sums, x) ==
    [d \in Domains |->
        [sums[d] EXCEPT ![i + 1] = sums[d][i] + (IF dom[i + 1] = d THEN x ELSE 0)]]

-----------------------------------------------------------------------------
SumTurn ==
    /\ phase = "sum" /\ i < Entries
    /\ Fits(sumTo[i] + scores[i + 1])
    /\ sumTo' = [sumTo EXCEPT ![i + 1] = sumTo[i] + scores[i + 1]]
    /\ i' = i + 1
    /\ UNCHANGED <<args, phase, shares, shareTo, domainTo, amounts, paidTo, takenTo>>

SumOverflow ==
    /\ phase = "sum" /\ i < Entries
    /\ ~Fits(sumTo[i] + scores[i + 1])
    /\ Abort

\* Nothing to share out: every amount is zero.
EarlyReturn ==
    /\ phase = "sum" /\ i = Entries
    /\ total = 0 \/ budget = 0
    /\ phase' = "done"
    /\ UNCHANGED <<args, i, sumTo, shares, shareTo, domainTo, amounts, paidTo, takenTo>>

StartShares ==
    /\ phase = "sum" /\ i = Entries
    /\ total # 0 /\ budget # 0
    /\ phase' = "share"
    /\ i' = 0
    /\ UNCHANGED <<args, sumTo, shares, shareTo, domainTo, amounts, paidTo, takenTo>>

Capped(x) == IF identityCap = NoCap THEN x ELSE Least(x, identityCap)

\* Mutants: the identity cap is left out; shares are rounded up; the division
\* comes first.
MutantShareUncapped(e) == (budget * scores[e]) \div total
MutantShareRoundsUp(e) == Capped((budget * scores[e] + total - 1) \div total)
MutantShareDividesFirst(e) == Capped((budget \div total) * scores[e])

Share(e) == Capped((budget * scores[e]) \div total)

ShareTurn ==
    /\ phase = "share" /\ i < Entries
    /\ Fits(budget * scores[i + 1])
    /\ shares' = [shares EXCEPT ![i + 1] = Share(i + 1)]
    /\ shareTo' = [shareTo EXCEPT ![i + 1] = shareTo[i] + Share(i + 1)]
    /\ i' = i + 1
    /\ UNCHANGED <<args, phase, sumTo, domainTo, amounts, paidTo, takenTo>>

ShareOverflow ==
    /\ phase = "share" /\ i < Entries
    /\ ~Fits(budget * scores[i + 1])
    /\ Abort

StartDomains ==
    /\ phase = "share" /\ i = Entries
    /\ Fits(budget * PayoutCapShareBps)
    /\ phase' = "domain"
    /\ i' = 0
    /\ UNCHANGED <<args, sumTo, shares, shareTo, domainTo, amounts, paidTo, takenTo>>

CapOverflow ==
    /\ phase = "share" /\ i = Entries
    /\ ~Fits(budget * PayoutCapShareBps)
    /\ Abort

\* (checked_add of the shares of a domain: they add up to the budget at most.)
DomainTurn ==
    /\ phase = "domain" /\ i < Entries
    /\ domainTo' = FurtherBy(domainTo, shares[i + 1])
    /\ i' = i + 1
    /\ UNCHANGED <<args, phase, sumTo, shares, shareTo, amounts, paidTo, takenTo>>

StartScaling ==
    /\ phase = "domain" /\ i = Entries
    /\ phase' = "scale"
    /\ i' = 0
    /\ UNCHANGED <<args, sumTo, shares, shareTo, domainTo, amounts, paidTo, takenTo>>

\* Mutant: the cap is per entry.
MutantOverCap(e) == shares[e] > capAmount

OverCap(e) == domainTotal(dom[e]) > capAmount

\* Mutant: every member gives up all of the excess.
MutantScaled(e) == shares[e] - (domainTotal(dom[e]) - capAmount)

Scaled(e) == (shares[e] * capAmount) \div domainTotal(dom[e])

\* The amount of the next entry is x.
PayNext(x) ==
    /\ amounts' = [amounts EXCEPT ![i + 1] = x]
    /\ paidTo' = [paidTo EXCEPT ![i + 1] = paidTo[i] + x]
    /\ takenTo' = FurtherBy(takenTo, x)
    /\ i' = i + 1
    /\ UNCHANGED <<args, phase, sumTo, shares, shareTo, domainTo>>

ScaleDown ==
    /\ phase = "scale" /\ i < Entries
    /\ OverCap(i + 1)
    /\ Fits(shares[i + 1] * capAmount)
    /\ PayNext(Scaled(i + 1))

KeepShare ==
    /\ phase = "scale" /\ i < Entries
    /\ ~OverCap(i + 1)
    /\ PayNext(shares[i + 1])

ScaleOverflow ==
    /\ phase = "scale" /\ i < Entries
    /\ OverCap(i + 1)
    /\ ~Fits(shares[i + 1] * capAmount)
    /\ Abort

Return ==
    /\ phase = "scale" /\ i = Entries
    /\ phase' = "done"
    /\ UNCHANGED <<args, i, sumTo, shares, shareTo, domainTo, amounts, paidTo, takenTo>>

Next ==
    \/ SumTurn \/ SumOverflow \/ EarlyReturn
    \/ StartShares \/ ShareTurn \/ ShareOverflow
    \/ StartDomains \/ CapOverflow \/ DomainTurn
    \/ StartScaling \/ ScaleDown \/ KeepShare \/ ScaleOverflow
    \/ Return

Spec == Init /\ [][Next]_vars

-----------------------------------------------------------------------------
\* The loops compute what Scoring says the allocation is, and give up exactly
\* where one of its products does not fit.
LoopsComputeAllocation ==
    /\ phase = "done" => amounts = Allocation(budget, scores, dom, identityCap)
    /\ phase = "done" => Fits(AllocationPeak(budget, scores, dom, identityCap))
    /\ phase = "error" => ~Fits(AllocationPeak(budget, scores, dom, identityCap))

\* No more than the budget is paid.
NeverOverspends == paidTo[i] <= budget

\* No control domain is paid more than its cap.
DomainsAreCapped ==
    phase = "done" => \A d \in Domains : takenTo[d][Entries] <= capAmount

\* Rounding loses less than one unit per entry: when no cap bites, all the
\* budget is paid but for that dust.
OnlyDustIsLost ==
    (/\ phase = "done" /\ total > 0 /\ budget > 0
     /\ identityCap = NoCap
     /\ \A e \in Entry : ~OverCap(e))
    => paidTo[Entries] > budget - Entries

\* Splitting one's work over more identities gains nothing in a bucket without
\* an identity cap: what a domain is paid is at most what one identity that
\* had all of the domain's score would be paid.
SplittingGainsNothing ==
    phase = "done" /\ identityCap = NoCap /\ total > 0 =>
        \A d \in Domains :
            LET own == {e \in Entry : dom[e] = d}
                one == (budget * SumFunctionOnSet(scores, own)) \div total
            IN  takenTo[d][Entries] <= Least(one, capAmount)

-----------------------------------------------------------------------------
(* The invariants the proofs of AllocateBucketProofs go through            *)

\* Nothing is paid before the last loop.
NothingPaidYet ==
    phase \in {"sum", "share", "domain"} =>
        /\ paidTo = Zeroes
        /\ takenTo = [d \in Domains |-> Zeroes]

\* The running sums over the first n entries.
SummedTo(n) ==
    /\ sumTo[0] = 0
    /\ \A k \in 1..n : sumTo[k] = sumTo[k - 1] + scores[k]
    /\ \A k \in 0..n : sumTo[k] <= sumTo[n]

SharedTo(n) ==
    /\ shareTo[0] = 0
    /\ \A k \in 1..n : shareTo[k] = shareTo[k - 1] + shares[k]
    /\ \A k \in 0..n : shareTo[k] <= budget /\ shareTo[k] * total <= budget * sumTo[k]

DividedTo(n) ==
    \A d \in Domains :
        /\ domainTo[d][0] = 0
        /\ \A k \in 1..n :
              domainTo[d][k] = domainTo[d][k - 1] + (IF dom[k] = d THEN shares[k] ELSE 0)

\* What a loop has computed in full is what the later ones rely on.
LoopInv ==
    /\ phase = "sum" => SummedTo(i) /\ SharedTo(0) /\ DividedTo(0)
    /\ phase \in {"share", "domain", "scale"} => SummedTo(Entries) /\ total > 0
    /\ phase = "share" => SharedTo(i) /\ DividedTo(0)
    /\ phase = "domain" => SharedTo(Entries) /\ DividedTo(i)
    /\ phase = "scale" => SharedTo(Entries) /\ DividedTo(Entries)

\* An entry is paid its share at most, and a domain that is scaled down has of
\* its cap at most the part that its shares so far are of all its shares.
PaidFromShares ==
    phase = "scale" =>
        /\ \A k \in 0..i : paidTo[k] <= shareTo[k]
        /\ \A d \in Domains : \A k \in 0..i :
              IF domainTotal(d) > capAmount
              THEN takenTo[d][k] * domainTotal(d) <= capAmount * domainTo[d][k]
              ELSE takenTo[d][k] <= domainTo[d][k]

AllocInv ==
    /\ TypeOK
    /\ NothingPaidYet
    /\ LoopInv
    /\ PaidFromShares
    /\ \A k \in Turns : paidTo[k] <= budget
    /\ DomainsAreCapped

\* Without an identity cap an entry's share is less than one short of what is
\* due to it exactly, and an entry whose domain is within its cap gets its share.
DustInv ==
    /\ AllocInv
    /\ identityCap = NoCap /\ phase \in {"share", "domain", "scale"} =>
          \A k \in 1..(IF phase = "share" THEN i ELSE Entries) :
              (shareTo[k] + k) * total > budget * sumTo[k]
    /\ phase = "scale" /\ (\A e \in Entry : ~OverCap(e)) =>
          \A k \in 0..i : paidTo[k] = shareTo[k]
    /\ OnlyDustIsLost
=============================================================================
