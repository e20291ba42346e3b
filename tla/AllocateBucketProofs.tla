------------------------ MODULE AllocateBucketProofs ------------------------
(* What holds of allocate_bucket for every value of its constants.          *)
EXTENDS AllocateBucket, ScoringProofs

USE ScoringAssumption, AllocateAssumption

-----------------------------------------------------------------------------
(* Types                                                                   *)

\* The domain's cap and an entry's two candidate amounts are naturals.
LEMMA ShareIsNat ==
    ASSUME TypeOK, total > 0, NEW e \in Entry
    PROVE  /\ Share(e) \in Nat
           /\ Share(e) * total <= budget * scores[e]
  <1> DEFINE exact == (budget * scores[e]) \div total
  <1>1. total \in Nat
    BY DEF total, TypeOK, Turns
  <1>2. budget * scores[e] \in Nat
    BY Product DEF TypeOK
  <1>3. exact \in Nat /\ exact * total <= budget * scores[e]
    BY <1>1, <1>2, Quotient
  <1>4. Share(e) \in Nat /\ Share(e) <= exact
    BY <1>3 DEF Share, Capped, Least, TypeOK
  <1>5. Share(e) * total <= exact * total
    BY <1>1, <1>3, <1>4, Monotone
  <1>6. Share(e) * total \in Nat /\ exact * total \in Nat
    BY <1>1, <1>3, <1>4, Product
  <1> QED
    BY <1>2, <1>3, <1>4, <1>5, <1>6

LEMMA ScaledIsNat ==
    ASSUME TypeOK, NEW e \in Entry, OverCap(e)
    PROVE  /\ Scaled(e) \in Nat
           /\ Scaled(e) <= shares[e]
           /\ Scaled(e) * domainTotal(dom[e]) <= capAmount * shares[e]
  <1> DEFINE D == domainTotal(dom[e])
  <1>1. D \in Nat /\ capAmount \in Nat /\ D > capAmount /\ shares[e] \in Nat
    <2>1. Entries \in Turns /\ dom[e] \in Domains /\ shares[e] \in Nat
      BY DEF TypeOK, Turns
    <2>2. domainTo[dom[e]] \in [Turns -> Nat]
      BY <2>1 DEF TypeOK
    <2>3. D \in Nat
      BY <2>1, <2>2 DEF domainTotal
    <2> QED
      BY <2>1, <2>3, CapIsNat DEF OverCap, capAmount, TypeOK
  <1>2. shares[e] * capAmount \in Nat
    BY <1>1, Product
  <1>3. Scaled(e) \in Nat /\ Scaled(e) * D <= shares[e] * capAmount
    BY <1>1, <1>2, Quotient DEF Scaled
  <1>4. shares[e] * capAmount <= shares[e] * D
    BY <1>1, Monotone
  <1>5. Scaled(e) * D \in Nat /\ shares[e] * D \in Nat
    BY <1>1, <1>3, Product
  <1>6. Scaled(e) <= shares[e]
    <2>1. Scaled(e) * D <= shares[e] * D
      BY <1>2, <1>3, <1>4, <1>5
    <2> QED
      BY <1>1, <1>3, <2>1, Cancel
  <1>7. shares[e] * capAmount = capAmount * shares[e]
    BY <1>1
  <1> QED
    BY <1>3, <1>6, <1>7

\* A loop that is not over has an entry to go on with.
LEMMA TurnFacts ==
    ASSUME TypeOK, i < Entries
    PROVE  i \in Nat /\ i \in Turns /\ i + 1 \in Turns /\ i + 1 \in Entry
  BY DEF TypeOK, Turns, Entry

\* FurtherBy changes the sums at the next turn only.
LEMMA FurtherFacts ==
    ASSUME TypeOK, i < Entries, NEW x \in Nat,
           NEW sums \in [Domains -> [Turns -> Nat]]
    PROVE  /\ FurtherBy(sums, x) \in [Domains -> [Turns -> Nat]]
           /\ \A d \in Domains :
                 /\ \A k \in Turns : k # i + 1 => FurtherBy(sums, x)[d][k] = sums[d][k]
                 /\ FurtherBy(sums, x)[d][i + 1] =
                       sums[d][i] + (IF dom[i + 1] = d THEN x ELSE 0)
  <1>1. i \in Turns /\ i + 1 \in Turns
    BY DEF TypeOK, Turns
  <1>2. \A d \in Domains : sums[d] \in [Turns -> Nat]
    OBVIOUS
  <1>3. \A d \in Domains : sums[d][i] + (IF dom[i + 1] = d THEN x ELSE 0) \in Nat
    BY <1>1, <1>2
  <1> QED
    BY <1>1, <1>2, <1>3 DEF FurtherBy

\* What type correctness needs to be inductive: shares are divided by the total.
TypeInv ==
    /\ TypeOK
    /\ phase = "share" => total > 0

LEMMA TypeInit == Init => TypeInv
  <1> SUFFICES ASSUME Init PROVE TypeInv
    OBVIOUS
  <1>1. Zeroes \in [Turns -> Nat] /\ 0 \in Turns
    BY DEF Zeroes, Turns
  <1>2. scores \in [Entry -> Nat]
    BY DEF Init
  <1>3. [d \in Domains |-> Zeroes] \in [Domains -> [Turns -> Nat]]
    BY <1>1
  <1> QED
    BY <1>1, <1>2, <1>3 DEF Init, TypeInv, TypeOK

LEMMA TypeStep == TypeInv /\ [Next]_vars => TypeInv'
  <1> SUFFICES ASSUME TypeInv, [Next]_vars PROVE TypeInv'
    OBVIOUS
  <1>0. TypeOK /\ 0 \in Turns
    BY DEF TypeInv, Turns
  <1>1. CASE SumTurn
    <2>1. i \in Turns /\ i + 1 \in Turns /\ i + 1 \in Entry
      BY <1>0, <1>1, TurnFacts DEF SumTurn
    <2>2. sumTo[i] + scores[i + 1] \in Nat
      BY <1>0, <2>1 DEF TypeOK
    <2> QED
      BY <1>1, <2>1, <2>2 DEF SumTurn, TypeInv, TypeOK, args
  <1>2. CASE SumOverflow \/ ShareOverflow \/ CapOverflow \/ ScaleOverflow
    BY <1>2 DEF SumOverflow, ShareOverflow, CapOverflow, ScaleOverflow, Abort, TypeInv,
       TypeOK, args
  <1>3. CASE EarlyReturn \/ Return
    BY <1>3 DEF EarlyReturn, Return, TypeInv, TypeOK, args
  <1>4. CASE StartShares
    <2>1. total \in Nat
      BY <1>0 DEF total, TypeOK, Turns
    <2> QED
      BY <1>0, <1>4, <2>1 DEF StartShares, TypeInv, TypeOK, args, total
  <1>5. CASE ShareTurn
    <2>1. i + 1 \in Turns /\ i + 1 \in Entry
      BY <1>0, <1>5 DEF ShareTurn, Turns, Entry, TypeOK
    <2>2. Share(i + 1) \in Nat
      BY <1>0, <1>5, <2>1, ShareIsNat DEF ShareTurn, TypeInv
    <2>3. shareTo[i] + Share(i + 1) \in Nat
      BY <1>0, <2>2 DEF TypeOK
    <2> QED
      BY <1>5, <2>1, <2>2, <2>3 DEF ShareTurn, TypeInv, TypeOK, args, total
  <1>6. CASE StartDomains \/ StartScaling
    BY <1>0, <1>6 DEF StartDomains, StartScaling, TypeInv, TypeOK, args
  <1>7. CASE DomainTurn
    <2>1. i + 1 \in Turns /\ i + 1 \in Entry /\ shares[i + 1] \in Nat
      BY <1>0, <1>7 DEF DomainTurn, TypeOK, Turns, Entry
    <2>2. FurtherBy(domainTo, shares[i + 1]) \in [Domains -> [Turns -> Nat]]
      BY <1>0, <1>7, <2>1, FurtherFacts DEF DomainTurn, TypeOK
    <2> QED
      BY <1>7, <2>1, <2>2 DEF DomainTurn, TypeInv, TypeOK, args
  <1>8. ASSUME NEW x \in Nat, phase = "scale", i < Entries, PayNext(x)
        PROVE  TypeInv'
    <2>1. i + 1 \in Turns /\ i + 1 \in Entry /\ paidTo[i] + x \in Nat
      BY <1>0, <1>8 DEF TypeOK, Turns, Entry
    <2>2. FurtherBy(takenTo, x) \in [Domains -> [Turns -> Nat]]
      BY <1>0, <1>8, FurtherFacts DEF TypeOK
    <2> QED
      BY <1>8, <2>1, <2>2 DEF PayNext, TypeInv, TypeOK, args
  <1>9. CASE ScaleDown
    <2>1. i + 1 \in Entry
      BY <1>0, <1>9 DEF ScaleDown, TypeOK, Turns, Entry
    <2> QED
      BY <1>0, <1>8, <1>9, <2>1, ScaledIsNat DEF ScaleDown
  <1>10. CASE KeepShare
    <2>1. i + 1 \in Entry
      BY <1>0, <1>10 DEF KeepShare, TypeOK, Turns, Entry
    <2> QED
      BY <1>0, <1>8, <1>10, <2>1 DEF KeepShare, TypeOK
  <1>11. CASE UNCHANGED vars
    BY <1>11 DEF vars, args, TypeInv, TypeOK, total
  <1> QED
    BY <1>1, <1>2, <1>3, <1>4, <1>5, <1>6, <1>7, <1>9, <1>10, <1>11 DEF Next

\* All values of allocate_bucket stay naturals in every loop: it never divides by
\* zero, neither by the total of the scores nor by a domain's.
THEOREM TypeCorrect == Spec => []TypeOK
  <1>1. TypeInv => TypeOK
    BY DEF TypeInv
  <1> QED
    BY <1>1, TypeInit, TypeStep, PTL DEF Spec

-----------------------------------------------------------------------------
(* The invariant                                                           *)

LEMMA AllocInit == Init => AllocInv
  <1> SUFFICES ASSUME Init PROVE AllocInv
    OBVIOUS
  <1>1. TypeOK
    BY TypeInit DEF TypeInv
  <1>2. 0 \in Turns /\ \A k \in Turns : Zeroes[k] = 0
    BY DEF Turns, Zeroes
  <1>3. total \in Nat /\ 0 * total = 0 /\ budget * 0 = 0 /\ budget >= 0
    BY <1>1 DEF total, TypeOK, Turns
  <1>4. SummedTo(0) /\ SharedTo(0) /\ DividedTo(0)
    BY <1>2, <1>3 DEF Init, SummedTo, SharedTo, DividedTo
  <1>5. LoopInv
    BY <1>4 DEF Init, LoopInv
  <1> QED
    BY <1>1, <1>2, <1>3, <1>5 DEF Init, AllocInv, NothingPaidYet, PaidFromShares,
       DomainsAreCapped

LEMMA SumTurnKeeps == AllocInv /\ TypeOK' /\ SumTurn => AllocInv'
  <1> SUFFICES ASSUME AllocInv, TypeOK', SumTurn PROVE AllocInv'
    OBVIOUS
  <1>1. TypeOK /\ phase = "sum" /\ phase' = "sum" /\ i' = i + 1 /\ i < Entries
    BY DEF AllocInv, SumTurn
  <1>2. SummedTo(i) /\ SharedTo(0) /\ DividedTo(0)
    BY <1>1 DEF AllocInv, LoopInv
  <1>3. i \in Turns /\ i + 1 \in Turns /\ i \in Nat
    BY <1>1, TurnFacts
  <1>4. /\ sumTo'[i + 1] = sumTo[i] + scores[i + 1]
        /\ \A k \in Turns : k # i + 1 => sumTo'[k] = sumTo[k]
    BY <1>1, <1>3 DEF SumTurn, TypeOK
  <1>5. sumTo[i] \in Nat /\ scores[i + 1] \in Nat
    BY <1>1, <1>3, TurnFacts DEF TypeOK
  <1>6. SummedTo(i)'
    <2>1. sumTo'[0] = 0
      BY <1>2, <1>3, <1>4 DEF SummedTo, Turns
    <2>2. ASSUME NEW k \in 1..(i + 1) PROVE sumTo'[k] = sumTo'[k - 1] + scores[k]
      <3>1. k \in Turns /\ k - 1 \in Turns /\ k - 1 # i + 1
        BY <1>3 DEF Turns
      <3> QED
        BY <1>2, <1>3, <1>4, <3>1 DEF SummedTo
    <2>3. ASSUME NEW k \in 0..(i + 1) PROVE sumTo'[k] <= sumTo'[i + 1]
      <3>1. CASE k = i + 1
        BY <1>4, <1>5, <3>1
      <3>2. CASE k \in 0..i
        <4>1. k \in Turns /\ k # i + 1
          BY <1>3, <3>2 DEF Turns
        <4>2. sumTo[k] \in Nat /\ sumTo[k] <= sumTo[i]
          BY <1>1, <1>2, <3>2, <4>1 DEF SummedTo, TypeOK
        <4> QED
          BY <1>4, <1>5, <4>1, <4>2
      <3> QED
        BY <1>3, <3>1, <3>2
    <2> QED
      BY <1>1, <2>1, <2>2, <2>3 DEF SummedTo, SumTurn, args
  <1>7. SharedTo(0)' /\ DividedTo(0)'
    <2>1. sumTo'[0] = 0 /\ shareTo'[0] = 0
      BY <1>2, <1>3, <1>4 DEF SharedTo, SummedTo, SumTurn, Turns
    <2>2. total' \in Nat /\ budget' \in Nat
      BY DEF total, TypeOK, Turns
    <2> QED
      BY <1>2, <2>1, <2>2 DEF SharedTo, DividedTo, SumTurn, args
  <1> QED
    BY <1>1, <1>6, <1>7 DEF AllocInv, SumTurn, LoopInv, NothingPaidYet, PaidFromShares,
       DomainsAreCapped, args

LEMMA ShareTurnKeeps == AllocInv /\ TypeOK' /\ ShareTurn => AllocInv'
  <1> SUFFICES ASSUME AllocInv, TypeOK', ShareTurn PROVE AllocInv'
    OBVIOUS
  <1> DEFINE S == Share(i + 1)
  <1>1. /\ TypeOK /\ phase = "share" /\ phase' = "share" /\ i' = i + 1 /\ i < Entries
        /\ total > 0 /\ SummedTo(Entries) /\ SharedTo(i) /\ DividedTo(0)
    BY DEF AllocInv, LoopInv, ShareTurn
  <1>2. i \in Nat /\ i \in Turns /\ i + 1 \in Turns /\ i + 1 \in Entry
    BY <1>1, TurnFacts
  <1>3. S \in Nat /\ S * total <= budget * scores[i + 1]
    BY <1>1, <1>2, ShareIsNat
  <1>4. /\ shareTo'[i + 1] = shareTo[i] + S
        /\ \A k \in Turns : k # i + 1 => shareTo'[k] = shareTo[k]
        /\ shares'[i + 1] = S
        /\ \A k \in Entry : k # i + 1 => shares'[k] = shares[k]
    BY <1>1, <1>2 DEF ShareTurn, TypeOK
  <1>5. total' = total /\ sumTo' = sumTo /\ budget' = budget /\ scores' = scores
    BY DEF ShareTurn, args, total
  <1>6. /\ shareTo[i] \in Nat /\ sumTo[i] \in Nat /\ total \in Nat /\ budget \in Nat
        /\ scores[i + 1] \in Nat /\ sumTo[i + 1] \in Nat
    BY <1>1, <1>2 DEF TypeOK, total, Turns
  <1>7. sumTo[i + 1] = sumTo[i] + scores[i + 1] /\ sumTo[i + 1] <= total
    BY <1>1, <1>2 DEF SummedTo, total, Turns, Entry
  <1>8. (shareTo[i] + S) * total <= budget * sumTo[i + 1]
    <2>1. shareTo[i] * total <= budget * sumTo[i]
      BY <1>1, <1>2 DEF SharedTo
    <2>2. (shareTo[i] + S) * total = shareTo[i] * total + S * total
      BY <1>3, <1>6, Distribute
    <2>3. budget * sumTo[i + 1] = budget * sumTo[i] + budget * scores[i + 1]
      BY <1>6, <1>7, Distribute
    <2>4. /\ shareTo[i] * total \in Nat /\ S * total \in Nat
          /\ budget * sumTo[i] \in Nat /\ budget * scores[i + 1] \in Nat
      BY <1>3, <1>6, Product
    <2> QED
      BY <1>3, <2>1, <2>2, <2>3, <2>4
  <1>9. shareTo[i] + S <= budget
    <2>1. budget * sumTo[i + 1] <= budget * total
      BY <1>6, <1>7, Monotone
    <2>2. /\ (shareTo[i] + S) * total \in Nat
          /\ budget * sumTo[i + 1] \in Nat /\ budget * total \in Nat
      BY <1>3, <1>6, Product
    <2>3. (shareTo[i] + S) * total <= budget * total
      BY <1>8, <2>1, <2>2
    <2> QED
      BY <1>1, <1>3, <1>6, <2>3, Cancel
  <1>10. SharedTo(i)'
    <2>1. shareTo'[0] = 0
      BY <1>1, <1>2, <1>4 DEF SharedTo, Turns
    <2>2. ASSUME NEW k \in 1..(i + 1)
          PROVE  shareTo'[k] = shareTo'[k - 1] + shares'[k]
      <3>1. k \in Turns /\ k - 1 \in Turns /\ k - 1 # i + 1 /\ k \in Entry
        BY <1>2 DEF Turns, Entry
      <3> QED
        BY <1>1, <1>2, <1>4, <3>1 DEF SharedTo
    <2>3. ASSUME NEW k \in 0..(i + 1)
          PROVE  shareTo'[k] <= budget /\ shareTo'[k] * total <= budget * sumTo[k]
      <3>1. CASE k = i + 1
        BY <1>4, <1>8, <1>9, <3>1
      <3>2. CASE k \in 0..i
        <4>1. k \in Turns /\ k # i + 1
          BY <1>2, <3>2 DEF Turns
        <4> QED
          BY <1>1, <1>4, <3>2, <4>1 DEF SharedTo
      <3> QED
        BY <1>2, <3>1, <3>2
    <2> QED
      BY <1>1, <1>5, <2>1, <2>2, <2>3 DEF SharedTo
  <1>11. SummedTo(Entries)' /\ DividedTo(0)'
    BY <1>1, <1>5 DEF SummedTo, DividedTo, ShareTurn
  <1> QED
    BY <1>1, <1>5, <1>10, <1>11 DEF AllocInv, ShareTurn, LoopInv, NothingPaidYet,
       PaidFromShares, DomainsAreCapped, args

LEMMA DomainTurnKeeps == AllocInv /\ TypeOK' /\ DomainTurn => AllocInv'
  <1> SUFFICES ASSUME AllocInv, TypeOK', DomainTurn PROVE AllocInv'
    OBVIOUS
  <1>1. /\ TypeOK /\ phase = "domain" /\ phase' = "domain" /\ i' = i + 1 /\ i < Entries
        /\ total > 0 /\ SummedTo(Entries) /\ SharedTo(Entries) /\ DividedTo(i)
    BY DEF AllocInv, LoopInv, DomainTurn
  <1>2. i \in Nat /\ i + 1 \in Turns /\ i + 1 \in Entry /\ shares[i + 1] \in Nat
    BY <1>1, TurnFacts DEF TypeOK
  <1>3. \A d \in Domains :
           /\ \A k \in Turns : k # i + 1 => domainTo'[d][k] = domainTo[d][k]
           /\ domainTo'[d][i + 1] =
                 domainTo[d][i] + (IF dom[i + 1] = d THEN shares[i + 1] ELSE 0)
    <2>1. domainTo \in [Domains -> [Turns -> Nat]]
      BY <1>1 DEF TypeOK
    <2>2. domainTo' = FurtherBy(domainTo, shares[i + 1])
      BY DEF DomainTurn
    <2> QED
      BY <1>1, <1>2, <2>1, <2>2, FurtherFacts
  <1>4. DividedTo(i)'
    <2>1. ASSUME NEW d \in Domains PROVE domainTo'[d][0] = 0
      BY <1>1, <1>2, <1>3 DEF DividedTo, Turns
    <2>2. ASSUME NEW d \in Domains, NEW k \in 1..(i + 1)
          PROVE  domainTo'[d][k] =
                    domainTo'[d][k - 1] + (IF dom[k] = d THEN shares[k] ELSE 0)
      <3>1. k \in Turns /\ k - 1 \in Turns /\ k - 1 # i + 1
        BY <1>2 DEF Turns
      <3>2. domainTo'[d][k - 1] = domainTo[d][k - 1]
        BY <1>3, <3>1
      <3>3. CASE k = i + 1
        BY <1>2, <1>3, <3>2, <3>3
      <3>4. CASE k \in 1..i
        BY <1>1, <1>2, <1>3, <3>1, <3>2, <3>4 DEF DividedTo
      <3> QED
        BY <1>2, <3>3, <3>4
    <2> QED
      BY <1>1, <2>1, <2>2 DEF DividedTo, DomainTurn, args
  <1>5. SummedTo(Entries)' /\ SharedTo(Entries)' /\ total' > 0
    BY <1>1 DEF SummedTo, SharedTo, DomainTurn, args, total
  <1> QED
    BY <1>1, <1>4, <1>5 DEF AllocInv, DomainTurn, LoopInv, NothingPaidYet,
       PaidFromShares, DomainsAreCapped, args

\* A turn of the last loop, whichever amount it pays.
LEMMA PayKeeps ==
    ASSUME AllocInv, TypeOK', phase = "scale", i < Entries,
           NEW x \in Nat, PayNext(x),
           x <= shares[i + 1],
           OverCap(i + 1) => x * domainTotal(dom[i + 1]) <= capAmount * shares[i + 1]
    PROVE  AllocInv'
  <1>1. /\ TypeOK /\ phase' = "scale" /\ i' = i + 1
        /\ total > 0 /\ SummedTo(Entries) /\ SharedTo(Entries) /\ DividedTo(Entries)
    BY DEF AllocInv, LoopInv, PayNext
  <1>2. i \in Nat /\ i \in Turns /\ i + 1 \in Turns /\ i + 1 \in Entry
    BY <1>1, TurnFacts
  <1>3. /\ paidTo'[i + 1] = paidTo[i] + x
        /\ \A k \in Turns : k # i + 1 => paidTo'[k] = paidTo[k]
    BY <1>1, <1>2 DEF PayNext, TypeOK
  <1>4. \A d \in Domains :
           /\ \A k \in Turns : k # i + 1 => takenTo'[d][k] = takenTo[d][k]
           /\ takenTo'[d][i + 1] = takenTo[d][i] + (IF dom[i + 1] = d THEN x ELSE 0)
    <2>1. takenTo \in [Domains -> [Turns -> Nat]] /\ takenTo' = FurtherBy(takenTo, x)
      BY <1>1 DEF PayNext, TypeOK
    <2> QED
      BY <1>1, <2>1, FurtherFacts
  <1>5. paidTo[i] + x <= shareTo[i + 1] /\ paidTo[i] + x <= budget
    <2>1. paidTo[i] <= shareTo[i]
      BY <1>2 DEF AllocInv, PaidFromShares
    <2>2. shareTo[i + 1] = shareTo[i] + shares[i + 1] /\ shareTo[i + 1] <= budget
      BY <1>1, <1>2 DEF SharedTo, Turns, Entry
    <2>3. /\ paidTo[i] \in Nat /\ shareTo[i] \in Nat /\ shares[i + 1] \in Nat
          /\ shareTo[i + 1] \in Nat /\ budget \in Nat
      BY <1>1, <1>2 DEF TypeOK
    <2> QED
      BY <2>1, <2>2, <2>3
  <1>6. ASSUME NEW k \in 0..(i + 1) PROVE paidTo'[k] <= shareTo[k]
    <2>1. CASE k = i + 1
      BY <1>3, <1>5, <2>1
    <2>2. CASE k \in 0..i
      <3>1. k \in Turns /\ k # i + 1
        BY <1>2, <2>2 DEF Turns
      <3> QED
        BY <1>3, <2>2, <3>1 DEF AllocInv, PaidFromShares
    <2> QED
      BY <1>2, <2>1, <2>2
  <1>7. ASSUME NEW k \in Turns PROVE paidTo'[k] <= budget
    BY <1>3, <1>5 DEF AllocInv
  <1>8. ASSUME NEW d \in Domains, NEW k \in 0..(i + 1)
        PROVE  IF domainTotal(d) > capAmount
               THEN takenTo'[d][k] * domainTotal(d) <= capAmount * domainTo[d][k]
               ELSE takenTo'[d][k] <= domainTo[d][k]
    <2> DEFINE D == domainTotal(d)
               T == takenTo[d][i]
               P == domainTo[d][i]
               X == shares[i + 1]
    <2>1. \A j \in 0..i : IF D > capAmount
                          THEN takenTo[d][j] * D <= capAmount * domainTo[d][j]
                          ELSE takenTo[d][j] <= domainTo[d][j]
      BY DEF AllocInv, PaidFromShares
    <2>2. CASE k \in 0..i
      <3>1. k \in Turns /\ k # i + 1
        BY <1>2, <2>2 DEF Turns
      <3> QED
        BY <1>4, <2>1, <2>2, <3>1
    <2>3. CASE k = i + 1
      <3>1. T \in Nat /\ P \in Nat /\ D \in Nat /\ X \in Nat /\ capAmount \in Nat
        <4>1. takenTo[d] \in [Turns -> Nat] /\ domainTo[d] \in [Turns -> Nat]
          BY <1>1 DEF TypeOK
        <4>2. Entries \in Turns /\ X \in Nat
          BY <1>1, <1>2 DEF Turns, TypeOK
        <4> QED
          BY <1>1, <1>2, <4>1, <4>2, CapIsNat DEF domainTotal, capAmount, TypeOK
      <3>2. domainTo[d][i + 1] = P + (IF dom[i + 1] = d THEN X ELSE 0)
        BY <1>1, <1>2 DEF DividedTo, Entry
      <3>3. i \in 0..i
        BY <1>2
      <3>4. CASE dom[i + 1] # d
        <4>1. takenTo'[d][i + 1] = T /\ domainTo[d][i + 1] = P
          BY <1>4, <3>1, <3>2, <3>4
        <4> QED
          BY <2>1, <2>3, <3>3, <4>1
      <3>5. CASE dom[i + 1] = d
        <4>1. takenTo'[d][i + 1] = T + x /\ domainTo[d][i + 1] = P + X
          BY <1>4, <3>2, <3>5
        <4>2. CASE D > capAmount
          <5>1. T * D <= capAmount * P /\ x * D <= capAmount * X
            BY <2>1, <3>3, <3>5, <4>2 DEF OverCap
          <5>2. /\ (T + x) * D = T * D + x * D
                /\ capAmount * (P + X) = capAmount * P + capAmount * X
            BY <3>1, Distribute
          <5>3. /\ T * D \in Nat /\ x * D \in Nat
                /\ capAmount * P \in Nat /\ capAmount * X \in Nat
            BY <3>1, Product
          <5>4. (T + x) * D <= capAmount * (P + X)
            BY <5>1, <5>2, <5>3
          <5> QED
            BY <2>3, <4>1, <4>2, <5>4
        <4>3. CASE ~(D > capAmount)
          <5>1. T <= P
            BY <2>1, <3>3, <4>3
          <5>2. T + x <= P + X
            BY <3>1, <5>1
          <5> QED
            BY <2>3, <4>1, <4>3, <5>2
        <4> QED
          BY <4>2, <4>3
      <3> QED
        BY <3>4, <3>5
    <2> QED
      BY <1>2, <2>2, <2>3
  <1>9. /\ budget' = budget /\ shareTo' = shareTo /\ domainTo' = domainTo
        /\ total' = total /\ capAmount' = capAmount
        /\ \A d \in Domains : domainTotal(d)' = domainTotal(d)
    BY DEF PayNext, args, total, capAmount, domainTotal, CapAmount, ApplyBps
  <1>10. PaidFromShares'
    BY <1>1, <1>6, <1>8, <1>9 DEF PaidFromShares, domainTotal
  <1>11. SummedTo(Entries)' /\ SharedTo(Entries)' /\ DividedTo(Entries)'
    BY <1>1 DEF SummedTo, SharedTo, DividedTo, PayNext, args, total
  <1> QED
    BY <1>1, <1>7, <1>9, <1>10, <1>11 DEF AllocInv, LoopInv, NothingPaidYet,
       DomainsAreCapped

LEMMA AllocStep == AllocInv /\ [Next]_vars => AllocInv'
  <1> SUFFICES ASSUME AllocInv, [Next]_vars PROVE AllocInv'
    OBVIOUS
  <1>1. TypeInv /\ TypeOK
    BY DEF AllocInv, LoopInv, TypeInv
  <1>2. TypeOK'
    BY <1>1, TypeStep DEF TypeInv
  <1>3. CASE SumTurn
    BY <1>2, <1>3, SumTurnKeeps
  <1>4. CASE SumOverflow \/ ShareOverflow \/ CapOverflow \/ ScaleOverflow
    BY <1>2, <1>4 DEF SumOverflow, ShareOverflow, CapOverflow, ScaleOverflow, Abort,
       AllocInv, NothingPaidYet, LoopInv, PaidFromShares, DomainsAreCapped, args
  <1>5. CASE EarlyReturn
    <2>1. \A d \in Domains : takenTo'[d][Entries] = 0
      BY <1>5 DEF EarlyReturn, AllocInv, NothingPaidYet, Zeroes, Turns
    <2>2. capAmount' \in Nat
      BY <1>2, CapIsNat DEF capAmount, TypeOK
    <2>3. DomainsAreCapped'
      BY <2>1, <2>2 DEF DomainsAreCapped
    <2> QED
      BY <1>2, <1>5, <2>3 DEF EarlyReturn, AllocInv, NothingPaidYet, LoopInv,
         PaidFromShares, args
  <1>6. CASE StartShares
    <2>1. SummedTo(Entries) /\ SharedTo(0) /\ DividedTo(0)
      BY <1>6 DEF StartShares, AllocInv, LoopInv
    <2>2. total \in Nat /\ total # 0
      BY <1>1, <1>6 DEF StartShares, total, TypeOK, Turns
    <2>3. SummedTo(Entries)' /\ SharedTo(0)' /\ DividedTo(0)' /\ total' > 0
      BY <1>6, <2>1, <2>2 DEF StartShares, SummedTo, SharedTo, DividedTo, args, total
    <2> QED
      BY <1>2, <1>6, <2>3 DEF StartShares, AllocInv, NothingPaidYet, LoopInv,
         PaidFromShares, DomainsAreCapped, SharedTo, DividedTo, args
  <1>7. CASE ShareTurn
    BY <1>2, <1>7, ShareTurnKeeps
  <1>8. CASE StartDomains
    <2>1. SummedTo(Entries) /\ SharedTo(Entries) /\ DividedTo(0) /\ total > 0
      BY <1>8 DEF StartDomains, AllocInv, LoopInv
    <2>2. SummedTo(Entries)' /\ SharedTo(Entries)' /\ DividedTo(0)' /\ total' > 0
      BY <1>8, <2>1 DEF StartDomains, SummedTo, SharedTo, DividedTo, args, total
    <2> QED
      BY <1>2, <1>8, <2>2 DEF StartDomains, AllocInv, NothingPaidYet, LoopInv,
         PaidFromShares, DomainsAreCapped, DividedTo, args
  <1>9. CASE DomainTurn
    BY <1>2, <1>9, DomainTurnKeeps
  <1>10. CASE StartScaling
    <2>1. SummedTo(Entries) /\ SharedTo(Entries) /\ DividedTo(Entries) /\ total > 0
      BY <1>10 DEF StartScaling, AllocInv, LoopInv
    <2>2. /\ SummedTo(Entries)' /\ SharedTo(Entries)' /\ DividedTo(Entries)'
          /\ total' > 0
      BY <1>10, <2>1 DEF StartScaling, SummedTo, SharedTo, DividedTo, args, total
    <2>3. PaidFromShares'
      <3>1. paidTo'[0] = 0 /\ \A d \in Domains : takenTo'[d][0] = 0
        BY <1>10 DEF StartScaling, AllocInv, NothingPaidYet, Zeroes, Turns
      <3>2. shareTo'[0] = 0 /\ \A d \in Domains : domainTo'[d][0] = 0
        BY <2>2 DEF SharedTo, DividedTo
      <3>3. capAmount' \in Nat /\ \A d \in Domains : domainTotal(d)' \in Nat
        <4>1. Entries \in Turns
          BY DEF Turns
        <4> QED
          BY <1>2, <4>1, CapIsNat DEF domainTotal, capAmount, TypeOK
      <3> QED
        BY <1>10, <3>1, <3>2, <3>3 DEF StartScaling, PaidFromShares, domainTotal
    <2> QED
      BY <1>2, <1>10, <2>2, <2>3 DEF StartScaling, AllocInv, NothingPaidYet, LoopInv,
         DomainsAreCapped, args
  <1>11. CASE ScaleDown
    <2>1. phase = "scale" /\ i < Entries /\ OverCap(i + 1) /\ PayNext(Scaled(i + 1))
      BY <1>11 DEF ScaleDown
    <2>2. i + 1 \in Entry
      BY <1>1, <2>1, TurnFacts
    <2> QED
      BY <1>1, <1>2, <2>1, <2>2, ScaledIsNat, PayKeeps
  <1>12. CASE KeepShare
    <2>1. phase = "scale" /\ i < Entries /\ ~OverCap(i + 1) /\ PayNext(shares[i + 1])
      BY <1>12 DEF KeepShare
    <2>2. shares[i + 1] \in Nat
      BY <1>1, <2>1, TurnFacts DEF TypeOK
    <2> QED
      BY <1>2, <2>1, <2>2, PayKeeps
  <1>13. CASE Return
    <2>1. ASSUME NEW d \in Domains PROVE takenTo[d][Entries] <= capAmount
      <3> DEFINE D == domainTotal(d)
                 T == takenTo[d][Entries]
      <3>1. IF D > capAmount THEN T * D <= capAmount * D ELSE T <= D
        BY <1>13 DEF Return, AllocInv, PaidFromShares, domainTotal
      <3>2. T \in Nat /\ D \in Nat /\ capAmount \in Nat
        <4>1. Entries \in Turns /\ takenTo[d] \in [Turns -> Nat]
              /\ domainTo[d] \in [Turns -> Nat]
          <5>1. Entries \in Turns
            BY DEF Turns
          <5>2. /\ takenTo \in [Domains -> [Turns -> Nat]]
                /\ domainTo \in [Domains -> [Turns -> Nat]]
            BY <1>1 DEF TypeOK
          <5> QED
            BY <5>1, <5>2
        <4>2. budget \in Nat
          BY <1>1 DEF TypeOK
        <4>3. capAmount \in Nat
          BY <4>2, CapIsNat DEF capAmount
        <4> QED
          BY <4>1, <4>3 DEF domainTotal
      <3>3. CASE D > capAmount
        <4>1. D > 0
          BY <3>2, <3>3
        <4> QED
          BY <3>1, <3>2, <3>3, <4>1, Cancel
      <3> QED
        BY <3>1, <3>2, <3>3
    <2>2. DomainsAreCapped'
      BY <1>13, <2>1 DEF Return, DomainsAreCapped, args, capAmount
    <2> QED
      BY <1>2, <1>13, <2>2 DEF Return, AllocInv, NothingPaidYet, LoopInv,
         PaidFromShares, args
  <1>14. CASE UNCHANGED vars
    <2>1. UNCHANGED <<args, phase, i, sumTo, shares, shareTo, domainTo, amounts,
                      paidTo, takenTo, total, capAmount>>
      BY <1>14 DEF vars, args, total, capAmount
    <2> QED
      BY <1>2, <1>14, <2>1 DEF vars, args, AllocInv, NothingPaidYet, LoopInv, SummedTo,
         SharedTo, DividedTo, PaidFromShares, DomainsAreCapped, domainTotal
  <1> QED
    BY <1>3, <1>4, <1>5, <1>6, <1>7, <1>8, <1>9, <1>10, <1>11, <1>12, <1>13, <1>14
       DEF Next

\* allocate_bucket never pays more than its budget, whatever the scores, the
\* domains and the caps are, and wherever it gives up.
THEOREM WithinBudget == Spec => []NeverOverspends
  <1>1. AllocInv => NeverOverspends
    BY DEF AllocInv, NeverOverspends, TypeOK
  <1> QED
    BY <1>1, AllocInit, AllocStep, PTL DEF Spec

\* No control domain is paid more than its cap, however many entries it has.
THEOREM WithinDomainCaps == Spec => []DomainsAreCapped
  <1>1. AllocInv => DomainsAreCapped
    BY DEF AllocInv
  <1> QED
    BY <1>1, AllocInit, AllocStep, PTL DEF Spec

-----------------------------------------------------------------------------
(* What rounding loses                                                     *)

LEMMA ShareIsDue ==
    ASSUME TypeOK, total > 0, identityCap = NoCap, NEW e \in Entry
    PROVE  (Share(e) + 1) * total > budget * scores[e]
  <1>1. total \in Nat
    BY DEF total, TypeOK, Turns
  <1>2. budget * scores[e] \in Nat
    BY Product DEF TypeOK
  <1> QED
    BY <1>1, <1>2, Floor DEF Share, Capped

LEMMA DustShareTurn == DustInv /\ AllocInv' /\ ShareTurn => DustInv'
  <1> SUFFICES ASSUME DustInv, AllocInv', ShareTurn, identityCap = NoCap,
                      NEW k \in 1..(i + 1)
               PROVE  (shareTo'[k] + k) * total > budget * sumTo[k]
    BY DEF DustInv, ShareTurn, OnlyDustIsLost, args, total
  <1> DEFINE S == Share(i + 1)
  <1>1. /\ TypeOK /\ phase = "share" /\ i < Entries /\ total > 0
        /\ SummedTo(Entries) /\ SharedTo(i)
    BY DEF DustInv, AllocInv, LoopInv, ShareTurn
  <1>2. i \in Nat /\ i \in Turns /\ i + 1 \in Turns /\ i + 1 \in Entry
    BY <1>1, TurnFacts
  <1>3. /\ shareTo'[i + 1] = shareTo[i] + S
        /\ \A j \in Turns : j # i + 1 => shareTo'[j] = shareTo[j]
    BY <1>1, <1>2 DEF ShareTurn, TypeOK
  <1>4. CASE k \in 1..i
    <2>1. k \in Turns /\ k # i + 1
      BY <1>2, <1>4 DEF Turns
    <2> QED
      BY <1>1, <1>3, <1>4, <2>1 DEF DustInv
  <1>5. CASE k = i + 1
    <2>1. /\ shareTo[i] \in Nat /\ sumTo[i] \in Nat /\ budget \in Nat
          /\ scores[i + 1] \in Nat /\ sumTo[i + 1] \in Nat
      BY <1>1, <1>2 DEF TypeOK
    <2>2. total \in Nat
      BY <1>1 DEF TypeOK, total, Turns
    <2>3. S \in Nat /\ (S + 1) * total > budget * scores[i + 1]
      BY <1>1, <1>2, ShareIsNat, ShareIsDue
    <2>4. (shareTo[i] + i) * total >= budget * sumTo[i]
      <3>1. CASE i = 0
        <4>1. shareTo[i] + i = 0 /\ sumTo[i] = 0
          BY <1>1, <3>1 DEF SharedTo, SummedTo
        <4> QED
          BY <2>1, <2>2, <4>1
      <3>2. CASE i > 0
        <4>1. i \in 1..i
          BY <1>2, <3>2
        <4>2. (shareTo[i] + i) * total > budget * sumTo[i]
          BY <1>1, <4>1 DEF DustInv
        <4>3. (shareTo[i] + i) * total \in Nat /\ budget * sumTo[i] \in Nat
          BY <1>2, <2>1, <2>2, Product
        <4> QED
          BY <4>2, <4>3
      <3> QED
        BY <1>2, <3>1, <3>2
    <2>5. ((shareTo[i] + i) + (S + 1)) * total =
             (shareTo[i] + i) * total + (S + 1) * total
      <3>1. shareTo[i] + i \in Nat /\ S + 1 \in Nat
        BY <1>2, <2>1, <2>3
      <3> QED
        BY <2>2, <3>1, Distribute
    <2>6. budget * sumTo[i + 1] = budget * sumTo[i] + budget * scores[i + 1]
      <3>1. sumTo[i + 1] = sumTo[i] + scores[i + 1]
        BY <1>1, <1>2 DEF SummedTo, Entry
      <3> QED
        BY <2>1, <3>1, Distribute
    <2>7. (shareTo[i] + S) + (i + 1) = (shareTo[i] + i) + (S + 1)
      <3>1. shareTo[i] \in Nat /\ S \in Nat
        BY <2>1, <2>3
      <3> QED
        BY <1>2, <3>1
    <2>8. /\ (shareTo[i] + i) * total \in Nat /\ (S + 1) * total \in Nat
          /\ budget * sumTo[i] \in Nat /\ budget * scores[i + 1] \in Nat
      BY <1>2, <2>1, <2>2, <2>3, Product
    <2> QED
      BY <1>3, <1>5, <2>3, <2>4, <2>5, <2>6, <2>7, <2>8
  <1> QED
    BY <1>2, <1>4, <1>5

\* While no domain is above its cap, what is paid is the shares.
LEMMA DustPay ==
    ASSUME DustInv, AllocInv', phase = "scale", i < Entries, NEW x, PayNext(x),
           ~OverCap(i + 1) => x = shares[i + 1]
    PROVE  DustInv'
  <1>1. TypeOK /\ SharedTo(Entries)
    BY DEF DustInv, AllocInv, LoopInv
  <1>2. i \in Nat /\ i \in Turns /\ i + 1 \in Turns /\ i + 1 \in Entry
    BY <1>1, TurnFacts
  <1>3. /\ i' = i + 1 /\ phase' = "scale" /\ identityCap' = identityCap
        /\ shareTo' = shareTo /\ sumTo' = sumTo /\ total' = total /\ budget' = budget
        /\ \A e \in Entry : OverCap(e)' = OverCap(e)
    BY DEF PayNext, args, total, OverCap, domainTotal, capAmount
  <1>4. ASSUME \A e \in Entry : ~OverCap(e), NEW k \in 0..(i + 1)
        PROVE  paidTo'[k] = shareTo[k]
    <2>1. \A j \in 0..i : paidTo[j] = shareTo[j]
      BY <1>4 DEF DustInv
    <2>2. /\ paidTo'[i + 1] = paidTo[i] + x
          /\ \A j \in Turns : j # i + 1 => paidTo'[j] = paidTo[j]
      BY <1>1, <1>2 DEF PayNext, TypeOK
    <2>3. CASE k = i + 1
      <3>1. i \in 0..i /\ i + 1 \in 1..Entries /\ (i + 1) - 1 = i
        BY <1>2 DEF Entry
      <3>2. shareTo[i + 1] = shareTo[i] + shares[i + 1]
        BY <1>1, <3>1 DEF SharedTo
      <3> QED
        BY <1>2, <1>4, <2>1, <2>2, <2>3, <3>1, <3>2
    <2>4. CASE k \in 0..i
      <3>1. k \in Turns /\ k # i + 1
        BY <1>2, <2>4 DEF Turns
      <3> QED
        BY <2>1, <2>2, <2>4, <3>1
    <2> QED
      BY <1>2, <2>3, <2>4
  <1> QED
    BY <1>3, <1>4 DEF DustInv, OnlyDustIsLost

LEMMA DustReturn == DustInv /\ AllocInv' /\ Return => DustInv'
  <1> SUFFICES ASSUME DustInv, AllocInv', Return, total > 0, identityCap = NoCap,
                      \A e \in Entry : ~OverCap(e)
               PROVE  paidTo[Entries] > budget - Entries
    BY DEF DustInv, Return, OnlyDustIsLost, args, total, OverCap, domainTotal, capAmount
  <1>1. TypeOK /\ phase = "scale" /\ i = Entries /\ SummedTo(Entries)
    BY DEF DustInv, AllocInv, LoopInv, Return
  <1>2. Entries \in Turns /\ Entries \in 0..Entries
    BY DEF Turns
  <1>3. shareTo[Entries] \in Nat /\ total \in Nat /\ budget \in Nat
    BY <1>1, <1>2 DEF TypeOK, total
  <1>4. paidTo[Entries] = shareTo[Entries]
    BY <1>1, <1>2 DEF DustInv
  <1>5. Entries \in 1..Entries
    BY <1>1 DEF SummedTo, total
  <1>6. (shareTo[Entries] + Entries) * total > budget * total
    BY <1>1, <1>5 DEF DustInv, total
  <1>7. (shareTo[Entries] + Entries) * total \in Nat /\ budget * total \in Nat
    BY <1>3, Product
  <1>8. shareTo[Entries] + Entries > budget
    <2>1. ASSUME shareTo[Entries] + Entries <= budget PROVE FALSE
      BY <1>3, <1>6, <1>7, <2>1, Monotone
    <2> QED
      BY <1>3, <2>1
  <1> QED
    BY <1>3, <1>4, <1>8

LEMMA DustStep == DustInv /\ [Next]_vars => DustInv'
  <1> SUFFICES ASSUME DustInv, [Next]_vars PROVE DustInv'
    OBVIOUS
  <1>1. AllocInv /\ AllocInv' /\ TypeOK
    BY AllocStep DEF DustInv, AllocInv
  <1>2. CASE SumTurn \/ SumOverflow \/ ShareOverflow \/ CapOverflow \/ ScaleOverflow
    BY <1>1, <1>2 DEF SumTurn, SumOverflow, ShareOverflow, CapOverflow, ScaleOverflow,
       Abort, DustInv, OnlyDustIsLost
  <1>3. CASE EarlyReturn
    BY <1>1, <1>3 DEF EarlyReturn, DustInv, OnlyDustIsLost, args, total
  <1>4. CASE StartShares
    BY <1>1, <1>4 DEF StartShares, DustInv, OnlyDustIsLost
  <1>5. CASE ShareTurn
    BY <1>1, <1>5, DustShareTurn
  <1>6. CASE StartDomains
    BY <1>1, <1>6 DEF StartDomains, DustInv, OnlyDustIsLost, args, total
  <1>7. CASE DomainTurn
    BY <1>1, <1>7 DEF DomainTurn, DustInv, OnlyDustIsLost, args, total
  <1>8. CASE StartScaling
    <2>1. paidTo'[0] = 0 /\ shareTo'[0] = 0
      BY <1>1, <1>8 DEF StartScaling, AllocInv, NothingPaidYet, LoopInv, SharedTo, Zeroes,
         Turns
    <2> QED
      BY <1>1, <1>8, <2>1 DEF StartScaling, DustInv, OnlyDustIsLost, args, total
  <1>9. CASE ScaleDown
    BY <1>1, <1>9, DustPay DEF ScaleDown
  <1>10. CASE KeepShare
    BY <1>1, <1>10, DustPay DEF KeepShare
  <1>11. CASE Return
    BY <1>1, <1>11, DustReturn
  <1>12. CASE UNCHANGED vars
    BY <1>1, <1>12 DEF vars, args, DustInv, OnlyDustIsLost, total, OverCap, domainTotal,
       capAmount
  <1> QED
    BY <1>2, <1>3, <1>4, <1>5, <1>6, <1>7, <1>8, <1>9, <1>10, <1>11, <1>12 DEF Next

\* When no cap bites, allocate_bucket pays all of the budget but for less than
\* one unit per entry.
THEOREM LosesOnlyDust == Spec => []OnlyDustIsLost
  <1>1. Init => DustInv
    BY AllocInit DEF Init, DustInv, OnlyDustIsLost
  <1>2. DustInv => OnlyDustIsLost
    BY DEF DustInv
  <1> QED
    BY <1>1, <1>2, DustStep, PTL DEF Spec

-----------------------------------------------------------------------------
(* The loops compute what Scoring defines                                  *)

\* The loops against Scoring: each running sum is the sum over a set of entries,
\* what is computed of an entry is what Scoring says, and all of it fits.
Exactly == Allocation(budget, scores, dom, identityCap)

ScoresAreSummed ==
    /\ phase = "sum" => sumTo[i] = SumFunctionOnSet(scores, 1..i) /\ Fits(sumTo[i])
    /\ phase \in {"share", "domain", "scale"} =>
          total = SumFunction(scores) /\ Fits(total) /\ budget # 0

SharesAreProRata ==
    /\ phase = "share" =>
          \A k \in 1..i : /\ shares[k] = ProRata(budget, scores, identityCap)[k]
                          /\ Fits(budget * scores[k])
    /\ phase \in {"domain", "scale"} =>
          /\ shares = ProRata(budget, scores, identityCap)
          /\ \A k \in Entry : Fits(budget * scores[k])
          /\ Fits(budget * PayoutCapShareBps)

DomainsAreSummed ==
    /\ phase = "domain" =>
          \A d \in Domains :
              domainTo[d][i] = SumFunctionOnSet(shares, {e \in 1..i : dom[e] = d})
    /\ phase = "scale" => \A d \in Domains : domainTotal(d) = DomainTotal(shares, dom, d)

AmountsAreExact ==
    /\ phase \in {"sum", "share", "domain"} => amounts = [e \in Entry |-> 0]
    /\ phase = "scale" =>
          \A k \in 1..i : /\ amounts[k] = Exactly[k]
                          /\ OverCap(k) => Fits(shares[k] * capAmount)

ComputeInv ==
    /\ AllocInv
    /\ ScoresAreSummed
    /\ SharesAreProRata
    /\ DomainsAreSummed
    /\ AmountsAreExact
    /\ LoopsComputeAllocation

\* What the arguments of a call are, and what it computes of its entries.
LEMMA CallFacts ==
    ASSUME TypeOK
    PROVE  /\ IsFiniteSet(Entry) /\ DOMAIN scores = Entry
           /\ \A e \in Entry : scores[e] \in Nat
           /\ budget \in Nat /\ identityCap \in Nat \cup {NoCap}
           /\ SumFunction(scores) = SumFunctionOnSet(scores, Entry)
           /\ SumFunction(scores) \in Nat
  <1>1. IsFiniteSet(Entry)
    <2>1. 1 \in Int /\ Entries \in Int
      OBVIOUS
    <2> QED
      BY <2>1, FS_Interval DEF Entry
  <1>2. DOMAIN scores = Entry /\ \A e \in Entry : scores[e] \in Nat
    BY DEF TypeOK
  <1>3. SumFunction(scores) = SumFunctionOnSet(scores, Entry)
    BY <1>2 DEF SumFunction
  <1>4. SumFunctionOnSet(scores, Entry) \in Nat
    BY <1>1, <1>2, SumIsNat
  <1> QED
    BY <1>1, <1>2, <1>3, <1>4 DEF TypeOK

\* The laws of Scoring, of the arguments of a call.
LEMMA CallPeak ==
    ASSUME TypeOK
    PROVE  LET peak    == AllocationPeak(budget, scores, dom, identityCap)
               pro     == ProRata(budget, scores, identityCap)
               over(e) == DomainTotal(pro, dom, dom[e]) > capAmount
           IN  /\ peak \in Nat /\ SumFunction(scores) <= peak
               /\ SumFunction(scores) # 0 /\ budget # 0 =>
                     /\ budget * PayoutCapShareBps <= peak
                     /\ \A e \in Entry : budget * scores[e] <= peak
                     /\ \A e \in Entry : over(e) => pro[e] * capAmount <= peak
               /\ \A m \in Nat :
                     /\ SumFunction(scores) <= m
                     /\ SumFunction(scores) # 0 /\ budget # 0 =>
                           /\ budget * PayoutCapShareBps <= m
                           /\ \A e \in Entry : budget * scores[e] <= m
                           /\ \A e \in Entry : over(e) => pro[e] * capAmount <= m
                     => peak <= m
  <1> DEFINE s == scores
             b == budget
             c == identityCap
             o == dom
  <1>1. /\ IsFiniteSet(DOMAIN s) /\ DOMAIN s = Entry
        /\ \A e \in DOMAIN s : s[e] \in Nat
        /\ b \in Nat /\ c \in Nat \cup {NoCap}
    BY CallFacts
  <1> HIDE DEF s, b, c, o
  <1>2. LET peak    == AllocationPeak(b, s, o, c)
            pro     == ProRata(b, s, c)
            over(e) == DomainTotal(pro, o, o[e]) > CapAmount(b)
        IN  /\ peak \in Nat /\ SumFunction(s) <= peak
            /\ SumFunction(s) # 0 /\ b # 0 =>
                  /\ b * PayoutCapShareBps <= peak
                  /\ \A e \in DOMAIN s : b * s[e] <= peak
                  /\ \A e \in DOMAIN s : over(e) => pro[e] * CapAmount(b) <= peak
            /\ \A m \in Nat :
                  /\ SumFunction(s) <= m
                  /\ SumFunction(s) # 0 /\ b # 0 =>
                        /\ b * PayoutCapShareBps <= m
                        /\ \A e \in DOMAIN s : b * s[e] <= m
                        /\ \A e \in DOMAIN s : over(e) => pro[e] * CapAmount(b) <= m
                  => peak <= m
    BY <1>1, AllocationPeakFacts
  <1> QED
    BY <1>1, <1>2 DEF s, b, c, o, capAmount

LEMMA CallAllocation ==
    ASSUME TypeOK
    PROVE  LET pro   == ProRata(budget, scores, identityCap)
               of(e) == DomainTotal(pro, dom, dom[e])
           IN  /\ DOMAIN Exactly = Entry
               /\ Exactly = [e \in Entry |-> Exactly[e]]
               /\ \A e \in Entry : Exactly[e] = IF of(e) > capAmount
                                               THEN (pro[e] * capAmount) \div of(e)
                                               ELSE pro[e]
  <1> DEFINE pro == ProRata(budget, scores, identityCap)
             of(e) == DomainTotal(pro, dom, dom[e])
             s == scores
             b == budget
             c == identityCap
             o == dom
  <1>1. DOMAIN s = Entry
    BY CallFacts
  <1> HIDE DEF s, b, c, o, pro, of
  <1>2. /\ DOMAIN Allocation(b, s, o, c) = DOMAIN s
        /\ Allocation(b, s, o, c) = [e \in DOMAIN s |-> Allocation(b, s, o, c)[e]]
        /\ \A e \in DOMAIN s :
              Allocation(b, s, o, c)[e] =
                 IF DomainTotal(ProRata(b, s, c), o, o[e]) > CapAmount(b)
                 THEN (ProRata(b, s, c)[e] * CapAmount(b))
                         \div DomainTotal(ProRata(b, s, c), o, o[e])
                 ELSE ProRata(b, s, c)[e]
    BY AllocationUnfolds
  <1>3. Exactly = Allocation(b, s, o, c)
    BY DEF Exactly, s, b, c, o
  <1>4. pro = ProRata(b, s, c) /\ \A e : of(e) = DomainTotal(pro, o, o[e])
    BY DEF pro, of, s, b, c, o
  <1>5. \A e \in Entry : Exactly[e] = IF of(e) > capAmount
                                   THEN (pro[e] * capAmount) \div of(e) ELSE pro[e]
    <2>1. capAmount = CapAmount(b)
      BY DEF capAmount, b
    <2> QED
      BY <1>1, <1>2, <1>3, <1>4, <2>1
  <1> QED
    BY <1>1, <1>2, <1>3, <1>5 DEF of, pro

\* The early return: no entry gets anything.
LEMMA CallForNothing ==
    ASSUME TypeOK, SumFunction(scores) = 0 \/ budget = 0
    PROVE  /\ Exactly = [e \in Entry |-> 0]
           /\ AllocationPeak(budget, scores, dom, identityCap) = SumFunction(scores)
  <1>1. IsFiniteSet(DOMAIN scores) /\ DOMAIN scores = Entry /\ budget \in Nat
    <2>1. IsFiniteSet(Entry) /\ DOMAIN scores = Entry /\ budget \in Nat
      BY CallFacts
    <2> QED
      BY <2>1
  <1>2. /\ \A e \in DOMAIN scores : Exactly[e] = 0
        /\ AllocationPeak(budget, scores, dom, identityCap) = SumFunction(scores)
    BY <1>1, NothingToAllocate, Zenon DEF Exactly
  <1>3. Exactly = [e \in Entry |-> Exactly[e]]
    BY CallAllocation
  <1> QED
    BY <1>1, <1>2, <1>3

\* The first n + 1 entries are the first n and one more.
LEMMA NextEntry ==
    ASSUME NEW n \in Nat
    PROVE  /\ 1..(n + 1) = (1..n) \cup {n + 1} /\ n + 1 \notin 1..n
           /\ IsFiniteSet(1..n)
  <1>1. IsFiniteSet(1..n)
    <2>1. 1 \in Int /\ n \in Int
      OBVIOUS
    <2> QED
      BY <2>1, FS_Interval
  <1> QED
    BY <1>1

\* The sum over one entry more.
LEMMA SumNext ==
    ASSUME NEW n \in Nat, NEW f, \A e \in 1..(n + 1) : f[e] \in Nat
    PROVE  /\ SumFunctionOnSet(f, 1..(n + 1)) = SumFunctionOnSet(f, 1..n) + f[n + 1]
           /\ SumFunctionOnSet(f, 1..n) \in Nat
  <1>1. /\ IsFiniteSet(1..n) /\ n + 1 \notin 1..n /\ f[n + 1] \in Nat
        /\ \A e \in 1..n : f[e] \in Nat
    BY NextEntry
  <1>2. SumFunctionOnSet(f, (1..n) \cup {n + 1}) = f[n + 1] + SumFunctionOnSet(f, 1..n)
    BY <1>1, SumAdds
  <1>3. SumFunctionOnSet(f, 1..n) \in Nat
    BY <1>1, SumIsNat
  <1>4. SumFunctionOnSet(f, 1..(n + 1)) = f[n + 1] + SumFunctionOnSet(f, 1..n)
    <2>1. 1..(n + 1) = (1..n) \cup {n + 1}
      BY NextEntry
    <2> QED
      BY <1>2, <2>1
  <1>5. f[n + 1] \in Nat
    BY <1>1
  <1> QED
    BY <1>3, <1>4, <1>5

\* The steps that leave what is computed so far alone.
LEMMA ArgsKept ==
    ASSUME UNCHANGED args
    PROVE  /\ UNCHANGED <<budget, scores, dom, identityCap>>
           /\ Exactly' = Exactly
           /\ AllocationPeak(budget, scores, dom, identityCap)'
                 = AllocationPeak(budget, scores, dom, identityCap)
           /\ ProRata(budget, scores, identityCap)' = ProRata(budget, scores, identityCap)
           /\ capAmount' = capAmount
  BY DEF args, Exactly, capAmount

LEMMA ComputeInit == Init => ComputeInv
  <1> SUFFICES ASSUME Init PROVE ComputeInv
    OBVIOUS
  <1>1. AllocInv /\ i = 0 /\ phase = "sum" /\ sumTo = Zeroes
    BY AllocInit DEF Init
  <1>2. sumTo[0] = 0 /\ SumFunctionOnSet(scores, 1..0) = 0
    <2>1. 1..0 = {} /\ 0 \in Turns
      BY DEF Turns
    <2> QED
      BY <1>1, <2>1, SumOfNone DEF Zeroes
  <1> QED
    BY <1>1, <1>2 DEF Init, ComputeInv, ScoresAreSummed, SharesAreProRata, DomainsAreSummed,
       AmountsAreExact, LoopsComputeAllocation, Fits

LEMMA ComputeSumTurn == ComputeInv /\ AllocInv' /\ SumTurn => ComputeInv'
  <1> SUFFICES ASSUME ComputeInv, AllocInv', SumTurn PROVE ComputeInv'
    OBVIOUS
  <1>1. /\ TypeOK /\ phase = "sum" /\ phase' = "sum" /\ i < Entries /\ i' = i + 1
        /\ sumTo[i] = SumFunctionOnSet(scores, 1..i)
        /\ amounts = [e \in Entry |-> 0] /\ amounts' = amounts
        /\ sumTo[i] + scores[i + 1] <= MaxU128 /\ scores' = scores
    BY DEF ComputeInv, AllocInv, SumTurn, ScoresAreSummed, AmountsAreExact, Fits, args
  <1>2. i \in Nat /\ i \in Turns /\ i + 1 \in Turns /\ i + 1 \in Entry
    BY <1>1, TurnFacts
  <1>3. sumTo'[i + 1] = sumTo[i] + scores[i + 1]
    BY <1>1, <1>2 DEF SumTurn, TypeOK
  <1>4. \A e \in 1..(i + 1) : scores[e] \in Nat
    <2>1. \A e \in 1..(i + 1) : e \in Entry
      BY <1>1, <1>2 DEF Entry
    <2> QED
      BY <1>1, <2>1, CallFacts
  <1>6. SumFunctionOnSet(scores, 1..(i + 1)) = sumTo[i] + scores[i + 1]
    BY <1>1, <1>2, <1>4, SumNext
  <1>7. ScoresAreSummed'
    BY <1>1, <1>3, <1>6 DEF ScoresAreSummed, Fits
  <1> QED
    BY <1>1, <1>7 DEF ComputeInv, SharesAreProRata, DomainsAreSummed, AmountsAreExact,
       LoopsComputeAllocation

\* After the first loop `total` is the sum of the scores.
LEMMA TotalFacts ==
    ASSUME ComputeInv, phase = "sum", i = Entries
    PROVE  total = SumFunction(scores) /\ Fits(total)
  <1>1. TypeOK
    BY DEF ComputeInv, AllocInv
  <1> QED
    BY <1>1, CallFacts DEF ComputeInv, ScoresAreSummed, total, Entry

LEMMA ComputeEarlyReturn == ComputeInv /\ AllocInv' /\ EarlyReturn => ComputeInv'
  <1> SUFFICES ASSUME ComputeInv, AllocInv', EarlyReturn PROVE ComputeInv'
    OBVIOUS
  <1>1. /\ TypeOK /\ phase = "sum" /\ i = Entries /\ (total = 0 \/ budget = 0)
        /\ phase' = "done" /\ UNCHANGED args /\ amounts' = amounts
        /\ amounts = [e \in Entry |-> 0]
    BY DEF ComputeInv, AllocInv, EarlyReturn, AmountsAreExact
  <1>2. SumFunction(scores) = 0 \/ budget = 0
    BY <1>1, TotalFacts
  <1>3. /\ Exactly = [e \in Entry |-> 0]
        /\ AllocationPeak(budget, scores, dom, identityCap) = SumFunction(scores)
    BY <1>1, <1>2, CallForNothing
  <1>4. amounts = Exactly
    BY <1>1, <1>3
  <1>5. total = SumFunction(scores) /\ Fits(total)
    BY <1>1, TotalFacts
  <1>6. Fits(AllocationPeak(budget, scores, dom, identityCap))
    BY <1>3, <1>5
  <1>7. LoopsComputeAllocation'
    BY <1>1, <1>4, <1>6, ArgsKept DEF LoopsComputeAllocation, Exactly, Fits
  <1> QED
    BY <1>1, <1>7 DEF ComputeInv, ScoresAreSummed, SharesAreProRata, DomainsAreSummed,
       AmountsAreExact

\* A call that gives up in the first loop.
LEMMA ComputeSumOverflow == ComputeInv /\ AllocInv' /\ SumOverflow => ComputeInv'
  <1> SUFFICES ASSUME ComputeInv, AllocInv', SumOverflow PROVE ComputeInv'
    OBVIOUS
  <1> DEFINE peak == AllocationPeak(budget, scores, dom, identityCap)
  <1>1. /\ TypeOK /\ phase = "sum" /\ phase' = "error" /\ i < Entries /\ UNCHANGED args
        /\ sumTo[i] = SumFunctionOnSet(scores, 1..i)
        /\ ~(sumTo[i] + scores[i + 1] <= MaxU128)
    BY DEF ComputeInv, AllocInv, SumOverflow, Abort, ScoresAreSummed, Fits
  <1>2. i \in Nat /\ i \in Turns /\ i + 1 \in Turns /\ i + 1 \in Entry
    BY <1>1, TurnFacts
  <1>3. sumTo[i] + scores[i + 1] <= SumFunction(scores)
    <2>1. 1..(i + 1) \in SUBSET Entry /\ 1..i \in SUBSET Entry
      BY <1>1, <1>2 DEF Entry
    <2>2. SumFunctionOnSet(scores, 1..(i + 1)) <= SumFunctionOnSet(scores, Entry)
      <3>1. IsFiniteSet(Entry) /\ \A e \in Entry : scores[e] \in Nat
        BY <1>1, CallFacts
      <3> QED
        BY <2>1, <3>1, SumOfPart
    <2>3. \A e \in 1..(i + 1) : scores[e] \in Nat
      BY <1>1, <2>1, CallFacts
    <2>4. SumFunctionOnSet(scores, 1..(i + 1)) = sumTo[i] + scores[i + 1]
      BY <1>1, <1>2, <2>3, SumNext
    <2>5. sumTo[i] \in Nat /\ scores[i + 1] \in Nat
      BY <1>1, <1>2 DEF TypeOK
    <2> QED
      BY <1>1, <2>2, <2>4, <2>5, CallFacts
  <1>4. SumFunction(scores) <= peak /\ peak \in Nat
    BY <1>1, CallPeak
  <1>5. ~(peak <= MaxU128)
    <2>1. sumTo[i] + scores[i + 1] \in Nat /\ SumFunction(scores) \in Nat
      <3>1. sumTo[i] \in Nat /\ scores[i + 1] \in Nat
        BY <1>1, <1>2 DEF TypeOK
      <3> QED
        BY <1>1, <3>1, CallFacts, SumIsNat
    <2> HIDE DEF peak
    <2> QED
      BY <1>1, <1>3, <1>4, <2>1
  <1>6. LoopsComputeAllocation'
    BY <1>1, <1>5, ArgsKept DEF LoopsComputeAllocation, Fits
  <1> QED
    BY <1>1, <1>6 DEF ComputeInv, ScoresAreSummed, SharesAreProRata, DomainsAreSummed,
       AmountsAreExact

LEMMA ComputeStartShares == ComputeInv /\ AllocInv' /\ StartShares => ComputeInv'
  <1> SUFFICES ASSUME ComputeInv, AllocInv', StartShares PROVE ComputeInv'
    OBVIOUS
  <1>1. /\ TypeOK /\ phase = "sum" /\ i = Entries /\ budget # 0
        /\ phase' = "share" /\ i' = 0 /\ UNCHANGED args /\ sumTo' = sumTo
        /\ amounts' = amounts /\ amounts = [e \in Entry |-> 0]
    BY DEF ComputeInv, AllocInv, StartShares, AmountsAreExact
  <1>2. total = SumFunction(scores) /\ Fits(total)
    BY <1>1, TotalFacts
  <1>3. ScoresAreSummed'
    BY <1>1, <1>2 DEF ScoresAreSummed, total, args, Fits
  <1>4. SharesAreProRata'
    BY <1>1 DEF SharesAreProRata
  <1> QED
    BY <1>1, <1>3, <1>4 DEF ComputeInv, DomainsAreSummed, AmountsAreExact,
       LoopsComputeAllocation

\* The second loop computes an entry's share as ProRata does.
LEMMA ShareIsProRata ==
    ASSUME TypeOK, total = SumFunction(scores), total # 0, budget # 0, NEW e \in Entry
    PROVE  Share(e) = ProRata(budget, scores, identityCap)[e]
  <1>1. ProRata(budget, scores, identityCap)[e] =
           IF identityCap = NoCap THEN (budget * scores[e]) \div total
           ELSE Least((budget * scores[e]) \div total, identityCap)
    BY CallFacts, ProRataUnfolds
  <1> QED
    BY <1>1 DEF Share, Capped

LEMMA ComputeShareTurn == ComputeInv /\ AllocInv' /\ ShareTurn => ComputeInv'
  <1> SUFFICES ASSUME ComputeInv, AllocInv', ShareTurn PROVE ComputeInv'
    OBVIOUS
  <1> DEFINE pro == ProRata(budget, scores, identityCap)
  <1>1. /\ TypeOK /\ phase = "share" /\ phase' = "share" /\ i < Entries /\ i' = i + 1
        /\ UNCHANGED args /\ sumTo' = sumTo /\ amounts' = amounts
        /\ shares' = [shares EXCEPT ![i + 1] = Share(i + 1)]
        /\ Fits(budget * scores[i + 1])
        /\ amounts = [e \in Entry |-> 0]
        /\ \A k \in 1..i : shares[k] = pro[k] /\ Fits(budget * scores[k])
    BY DEF ComputeInv, AllocInv, ShareTurn, SharesAreProRata, AmountsAreExact
  <1>2. i \in Nat /\ i + 1 \in Entry /\ 1..(i + 1) = (1..i) \cup {i + 1}
    BY <1>1, TurnFacts, NextEntry
  <1>3. total = SumFunction(scores) /\ total > 0 /\ budget # 0 /\ Fits(total)
    BY <1>1 DEF ComputeInv, AllocInv, LoopInv, ScoresAreSummed
  <1>4. Share(i + 1) = pro[i + 1]
    <2>1. total # 0
      BY <1>3
    <2> QED
      BY <1>1, <1>2, <1>3, <2>1, ShareIsProRata
  <1>5. ASSUME NEW k \in 1..(i + 1)
        PROVE  shares'[k] = pro[k] /\ Fits(budget * scores[k])
    <2>1. CASE k = i + 1
      <3>1. shares'[i + 1] = Share(i + 1)
        BY <1>1, <1>2 DEF TypeOK
      <3> QED
        BY <1>1, <1>4, <2>1, <3>1
    <2>2. CASE k \in 1..i
      <3>1. k # i + 1 /\ k \in Entry
        BY <1>1, <1>2, <2>2 DEF Entry
      <3>2. shares'[k] = shares[k]
        BY <1>1, <3>1 DEF TypeOK
      <3> QED
        BY <1>1, <2>2, <3>2
    <2> QED
      BY <1>2, <2>1, <2>2
  <1>6. SharesAreProRata'
    BY <1>1, <1>5, ArgsKept DEF SharesAreProRata, Fits
  <1>7. ScoresAreSummed'
    BY <1>1, <1>3 DEF ScoresAreSummed, total, args, Fits
  <1> QED
    BY <1>1, <1>6, <1>7 DEF ComputeInv, DomainsAreSummed, AmountsAreExact,
       LoopsComputeAllocation

LEMMA ComputeShareOverflow == ComputeInv /\ AllocInv' /\ ShareOverflow => ComputeInv'
  <1> SUFFICES ASSUME ComputeInv, AllocInv', ShareOverflow PROVE ComputeInv'
    OBVIOUS
  <1> DEFINE peak == AllocationPeak(budget, scores, dom, identityCap)
  <1>1. /\ TypeOK /\ phase = "share" /\ phase' = "error" /\ i < Entries /\ UNCHANGED args
        /\ ~(budget * scores[i + 1] <= MaxU128)
    BY DEF ComputeInv, AllocInv, ShareOverflow, Abort, Fits
  <1>2. i + 1 \in Entry
    BY <1>1, TurnFacts
  <1>3. SumFunction(scores) # 0 /\ budget # 0
    <2>1. total = SumFunction(scores) /\ total > 0 /\ budget # 0
      BY <1>1 DEF ComputeInv, AllocInv, LoopInv, ScoresAreSummed
    <2> QED
      BY <2>1
  <1>4. peak \in Nat /\ budget * scores[i + 1] <= peak
    BY <1>1, <1>2, <1>3, CallPeak
  <1>5. ~(peak <= MaxU128)
    <2>1. budget * scores[i + 1] \in Nat
      BY <1>1, <1>2, CallFacts, Product
    <2> HIDE DEF peak
    <2> QED
      BY <1>1, <1>4, <2>1
  <1>6. LoopsComputeAllocation'
    BY <1>1, <1>5, ArgsKept DEF LoopsComputeAllocation, Fits
  <1> QED
    BY <1>1, <1>6 DEF ComputeInv, ScoresAreSummed, SharesAreProRata, DomainsAreSummed,
       AmountsAreExact

LEMMA ComputeCapOverflow == ComputeInv /\ AllocInv' /\ CapOverflow => ComputeInv'
  <1> SUFFICES ASSUME ComputeInv, AllocInv', CapOverflow PROVE ComputeInv'
    OBVIOUS
  <1> DEFINE peak == AllocationPeak(budget, scores, dom, identityCap)
  <1>1. /\ TypeOK /\ phase = "share" /\ phase' = "error" /\ UNCHANGED args
        /\ ~(budget * PayoutCapShareBps <= MaxU128)
    BY DEF ComputeInv, AllocInv, CapOverflow, Abort, Fits
  <1>2. SumFunction(scores) # 0 /\ budget # 0
    <2>1. total = SumFunction(scores) /\ total > 0 /\ budget # 0
      BY <1>1 DEF ComputeInv, AllocInv, LoopInv, ScoresAreSummed
    <2> QED
      BY <2>1
  <1>3. peak \in Nat /\ budget * PayoutCapShareBps <= peak
    BY <1>1, <1>2, CallPeak
  <1>4. ~(peak <= MaxU128)
    <2>1. budget * PayoutCapShareBps \in Nat
      <3>1. budget \in Nat /\ PayoutCapShareBps \in Nat
        BY <1>1, CallFacts
      <3> QED
        BY <3>1, Product
    <2> HIDE DEF peak
    <2> QED
      BY <1>1, <1>3, <2>1
  <1>5. LoopsComputeAllocation'
    BY <1>1, <1>4, ArgsKept DEF LoopsComputeAllocation, Fits
  <1> QED
    BY <1>1, <1>5 DEF ComputeInv, ScoresAreSummed, SharesAreProRata, DomainsAreSummed,
       AmountsAreExact

LEMMA ComputeStartDomains == ComputeInv /\ AllocInv' /\ StartDomains => ComputeInv'
  <1> SUFFICES ASSUME ComputeInv, AllocInv', StartDomains PROVE ComputeInv'
    OBVIOUS
  <1> DEFINE pro == ProRata(budget, scores, identityCap)
  <1>1. /\ TypeOK /\ phase = "share" /\ phase' = "domain" /\ i = Entries /\ i' = 0
        /\ UNCHANGED args /\ sumTo' = sumTo /\ shares' = shares /\ domainTo' = domainTo
        /\ amounts' = amounts /\ amounts = [e \in Entry |-> 0]
        /\ Fits(budget * PayoutCapShareBps)
        /\ \A k \in 1..i : shares[k] = pro[k] /\ Fits(budget * scores[k])
    BY DEF ComputeInv, AllocInv, StartDomains, SharesAreProRata, AmountsAreExact
  <1>2. total = SumFunction(scores) /\ total > 0 /\ budget # 0 /\ Fits(total)
    BY <1>1 DEF ComputeInv, AllocInv, LoopInv, ScoresAreSummed
  <1>3. shares = pro
    <2>1. DOMAIN pro = Entry /\ pro = [e \in Entry |-> pro[e]]
      <3>1. DOMAIN pro = DOMAIN scores /\ pro = [e \in DOMAIN scores |-> pro[e]]
        BY ProRataUnfolds
      <3> QED
        BY <1>1, <3>1, CallFacts
    <2> HIDE DEF pro
    <2>2. shares = [e \in Entry |-> shares[e]]
      BY <1>1 DEF TypeOK
    <2>3. \A e \in Entry : shares[e] = pro[e]
      BY <1>1 DEF Entry
    <2> QED
      BY <2>1, <2>2, <2>3
  <1>4. SharesAreProRata'
    <2>1. \A k \in Entry : Fits(budget * scores[k])
      BY <1>1 DEF Entry
    <2> QED
      BY <1>1, <1>3, <2>1, ArgsKept DEF SharesAreProRata, Fits
  <1>5. ScoresAreSummed'
    BY <1>1, <1>2 DEF ScoresAreSummed, total, args, Fits
  <1>6. DomainsAreSummed'
    <2>1. ASSUME NEW d \in Domains
          PROVE  domainTo[d][0] = SumFunctionOnSet(shares, {e \in 1..0 : dom[e] = d})
      <3>1. domainTo[d][0] = 0
        BY <1>1 DEF ComputeInv, AllocInv, LoopInv, DividedTo
      <3>2. {e \in 1..0 : dom[e] = d} = {}
        OBVIOUS
      <3> QED
        BY <3>1, <3>2, SumOfNone
    <2>2. dom' = dom
      BY <1>1 DEF args
    <2> QED
      BY <1>1, <2>1, <2>2 DEF DomainsAreSummed
  <1> QED
    BY <1>1, <1>4, <1>5, <1>6 DEF ComputeInv, AmountsAreExact, LoopsComputeAllocation

\* The first n entries of the domain d.
OwnTo(o, d, n) == {e \in 1..n : o[e] = d}

\* The domain's sum over one entry more.
LEMMA DomainSumNext ==
    ASSUME NEW n \in Nat, NEW f, \A e \in 1..(n + 1) : f[e] \in Nat, NEW o, NEW d
    PROVE  SumFunctionOnSet(f, OwnTo(o, d, n + 1))
              = SumFunctionOnSet(f, OwnTo(o, d, n))
                   + (IF o[n + 1] = d THEN f[n + 1] ELSE 0)
  <1> DEFINE T == {e \in 1..n : o[e] = d}
             U == {e \in 1..(n + 1) : o[e] = d}
  <1>1. IsFiniteSet(1..n) /\ n + 1 \notin 1..n /\ 1..(n + 1) = (1..n) \cup {n + 1}
    BY NextEntry
  <1>2. IsFiniteSet(T) /\ n + 1 \notin T /\ \A e \in T : f[e] \in Nat
    <2>1. T \in SUBSET (1..n)
      OBVIOUS
    <2>2. IsFiniteSet(T)
      BY <1>1, <2>1, FS_Subset
    <2> QED
      BY <1>1, <2>1, <2>2
  <1>3. f[n + 1] \in Nat
    BY <1>1
  <1>4. SumFunctionOnSet(f, T) \in Nat
    <2> HIDE DEF T
    <2> QED
      BY <1>2, SumIsNat
  <1>5. CASE o[n + 1] = d
    <2>1. U = T \cup {n + 1}
      BY <1>1, <1>5
    <2> HIDE DEF T, U
    <2>2. SumFunctionOnSet(f, T \cup {n + 1}) = f[n + 1] + SumFunctionOnSet(f, T)
      BY <1>2, <1>3, SumAdds
    <2>3. SumFunctionOnSet(f, U) = SumFunctionOnSet(f, T) + f[n + 1]
      BY <1>3, <1>4, <2>1, <2>2
    <2> QED
      BY <1>5, <2>3 DEF T, U, OwnTo
  <1>6. CASE o[n + 1] # d
    <2>1. U = T
      BY <1>1, <1>6
    <2> HIDE DEF T, U
    <2>2. SumFunctionOnSet(f, U) = SumFunctionOnSet(f, T) + 0
      BY <1>4, <2>1
    <2> QED
      BY <1>6, <2>2 DEF T, U, OwnTo
  <1> QED
    BY <1>5, <1>6

LEMMA ComputeDomainTurn == ComputeInv /\ AllocInv' /\ DomainTurn => ComputeInv'
  <1> SUFFICES ASSUME ComputeInv, AllocInv', DomainTurn PROVE ComputeInv'
    OBVIOUS
  <1>1. /\ TypeOK /\ phase = "domain" /\ phase' = "domain" /\ i < Entries /\ i' = i + 1
        /\ UNCHANGED args /\ sumTo' = sumTo /\ shares' = shares
        /\ amounts' = amounts /\ amounts = [e \in Entry |-> 0]
        /\ domainTo' = FurtherBy(domainTo, shares[i + 1])
        /\ domainTo \in [Domains -> [Turns -> Nat]]
    BY DEF ComputeInv, AllocInv, DomainTurn, AmountsAreExact, TypeOK
  <1>2. i \in Nat /\ i + 1 \in Entry /\ shares[i + 1] \in Nat
    <2>1. i \in Nat /\ i + 1 \in Entry
      BY <1>1, TurnFacts
    <2> QED
      BY <1>1, <2>1 DEF TypeOK
  <1>3. \A d \in Domains :
           domainTo'[d][i + 1] = domainTo[d][i] + (IF dom[i + 1] = d THEN shares[i + 1] ELSE 0)
    BY <1>1, <1>2, FurtherFacts
  <1>4. \A e \in 1..(i + 1) : shares[e] \in Nat
    <2>1. \A e \in 1..(i + 1) : e \in Entry
      BY <1>1, <1>2 DEF Entry
    <2> QED
      BY <1>1, <2>1 DEF TypeOK
  <1>5. ASSUME NEW d \in Domains
        PROVE  domainTo'[d][i + 1] = SumFunctionOnSet(shares, {e \in 1..(i + 1) : dom[e] = d})
    <2>1. domainTo[d][i] = SumFunctionOnSet(shares, OwnTo(dom, d, i))
      BY <1>1 DEF ComputeInv, DomainsAreSummed, OwnTo
    <2>2. SumFunctionOnSet(shares, OwnTo(dom, d, i + 1))
             = SumFunctionOnSet(shares, OwnTo(dom, d, i))
                  + (IF dom[i + 1] = d THEN shares[i + 1] ELSE 0)
      BY <1>2, <1>4, DomainSumNext
    <2>3. domainTo'[d][i + 1] = SumFunctionOnSet(shares, OwnTo(dom, d, i + 1))
      BY <1>3, <2>1, <2>2
    <2> QED
      BY <2>3 DEF OwnTo
  <1>6. DomainsAreSummed'
    <2>1. dom' = dom
      BY <1>1 DEF args
    <2> QED
      BY <1>1, <1>5, <2>1 DEF DomainsAreSummed
  <1>7. ScoresAreSummed' /\ SharesAreProRata'
    <2>1. ScoresAreSummed /\ SharesAreProRata
      BY DEF ComputeInv
    <2> QED
      BY <1>1, <2>1, ArgsKept DEF ScoresAreSummed, SharesAreProRata, total, Fits
  <1> QED
    BY <1>1, <1>6, <1>7 DEF ComputeInv, AmountsAreExact, LoopsComputeAllocation

LEMMA ComputeStartScaling == ComputeInv /\ AllocInv' /\ StartScaling => ComputeInv'
  <1> SUFFICES ASSUME ComputeInv, AllocInv', StartScaling PROVE ComputeInv'
    OBVIOUS
  <1>1. /\ TypeOK /\ phase = "domain" /\ phase' = "scale" /\ i = Entries /\ i' = 0
        /\ UNCHANGED args /\ sumTo' = sumTo /\ shares' = shares /\ domainTo' = domainTo
        /\ amounts' = amounts
    BY DEF ComputeInv, AllocInv, StartScaling
  <1>2. ASSUME NEW d \in Domains PROVE domainTotal(d) = DomainTotal(shares, dom, d)
    <2>1. domainTo[d][Entries] = SumFunctionOnSet(shares, {e \in Entry : dom[e] = d})
      BY <1>1 DEF ComputeInv, DomainsAreSummed, Entry
    <2>2. DOMAIN shares = Entry
      BY <1>1 DEF TypeOK
    <2> QED
      BY <2>1, <2>2 DEF domainTotal, DomainTotal
  <1>3. DomainsAreSummed'
    <2>1. dom' = dom
      BY <1>1 DEF args
    <2> QED
      BY <1>1, <1>2, <2>1 DEF DomainsAreSummed, domainTotal
  <1>4. ScoresAreSummed' /\ SharesAreProRata'
    <2>1. ScoresAreSummed /\ SharesAreProRata
      BY DEF ComputeInv
    <2> QED
      BY <1>1, <2>1, ArgsKept DEF ScoresAreSummed, SharesAreProRata, total, Fits
  <1> QED
    BY <1>1, <1>3, <1>4 DEF ComputeInv, AmountsAreExact, LoopsComputeAllocation

\* In the last loop an entry's two candidate amounts are those of Scoring.
LEMMA AmountFacts ==
    ASSUME ComputeInv, phase = "scale", NEW e \in Entry
    PROVE  /\ OverCap(e) <=> DomainTotal(ProRata(budget, scores, identityCap), dom, dom[e])
                                > capAmount
           /\ shares[e] = ProRata(budget, scores, identityCap)[e]
           /\ OverCap(e) => Exactly[e] = Scaled(e)
           /\ ~OverCap(e) => Exactly[e] = shares[e]
  <1> DEFINE pro == ProRata(budget, scores, identityCap)
  <1>1. TypeOK /\ dom[e] \in Domains
    BY DEF ComputeInv, AllocInv, TypeOK
  <1>2. shares = pro /\ domainTotal(dom[e]) = DomainTotal(shares, dom, dom[e])
    BY <1>1 DEF ComputeInv, SharesAreProRata, DomainsAreSummed
  <1>3. Exactly[e] = IF DomainTotal(pro, dom, dom[e]) > capAmount
                     THEN (pro[e] * capAmount) \div DomainTotal(pro, dom, dom[e])
                     ELSE pro[e]
    BY <1>1, CallAllocation
  <1> HIDE DEF pro
  <1> QED
    BY <1>2, <1>3 DEF OverCap, Scaled, pro

LEMMA ComputePay ==
    ASSUME ComputeInv, AllocInv', phase = "scale", i < Entries,
           NEW x, PayNext(x), x = Exactly[i + 1],
           OverCap(i + 1) => Fits(shares[i + 1] * capAmount)
    PROVE  ComputeInv'
  <1>1. /\ TypeOK /\ phase' = "scale" /\ i' = i + 1 /\ UNCHANGED args
        /\ sumTo' = sumTo /\ shares' = shares /\ domainTo' = domainTo
        /\ amounts' = [amounts EXCEPT ![i + 1] = x]
        /\ \A k \in 1..i : /\ amounts[k] = Exactly[k]
                           /\ OverCap(k) => Fits(shares[k] * capAmount)
    BY DEF ComputeInv, AllocInv, PayNext, AmountsAreExact
  <1>2. i \in Nat /\ i + 1 \in Entry /\ 1..(i + 1) = (1..i) \cup {i + 1}
    BY <1>1, TurnFacts, NextEntry
  <1>3. ASSUME NEW k \in 1..(i + 1)
        PROVE  amounts'[k] = Exactly[k] /\ (OverCap(k) => Fits(shares[k] * capAmount))
    <2>1. CASE k = i + 1
      <3>1. amounts'[i + 1] = x
        BY <1>1, <1>2 DEF TypeOK
      <3> QED
        BY <2>1, <3>1
    <2>2. CASE k \in 1..i
      <3>1. k # i + 1 /\ k \in Entry
        BY <1>2, <2>2 DEF Entry
      <3>2. amounts'[k] = amounts[k]
        BY <1>1, <3>1 DEF TypeOK
      <3> QED
        BY <1>1, <2>2, <3>2
    <2> QED
      BY <1>2, <2>1, <2>2
  <1>4. AmountsAreExact'
    <2>1. Exactly' = Exactly /\ capAmount' = capAmount /\ dom' = dom
      BY <1>1, ArgsKept
    <2>2. \A k \in 1..(i + 1) : /\ amounts'[k] = Exactly'[k]
                                /\ OverCap(k)' => Fits(shares'[k] * capAmount')
      BY <1>1, <1>3, <2>1 DEF OverCap, domainTotal
    <2> QED
      BY <1>1, <2>2 DEF AmountsAreExact, Fits
  <1>5. ScoresAreSummed' /\ SharesAreProRata' /\ DomainsAreSummed'
    <2>1. ScoresAreSummed /\ SharesAreProRata /\ DomainsAreSummed
      BY DEF ComputeInv
    <2>2. dom' = dom
      BY <1>1, ArgsKept
    <2> QED
      BY <1>1, <2>1, <2>2, ArgsKept DEF ScoresAreSummed, SharesAreProRata, total, Fits,
         DomainsAreSummed, domainTotal
  <1> QED
    BY <1>1, <1>4, <1>5 DEF ComputeInv, LoopsComputeAllocation

LEMMA ComputeScaleDown == ComputeInv /\ AllocInv' /\ ScaleDown => ComputeInv'
  <1> SUFFICES ASSUME ComputeInv, AllocInv', ScaleDown PROVE ComputeInv'
    OBVIOUS
  <1>1. /\ TypeOK /\ phase = "scale" /\ i < Entries /\ OverCap(i + 1)
        /\ Fits(shares[i + 1] * capAmount) /\ PayNext(Scaled(i + 1))
    BY DEF ScaleDown, ComputeInv, AllocInv
  <1>2. i + 1 \in Entry
    BY <1>1, TurnFacts
  <1>3. Scaled(i + 1) = Exactly[i + 1]
    BY <1>1, <1>2, AmountFacts
  <1> QED
    BY <1>1, <1>3, ComputePay

LEMMA ComputeKeepShare == ComputeInv /\ AllocInv' /\ KeepShare => ComputeInv'
  <1> SUFFICES ASSUME ComputeInv, AllocInv', KeepShare PROVE ComputeInv'
    OBVIOUS
  <1>1. /\ TypeOK /\ phase = "scale" /\ i < Entries /\ ~OverCap(i + 1)
        /\ PayNext(shares[i + 1])
    BY DEF KeepShare, ComputeInv, AllocInv
  <1>2. i + 1 \in Entry
    BY <1>1, TurnFacts
  <1>3. shares[i + 1] = Exactly[i + 1]
    BY <1>1, <1>2, AmountFacts
  <1> QED
    BY <1>1, <1>3, ComputePay

LEMMA ComputeScaleOverflow == ComputeInv /\ AllocInv' /\ ScaleOverflow => ComputeInv'
  <1> SUFFICES ASSUME ComputeInv, AllocInv', ScaleOverflow PROVE ComputeInv'
    OBVIOUS
  <1> DEFINE peak == AllocationPeak(budget, scores, dom, identityCap)
  <1>1. /\ TypeOK /\ phase = "scale" /\ phase' = "error" /\ i < Entries /\ UNCHANGED args
        /\ OverCap(i + 1) /\ ~(shares[i + 1] * capAmount <= MaxU128)
    BY DEF ComputeInv, AllocInv, ScaleOverflow, Abort, Fits
  <1>2. i + 1 \in Entry
    BY <1>1, TurnFacts
  <1>3. SumFunction(scores) # 0 /\ budget # 0
    <2>1. total = SumFunction(scores) /\ total > 0 /\ budget # 0
      BY <1>1 DEF ComputeInv, AllocInv, LoopInv, ScoresAreSummed
    <2> QED
      BY <2>1
  <1>4. peak \in Nat /\ shares[i + 1] * capAmount <= peak
    <2>1. /\ DomainTotal(ProRata(budget, scores, identityCap), dom, dom[i + 1]) > capAmount
          /\ shares[i + 1] = ProRata(budget, scores, identityCap)[i + 1]
      BY <1>1, <1>2, AmountFacts
    <2> QED
      BY <1>1, <1>2, <1>3, <2>1, CallPeak
  <1>5. ~(peak <= MaxU128)
    <2>1. shares[i + 1] * capAmount \in Nat
      <3>1. shares[i + 1] \in Nat /\ capAmount \in Nat
        BY <1>1, <1>2, CapIsNat DEF TypeOK, capAmount
      <3> QED
        BY <3>1, Product
    <2> HIDE DEF peak
    <2> QED
      BY <1>1, <1>4, <2>1
  <1>6. LoopsComputeAllocation'
    BY <1>1, <1>5, ArgsKept DEF LoopsComputeAllocation, Fits
  <1> QED
    BY <1>1, <1>6 DEF ComputeInv, ScoresAreSummed, SharesAreProRata, DomainsAreSummed,
       AmountsAreExact

LEMMA ComputeReturn == ComputeInv /\ AllocInv' /\ Return => ComputeInv'
  <1> SUFFICES ASSUME ComputeInv, AllocInv', Return PROVE ComputeInv'
    OBVIOUS
  <1> DEFINE peak == AllocationPeak(budget, scores, dom, identityCap)
             pro == ProRata(budget, scores, identityCap)
  <1>1. /\ TypeOK /\ phase = "scale" /\ phase' = "done" /\ i = Entries /\ UNCHANGED args
        /\ amounts' = amounts
        /\ \A k \in Entry : /\ amounts[k] = Exactly[k]
                            /\ OverCap(k) => Fits(shares[k] * capAmount)
    BY DEF ComputeInv, AllocInv, Return, AmountsAreExact, Entry
  <1>2. amounts = Exactly
    <2>1. amounts = [e \in Entry |-> amounts[e]]
      BY <1>1 DEF TypeOK
    <2>2. Exactly = [e \in Entry |-> Exactly[e]]
      BY <1>1, CallAllocation
    <2> QED
      BY <1>1, <2>1, <2>2
  <1>3. peak <= MaxU128
    <2>1. SumFunction(scores) <= MaxU128
      BY <1>1 DEF ComputeInv, ScoresAreSummed, Fits
    <2>2. /\ budget * PayoutCapShareBps <= MaxU128
          /\ \A e \in Entry : budget * scores[e] <= MaxU128
      BY <1>1 DEF ComputeInv, SharesAreProRata, Fits
    <2>3. \A e \in Entry : DomainTotal(pro, dom, dom[e]) > capAmount
                              => pro[e] * capAmount <= MaxU128
      BY <1>1, AmountFacts DEF Fits
    <2>4. MaxU128 \in Nat
      OBVIOUS
    <2>5. \A m \in Nat :
             /\ SumFunction(scores) <= m
             /\ budget * PayoutCapShareBps <= m
             /\ \A e \in Entry : budget * scores[e] <= m
             /\ \A e \in Entry : DomainTotal(pro, dom, dom[e]) > capAmount
                                   => pro[e] * capAmount <= m
             => peak <= m
      BY <1>1, CallPeak
    <2> HIDE DEF peak, pro
    <2> QED
      BY <2>1, <2>2, <2>3, <2>4, <2>5
  <1>4. LoopsComputeAllocation'
    BY <1>1, <1>2, <1>3, ArgsKept DEF LoopsComputeAllocation, Exactly, Fits
  <1> QED
    BY <1>1, <1>4 DEF ComputeInv, ScoresAreSummed, SharesAreProRata, DomainsAreSummed,
       AmountsAreExact

LEMMA ComputeStutter == ComputeInv /\ AllocInv' /\ UNCHANGED vars => ComputeInv'
  <1> SUFFICES ASSUME ComputeInv, AllocInv', UNCHANGED vars PROVE ComputeInv'
    OBVIOUS
  <1>1. /\ UNCHANGED args /\ phase' = phase /\ i' = i /\ sumTo' = sumTo /\ shares' = shares
        /\ domainTo' = domainTo /\ amounts' = amounts
    BY DEF vars
  <1>2. /\ budget' = budget /\ scores' = scores /\ dom' = dom /\ Exactly' = Exactly
        /\ AllocationPeak(budget, scores, dom, identityCap)'
              = AllocationPeak(budget, scores, dom, identityCap)
        /\ ProRata(budget, scores, identityCap)' = ProRata(budget, scores, identityCap)
        /\ capAmount' = capAmount
    BY <1>1, ArgsKept
  <1>3. ScoresAreSummed' /\ SharesAreProRata' /\ DomainsAreSummed'
    BY <1>1, <1>2 DEF ComputeInv, ScoresAreSummed, SharesAreProRata, DomainsAreSummed,
       total, domainTotal, Fits
  <1>4. AmountsAreExact'
    BY <1>1, <1>2 DEF ComputeInv, AmountsAreExact, OverCap, domainTotal, Fits
  <1>5. LoopsComputeAllocation'
    BY <1>1, <1>2 DEF ComputeInv, LoopsComputeAllocation, Exactly, Fits
  <1> QED
    BY <1>3, <1>4, <1>5 DEF ComputeInv

LEMMA ComputeStep == ComputeInv /\ [Next]_vars => ComputeInv'
  <1> SUFFICES ASSUME ComputeInv, [Next]_vars PROVE ComputeInv'
    OBVIOUS
  <1>1. AllocInv'
    BY AllocStep DEF ComputeInv
  <1> QED
    BY <1>1, ComputeSumTurn, ComputeSumOverflow, ComputeEarlyReturn, ComputeStartShares,
       ComputeShareTurn, ComputeShareOverflow, ComputeStartDomains, ComputeCapOverflow,
       ComputeDomainTurn, ComputeStartScaling, ComputeScaleDown, ComputeKeepShare,
       ComputeScaleOverflow, ComputeReturn, ComputeStutter DEF Next

\* allocate_bucket, loop by loop and with its checked operations, computes the
\* allocation that Scoring defines in closed form, and gives up on exactly the
\* inputs one of whose products does not fit: what is proved of Allocation and
\* of AllocationPeak is true of the code's loops.
THEOREM LoopsAreExact == Spec => []LoopsComputeAllocation
  <1>1. ComputeInv => LoopsComputeAllocation
    BY DEF ComputeInv
  <1> QED
    BY <1>1, ComputeInit, ComputeStep, PTL DEF Spec

-----------------------------------------------------------------------------
(* Splitting one's work gains nothing                                      *)

\* The entries of a domain, and the sum of their scores.
Own(d) == {e \in Entry : dom[e] = d}
OwnScore(d) == SumFunctionOnSet(scores, Own(d))

LEMMA OwnFacts ==
    ASSUME TypeOK, NEW d
    PROVE  /\ Own(d) \subseteq Entry /\ IsFiniteSet(Own(d))
           /\ OwnScore(d) \in Nat
  <1>1. Own(d) \in SUBSET Entry
    BY DEF Own
  <1>2. IsFiniteSet(Own(d))
    BY <1>1, CallFacts, FS_Subset
  <1>3. \A e \in Own(d) : scores[e] \in Nat
    BY <1>1, CallFacts
  <1>4. SumFunctionOnSet(scores, Own(d)) \in Nat
    BY <1>2, <1>3, SumIsNat
  <1> QED
    BY <1>1, <1>2, <1>4 DEF OwnScore

\* A domain's shares are at most what is due to all of its score.
LEMMA OwnShare ==
    ASSUME ComputeInv, phase = "scale", NEW d \in Domains
    PROVE  domainTotal(d) \in Nat /\ domainTotal(d) * total <= OwnScore(d) * budget
  <1>1. /\ TypeOK /\ total = SumFunction(scores) /\ total \in Nat /\ budget \in Nat
        /\ shares = ProRata(budget, scores, identityCap)
        /\ domainTotal(d) = DomainTotal(shares, dom, d)
    <2>1. TypeOK /\ phase = "scale"
      BY DEF ComputeInv, AllocInv
    <2>2. total = SumFunction(scores)
      BY <2>1 DEF ComputeInv, ScoresAreSummed
    <2> QED
      BY <2>1, <2>2, CallFacts DEF ComputeInv, SharesAreProRata, DomainsAreSummed
  <1>2. domainTotal(d) = SumFunctionOnSet(shares, Own(d))
    <2>1. DOMAIN shares = Entry
      BY <1>1 DEF TypeOK
    <2> QED
      BY <1>1, <2>1 DEF DomainTotal, Own
  <1>3. \A e \in Own(d) : /\ shares[e] \in Nat /\ scores[e] \in Nat
                          /\ shares[e] * total <= scores[e] * budget
    <2>1. IsFiniteSet(DOMAIN scores) /\ DOMAIN scores = Entry
      <3>1. IsFiniteSet(Entry) /\ DOMAIN scores = Entry
        BY <1>1, CallFacts
      <3> QED
        BY <3>1
    <2>2. /\ \A e \in DOMAIN scores : scores[e] \in Nat
          /\ budget \in Nat /\ identityCap \in Nat \cup {NoCap}
      BY <1>1, <2>1, CallFacts
    <2>3. \A e \in DOMAIN scores :
             ProRata(budget, scores, identityCap)[e] * SumFunction(scores)
                <= scores[e] * budget
      BY <2>1, <2>2, ProRataFacts
    <2>4. \A e \in Entry : shares[e] * total <= scores[e] * budget
      BY <1>1, <2>1, <2>3
    <2> QED
      BY <1>1, <2>4 DEF Own, TypeOK
  <1>4. IsFiniteSet(Own(d))
    BY <1>1, OwnFacts
  <1>5. SumFunctionOnSet(shares, Own(d)) * total <= SumFunctionOnSet(scores, Own(d)) * budget
    BY <1>1, <1>3, <1>4, SumsCompare
  <1>6. SumFunctionOnSet(shares, Own(d)) \in Nat
    BY <1>3, <1>4, SumIsNat
  <1> QED
    BY <1>2, <1>5, <1>6 DEF OwnScore

\* What is at most a/c exactly is at most its floor.
LEMMA BelowFloor ==
    ASSUME NEW x \in Nat, NEW a \in Nat, NEW c \in Nat, c > 0, x * c <= a
    PROVE  x <= a \div c
  <1>1. (a \div c + 1) * c > a /\ a \div c \in Nat
    BY Floor, Quotient
  <1>2. ASSUME x > a \div c PROVE FALSE
    <2>1. a \div c + 1 <= x /\ a \div c + 1 \in Nat
      BY <1>1, <1>2
    <2>2. (a \div c + 1) * c <= x * c
      BY <2>1, Monotone
    <2>3. (a \div c + 1) * c \in Nat /\ x * c \in Nat
      BY <2>1, Product
    <2> QED
      BY <1>1, <2>2, <2>3
  <1> QED
    BY <1>1, <1>2

SplitInv == ComputeInv /\ SplittingGainsNothing

LEMMA SplitReturn ==
    ASSUME ComputeInv, DomainsAreCapped', Return, NEW d \in Domains
    PROVE  takenTo[d][Entries] <= Least((budget * OwnScore(d)) \div total, capAmount)
  <1> DEFINE T == takenTo[d][Entries]
             D == domainTotal(d)
             W == OwnScore(d)
             C == capAmount
  <1>1. /\ TypeOK /\ phase = "scale" /\ i = Entries /\ total > 0
        /\ UNCHANGED <<args, takenTo>> /\ phase' = "done"
    BY DEF Return, ComputeInv, AllocInv, LoopInv
  <1>2. T \in Nat /\ C \in Nat /\ total \in Nat /\ budget \in Nat /\ W \in Nat
    <2>1. Entries \in Turns /\ takenTo[d] \in [Turns -> Nat] /\ sumTo \in [Turns -> Nat]
      BY <1>1 DEF TypeOK, Turns
    <2> QED
      BY <1>1, <2>1, CapIsNat, OwnFacts DEF TypeOK, total, capAmount
  <1>3. T <= C
    <2>1. capAmount' = capAmount
      BY <1>1, ArgsKept
    <2> QED
      BY <1>1, <2>1 DEF DomainsAreCapped
  <1>4. D \in Nat /\ D * total <= W * budget
    BY <1>1, OwnShare
  <1>5. T <= D
    <2>1. IF D > C THEN T * D <= C * D ELSE T <= D
      BY <1>1 DEF ComputeInv, AllocInv, PaidFromShares, domainTotal, TypeOK, Turns
    <2> HIDE DEF T, D, C
    <2> QED
      BY <1>2, <1>3, <1>4, <2>1
  <1>6. T <= (budget * W) \div total
    <2> HIDE DEF T, D, W, C
    <2>1. T * total <= D * total
      BY <1>2, <1>4, <1>5, Monotone
    <2>2. T * total \in Nat /\ D * total \in Nat /\ W * budget \in Nat /\ budget * W \in Nat
      BY <1>2, <1>4, Product
    <2>3. T * total <= budget * W
      <3>1. W * budget = budget * W
        BY <1>2
      <3> QED
        BY <1>4, <2>1, <2>2, <3>1
    <2> QED
      BY <1>1, <1>2, <2>2, <2>3, BelowFloor
  <1> QED
    BY <1>3, <1>6 DEF Least

LEMMA SplitEarlyReturn ==
    ASSUME ComputeInv, EarlyReturn, total > 0, NEW d \in Domains
    PROVE  takenTo[d][Entries] <= Least((budget * OwnScore(d)) \div total, capAmount)
  <1>1. TypeOK /\ takenTo[d][Entries] = 0
    BY DEF EarlyReturn, ComputeInv, AllocInv, NothingPaidYet, Zeroes, Turns
  <1>2. capAmount \in Nat /\ total \in Nat /\ budget \in Nat /\ OwnScore(d) \in Nat
    <2>1. budget \in Nat /\ sumTo \in [Turns -> Nat] /\ Entries \in Turns
      BY <1>1 DEF TypeOK, Turns
    <2> QED
      BY <1>1, <2>1, CapIsNat, OwnFacts DEF total, capAmount
  <1>3. budget * OwnScore(d) \in Nat
    BY <1>2, Product
  <1>4. (budget * OwnScore(d)) \div total \in Nat
    BY <1>2, <1>3, Quotient
  <1> QED
    BY <1>1, <1>2, <1>4 DEF Least

LEMMA SplitInit == Init => SplitInv
  BY ComputeInit DEF Init, SplitInv, SplittingGainsNothing

LEMMA SplitStep == SplitInv /\ [Next]_vars => SplitInv'
  <1> SUFFICES ASSUME SplitInv, [Next]_vars PROVE SplitInv'
    OBVIOUS
  <1>1. ComputeInv /\ ComputeInv' /\ DomainsAreCapped'
    BY ComputeStep DEF SplitInv, ComputeInv, AllocInv
  <1>2. ASSUME Return \/ EarlyReturn PROVE SplittingGainsNothing'
    <2>1. UNCHANGED <<args, sumTo, takenTo>>
      BY <1>2 DEF Return, EarlyReturn
    <2>2. total' = total /\ capAmount' = capAmount
      BY <2>1, ArgsKept DEF total
    <2>3. ASSUME total > 0, NEW d \in Domains
          PROVE  takenTo[d][Entries] <= Least((budget * OwnScore(d)) \div total, capAmount)
      BY <1>1, <1>2, <2>3, SplitReturn, SplitEarlyReturn
    <2>4. total > 0 => \A d \in Domains :
             takenTo[d][Entries] <= Least((budget * SumFunctionOnSet(scores, Own(d))) \div total,
                                          capAmount)
      BY <2>3 DEF OwnScore
    <2> QED
      BY <2>1, <2>2, <2>4 DEF SplittingGainsNothing, Own, args
  <1>3. CASE Return \/ EarlyReturn
    BY <1>1, <1>2, <1>3 DEF SplitInv
  <1>4. CASE UNCHANGED vars
    <2>1. SplittingGainsNothing'
      <3>1. UNCHANGED <<phase, args, sumTo, takenTo>>
        BY <1>4 DEF vars
      <3>2. total' = total /\ capAmount' = capAmount
        BY <3>1, ArgsKept DEF total
      <3> QED
        BY <3>1, <3>2 DEF SplitInv, SplittingGainsNothing, args
    <2> QED
      BY <1>1, <2>1 DEF SplitInv
  <1>5. CASE \/ SumTurn \/ SumOverflow \/ StartShares \/ ShareTurn \/ ShareOverflow
             \/ StartDomains \/ CapOverflow \/ DomainTurn \/ StartScaling \/ ScaleDown
             \/ KeepShare \/ ScaleOverflow
    <2>1. phase' # "done"
      BY <1>5 DEF SumTurn, SumOverflow, StartShares, ShareTurn, ShareOverflow,
         StartDomains, CapOverflow, DomainTurn, StartScaling, ScaleDown, KeepShare,
         ScaleOverflow, Abort, PayNext
    <2> QED
      BY <1>1, <2>1 DEF SplitInv, SplittingGainsNothing
  <1> QED
    BY <1>3, <1>4, <1>5 DEF Next

\* In a bucket without a cap per identity a control domain is paid at most what
\* a single identity with all of the domain's score would be: whatever the
\* number of identities it splits its work over, and whoever the others are.
THEOREM NoGainFromSplitting == Spec => []SplittingGainsNothing
  <1>1. SplitInv => SplittingGainsNothing
    BY DEF SplitInv
  <1> QED
    BY <1>1, SplitInit, SplitStep, PTL DEF Spec
=============================================================================
