-------------------------- MODULE MaturationProofs --------------------------
(***************************************************************************)
(* A maturation schedule pays out exactly what it was made for: proofs for *)
(* any payout, any share and any number of stream epochs.                  *)
(***************************************************************************)
EXTENDS Maturation, TLAPS

\* A floored share of a total is not above it.
LEMMA ShareFacts ==
    ASSUME NEW t \in Nat, NEW s \in Nat, NEW b \in Nat \ {0}, s <= b
    PROVE  /\ (t * s) \div b \in Nat
           /\ (t * s) \div b <= t
<1>1. t * s \in Nat /\ t * s <= t * b
  OBVIOUS
<1>2. /\ (t * s) \div b \in Nat
      /\ ((t * s) \div b) * b <= t * s
  BY <1>1
<1> DEFINE q == (t * s) \div b
<1>3. q * b <= t * b
  BY <1>1, <1>2
<1>4. q <= t
  <2>1. SUFFICES ASSUME q >= t + 1 PROVE FALSE
    BY <1>2
  <2>2. q * b >= (t + 1) * b
    BY <2>1, <1>2
  <2>3. (t + 1) * b = t * b + b
    OBVIOUS
  <2> QED
    BY <2>2, <2>3, <1>3, <1>2
<1> QED
  BY <1>2, <1>4

\* Quotient and remainder.
LEMMA DivisionFacts ==
    ASSUME NEW x \in Nat, NEW n \in Nat \ {0}
    PROVE  /\ x \div n \in Nat
           /\ x % n \in Nat
           /\ x % n < n
           /\ n * (x \div n) + (x % n) = x
  OBVIOUS

\* One more part.
LEMMA OneMore ==
    ASSUME NEW k \in Nat, NEW p \in Nat
    PROVE  (k + 1) * p = k * p + p
  OBVIOUS

\* What k of n equal parts are.
LEMMA FewerParts ==
    ASSUME NEW k \in Nat, NEW n \in Nat, k <= n, NEW p \in Nat
    PROVE  k * p \in Nat /\ k * p <= n * p
<1>1. PICK d \in Nat : n = k + d
  <2>1. n - k \in Nat /\ n = k + (n - k)
    OBVIOUS
  <2> QED
    BY <2>1
<1>2. k * p \in Nat /\ d * p \in Nat
  OBVIOUS
<1>3. (k + d) * p = k * p + d * p
  OBVIOUS
<1> QED
  BY <1>1, <1>2, <1>3

\* What follows from a schedule's parameters once its immediate part is paid.
LEMMA ScheduleFacts ==
    ASSUME ScheduleInv, stage \in {"stream", "done"}
    PROVE  /\ Streamed \in Nat
           /\ streamEpochs \in Nat \ {0}
           /\ Per \in Nat /\ Remainder \in Nat /\ Remainder < streamEpochs
           /\ streamEpochs * Per + Remainder = Streamed
           /\ Streamed = total - immediate /\ total \in Nat /\ immediate \in Nat
           /\ total <= MaxU128 /\ MaxU128 \in Nat
<1>1. /\ total \in Nat /\ immediate \in Nat /\ immediate <= total
      /\ total <= MaxU128 /\ MaxU128 \in Nat
      /\ streamEpochs \in Nat \ {0}
  BY MaturationAssumption DEF ScheduleInv, TypeOK, Accepted
<1>2. Streamed \in Nat
  BY <1>1 DEF Streamed
<1> QED
  BY <1>1, <1>2, DivisionFacts DEF Per, Remainder, Streamed

\* A turn of the loop deals what Dealt says, and never more than the total.
LEMMA DealtFacts ==
    ASSUME ScheduleInv, stage \in {"stream", "done"},
           NEW k \in Nat, k < streamEpochs
    PROVE  /\ Part(k) \in 0..MaxU128
           /\ Dealt(k) \in Nat
           /\ Dealt(k + 1) = Dealt(k) + Part(k)
           /\ Dealt(k + 1) \in 0..total
<1>1. /\ (k + 1) * Per = k * Per + Per
      /\ k * Per \in Nat /\ (k + 1) * Per \in Nat
      /\ (k + 1) * Per <= streamEpochs * Per
  <2>1. Per \in Nat /\ streamEpochs \in Nat /\ k + 1 \in Nat /\ k + 1 <= streamEpochs
    BY ScheduleFacts
  <2>2. (k + 1) * Per = k * Per + Per
    BY <2>1, OneMore
  <2>3. k * Per \in Nat /\ (k + 1) * Per \in Nat
    BY <2>1
  <2>4. (k + 1) * Per <= streamEpochs * Per
    BY <2>1, FewerParts
  <2> QED
    BY <2>2, <2>3, <2>4
<1>2. Part(k) = IF k < Remainder THEN Per + 1 ELSE Per
  BY DEF Part
<1>3. /\ Dealt(k) = immediate + k * Per + LeastOf(k, Remainder)
      /\ Dealt(k + 1) = immediate + (k + 1) * Per + LeastOf(k + 1, Remainder)
  BY DEF Dealt
<1>4. /\ LeastOf(k, Remainder) \in Nat
      /\ LeastOf(k + 1, Remainder) \in Nat /\ LeastOf(k + 1, Remainder) <= Remainder
      /\ LeastOf(k + 1, Remainder) = LeastOf(k, Remainder) + (IF k < Remainder THEN 1 ELSE 0)
  BY ScheduleFacts DEF LeastOf
<1>5. Dealt(k) \in Nat /\ Dealt(k + 1) = Dealt(k) + Part(k)
  BY <1>1, <1>2, <1>3, <1>4, ScheduleFacts
<1>6. Dealt(k + 1) \in Nat /\ Dealt(k + 1) <= total
  BY <1>1, <1>3, <1>4, ScheduleFacts
<1>7. Part(k) \in Nat /\ Part(k) <= MaxU128
  BY <1>2, <1>5, <1>6, ScheduleFacts
<1> QED
  BY <1>5, <1>6, <1>7, ScheduleFacts

\* What is dealt is within the total, and is the total at the end.
LEMMA DealtWithinTotal ==
    ASSUME ScheduleInv, stage \in {"stream", "done"}
    PROVE  /\ Dealt(Len(stream)) <= total
           /\ Dealt(streamEpochs) = total
<1>1. Dealt(streamEpochs) = total
  <2>1. LeastOf(streamEpochs, Remainder) = Remainder
    BY ScheduleFacts DEF LeastOf
  <2>2. Dealt(streamEpochs) = immediate + streamEpochs * Per + Remainder
    BY <2>1 DEF Dealt
  <2>3. streamEpochs * Per \in Nat
    BY ScheduleFacts
  <2> QED
    BY <2>2, <2>3, ScheduleFacts
<1>2. Len(stream) \in Nat /\ Len(stream) <= streamEpochs
  BY DEF ScheduleInv, TypeOK
<1>3. CASE Len(stream) = streamEpochs
  BY <1>1, <1>3, ScheduleFacts
<1>4. CASE Len(stream) < streamEpochs
  <2>1. Dealt(Len(stream)) \in Nat /\ Dealt(Len(stream) + 1) <= total
        /\ Dealt(Len(stream) + 1) = Dealt(Len(stream)) + Part(Len(stream))
        /\ Part(Len(stream)) \in Nat
    BY <1>2, <1>4, DealtFacts, ScheduleFacts
  <2> QED
    BY <2>1, <1>1, ScheduleFacts
<1> QED
  BY <1>1, <1>2, <1>3, <1>4, ScheduleFacts

-----------------------------------------------------------------------------
LEMMA InitInv ==
    Init => ScheduleInv
  BY MaturationAssumption DEF Init, ScheduleInv, TypeOK

LEMMA RejectKeeps ==
    ASSUME ScheduleInv, Reject
    PROVE  ScheduleInv'
  BY DEF ScheduleInv, Reject, TypeOK, input

\* The immediate part is within the total, and nothing of the stream is dealt.
LEMMA PayImmediateKeeps ==
    ASSUME ScheduleInv, PayImmediate
    PROVE  ScheduleInv'
<1>1. /\ UNCHANGED input /\ stream' = stream /\ stage' = "stream"
      /\ immediate' = ImmediatePart /\ given' = ImmediatePart
      /\ stage = "start" /\ stream = <<>> /\ Accepted
  BY DEF PayImmediate, ScheduleInv
<1>2. /\ total \in Nat /\ total <= MaxU128 /\ MaxU128 \in Nat
      /\ immediateBps \in Nat /\ immediateBps <= Bps /\ streamEpochs \in Nat \ {0}
  BY <1>1, MaturationAssumption DEF ScheduleInv, TypeOK, Accepted
<1>3. ImmediatePart \in Nat /\ ImmediatePart <= total
  BY <1>2, ShareFacts, MaturationAssumption DEF ImmediatePart
<1>4. ImmediatePart' = ImmediatePart /\ Accepted'
  BY <1>1 DEF ImmediatePart, Accepted, input
<1>5. TypeOK'
  BY <1>1, <1>2, <1>3 DEF ScheduleInv, TypeOK, input
<1>6. Dealt(0)' = immediate'
  <2>1. Streamed' \in Nat
    BY <1>1, <1>2, <1>3 DEF Streamed, input
  <2>2. Per' \in Nat /\ Remainder' \in Nat
    BY <2>1, <1>1, <1>2, DivisionFacts DEF Per, Remainder, input
  <2>3. \A p \in Nat : 0 * p = 0
    OBVIOUS
  <2>4. LeastOf(0, Remainder') = 0
    BY <2>2 DEF LeastOf
  <2> QED
    BY <2>2, <2>3, <2>4, <1>1, <1>3 DEF Dealt
<1>7. Len(stream') = 0 /\ Len(stream') <= streamEpochs'
  BY <1>1, <1>2 DEF input
<1> QED
  BY <1>1, <1>3, <1>4, <1>5, <1>6, <1>7 DEF ScheduleInv, input

LEMMA PushKeeps ==
    ASSUME ScheduleInv, Push
    PROVE  ScheduleInv'
<1> DEFINE k == Len(stream)
<1>1. /\ UNCHANGED <<input, stage, immediate>> /\ stage = "stream"
      /\ stream' = Append(stream, Part(k)) /\ given' = given + Part(k)
      /\ k < streamEpochs
  BY DEF Push
<1>2. /\ stream \in Seq(0..MaxU128) /\ k \in Nat
      /\ given = Dealt(k) /\ Accepted /\ immediate = ImmediatePart
      /\ \A i \in 1..k : stream[i] = Part(i - 1)
  BY <1>1 DEF ScheduleInv, TypeOK
<1>3. /\ Part(k) \in 0..MaxU128
      /\ given' = Dealt(k + 1) /\ Dealt(k + 1) \in 0..total
  BY <1>1, <1>2, DealtFacts
<1>4. /\ stream' \in Seq(0..MaxU128) /\ Len(stream') = k + 1
      /\ \A i \in 1..k : stream'[i] = stream[i]
      /\ stream'[k + 1] = Part(k)
  BY <1>1, <1>2, <1>3
<1>5. /\ Streamed' = Streamed /\ Per' = Per /\ Remainder' = Remainder
      /\ ImmediatePart' = ImmediatePart /\ Accepted' = Accepted
  BY <1>1 DEF Streamed, Per, Remainder, ImmediatePart, Accepted, input
<1>6. \A i \in 1..(k + 1) : Part(i - 1)' = Part(i - 1)
  BY <1>5 DEF Part
<1>7. \A i \in 1..(k + 1) : stream'[i] = Part(i - 1)
  <2>1. SUFFICES ASSUME NEW i \in 1..(k + 1) PROVE stream'[i] = Part(i - 1)
    OBVIOUS
  <2>2. CASE i = k + 1
    BY <2>2, <1>4, <1>2
  <2>3. CASE i \in 1..k
    BY <2>3, <1>4, <1>2
  <2> QED
    BY <2>2, <2>3, <1>2
<1>8. TypeOK'
  <2>1. given' \in 0..MaxU128
    BY <1>3, ScheduleFacts, <1>1
  <2> QED
    BY <2>1, <1>1, <1>4 DEF ScheduleInv, TypeOK, input
<1>9. k + 1 <= streamEpochs
  BY <1>1, <1>2, ScheduleFacts
<1>10. given' = Dealt(Len(stream))'
  BY <1>1, <1>3, <1>4, <1>5 DEF Dealt
<1>11. \A i \in 1..Len(stream') : stream'[i] = Part(i - 1)'
  BY <1>4, <1>6, <1>7
<1>12. immediate' <= total' /\ immediate' = ImmediatePart' /\ Accepted'
  BY <1>1, <1>2, <1>5 DEF ScheduleInv, input
<1> QED
  BY <1>1, <1>4, <1>8, <1>9, <1>10, <1>11, <1>12 DEF ScheduleInv, input

LEMMA FinishKeeps ==
    ASSUME ScheduleInv, Finish
    PROVE  ScheduleInv'
<1>1. /\ UNCHANGED <<input, immediate, stream, given>> /\ stage' = "done"
      /\ stage = "stream" /\ Len(stream) = streamEpochs
  BY DEF Finish
<1>2. /\ ImmediatePart' = ImmediatePart /\ Accepted' = Accepted
      /\ Dealt(Len(stream))' = Dealt(Len(stream))
      /\ \A i \in 1..Len(stream) : Part(i - 1)' = Part(i - 1)
  BY <1>1 DEF ImmediatePart, Accepted, Dealt, Part, Per, Remainder, Streamed, input
<1>3. TypeOK'
  BY <1>1 DEF ScheduleInv, TypeOK, input
<1> QED
  BY <1>1, <1>2, <1>3 DEF ScheduleInv, input

\* The invariant is inductive.
LEMMA ScheduleInvariance ==
    Spec => []ScheduleInv
<1>1. ScheduleInv /\ [Next]_vars => ScheduleInv'
  <2> SUFFICES ASSUME ScheduleInv, [Next]_vars PROVE ScheduleInv'
    OBVIOUS
  <2>1. CASE UNCHANGED vars
    BY <2>1 DEF vars, input, ScheduleInv, TypeOK, Accepted, ImmediatePart, Dealt,
       Part, Per, Remainder, Streamed
  <2> QED
    BY <2>1, RejectKeeps, PayImmediateKeeps, PushKeeps, FinishKeeps DEF Next
<1> QED
  BY <1>1, InitInv, PTL DEF Spec

-----------------------------------------------------------------------------
\* Every value of a schedule is a u128, so that no checked operation but the
\* product of apply_bps can overflow.
THEOREM TypeCorrect == Spec => []TypeOK
<1>1. ScheduleInv => TypeOK
  BY DEF ScheduleInv
<1> QED
  BY <1>1, ScheduleInvariance, PTL

\* A schedule gives exactly its payout, and is never ahead of it, for any
\* payout, share and number of epochs.
THEOREM ExactSchedule == Spec => []SumsToTotal
<1>1. ScheduleInv => SumsToTotal
  <2> SUFFICES ASSUME ScheduleInv PROVE SumsToTotal
    OBVIOUS
  <2>1. CASE stage = "start"
    BY <2>1 DEF ScheduleInv, TypeOK, SumsToTotal
  <2>2. CASE stage = "stream"
    BY <2>2, DealtWithinTotal DEF SumsToTotal, ScheduleInv
  <2>3. CASE stage = "done"
    BY <2>3, DealtWithinTotal DEF SumsToTotal, ScheduleInv
  <2>4. CASE stage = "error"
    BY <2>4 DEF SumsToTotal
  <2> QED
    BY <2>1, <2>2, <2>3, <2>4 DEF ScheduleInv, TypeOK
<1> QED
  BY <1>1, ScheduleInvariance, PTL

\* No two epochs of a stream differ by more than a unit, and it never rises.
THEOREM EvenStream == Spec => []StreamIsEven
<1>1. ScheduleInv => StreamIsEven
  <2> SUFFICES ASSUME ScheduleInv, NEW i \in DOMAIN stream, NEW j \in DOMAIN stream, i <= j
               PROVE  stream[i] - stream[j] \in {0, 1}
    BY DEF StreamIsEven
  <2>1. stage \in {"stream", "done"} /\ stream \in Seq(0..MaxU128)
    <3>1. stage \in {"start", "error"} => stream = <<>>
      BY DEF ScheduleInv
    <3> QED
      BY <3>1 DEF ScheduleInv, TypeOK
  <2>2. i \in 1..Len(stream) /\ j \in 1..Len(stream)
    BY <2>1
  <2>3. stream[i] = Part(i - 1) /\ stream[j] = Part(j - 1)
    BY <2>1, <2>2 DEF ScheduleInv
  <2>4. Per \in Nat /\ Remainder \in Nat
    BY <2>1, ScheduleFacts
  <2> QED
    BY <2>2, <2>3, <2>4 DEF Part
<1> QED
  BY <1>1, ScheduleInvariance, PTL
=============================================================================
