----------------------------- MODULE Maturation -----------------------------
(***************************************************************************)
(* maturation_schedule (crates/aipow-score/src/lib.rs): a payout is split  *)
(* into an immediate part and one part per stream epoch.  An action is the *)
(* code up to its loop, or one turn of the loop.                           *)
(***************************************************************************)
EXTENDS Integers, Sequences

CONSTANTS
    MaxU128,         \* u128::MAX, a small number here
    Bps,             \* BPS_DENOMINATOR: 1.0
    Totals,          \* the inputs: the payout
    ImmediateShares, \* the inputs: immediate_bps
    StreamLengths    \* the inputs: stream_epochs

ASSUME MaturationAssumption ==
    /\ MaxU128 \in Nat
    /\ Bps \in Nat \ {0}
    /\ Totals \subseteq 0..MaxU128
    /\ ImmediateShares \subseteq Nat
    /\ StreamLengths \subseteq Nat

VARIABLES
    total, immediateBps, streamEpochs,
    stage,       \* "start", "stream", "done" or "error"
    immediate,   \* MaturationSchedule::immediate
    stream,      \* MaturationSchedule::stream
    given        \* history: what the parts so far add up to

input == <<total, immediateBps, streamEpochs>>
vars == <<input, stage, immediate, stream, given>>

TypeOK ==
    /\ total \in 0..MaxU128
    /\ immediateBps \in Nat
    /\ streamEpochs \in Nat
    /\ stage \in {"start", "stream", "done", "error"}
    /\ immediate \in 0..MaxU128
    /\ stream \in Seq(0..MaxU128)
    /\ given \in 0..MaxU128

Init ==
    /\ total \in Totals
    /\ immediateBps \in ImmediateShares
    /\ streamEpochs \in StreamLengths
    /\ stage = "start"
    /\ immediate = 0
    /\ stream = <<>>
    /\ given = 0

-----------------------------------------------------------------------------
\* Mutant: a share of more than all is not refused.
MutantAccepted == streamEpochs # 0

Accepted == immediateBps <= Bps /\ streamEpochs # 0

\* apply_bps multiplies before it divides.
Fits == total * immediateBps <= MaxU128

Reject ==
    /\ stage = "start"
    /\ ~Accepted \/ ~Fits
    /\ stage' = "error"
    /\ UNCHANGED <<input, immediate, stream, given>>

ImmediatePart == (total * immediateBps) \div Bps

PayImmediate ==
    /\ stage = "start"
    /\ Accepted /\ Fits
    /\ immediate' = ImmediatePart
    /\ given' = ImmediatePart
    /\ stage' = "stream"
    /\ UNCHANGED <<input, stream>>

Streamed == total - immediate
Per == Streamed \div streamEpochs
Remainder == Streamed % streamEpochs

\* Mutants: the remainder is lost; the first epoch gets all of it.
MutantPart(index) == Per
MutantPartFirst(index) == IF index = 0 THEN Per + Remainder ELSE Per

\* What stream epoch `index`, from 0, gets.
Part(index) == IF index < Remainder THEN Per + 1 ELSE Per

\* (The checked_add of a part cannot overflow: TypeOK bounds each part.)
Push ==
    /\ stage = "stream"
    /\ Len(stream) < streamEpochs
    /\ stream' = Append(stream, Part(Len(stream)))
    /\ given' = given + Part(Len(stream))
    /\ UNCHANGED <<input, stage, immediate>>

Finish ==
    /\ stage = "stream"
    /\ Len(stream) = streamEpochs
    /\ stage' = "done"
    /\ UNCHANGED <<input, immediate, stream, given>>

Next == Reject \/ PayImmediate \/ Push \/ Finish

Spec == Init /\ [][Next]_vars

-----------------------------------------------------------------------------
\* lib.rs, MaturationSchedule: "The parts always sum exactly to the input
\* total."  Two floored divisions and a remainder that is dealt out one by one
\* neither create nor lose a unit, and no schedule is ahead of its payout.
SumsToTotal ==
    /\ stage # "error" => given <= total
    /\ stage = "done" => given = total

\* docs/methodology.md, section 9: division remainders go to the earliest
\* stream epochs; so the stream never rises, and no two epochs of it differ by
\* more than one unit.
StreamIsEven ==
    \A i, j \in DOMAIN stream :
        i <= j => stream[i] - stream[j] \in {0, 1}

-----------------------------------------------------------------------------
\* What the parts dealt so far must add up to: the invariant the proof of
\* SumsToTotal goes through.
LeastOf(a, b) == IF a <= b THEN a ELSE b

Dealt(k) == immediate + k * Per + LeastOf(k, Remainder)

ScheduleInv ==
    /\ TypeOK
    /\ stage \in {"start", "error"} => given = 0 /\ stream = <<>>
    /\ stage \in {"stream", "done"} =>
          /\ Accepted
          /\ immediate = ImmediatePart /\ immediate <= total
          /\ Len(stream) <= streamEpochs
          /\ given = Dealt(Len(stream))
          /\ \A i \in 1..Len(stream) : stream[i] = Part(i - 1)
    /\ stage = "done" => Len(stream) = streamEpochs
=============================================================================
