----------------------------- MODULE RpcWalker -----------------------------
(***************************************************************************)
(* RpcChainSource (crates/aipow-indexer/src/rpc.rs): the indexer that      *)
(* walks finalized masterchain blocks with a checkpoint.                   *)
(*                                                                         *)
(* One call of tick() makes several RPCs, and the chain may move between   *)
(* any two of them, so an action is what tick() does from one RPC's answer *)
(* up to its next RPC.  pc names the RPC that is awaited:                  *)
(*    "idle"   no tick is running; the next one starts by asking for the   *)
(*             block at the checkpoint (verify_checkpoint)                 *)
(*    "head"   head()                                                      *)
(*    "scan"   the head of the while loop: block_meta(next), or return     *)
(*    "units"  settled_units(next)                                         *)
(*                                                                         *)
(* The u64 arithmetic of seqnos is modelled up to saturation at zero, the  *)
(* end that behaviours reach.                                              *)
(***************************************************************************)
EXTENDS Masterchain

CONSTANTS
    Confirmations,      \* WalkerConfig::confirmations
    ReorgMargin,        \* WalkerConfig::reorg_margin
    MaxBlocksPerTick,   \* WalkerConfig::max_blocks_per_tick
    EpochSeconds,       \* WalkerConfig::epoch_seconds
    StartSeqno,         \* WalkerConfig::start_seqno
    ForksDuringTick,    \* environment: may the chain fork while a tick runs?
    None                \* Option::None

\* RpcChainSource::new rejects the two zeroes.
ASSUME WalkerAssumption ==
    /\ Confirmations \in Nat
    /\ ReorgMargin \in Nat
    /\ MaxBlocksPerTick \in Nat \ {0}
    /\ EpochSeconds \in Nat \ {0}
    /\ StartSeqno \in Nat
    /\ ForksDuringTick \in BOOLEAN

Block == [hash : Nat, time : Nat, units : Nat]   \* ScannedBlock
BlockRef == [seqno : Nat, hash : Nat]

ASSUME NoneAssumption == None \notin BlockRef /\ None \notin ChainBlock

VARIABLES
    checkpoint,   \* RpcChainSource::checkpoint
    blocks,       \* RpcChainSource::blocks
    pc,           \* which RPC is awaited
    finalized,    \* tick()'s local: head - confirmations when head() answered
    next,         \* tick()'s local: the seqno to scan
    scanned,      \* tick()'s local: blocks scanned by this tick
    meta,         \* tick()'s local: block_meta(next)'s answer, or None
    rewound       \* the rewound_seqno of the last rewind, 0 if there was none

tickVars == <<finalized, next, scanned, meta>>
walkerVars == <<checkpoint, blocks, pc, tickVars, rewound>>
vars == <<chainVars, walkerVars>>

Scanned == DOMAIN blocks

TypeOK ==
    /\ ChainTypeOK
    /\ checkpoint \in BlockRef \cup {None}
    /\ Scanned \subseteq Nat
    /\ blocks \in [Scanned -> Block]
    /\ pc \in {"idle", "head", "scan", "units"}
    /\ finalized \in Nat
    /\ next \in Nat
    /\ scanned \in 0..MaxBlocksPerTick
    /\ meta \in ChainBlock \cup {None}
    /\ rewound \in Nat

\* u64::saturating_sub
Monus(a, b) == IF a > b THEN a - b ELSE 0

\* tick()'s locals do not outlive the call.
EndTick ==
    /\ pc' = "idle"
    /\ finalized' = 0
    /\ next' = 0
    /\ scanned' = 0
    /\ meta' = None

WalkerInit ==
    /\ checkpoint = None
    /\ blocks = NoBlocks
    /\ pc = "idle"
    /\ finalized = 0
    /\ next = 0
    /\ scanned = 0
    /\ meta = None
    /\ rewound = 0

-----------------------------------------------------------------------------
(* verify_checkpoint                                                       *)

\* There is nothing to verify.
VerifyNone ==
    /\ pc = "idle"
    /\ checkpoint = None
    /\ pc' = "head"
    /\ UNCHANGED <<chainVars, checkpoint, blocks, tickVars, rewound>>

\* The chain still has the checkpoint's block.
VerifyMatch ==
    /\ pc = "idle"
    /\ checkpoint # None
    /\ checkpoint.seqno <= head
    /\ chain[checkpoint.seqno].branch = checkpoint.hash
    /\ pc' = "head"
    /\ UNCHANGED <<chainVars, checkpoint, blocks, tickVars, rewound>>

\* Mutant: the margin is one block short.
MutantRewindTo == Monus(checkpoint.seqno + 1, ReorgMargin)

\* Where a mismatch rewinds to.
RewindTo == Monus(checkpoint.seqno, ReorgMargin)

\* Mutant: retain keeps the block rewound to, off by one.
MutantKeptRewindTo == {s \in Scanned : s <= RewindTo}

\* Mutant: the checkpoint is rewound, and the blocks above it stay.
MutantKeptAll == Scanned

\* What a rewind retains.
Kept == {s \in Scanned : s < RewindTo}

\* What was scanned from RewindTo on is dropped; the block before it, if it was
\* scanned, is the new checkpoint.
Rewind ==
    /\ blocks' = Restrict(blocks, Kept)
    /\ LET last == Monus(RewindTo, 1)
       IN  checkpoint' = IF last \in Kept
                         THEN [seqno |-> last, hash |-> blocks[last].hash]
                         ELSE None
    /\ rewound' = RewindTo

\* The chain has another block there.  (A checkpoint that the chain has no
\* block for is an RPC error: the tick returns with nothing changed, a
\* stuttering step here.)
VerifyMismatch ==
    /\ pc = "idle"
    /\ checkpoint # None
    /\ checkpoint.seqno <= head
    /\ chain[checkpoint.seqno].branch # checkpoint.hash
    /\ Rewind
    /\ pc' = "head"
    /\ UNCHANGED <<chainVars, tickVars>>

-----------------------------------------------------------------------------
(* tick, after verify_checkpoint                                           *)

\* Mutant: one confirmation too few.
MutantFinalizedHead(top) == Monus(top + 1, Confirmations)

FinalizedHead(top) == Monus(top, Confirmations)

\* The loop starts right after the checkpoint.
BeginScan(top) ==
    /\ finalized' = FinalizedHead(top)
    /\ next' = IF checkpoint = None THEN StartSeqno ELSE checkpoint.seqno + 1
    /\ scanned' = 0

ReadHead ==
    /\ pc = "head"
    /\ BeginScan(head)
    /\ pc' = "scan"
    /\ UNCHANGED <<chainVars, checkpoint, blocks, meta, rewound>>

\* Mutants: the tick scans a block more, or a block less, than its bound.
MutantMoreToScanLong == next <= finalized /\ scanned <= MaxBlocksPerTick
MutantMoreToScanShort == next <= finalized /\ scanned + 1 < MaxBlocksPerTick

\* The condition of the while loop.
MoreToScan == next <= finalized /\ scanned < MaxBlocksPerTick

FetchMeta ==
    /\ pc = "scan"
    /\ MoreToScan
    /\ next <= head
    /\ meta' = chain[next]
    /\ pc' = "units"
    /\ UNCHANGED <<chainVars, checkpoint, blocks, finalized, next, scanned, rewound>>

\* The block is stored with its units and becomes the checkpoint.  The code takes
\* the checkpoint's seqno from the answer; a node is assumed to answer
\* block_meta(next) with the block of that seqno, which nothing compares.
Ingest(units) ==
    /\ blocks' = [s \in Scanned \cup {next} |->
                    IF s = next
                    THEN [hash |-> meta.branch, time |-> meta.time, units |-> units]
                    ELSE blocks[s]]
    /\ checkpoint' = [seqno |-> next, hash |-> meta.branch]
    /\ scanned' = scanned + 1
    /\ next' = next + 1
    /\ meta' = None

\* settled_units(next) is keyed by seqno alone: its answer is that of the
\* block the chain has now.
FetchUnits ==
    /\ pc = "units"
    /\ next <= head
    /\ Ingest(chain[next].branch)
    /\ pc' = "scan"
    /\ UNCHANGED <<chainVars, finalized, rewound>>

\* The loop is over and tick() returns.
TickDone ==
    /\ pc = "scan"
    /\ ~MoreToScan
    /\ EndTick
    /\ UNCHANGED <<chainVars, checkpoint, blocks, rewound>>

\* An RPC fails, or the chain has no such block (any more): tick() returns
\* the error and keeps what it has ingested, and what it has rewound.
RpcError ==
    /\ pc = "head" \/ (pc = "scan" /\ MoreToScan) \/ pc = "units"
    /\ EndTick
    /\ UNCHANGED <<chainVars, checkpoint, blocks, rewound>>

Tick ==
    \/ VerifyNone \/ VerifyMatch \/ VerifyMismatch
    \/ ReadHead \/ FetchMeta \/ FetchUnits \/ TickDone \/ RpcError

ChainGrows == Grow /\ UNCHANGED walkerVars

ChainForks ==
    /\ ForksDuringTick \/ pc = "idle"
    /\ Fork
    /\ UNCHANGED walkerVars

Init == ChainInit /\ WalkerInit
Next == ChainGrows \/ ChainForks \/ Tick
Spec == Init /\ [][Next]_vars

\* The chain no longer has the block the loop asks for.
BlockGone == RpcError /\ pc # "head" /\ next > head

\* The caller ticks for ever, the node does not fail one RPC for ever, and
\* the chain grows.
Fairness ==
    /\ WF_vars(ChainGrows)
    /\ WF_vars(VerifyNone) /\ WF_vars(VerifyMatch) /\ WF_vars(VerifyMismatch)
    /\ WF_vars(TickDone) /\ WF_vars(BlockGone)
    /\ SF_vars(ReadHead) /\ SF_vars(FetchMeta) /\ SF_vars(FetchUnits)

FairSpec == Spec /\ Fairness

-----------------------------------------------------------------------------
(* epoch_data                                                              *)

EpochOf(time) == time \div EpochSeconds

\* Mutants: complete once a block of the epoch is there; or only once a block
\* is past the first second of the next epoch.
MutantEpochCompleteEarly(epoch) ==
    \E last \in Scanned :
        /\ \A s \in Scanned : s <= last
        /\ blocks[last].time >= epoch * EpochSeconds

MutantEpochCompleteLate(epoch) ==
    \E last \in Scanned :
        /\ \A s \in Scanned : s <= last
        /\ blocks[last].time > (epoch + 1) * EpochSeconds

\* epoch_complete: the last scanned block is past the end of the epoch.
EpochComplete(epoch) ==
    \E last \in Scanned :
        /\ \A s \in Scanned : s <= last
        /\ blocks[last].time >= (epoch + 1) * EpochSeconds

\* epoch_data's units, by the block they come from.
EpochData(epoch) ==
    [s \in {t \in Scanned : EpochOf(blocks[t].time) = epoch} |-> blocks[s].units]

\* The epochs a behaviour of at most MaxHead blocks can reach.
Epochs == 0..EpochOf(MaxHead * MaxGap)

-----------------------------------------------------------------------------
(* What must hold whatever the chain does                                  *)

\* The checkpoint is the last scanned block, and the scan has no gap below
\* it: however ticks, errors and rewinds follow each other, the walker skips
\* no block and resumes right after the last one (verify_checkpoint's retain
\* against its get, and tick's two places that set the checkpoint).
ScanIsContiguous ==
    IF checkpoint = None
    THEN Scanned = {}
    ELSE /\ Scanned = StartSeqno..checkpoint.seqno
         /\ checkpoint.seqno \in Scanned
         /\ blocks[checkpoint.seqno].hash = checkpoint.hash

Stale(s) == s > head \/ blocks[s] # Canonical(s)

\* What is left of an abandoned branch is below the last rewind point.
StaleOnlyBelowRewind == \A s \in Scanned : Stale(s) => s < rewound

\* docs/methodology.md, section 11: the margin bounds the stale data.  When
\* a tick has verified its checkpoint, every scanned block is on the chain
\* but those below the point the walker last rewound to.
VerifyBoundsStaleData ==
    [][pc = "idle" /\ pc' = "head" => StaleOnlyBelowRewind']_vars

-----------------------------------------------------------------------------
(* When the chain is final at Confirmations: FinalityDepth <= Confirmations *)

\* Everything the walker holds is final, and is the chain's: hash, time and
\* units, though the three are read by two RPCs that the chain may move
\* between, and though the head the tick read may be gone.
ScannedBlocksAreFinal ==
    \A s \in Scanned : s <= settled /\ blocks[s] = Canonical(s)

\* No block before the scan's start belongs to the epoch.
StartsByEpoch(epoch) ==
    \A s \in 0..head : s < StartSeqno => EpochOf(chain[s].time) # epoch

\* An epoch that epoch_data serves has exactly the units of the chain's blocks
\* of that epoch, and all of these are final.
CompleteEpochExact ==
    \A epoch \in Epochs :
        EpochComplete(epoch) /\ StartsByEpoch(epoch) =>
            EpochData(epoch) =
                [s \in {t \in 0..head : EpochOf(chain[t].time) = epoch} |->
                    chain[s].branch]

\* Once served, an epoch stays served, with the same units: a score that was
\* computed from it can be computed again.
CompleteEpochStable ==
    [][\A epoch \in Epochs :
          EpochComplete(epoch) =>
              EpochComplete(epoch)' /\ EpochData(epoch)' = EpochData(epoch)]_vars

\* The walker implements the log of settled blocks.
Log == INSTANCE FinalizedLog WITH log <- blocks
ImplementsLog == Log!LogSpec

-----------------------------------------------------------------------------
(* When forks reach at most ReorgMargin + 1 blocks below Confirmations, and *)
(* only between ticks                                                       *)

\* The rewind is deep enough: once a tick has verified its checkpoint, all
\* the walker holds is on the chain.
VerifiedScanIsCanonical == pc # "idle" => \A s \in Scanned : ~Stale(s)

-----------------------------------------------------------------------------
(* The invariants the proofs of RpcWalkerProofs go through                 *)

\* What TypeOK needs to be inductive: settled_units is only asked for by a
\* loop that may scan one block more.
TypeInv ==
    /\ TypeOK
    /\ pc = "units" => meta \in ChainBlock /\ scanned < MaxBlocksPerTick

\* The loop continues the scan.
NextFollowsCheckpoint ==
    pc \in {"scan", "units"} =>
        next = IF checkpoint = None THEN StartSeqno ELSE checkpoint.seqno + 1

ContigInv == TypeInv /\ ScanIsContiguous /\ NextFollowsCheckpoint

\* FinalityDepth blocks below the head the chain is settled.
SettledInv == head <= settled + FinalityDepth

\* What the tick holds between two RPCs is final too.
PendingIsFinal ==
    /\ pc \in {"scan", "units"} => finalized <= settled
    /\ pc = "units" => next <= finalized /\ meta = chain[next]

FinalInv ==
    /\ ContigInv
    /\ SettledInv
    /\ TimeMonotone
    /\ PendingIsFinal
    /\ ScannedBlocksAreFinal

\* Between low and the first abandoned block f the scan is canonical; from f on
\* the live chain's branches are newer than the checkpoint's.
AgreesIn(low, f) ==
    /\ \A s \in Scanned : low <= s /\ s < f => ~Stale(s)
    /\ f <= checkpoint.seqno =>
          /\ branch > checkpoint.hash
          /\ \A s \in f..head : chain[s].branch > checkpoint.hash

\* The chain adds to its newest branch.
BranchesInv ==
    /\ \A s \in 0..head : chain[s].branch <= branch
    /\ \A s \in Scanned : blocks[s].hash <= branch

\* What the tick holds between two RPCs is on the chain.
PendingIsOnChain ==
    /\ pc \in {"scan", "units"} => finalized <= head
    /\ pc = "units" => next <= finalized /\ meta = chain[next]

StaleInv ==
    /\ ContigInv
    /\ BranchesInv
    /\ PendingIsOnChain
    /\ pc # "idle" => StaleOnlyBelowRewind
    /\ checkpoint # None => \E f \in 0..(checkpoint.seqno + 1) : AgreesIn(rewound, f)

\* No fork has reached more than ReorgMargin below the checkpoint.
MarginInv ==
    /\ ContigInv
    /\ BranchesInv
    /\ PendingIsOnChain
    /\ SettledInv
    /\ pc \in {"scan", "units"} => finalized <= settled + ReorgMargin + 1
    /\ VerifiedScanIsCanonical
    /\ checkpoint # None =>
          /\ checkpoint.seqno <= settled + ReorgMargin + 1
          /\ \E f \in 0..(checkpoint.seqno + 1) :
                f + ReorgMargin >= checkpoint.seqno /\ AgreesIn(0, f)

-----------------------------------------------------------------------------
(* Progress                                                                *)

\* Every block that is settled is scanned at last: errors, rewinds and the
\* bound of a tick only delay it.
SettledIsScanned ==
    \A s \in StartSeqno..MaxHead : (s <= settled) ~> (s \in Scanned)

\* An epoch that a settled block has passed is served at last.
EpochGetsServed ==
    \A epoch \in Epochs :
        (/\ settled >= StartSeqno
         /\ chain[settled].time >= (epoch + 1) * EpochSeconds)
        ~> EpochComplete(epoch)
=============================================================================
