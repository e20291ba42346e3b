# TLA+ specifications of the PoIW scorer

`poiw-scorer` computes, off-chain and per epoch, who is paid how much for the
AI work that was settled on chain, and publishes a signed commitment to the
scores.  Two independent scorers that follow the methodology must get the same
root.  What can go wrong is therefore mostly of three kinds: an indexer that
ingests something else than another one (a reorg, a page that moved, a row that
was skipped), arithmetic that creates value or depends on an order, and a
commitment that does not say what was scored.  These modules model those parts
from the source, check them with TLC on small instances, and prove with TLAPS, for
every value of the parameters, every invariant that TLC checks on them: what the
walker guarantees over an ideal node and over several that are behind, that runs over
the tosctld list agree, that the pipeline pays within demand, budgets and caps in
whatever order the units come, that its loops compute the allocation their definition
says, that maturation neither creates nor loses value, and what published files and
their roots say.

Paths below are relative to the repository; `rpc.rs`, `tosctld.rs` are in
`crates/aipow-indexer/src`, and `score`, `types`, `classifier`, `commitment`,
`cli` stand for the `lib.rs` or `main.rs` of the crate of that name.

## 1. Inventory

| Component | State it keeps | Operations | Correct when |
|---|---|---|---|
| RPC block walker (`rpc.rs`) | `checkpoint`, `blocks`, and the locals of a running `tick()` | `tick`, `verify_checkpoint`, `epoch_complete`, `epoch_data` | no block is skipped, what is served is final, exact and never changes, and it gets served |
| JSON-RPC transport and adapter (`rpc.rs`) | `block_meta`'s looked-up block id | `call`, `head`, `block_meta`, `settled_units` | a block's id, time and units belong together, although several calls, answered by several nodes, bring them |
| Masterchain nodes (external) | the live chain, and earlier views of it | grow, fork above the final part, answer late | (environment) |
| tosctld source (`tosctld.rs`) | the rows and pages of a call | `fetch_all`, `epoch_data` | scorers get identical unit sets or fail identically; calls end |
| tosctld server (external) | a growing list | serves pages | (environment) |
| Types (`types`) | none | domains, evidence, `to_settled_work_unit` | an attribution that cannot be valued is an error |
| Classifier (`classifier`) | none | eligibility, counterparty discount, organic value | wash demand is worth nothing |
| Score pipeline (`score`, `cli`) | the values of one run | `valued_units`, `score_epoch`, `epoch_pool`, `allocate_epoch`, the merge | order-free sums, demand-gated emission, budgets and caps hold, who is paid is committed |
| Maturation schedule (`score`) | the parts pushed so far | `maturation_schedule` | the parts add up to the payout exactly, evenly |
| Bucket allocation (`score`) | the loops' running values | `allocate_bucket` | never above budget or caps, only dust is lost |
| Commitment (`commitment`, `cli`) | the tree level, the commitment in hand, the published file | `score_root`, `sign`, `verify`, `FileSubmitter::submit` | equal roots exactly for equal scores, files say what was signed, re-runs repair |
| CLI runs (`cli`) | the values of one process; files and output outlive it | `parse_args`, `run` | processes agree, whatever fails or is killed, and end |
| Fixture source (`aipow-indexer/src/lib.rs`) | a map read once | lookup | not modelled: nothing changes |

How they interact: a source (tosctld or fixture; the walker is not wired into the
command yet) hands an `EpochData` to `run()`, which calls the pipeline's stages one
after the other and then `score_root`, `sign` and `submit`, and prints the result.
Nothing is shared between two runs but the published files.  The hard behaviours are at the edges: the chain moves between
any two RPCs of a tick, the server's list grows between two pages, RPCs fail in
the middle of a tick, consecutive calls are answered by nodes that are behind by different delays,
a process dies between truncating and writing a file or between publishing and
printing, two processes write one file, and
inside the pipeline every stage may abort on overflow.  `PROJECT.json` lists
each hazard at its line with the properties that cover it, and why if none does.

## 2. Modules

```
Masterchain -- FinalizedLog            the environment; the abstract log
     +-------- RpcWalker -- RpcWalkerProofs
                   |  +---- MCRpcWalker
                   +------- JsonRpcNodes -- JsonRpcNodesProofs, MCJsonRpcNodes
Scoring ------ ScoringProofs
   +---------- AllocateBucket -- AllocateBucketProofs, MCAllocateBucket
   +---------- EpochScore -- EpochScoreProofs, MCEpochScore
Attribution ------+
Maturation --- MaturationProofs, MCMaturation
Tosctld ------ MCTosctld
   +---------- ShadowScoring -- ShadowScoringProofs, MCShadowScoring
Commitment --- CommitmentProofs, MCCommitment
```

**Masterchain** is the chain as `ChainRpc` shows it.  A block is its branch and
time; a branch number is never used twice for one seqno, so equal branches are
equal hashes, and the branch also names the units of the block.  `Fork` drops
blocks above `settled`, the highest seqno that ever was `FinalityDepth` deep, so
the live chain may become shorter.

**RpcWalker** is `RpcChainSource`.  An action is what `tick()` does from the
answer of one RPC up to the next, `pc` names the RPC that is awaited, and the
chain may move in between.

| Code | Actions |
|---|---|
| `verify_checkpoint` (`rpc.rs` 146–169) | `VerifyNone`, `VerifyMatch`, `VerifyMismatch` (retain, `get` of the block before, new checkpoint) |
| `head()`, the start (174–183) | `ReadHead` |
| while loop: `block_meta(next)` | `FetchMeta`, or `TickDone` when `~MoreToScan` |
| `settled_units(next)`, insert, checkpoint | `FetchUnits` |
| any `?` | `RpcError`: what was ingested, and what was rewound, stays |
| `epoch_complete`, `epoch_data` | `EpochComplete`, `EpochData` |

`rewound` is a history variable.  A verify RPC that fails changes nothing and is
a stuttering step.  Each FetchUnits answers for the block the chain has at that
moment, which need not be the one `block_meta` answered for.  The checkpoint's
seqno is the one the walker asked for; the code stores the one `block_meta` reports
(`rpc.rs` 195) and compares it with nothing, so that a node reports the seqno it was
asked for is an assumption on the node.

**JsonRpcNodes** is the walker over `JsonRpcChainRpc`, one action per JSON-RPC
call: `LookupCheckpoint`, `HeaderMatches` or `HeaderDiffers` for the verification,
`AskHead`, then `LookupBlock`, `GetHeader`, `GetSettledWork` for each block.  It
EXTENDS `RpcWalker` and uses its `BeginScan`, `Ingest`, `Rewind` and `MoreToScan`.
`past` is every view the chain ever had, and each answer comes from one of them: a
node may be behind, and the next call may be answered by another.  `getBlockHeader`
names the root hash that was looked up, so whichever node answers it is about that
block; `aipowGetSettledWork` names a seqno only, so it may be about another.  The
history `lag` is by how many settled blocks the most outdated answer was behind.

**FinalizedLog** is the abstract specification: a log of settled blocks that
grows by one block in seqno order and is never changed.  `RpcWalker` implements
it with `log <- blocks` when the chain is final at the configured confirmations.

**Scoring** and **Attribution** are the pure arithmetic: amounts are naturals,
divisions floor, and an operator named `...Peak` is the largest number the code
computes in the corresponding checked expression, so that overflow is
`Peak > MaxU128`.  `Bps` and `Percent` are the 10 000 and the 100 of the code, so
that small instances can count in tenths.  `ValuedUnits` is `Err` when an attribution does not convert.

**EpochScore** drives one epoch through the stages of `run()`: `attribute`
(`valued_units`), `units` (the loop of `score_epoch`, one action per unit, in
any order), `adjust`, `value`, `pool`, `budget`, `organic`, `challenge`,
`merge`.  Each stage has an action that finishes and one per way to abort; the
checked additions of the merge (`main.rs` 240–255) abort in `MergeOverflow`, and its
`score_root` cannot fail, as the merged entries are of different identities.

**AllocateBucket** is `allocate_bucket` turn by turn of its four loops.  A
running sum of the code is kept as the function of the turns done (`sumTo`,
`shareTo`, `domainTo`), and `paidTo`, `takenTo` are the running sums of what is
paid.  It is shown to compute `Scoring!Allocation`, which EpochScore uses.

**Maturation** is `maturation_schedule`, one `Push` per turn of its loop.

**Tosctld** is `TosctldSource` of several scorers against one growing list.
The server may send short pages, but not an empty one while rows are left (that
is what `fetch_all` takes as the end).  A row has one of three forms: `Valid`; `Bad`,
a `WireEvent` with a field that does not parse, which fails the epoch the row is of
(`BadRow`); and `Malformed`, no `WireEvent`, which fails every page it is on
(`Shape`), whatever epoch is asked for.  An answer that is no page at all is counted with
the transport's errors.  A row is named by its `id`, and the units a
call returns are the function from the places of the epoch's rows to their ids: with
the order of the list, that is all by which two answers can differ.

**ShadowScoring** composes runs of the command over it, as processes:

| Code (`main.rs`) | Actions |
|---|---|
| `parse_args`, start of `run` (105–179) | `BeginRun` |
| `source.epoch_data(..)?` (191–203) | `ReadSource` (all of `Tosctld!Call`), `SourceFails` |
| `valued_units` to `score_root` (214–255) | `Score`, `ScoreFails` |
| the seed (257–260) | `MissingSeed` |
| `submitter.submit` (275; `commitment` 222–231) | `Open` (truncates), `Write`, `WriteFails` |
| `println!` (278–292) | `PrintResult` |
| the process ends at any step | `Kill` |

Scoring is one step here that may abort (on an epoch of more than `MaxScored`
units, standing for any abort that the units decide), and its root is named by the
units it was computed from: that it depends on nothing else is what `EpochScore`
shows (`SumsAreOrderFree`), and that roots tell scores apart what `Commitment` shows
(`PublishedRootsDecide`).  All processes are given the same directory, seed, epoch
length, rate card and score version.

**Commitment** is `score_root` level by level, signing, and `FileSubmitter` with
crashes, failed file operations, commitments altered before `submit`, and
re-runs.  A hash is the term that is hashed and a signature the pair of signer
and digest: SHA-256 and ed25519 are taken as ideal.  `fs::write` is two steps,
truncating and writing.  The sort of `score_root` is what it yields: the k-th entry is
the one that k - 1 others precede, for a list of different identities (any other is
rejected).

## 3. Runs

| Run | Question | Answer and bound |
|---|---|---|
| `walker_final` | Is what the walker serves final, exact and stable when `FinalityDepth <= Confirmations`? | Yes, with forks between any two RPCs. Chains up to 6 blocks, two forks, gaps 0..2 (two blocks of one second, and skipped epochs), scan from genesis; finality, confirmations, margin and epoch length are small enough that rewinds are possible, epochs end inside and between ticks. Also checks the refinement of `FinalizedLog`. |
| `walker_deep` | What holds when the chain is not final at all? | No hole, and stale blocks only below the last rewind point (methodology section 11); finality is off (`FinalityDepth > MaxHead`), so forks reach down to genesis. |
| `walker_live` | How deep may forks below the confirmations go, and is everything scanned and served at last? | `ReorgMargin + 1` blocks when they happen between ticks; the bound is sharp: with `FinalityDepth = 4` instead of 3 `VerifiedScanIsCanonical` fails. And yes, with one block per tick, RPC errors at any time, two forks and rewinds. |
| `walker_midtick` | Does the methodology's bound on stale data hold if the chain forks inside a tick? | No (section 6). |
| `json_rpc` | And if each call may be answered from an outdated view? | What the walker holds is final, whole and exact as long as `lag + FinalityDepth <= Confirmations`, and until then it only appends. Chains up to 5 blocks, two forks between any two calls, `Confirmations` one above `FinalityDepth`, so that answers one settled block behind are covered and others are not. The premise is sharp: with `lag + FinalityDepth <= Confirmations + 1` `LagIsCovered` fails. |
| `score_epoch` | Does the whole pipeline create what it should? | Yes, for all multisets of up to three of thirteen units with three reliability maps, for lists of settlements with every error of `to_settled_work_unit`, and for lists of large amounts; three schedule caps and three k so that cap and demand each decide. Rates count in tenths (`Bps = Percent = 10`), and `MaxU128 = 10 000` and `MaxU64 = 1000` are low enough that every overflow action fires: a unit, an identity's sum (of eleven units that each fit), an adjusted score, an earner's value, the pool, the challenge budget, an allocation, the sum of both buckets. In the program a unit cannot overflow, since amounts are `u64` and sums `u128`; the checks are there, and the modules follow them. |
| `score_floor` | Does a zero-demand epoch emit exactly the floor? | No (section 6). |
| `allocate` | Do the loops compute the allocation, within budget and caps? | Yes, for all buckets of three entries in two domains, with five scores, six budgets, and an identity cap or none; `MaxU128 = 150` is low enough that each checked operation overflows for some of them. |
| `maturation` | Does a schedule pay out exactly its payout, evenly? | Yes, for payouts up to 40, shares from none to eleven tenths (the last is refused) and up to five stream epochs (none is refused); `MaxU128 = 300` lets the product of `apply_bps` overflow for some. |
| `shadow` | Do processes that score past epochs agree on every result, through failures, kills and re-runs, with one directory for all? | Yes, and each run ends: two processes, three rows, pages of two, two pages per call (lists that fit in one page, in two, and in too many), an epoch that is over and one that is not, one fault at any step, any number of re-runs. |
| `tosctld_current` | And if an epoch is scored that is not over, are two scorers that are both served at least served alike? | No (section 6). |
| `commitment` | Do published roots decide, survive faults, and repeat? | Yes: two scorers, lists of up to five entries (odd levels at each height), with a duplicate and an altered score among them, and two faults. |

Why the bounds are enough: the walker compares seqnos only with `head -
Confirmations` and `checkpoint - ReorgMargin`, so a chain a few blocks longer
than their sum reaches every order of these; the allocation treats domains
alike, and two domains of three entries give a domain of one, of several, and an
empty one; `fetch_all` depends on a page being full, short or the last, and
three rows in pages of two reach all of them.  In the small instances `MaxU128`,
`MaxU64`, `Bps` and `Percent` are small numbers; nothing in the modules depends on
their values, and the proofs are for any.

Deadlock is checked in the walker's runs, in `json_rpc`, `shadow` and `commitment`,
which may not stop; an epoch, an allocation, a schedule and a call of `epoch_data`
end.

### Fairness

Only `walker_live`, `shadow` and `commitment` assume any.

* Walker: the caller ticks for ever, so a step of the code that is not an RPC
  that may fail is weakly fair.  An RPC may fail any number of times, each time
  ending the tick, so `head`, `block_meta` and `settled_units` are only possible
  again and again: they are strongly fair, i.e. a node that is asked for ever
  answers at last.  The chain grows (weakly fair).  Forks and errors need not
  happen.
* Runs of the command: a process that runs goes on (weak fairness of its own
  steps).  The server, the clock and other processes need not, nothing need be
  started, and nothing need fail.
* Commitment: a run that was started goes on, and an operator runs a scorer
  again after a failure.  Crashes are bounded by `MaxFaults`, so that a publication can
  complete; the next run begins by itself (the process is a run).

## 4. Proofs

Every invariant and every safety action property of a passing run is a theorem.  Each
proof module EXTENDS its component's module, so the theorem is about the very
definitions TLC evaluates; `EpochScoreProofs` and `AllocateBucketProofs` also EXTEND
`ScoringProofs`, the lemmas about sums and about the operators of `Scoring`.

`RpcWalkerProofs` proves for all parameters, any chain length, any number of
forks and any margin:

| Theorem | From | States |
|---|---|---|
| `TypeCorrect` | nothing more | `Spec => []TypeOK` |
| `Contiguity` | nothing more | the scan has no gap and the checkpoint is its last block, whatever the chain does |
| `Finality` | `FinalityDepth <= Confirmations` | all scanned blocks are settled and the chain's |
| `ServedEpochIsStable`, `ServedEpochIsExact` | the same | a served epoch has exactly the chain's units and keeps them |
| `WalkerImplementsLog` | the same | `Spec` refines `FinalizedLog` |

The argument has three layers, each an inductive invariant of `RpcWalker`.
`TypeInv` adds to `TypeOK` that a tick which waits for units has a block in hand
and room for it (else `scanned` could pass its bound).  `ContigInv` adds that
`next` follows the checkpoint while a tick scans; `ScanIsContiguous` alone is not
inductive, since `FetchUnits` stores whatever `next` says.  `FinalInv` adds that
the chain is settled `FinalityDepth` below its head, that block times do not
decrease, and `PendingIsFinal`: the `finalized` a tick computed from its head is
settled even if that head is gone, so the block it holds between its two RPCs
cannot be replaced.  From it a mismatch is impossible (`NoMismatch`), a fetched
block is canonical (`FetchedIsFinal`), and once the last block is past an epoch's
end no later block is in the epoch (`PastIsNotInEpoch`).  The assumptions are
those of the modules: `ReorgMargin`, `StartSeqno` and so on are naturals, the two
parameters `new` rejects at zero are positive.

Its second part goes on to chains that are not final, for all parameters, when
they fork between ticks only (`ForksDuringTick = FALSE`; `walker_midtick` shows that
this is needed):

| Theorem | From | States |
|---|---|---|
| `StaleDataIsBounded` | nothing more | stale blocks stay below every rewind point (`VerifyBoundsStaleData`) |
| `MarginSuffices` | `FinalityDepth <= Confirmations + ReorgMargin + 1` | a verified walker holds nothing of an abandoned branch |

Both rest on `AgreesIn(low, f)`: some `f`, at most one above the checkpoint, is the
first abandoned block.  From `low` up to `f` the scan is the chain's; if `f` is at or
below the checkpoint, all live blocks from `f` on are of branches newer than the
checkpoint's, so the checkpoint can only match when `f` is above it, i.e. when
nothing from `low` on is stale.  A fork moves `f` down, a tick that verified scans on
the chain (`PendingIsOnChain`), and a rewind that ends below `f` leaves nothing
stale, since a new `f` is then above the new checkpoint.  `StaleInv` takes the
last rewind point for `low`; `MarginInv` takes 0 and adds that `f` is at most
`ReorgMargin` below the checkpoint, which is what makes a single rewind enough.

`JsonRpcNodesProofs` proves, for any number of calls, views and forks between them:

| Theorem | States |
|---|---|
| `NodesTypeCorrect` | types, among them that a block is in hand exactly while its call is awaited |
| `LagIsCoveredAlways` | while `lag + FinalityDepth <= Confirmations`, scanned blocks are final and whole and served epochs exact |
| `NodesOnlyAppend` | while that holds, the blocks only grow by the next settled one |

In `NodesFinalInv`, `ViewsInv` says that a view ends at most `FinalityDepth` above its
own settled part, which is still the chain's; `ConfirmedInv` that what is scanned, or
about to be, is `Confirmations` deep under some head that existed; so an answer that
is at most `lag` behind has it settled, and what is looked up of one node, and asked
of another, is the same block (`InHandIsFinal`).

`ShadowScoringProofs` proves for any number of processes, any list, page limit, page
bound, epoch length and number of faults:

| Theorem | From | States |
|---|---|---|
| `ShadowTypeCorrect` | nothing more | types, and that only a run whose source has answered opens, writes or prints |
| `CallsReadAPrefix` | nothing more | what a call has in hand is a beginning of the list |
| `PastScorersAgree` | `OnlyPastEpochs` | calls for one epoch have the same units, or both fail on a row that does not parse, or both on a page that does not deserialize |
| `ResultsStayComplete` | `OnlyPastEpochs` | all that is served, printed or published is the whole epoch, for ever |
| `FilesStayWhole` | `OnlyPastEpochs` | processes that write one file at once leave it torn or whole |

The list grows, and not in an epoch that is over (`EpochIsOver`); a call leaves
`fetch` with at least the rows that were there (`FetchIsSound`), so it has all of
such an epoch (`OwnRowsAreAll`), and both what it returns and whether it fails on a
row is a function of the list (`PastCallOf`).  Agreement follows, without any step
that compares two processes; and a file that is overwritten has the same units
(`OverwriteIsWhole`), hence the same length, and stays whole.  `ShadowInv` is the
conjunction.  `tosctld_current` shows that `OnlyPastEpochs` is needed.

`CommitmentProofs` proves for any number of scorers, lists of any length, any epochs
and faults, from `CommitmentAssumption`, which says that a list is a sequence of
identities and scores and that an order is a permutation of its places:

| Theorem | States |
|---|---|
| `TypeCorrect` | `score_root` merges between one hash and one per entry; what is submitted is a whole commitment to one of the epochs, whatever was altered of it |
| `FilesAreSigned` | a file that can be read is what its scorer signed for the epoch in the file's name |
| `RootsDecideScores` | two published roots are equal exactly when the entries are; a list with an identity twice has none |
| `RerunsAgree` | a scorer that is run again publishes the commitment it has published |

`PublishedIsSigned` is not inductive: what is altered between signing and submitting is
in hand, not in a file.  `SignedInv` adds that whatever is in hand carries the scorer's
own signature over its own epoch and total (`InHandIsSigned`), and that what is
written has been verified; a record that verifies under that signature has that
digest, so it is what was signed.

That the root decides is an argument about trees of any height, and induction over a
recursive definition is out of the provers' reach, so nothing in it is defined by
recursion.

* The entries *under* a hash (`Under`) are those whose leaf is in every set of hashes
  that holds the hash and, with a node, both its children.  Three lemmas say what is under
  a leaf, the empty root and a node, and `NextLevelKeeps` that a level and the next
  one, with or without an odd node, have the same entries under them.  So the entries
  are a function of the root (half of `RootsDecide`).
* A list of levels, each the `NextLevel` of the one before, ends in one hash in only one
  way (`MergesToOneEnd`, by a smallest place where two such lists differ), and the leaves depend on
  the entries alone: the k-th of a sorted list is the one that k - 1 others
  precede, whatever the order they came in (`SortedFacts`).  So the root is a function
  of the entries (the other half).

`RootInv` carries this through the steps: the level in hand is on the way from the
leaves (`MergeInv`), the digest that is signed names the root of the entries, altered or not
(`HandInv`), and what is in a file or was published is the one commitment the scorer
can publish (`PublishedInv`).

`EpochScoreProofs` proves for any number of units and settlements, identities, domains,
histories, schedules and widths, from `ScoringAssumption` (parameters that `validate`
accepts, and a floor that is a `u128`), `AttributionAssumption` and `InputAssumption`
(prices, values and history counters are naturals, evidence is one of the levels):

| Theorem | States |
|---|---|
| `TypeCorrect` | every amount of an epoch that is not given up, the committed sums included, fits its integer; only identities of units are scored, paid and committed |
| `EverySettlementIsScored` | `NothingIsSkipped`: each unit and each settlement of a scored epoch is a unit that is scored |
| `SumsDoNotDependOnTheOrder` | `SumsAreOrderFree`: the sums, and whether they overflow, do not depend on the order of the units |
| `EmissionNeedsDemand` | `EmissionIsDemandGated`: at most k percent of the demand and the floor is paid |
| `WashDemandIsWorthless` | `WashDemandMintsNothing`: demand that reaches an earner from inside one control domain creates nothing, whatever else is in the epoch: the pool is at most k percent of the others' demand |
| `PaymentsKeepTheOrder` | `FairWithinDomain`: in a domain, who scores no less is paid no less |
| `CommitmentCoversPayouts` | `PaidIsCommitted`: the committed scores add up to both buckets' and cover everyone paid |

Each property reads what several stages have computed, so none is inductive.  `EpochInv`
says of every stage's result that it is what its stage makes of the ones before, and
fits: `UnitsInv` (the units are those of the input, valued), `SumsInv` (a running sum is
the sum over the units the loop has reached, so it is the full one at the end),
`OverflowInv` (the loop gives up only if a unit or a full sum does not fit: a partial
sum is no larger), `ScoresInv`, `MoneyInv` (organic value and pool), `BudgetsInv`,
`PayoutsInv` (a bucket's payouts are nothing or `Allocation` of its budget and scores)
and `CommittedInv` (the merged scores, whose sum fits).  The theorems then follow from lemmas of `ScoringProofs`.

`ScoringProofs` has no theorem of a specification.  `Scoring` sums with `SumFunction` and
`SumFunctionOnSet` of the community modules, which fold over a set in an order that is
not fixed.  The lemmas show that such a sum exists for every finite set (a least
subset without one is impossible: `SubsetInduction`, from `WFMin`), that any element
may be taken first (`SumTakes`), and from these that sums are monotone, that they may be taken part
by part and group by group (`SumOfUnion`, `SumByGroup`), and add
(`SumOfSums`).  On them rest `ProRataFacts` and `AllocationFacts` (payouts are within
the budget and in order), `AllocationPeakFacts`, `EarnerValueFacts` and
`OneDomainIsWorthless` (the counterparty discount), `ValueOfEarners` (organic value is at most
the demand of those earners whose value is not zero) and from it `OrganicValueFacts` (at most
the whole demand), `PoolFacts` and `BudgetFacts`.

`AllocateBucketProofs` proves for a bucket of any number of entries, any scores,
domains, budget, caps and `MaxU128`, from `ScoringAssumption` and `AllocateAssumption`:

| Theorem | States |
|---|---|
| `TypeCorrect` | every value of the loops stays a natural; nothing is divided by zero |
| `WithinBudget` | no more than the budget is paid, at every turn |
| `WithinDomainCaps` | no control domain is paid more than its cap |
| `LosesOnlyDust` | when no cap bites, less than one unit per entry is not paid |
| `LoopsAreExact` | the loops return `Scoring!Allocation`, and overflow exactly where `AllocationPeak` does not fit |
| `NoGainFromSplitting` | without an identity cap, a domain is paid at most what one identity with its whole score would be |

`NeverOverspends` is a statement about the last loop only, so it needs what each
earlier loop has established (`LoopInv`): after the first, `sumTo` is a running sum
that ends at `total`; after the second, `shareTo[k] * total <= budget * sumTo[k]`,
the form in which a floored division can be summed, hence `shareTo[k] <= budget`;
after the third, `domainTo[d]` is the running sum of the domain's shares.  The last
loop then keeps `paidTo[k] <= shareTo[k]`, and, for a domain above its cap,
`takenTo[d][k] * domainTotal(d) <= capAmount * domainTo[d][k]` (`PaidFromShares`),
which at its end, divided by the domain's total, is the cap.  `DustInv` is the bound
from below, `(shareTo[k] + k) * total > budget * sumTo[k]`.

`ComputeInv` says of each loop that its running values are the sums over the entries it has
done and its results those of `Scoring`, and that what the code has multiplied fits.  An
overflow is then a product the peak bounds, and at the end all of the peak has been
found to fit.  `SplitInv` needs the scores of a domain as a sum over a set: its
members' floored shares add up to at most the share of their sum, and the cap
applies to either.

`MaturationProofs` proves for any payout, share, length and `MaxU128`, from
`MaturationAssumption`:

| Theorem | States |
|---|---|
| `TypeCorrect` | no part and no sum of parts overflows, so the loop's `checked_add` cannot fail |
| `ExactSchedule` | the parts never run ahead of the payout and add up to it at the end |
| `EvenStream` | the parts never rise and differ by at most one unit |

`ScheduleInv` says what `k` parts add up to: the immediate part, `k` times the
quotient, and the smaller of `k` and the remainder.  At the last turn that is the
payout, by the division's own equation; before it, no more.

Only model-checked: the liveness properties `SettledIsScanned`, `EpochGetsServed`,
`RunsEnd` and `TornIsRepaired` (fairness is beyond the prover), and the three violations of
section 6, which are counterexamples.

## 5. What is not modelled

* The fixture source: a lookup in a map that is read once, without state that
  changes; its errors end a run before it has done anything.
* The wire types, HTTP, hex, the values of options and the layout of the output:
  I/O that is seen as an answer or an error, or data no property tells apart.
* A chain that returns to a branch it had left; a server that loses or reorders
  rows, or lists a row late (later than the second it was observed in): the
  contract of either is not in this repository.
* A node that answers `block_meta` with another block than it was asked for: the code
  would store the answer under the seqno it asked for and make the other seqno its
  checkpoint.  That nodes do not is an assumption of `RpcWalker`.
* What is in a file that is partly written over another whole one: it counts as
  torn, or as the new units with a rest of the old file, unless both have the same units.  All processes are given the same seed, so then
  both have the same bytes.
* Restarts of the walker: its state is in memory only, so a new process is another
  behaviour of the same specification, on a chain that has grown before its first tick.
* Runs that are given different seeds, epoch lengths, rate cards or versions of the
  scorer.
* u64 overflow of seqnos and epochs (`next + 1`, the end of an epoch): seqnos
  stay far below; saturation at zero is modelled.
* Collisions of SHA-256, forged signatures.

## 6. What the runs found

* `walker_midtick`: docs/methodology.md section 11 says the margin bounds stale
  data below the rewind point.  `tick()` compares the checkpoint once, then
  fetches blocks without comparing them with it.  If the chain forks after that,
  new blocks are put on top of orphaned ones, the next checkpoint matches, and
  the stale blocks are never found.  With `FinalityDepth <= Confirmations` this
  cannot happen (`Finality`).  In the shortest trace the fork comes between two fetches
  of the first tick, whose `verify_checkpoint` has no checkpoint to compare yet.
* `score_floor`: "total emission is exactly the floor" in a zero-demand epoch is
  an upper bound: the identity and domain caps still apply and the rest is not
  redistributed.
* `tosctld_current`: "shadow scoring only ever scores past epochs" is not
  enforced.  A scorer of an epoch that is not over is served with what the list has of
  it: in the trace one reads it before a valid row is added and is served without
  units, the other after, and is served with that row.

Read rather than run: the comment on `EpochAllocation::organic_budget` (`score`
369–370) says `pool - challenge_budget`, and the code leaves the excess of the
cold-start floor over the challenge share out of the subtraction, as methodology
section 7.1 wants; `EmissionIsDemandGated` states what the code does.  And one row of a
later epoch that is no `WireEvent` makes every later call fail with `Shape`, for past
epochs too, for which an earlier scorer was served: `ScorersAgree` counts a `Shape` as
decided by the list only when a row of the epoch itself, or of one before it, is
malformed.

## 7. Plan

1. An abstract specification of the pipeline (an epoch that pays within demand)
   that `EpochScore` implements.
2. A refinement proof for that specification, from `EpochInv`.
3. The composition of walker and runs, once the command has the walker as a source.
