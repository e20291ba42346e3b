-------------------------- MODULE RpcWalkerProofs --------------------------
(* What holds of the walker for every value of its constants.              *)
EXTENDS RpcWalker, TLAPS

USE MasterchainAssumption, WalkerAssumption, NoneAssumption

\* saturating_sub stays in the naturals and is the difference, or zero.
LEMMA MonusFacts ==
    ASSUME NEW a \in Nat, NEW b \in Nat
    PROVE  /\ Monus(a, b) \in Nat
           /\ a > b => Monus(a, b) = a - b
           /\ a <= b => Monus(a, b) = 0
  BY DEF Monus

\* The chain's own moves keep its type.
LEMMA GrowType ==
    ASSUME ChainTypeOK, Grow
    PROVE  ChainTypeOK'
  <1>1. PICK gap \in 0..MaxGap :
           chain' = [s \in 0..(head + 1) |->
                       IF s <= head THEN chain[s]
                       ELSE [branch |-> branch, time |-> chain[head].time + gap]]
    BY DEF Grow
  <1>2. head' \in Nat /\ head' = head + 1 /\ branch' \in Nat
    BY DEF Grow, ChainTypeOK
  <1>3. chain' \in [0..head' -> ChainBlock]
    BY <1>1, <1>2 DEF ChainTypeOK, ChainBlock
  <1>4. settled' \in 0..head'
    BY <1>2 DEF Grow, ChainTypeOK
  <1> QED
    BY <1>2, <1>3, <1>4 DEF ChainTypeOK

LEMMA ForkType ==
    ASSUME ChainTypeOK, Fork
    PROVE  ChainTypeOK'
  <1>1. PICK f \in (settled + 1)..head :
           head' = f - 1 /\ chain' = Restrict(chain, 0..(f - 1))
    BY DEF Fork
  <1>2. head' \in Nat /\ branch' \in Nat /\ settled' \in 0..head'
    BY <1>1 DEF Fork, ChainTypeOK
  <1>3. chain' \in [0..head' -> ChainBlock]
    BY <1>1, <1>2 DEF ChainTypeOK, Restrict
  <1> QED
    BY <1>2, <1>3 DEF ChainTypeOK

-----------------------------------------------------------------------------
(* What a rewind and a stored block do to the scan                         *)

LEMMA RewindType ==
    ASSUME checkpoint \in BlockRef, Scanned \subseteq Nat, blocks \in [Scanned -> Block],
           Rewind
    PROVE  /\ checkpoint' \in BlockRef \cup {None}
           /\ Scanned' \subseteq Nat /\ blocks' \in [Scanned' -> Block]
           /\ rewound' \in Nat
  <1> USE DEF Scanned
  <1> DEFINE last == Monus(RewindTo, 1)
  <1>1. RewindTo \in Nat /\ last \in Nat
    BY MonusFacts DEF RewindTo, BlockRef
  <1>2. blocks' = Restrict(blocks, Kept) /\ Kept \subseteq Scanned
    BY DEF Rewind, Kept
  <1>3. Scanned' \subseteq Nat /\ blocks' \in [Scanned' -> Block]
    BY <1>2 DEF Restrict
  <1>4. checkpoint' \in BlockRef \cup {None}
    BY <1>1 DEF Rewind, Kept, BlockRef, Block
  <1> QED
    BY <1>1, <1>3, <1>4 DEF Rewind

\* A rewind cuts the scan off, and the checkpoint is its last block again.
LEMMA RewindContig ==
    ASSUME checkpoint \in BlockRef, checkpoint # None, Scanned \subseteq Nat,
           blocks \in [Scanned -> Block], ScanIsContiguous, Rewind
    PROVE  ScanIsContiguous'
  <1> USE DEF ScanIsContiguous, Scanned
  <1> DEFINE last == Monus(RewindTo, 1)
             kept == Kept
  <1>1. RewindTo \in 0..checkpoint.seqno
    BY DEF RewindTo, Monus, BlockRef
  <1>2. last \in Nat /\ (RewindTo > 0 => last = RewindTo - 1) /\ (RewindTo = 0 => last = 0)
    BY <1>1 DEF Monus
  <1>3. /\ blocks' = Restrict(blocks, kept)
        /\ checkpoint' = IF last \in kept
                         THEN [seqno |-> last, hash |-> blocks[last].hash]
                         ELSE None
    BY DEF Rewind
  <1>4. Scanned' = kept
    BY <1>3 DEF Restrict, Kept
  <1>5. Scanned = StartSeqno..checkpoint.seqno
    OBVIOUS
  <1>6. CASE last \in kept
    <2>1. RewindTo > 0 /\ last = RewindTo - 1
      BY <1>6, <1>1, <1>2 DEF Kept
    <2>2. kept = StartSeqno..last
      BY <1>5, <1>1, <2>1, SMT DEF Kept
    <2>3. checkpoint' = [seqno |-> last, hash |-> blocks[last].hash]
      BY <1>3, <1>6
    <2>4. checkpoint' # None
      <3>1. blocks[last] \in Block /\ last \in Nat
        BY <1>2, <1>6 DEF Kept
      <3>2. [seqno |-> last, hash |-> blocks[last].hash] \in BlockRef
        BY <3>1 DEF Block, BlockRef
      <3> QED
        BY <2>3, <3>2
    <2>5. blocks'[last].hash = blocks[last].hash
      BY <1>3, <1>6 DEF Restrict
    <2>6. checkpoint'.seqno = last /\ checkpoint'.hash = blocks[last].hash
      BY <2>3
    <2>7. Scanned' = StartSeqno..last /\ last \in Scanned'
      BY <2>2, <1>4, <1>6
    <2> QED
      BY <2>4, <2>5, <2>6, <2>7
  <1>7. CASE last \notin kept
    <2>1. kept = {}
      <3>1. RewindTo = 0 \/ (RewindTo > 0 /\ last = RewindTo - 1)
        BY <1>1, <1>2
      <3>2. ASSUME NEW s \in Scanned, s < RewindTo PROVE last \in Scanned
        BY <1>1, <1>2, <1>5, <3>1, <3>2
      <3>3. last \notin Scanned \/ ~(last < RewindTo)
        BY <1>7 DEF Kept
      <3>4. RewindTo > 0 => last < RewindTo
        BY <1>1, <3>1
      <3>5. \A s \in Scanned : ~(s < RewindTo)
        BY <1>1, <3>2, <3>3, <3>4
      <3> QED
        BY <3>5 DEF Kept
    <2> QED
      BY <2>1, <1>3, <1>4, <1>7
  <1> QED
    BY <1>6, <1>7

\* Where the loop goes on.
LEMMA NextFacts ==
    ASSUME checkpoint \in BlockRef \cup {None}, ScanIsContiguous,
           next = IF checkpoint = None THEN StartSeqno ELSE checkpoint.seqno + 1
    PROVE  next \in Nat /\ next >= StartSeqno /\ Scanned = StartSeqno..(next - 1)
  <1>1. CASE checkpoint = None
    <2>1. next = StartSeqno /\ Scanned = {}
      BY <1>1 DEF ScanIsContiguous
    <2> QED
      BY <2>1
  <1>2. CASE checkpoint # None
    <2>1. /\ next = checkpoint.seqno + 1
          /\ checkpoint.seqno \in Nat
          /\ Scanned = StartSeqno..checkpoint.seqno
          /\ checkpoint.seqno \in Scanned
      BY <1>2 DEF ScanIsContiguous, BlockRef
    <2> QED
      BY <2>1
  <1> QED
    BY <1>1, <1>2

LEMMA IngestType ==
    ASSUME Scanned \subseteq Nat, blocks \in [Scanned -> Block], next \in Nat,
           meta \in ChainBlock, NEW units \in Nat, Ingest(units)
    PROVE  /\ checkpoint' \in BlockRef
           /\ Scanned' \subseteq Nat /\ blocks' \in [Scanned' -> Block]
           /\ next' \in Nat
  <1>1. [hash |-> meta.branch, time |-> meta.time, units |-> units] \in Block
    BY DEF ChainBlock, Block
  <1> QED
    BY <1>1 DEF Ingest, Scanned, ChainBlock, BlockRef

\* A stored block is the next of the scan, and the new checkpoint.
LEMMA IngestContig ==
    ASSUME checkpoint \in BlockRef \cup {None}, ScanIsContiguous,
           next = IF checkpoint = None THEN StartSeqno ELSE checkpoint.seqno + 1,
           meta \in ChainBlock, NEW units, Ingest(units)
    PROVE  /\ ScanIsContiguous'
           /\ checkpoint' # None /\ next' = checkpoint'.seqno + 1
  <1>1. next \in Nat /\ next >= StartSeqno /\ Scanned = StartSeqno..(next - 1)
    BY NextFacts
  <1>2. Scanned' = Scanned \cup {next}
    BY DEF Ingest, Scanned
  <1>3. Scanned' = StartSeqno..next
    BY <1>1, <1>2
  <1>4. checkpoint' = [seqno |-> next, hash |-> meta.branch]
    BY DEF Ingest
  <1>5. checkpoint' # None
    BY <1>1, <1>4 DEF BlockRef, ChainBlock
  <1>6. blocks'[next].hash = meta.branch /\ next' = next + 1
    BY DEF Ingest
  <1>7. checkpoint'.seqno = next /\ checkpoint'.hash = meta.branch /\ next \in Scanned'
    BY <1>1, <1>3, <1>4
  <1> QED
    BY <1>3, <1>5, <1>6, <1>7 DEF ScanIsContiguous

-----------------------------------------------------------------------------
LEMMA TypeInit == Init => TypeInv
  BY DEF Init, ChainInit, WalkerInit, TypeInv, TypeOK, ChainTypeOK, ChainBlock,
         NoBlocks, Scanned

LEMMA TypeStep == TypeInv /\ [Next]_vars => TypeInv'
  <1> SUFFICES ASSUME TypeInv, [Next]_vars PROVE TypeInv'
    OBVIOUS
  <1> USE DEF TypeInv, TypeOK, Scanned
  <1>1. CASE ChainGrows
    <2>1. ChainTypeOK'
      BY <1>1, GrowType DEF ChainGrows
    <2> QED
      BY <1>1, <2>1 DEF ChainGrows, walkerVars, tickVars
  <1>2. CASE ChainForks
    <2>1. ChainTypeOK'
      BY <1>2, ForkType DEF ChainForks
    <2> QED
      BY <1>2, <2>1 DEF ChainForks, walkerVars, tickVars
  <1>3. CASE VerifyNone
    BY <1>3 DEF VerifyNone, chainVars, tickVars, ChainTypeOK
  <1>4. CASE VerifyMatch
    BY <1>4 DEF VerifyMatch, chainVars, tickVars, ChainTypeOK
  <1>5. CASE VerifyMismatch
    BY <1>5, RewindType DEF VerifyMismatch, chainVars, tickVars, ChainTypeOK
  <1>6. CASE ReadHead
    <2>1. finalized' \in Nat
      BY <1>6, MonusFacts DEF ReadHead, BeginScan, FinalizedHead, ChainTypeOK
    <2>2. next' \in Nat
      BY <1>6 DEF ReadHead, BeginScan, FinalizedHead, BlockRef
    <2>3. /\ UNCHANGED <<chainVars, checkpoint, blocks, meta, rewound>>
          /\ pc' = "scan" /\ scanned' = 0
      BY <1>6 DEF ReadHead, BeginScan
    <2>4. ChainTypeOK'
      BY <2>3 DEF chainVars, ChainTypeOK
    <2>5. scanned' \in 0..MaxBlocksPerTick
      BY <2>3
    <2> QED
      BY <2>1, <2>2, <2>3, <2>4, <2>5
  <1>7. CASE FetchMeta
    <2>1. meta' \in ChainBlock
      BY <1>7 DEF FetchMeta, ChainTypeOK
    <2> QED
      BY <1>7, <2>1 DEF FetchMeta, MoreToScan, chainVars, ChainTypeOK
  <1>8. CASE FetchUnits
    <2>1. chain[next].branch \in Nat
      BY <1>8 DEF FetchUnits, ChainTypeOK, ChainBlock
    <2>2. /\ checkpoint' \in BlockRef
          /\ Scanned' \subseteq Nat /\ blocks' \in [Scanned' -> Block]
          /\ next' \in Nat
      BY <1>8, <2>1, IngestType DEF FetchUnits
    <2>3. ChainTypeOK' /\ finalized' \in Nat /\ rewound' \in Nat
      BY <1>8 DEF FetchUnits, chainVars, ChainTypeOK
    <2>4. pc' = "scan" /\ meta' = None /\ scanned' \in 0..MaxBlocksPerTick
      BY <1>8 DEF FetchUnits, Ingest
    <2> QED
      BY <2>2, <2>3, <2>4
  <1>9. CASE TickDone \/ RpcError
    <2>1. /\ UNCHANGED <<chainVars, checkpoint, blocks, rewound>>
          /\ pc' = "idle" /\ meta' = None
          /\ finalized' = 0 /\ next' = 0 /\ scanned' = 0
      BY <1>9 DEF TickDone, RpcError, EndTick
    <2>2. ChainTypeOK'
      BY <2>1 DEF chainVars, ChainTypeOK
    <2> QED
      BY <2>1, <2>2
  <1>10. CASE UNCHANGED vars
    <2>1. ChainTypeOK'
      BY <1>10 DEF vars, chainVars, ChainTypeOK
    <2> QED
      BY <1>10, <2>1 DEF vars, walkerVars, tickVars
  <1> QED
    BY <1>1, <1>2, <1>3, <1>4, <1>5, <1>6, <1>7, <1>8, <1>9, <1>10
       DEF Next, Tick

\* The variables keep their types.
THEOREM TypeCorrect == Spec => []TypeOK
  <1>1. TypeInv => TypeOK
    BY DEF TypeInv
  <1> QED
    BY TypeInit, TypeStep, <1>1, PTL DEF Spec

-----------------------------------------------------------------------------
LEMMA ContigInit == Init => ContigInv
  BY TypeInit DEF Init, WalkerInit, ContigInv, ScanIsContiguous, Scanned, NoBlocks,
                  NextFollowsCheckpoint

LEMMA ContigStep == ContigInv /\ [Next]_vars => ContigInv'
  <1> SUFFICES ASSUME ContigInv, [Next]_vars PROVE ContigInv'
    OBVIOUS
  <1>0. TypeInv'
    BY TypeStep DEF ContigInv
  <1> SUFFICES ScanIsContiguous' /\ NextFollowsCheckpoint'
    BY <1>0 DEF ContigInv
  <1> USE DEF ContigInv, ScanIsContiguous, NextFollowsCheckpoint, Scanned
  <1>1. CASE ChainGrows
    BY <1>1 DEF ChainGrows, walkerVars, tickVars
  <1>2. CASE ChainForks
    BY <1>2 DEF ChainForks, walkerVars, tickVars
  <1>3. CASE VerifyNone
    BY <1>3 DEF VerifyNone
  <1>4. CASE VerifyMatch
    BY <1>4 DEF VerifyMatch
  <1>5. CASE VerifyMismatch
    BY <1>5, RewindContig DEF VerifyMismatch, TypeInv, TypeOK
  <1>6. CASE ReadHead
    BY <1>6 DEF ReadHead, BeginScan, FinalizedHead
  <1>7. CASE FetchMeta
    BY <1>7 DEF FetchMeta
  <1>8. CASE FetchUnits
    BY <1>8, IngestContig DEF FetchUnits, TypeInv, TypeOK
  <1>9. CASE TickDone
    BY <1>9 DEF TickDone, EndTick
  <1>10. CASE RpcError
    BY <1>10 DEF RpcError, EndTick
  <1>11. CASE UNCHANGED vars
    BY <1>11 DEF vars, walkerVars, tickVars
  <1> QED
    BY <1>1, <1>2, <1>3, <1>4, <1>5, <1>6, <1>7, <1>8, <1>9, <1>10, <1>11
       DEF Next, Tick

\* The walker never skips a block and never forgets one below its checkpoint,
\* whatever the chain does.
THEOREM Contiguity == Spec => []ScanIsContiguous
  <1>1. ContigInv => ScanIsContiguous
    BY DEF ContigInv
  <1> QED
    BY ContigInit, ContigStep, <1>1, PTL DEF Spec

-----------------------------------------------------------------------------
(* A chain that is final at Confirmations                                  *)

\* Growing changes nothing that exists, and settles more.
LEMMA GrowKeeps ==
    ASSUME ChainTypeOK, Grow
    PROVE  /\ head' = head + 1
           /\ \A s \in 0..head : chain'[s] = chain[s]
           /\ chain'[head + 1].branch = branch /\ branch' = branch
           /\ chain'[head + 1].time >= chain[head].time
           /\ settled' >= settled
           /\ head' <= settled' + FinalityDepth
  <1>1. PICK gap \in 0..MaxGap :
           chain' = [s \in 0..(head + 1) |->
                       IF s <= head THEN chain[s]
                       ELSE [branch |-> branch, time |-> chain[head].time + gap]]
    BY DEF Grow
  <1>2. head \in 0..head /\ head + 1 \in 0..(head + 1) /\ ~(head + 1 <= head)
    BY DEF ChainTypeOK
  <1>3. chain'[head + 1] = [branch |-> branch, time |-> chain[head].time + gap]
    BY <1>1, <1>2
  <1>4. chain[head].time \in Nat
    BY <1>2 DEF ChainTypeOK, ChainBlock
  <1>5. chain'[head + 1].time >= chain[head].time
    BY <1>3, <1>4
  <1>6. \A s \in 0..head : chain'[s] = chain[s]
    BY <1>1 DEF ChainTypeOK
  <1> QED
    BY <1>3, <1>5, <1>6 DEF Grow, ChainTypeOK

\* A fork leaves what is settled, and every block that is left is as it was.
LEMMA ForkKeeps ==
    ASSUME ChainTypeOK, Fork
    PROVE  /\ head' \in settled..(head - 1)
           /\ settled' = settled
           /\ \A s \in 0..head' : chain'[s] = chain[s]
           /\ branch' = branch + 1
  <1>1. PICK f \in (settled + 1)..head :
           head' = f - 1 /\ chain' = Restrict(chain, 0..(f - 1))
    BY DEF Fork
  <1> QED
    BY <1>1 DEF Fork, ChainTypeOK, Restrict

\* Growth keeps the times in order, and so does cutting the chain.
LEMMA GrowMonotone ==
    ASSUME ChainTypeOK, TimeMonotone, Grow
    PROVE  TimeMonotone'
  <1>1. ChainTypeOK' /\ head' = head + 1
    BY GrowType, GrowKeeps
  <1> SUFFICES ASSUME NEW s \in 0..(head + 1), NEW t \in 0..(head + 1), s <= t
               PROVE  chain'[s].time <= chain'[t].time
    BY <1>1 DEF TimeMonotone
  <1>2. \A u \in 0..head : chain'[u] = chain[u] /\ chain[u].time \in Nat
                          /\ chain[u].time <= chain[head].time
    <2>1. head \in 0..head /\ \A u \in 0..head : u <= head
      BY DEF ChainTypeOK
    <2>2. \A u \in 0..head : chain[u].time <= chain[head].time
      BY <2>1 DEF TimeMonotone
    <2>3. \A u \in 0..head : chain[u].time \in Nat
      BY DEF ChainTypeOK, ChainBlock
    <2>4. \A u \in 0..head : chain'[u] = chain[u]
      BY GrowKeeps
    <2> QED
      BY <2>2, <2>3, <2>4
  <1>3. chain'[head + 1].time >= chain[head].time /\ chain'[head + 1].time \in Nat
    <2>1. chain' \in [0..(head + 1) -> ChainBlock] /\ head + 1 \in 0..(head + 1)
      BY <1>1 DEF ChainTypeOK
    <2>2. chain'[head + 1].time \in Nat
      BY <2>1 DEF ChainBlock
    <2> QED
      BY <2>2, GrowKeeps
  <1>4. CASE t <= head
    BY <1>2, <1>4 DEF TimeMonotone, ChainTypeOK
  <1>5. CASE t = head + 1 /\ s <= head
    <2>1. s \in 0..head /\ head \in 0..head
      BY <1>5 DEF ChainTypeOK
    <2>2. chain'[s].time <= chain[head].time
             /\ chain'[s].time \in Nat /\ chain[head].time \in Nat
      BY <2>1, <1>2
    <2> QED
      BY <2>2, <1>3, <1>5
  <1>6. CASE t = head + 1 /\ s = head + 1
    BY <1>6, <1>3
  <1> QED
    BY <1>4, <1>5, <1>6 DEF ChainTypeOK

LEMMA ForkMonotone ==
    ASSUME ChainTypeOK, TimeMonotone, Fork
    PROVE  TimeMonotone'
  BY ForkKeeps DEF TimeMonotone, ChainTypeOK

\* In a final chain the checkpoint's block is never replaced: no rewind.
LEMMA NoMismatch ==
    ASSUME FinalInv
    PROVE  ~VerifyMismatch
  <1> SUFFICES ASSUME VerifyMismatch PROVE FALSE
    OBVIOUS
  <1>1. checkpoint.seqno \in Scanned
           /\ blocks[checkpoint.seqno].hash = checkpoint.hash
    BY DEF FinalInv, ContigInv, ScanIsContiguous, VerifyMismatch, Rewind
  <1>2. blocks[checkpoint.seqno] = Canonical(checkpoint.seqno)
    BY <1>1 DEF FinalInv, ScannedBlocksAreFinal
  <1> QED
    BY <1>1, <1>2 DEF VerifyMismatch, Rewind, Canonical

\* The block a tick is about to store is the next one of the log, and it is
\* final and whole.
LEMMA FetchedIsFinal ==
    ASSUME FinalInv, FetchUnits
    PROVE  /\ next \in StartSeqno..settled
           /\ Scanned = StartSeqno..(next - 1)
           /\ blocks' = [s \in StartSeqno..next |->
                           IF s = next THEN Canonical(next) ELSE blocks[s]]
  <1>1. next \in Nat /\ finalized \in Nat /\ settled \in Nat
    BY DEF FinalInv, ContigInv, TypeInv, TypeOK, ChainTypeOK
  <1>2. next <= settled /\ meta = chain[next]
    BY <1>1 DEF FinalInv, PendingIsFinal, FetchUnits, Ingest
  <1>3. next >= StartSeqno /\ Scanned = StartSeqno..(next - 1)
    BY NextFacts DEF FetchUnits, FinalInv, ContigInv, NextFollowsCheckpoint, TypeInv, TypeOK
  <1>4. Scanned \cup {next} = StartSeqno..next
    BY <1>1, <1>3
  <1>5. [hash |-> meta.branch, time |-> meta.time, units |-> chain[next].branch]
           = Canonical(next)
    BY <1>2 DEF Canonical
  <1>6. blocks' = [s \in Scanned \cup {next} |->
                     IF s = next THEN Canonical(next) ELSE blocks[s]]
    BY <1>5 DEF FetchUnits, Ingest
  <1>7. next \in StartSeqno..settled
    BY <1>1, <1>2, <1>3
  <1> QED
    BY <1>3, <1>4, <1>6, <1>7

LEMMA FinalInit == Init => FinalInv
  BY ContigInit
     DEF Init, ChainInit, WalkerInit, FinalInv, SettledInv, TimeMonotone,
         PendingIsFinal, ScannedBlocksAreFinal, Scanned, NoBlocks

LEMMA FinalStep ==
    ASSUME FinalityDepth <= Confirmations
    PROVE  FinalInv /\ [Next]_vars => FinalInv'
  <1> SUFFICES ASSUME FinalInv, [Next]_vars PROVE FinalInv'
    OBVIOUS
  <1>a. ContigInv'
    BY ContigStep DEF FinalInv
  <1>b. /\ ChainTypeOK
        /\ finalized \in Nat /\ next \in Nat /\ Scanned \subseteq Nat
    BY DEF FinalInv, ContigInv, TypeInv, TypeOK
  <1> SUFFICES /\ SettledInv' /\ TimeMonotone'
               /\ PendingIsFinal' /\ ScannedBlocksAreFinal'
    BY <1>a DEF FinalInv
  <1>1. CASE ChainGrows
    <2>1. SettledInv' /\ TimeMonotone'
      BY <1>1, <1>b, GrowKeeps, GrowMonotone DEF ChainGrows, FinalInv, SettledInv
    <2>2. settled' \in Nat /\ settled' >= settled
             /\ \A s \in 0..settled : chain'[s] = chain[s]
      BY <1>1, <1>b, GrowKeeps, GrowType DEF ChainGrows, ChainTypeOK
    <2>3. PendingIsFinal'
      BY <1>1, <1>b, <2>2
         DEF ChainGrows, walkerVars, tickVars, FinalInv, PendingIsFinal, ChainTypeOK
    <2>4. ScannedBlocksAreFinal'
      BY <1>1, <1>b, <2>2
         DEF ChainGrows, walkerVars, FinalInv, ScannedBlocksAreFinal, Scanned,
             Canonical, ChainTypeOK
    <2> QED
      BY <2>1, <2>3, <2>4
  <1>2. CASE ChainForks
    <2>1. TimeMonotone'
      BY <1>2, <1>b, ForkMonotone DEF ChainForks, FinalInv
    <2>2. settled' = settled /\ settled \in Nat
             /\ \A s \in 0..settled : chain'[s] = chain[s]
      BY <1>2, <1>b, ForkKeeps DEF ChainForks, ChainTypeOK
    <2>3. SettledInv'
      BY <1>2, <1>b, ForkKeeps DEF ChainForks, FinalInv, SettledInv, ChainTypeOK
    <2>4. PendingIsFinal'
      BY <1>2, <1>b, <2>2
         DEF ChainForks, walkerVars, tickVars, FinalInv, PendingIsFinal
    <2>5. ScannedBlocksAreFinal'
      BY <1>2, <1>b, <2>2
         DEF ChainForks, walkerVars, FinalInv, ScannedBlocksAreFinal, Scanned,
             Canonical
    <2> QED
      BY <2>1, <2>3, <2>4, <2>5
  <1>3. CASE chainVars' = chainVars /\ blocks' = blocks /\ pc' \in {"idle", "head"}
    BY <1>3 DEF chainVars, FinalInv, SettledInv, TimeMonotone, PendingIsFinal,
                ScannedBlocksAreFinal, Scanned, Canonical
  <1>4. CASE ReadHead
    <2>1. finalized' <= settled
      BY <1>4, <1>b DEF ReadHead, BeginScan, FinalizedHead, Monus, FinalInv, SettledInv, ChainTypeOK
    <2> QED
      BY <1>4, <2>1 DEF ReadHead, BeginScan, FinalizedHead, chainVars, FinalInv, SettledInv, TimeMonotone,
                PendingIsFinal, ScannedBlocksAreFinal, Scanned, Canonical
  <1>5. CASE FetchMeta
    BY <1>5 DEF FetchMeta, MoreToScan, chainVars, FinalInv, SettledInv, TimeMonotone,
                PendingIsFinal, ScannedBlocksAreFinal, Scanned, Canonical
  <1>6. CASE FetchUnits
    <2>1. SettledInv' /\ TimeMonotone' /\ PendingIsFinal'
      BY <1>6 DEF FetchUnits, Ingest, chainVars, FinalInv, SettledInv, TimeMonotone,
                  PendingIsFinal
    <2>2. chainVars' = chainVars
      BY <1>6 DEF FetchUnits, Ingest, chainVars
    <2>3. \A s \in Scanned' : s <= settled /\ blocks'[s] = Canonical(s)
      <3>1. next \in Nat /\ settled \in Nat
        BY <1>b DEF ChainTypeOK
      <3>2. Scanned' = StartSeqno..next
        BY <1>6, FetchedIsFinal DEF Scanned
      <3> SUFFICES ASSUME NEW s \in StartSeqno..next
                   PROVE  s <= settled /\ blocks'[s] = Canonical(s)
        BY <3>2
      <3>3. CASE s = next
        BY <1>6, <3>1, <3>3, FetchedIsFinal
      <3>4. CASE s # next
        <4>1. s \in Scanned /\ blocks'[s] = blocks[s]
          BY <1>6, <3>1, <3>4, FetchedIsFinal
        <4> QED
          BY <4>1 DEF FinalInv, ScannedBlocksAreFinal
      <3> QED
        BY <3>3, <3>4
    <2> QED
      BY <2>1, <2>2, <2>3 DEF chainVars, ScannedBlocksAreFinal, Canonical
  <1>7. CASE UNCHANGED vars
    BY <1>7 DEF vars, walkerVars, tickVars, chainVars, FinalInv, SettledInv,
                TimeMonotone, PendingIsFinal, ScannedBlocksAreFinal, Scanned, Canonical
  <1>8. ASSUME VerifyNone \/ VerifyMatch \/ TickDone \/ RpcError
        PROVE  chainVars' = chainVars /\ blocks' = blocks /\ pc' \in {"idle", "head"}
    BY <1>8 DEF VerifyNone, VerifyMatch, TickDone, RpcError, EndTick, chainVars
  <1> QED
    BY <1>1, <1>2, <1>3, <1>4, <1>5, <1>6, <1>7, <1>8, NoMismatch DEF Next, Tick

\* Everything the walker holds is final and is the chain's, wherever the chain
\* moves between a tick's RPCs.
THEOREM Finality ==
    ASSUME FinalityDepth <= Confirmations
    PROVE  Spec => []ScannedBlocksAreFinal
  <1>1. FinalInv /\ [Next]_vars => FinalInv'
    BY FinalStep
  <1>2. FinalInv => ScannedBlocksAreFinal
    BY DEF FinalInv
  <1> QED
    BY FinalInit, <1>1, <1>2, PTL DEF Spec

-----------------------------------------------------------------------------
(* What epoch_data serves                                                  *)

\* A time past the end of an epoch is not in it.
LEMMA PastIsNotInEpoch ==
    ASSUME NEW t \in Nat, NEW epoch \in Nat, t >= (epoch + 1) * EpochSeconds
    PROVE  EpochOf(t) # epoch
  BY SMT DEF EpochOf

\* What is read of a canonical block.
LEMMA CanonicalFields ==
    ASSUME NEW s
    PROVE  Canonical(s).time = chain[s].time /\ Canonical(s).units = chain[s].branch
  BY DEF Canonical

\* The epochs of a behaviour are naturals.
LEMMA EpochsAreNat == Epochs \subseteq Nat
  BY DEF Epochs

\* A step keeps what a complete epoch serves.
LEMMA ServedStep ==
    ASSUME FinalInv, FinalInv', Next, NEW epoch \in Nat, EpochComplete(epoch)
    PROVE  EpochComplete(epoch)' /\ EpochData(epoch)' = EpochData(epoch)
  <1>1. CASE blocks' = blocks
    BY <1>1 DEF EpochComplete, EpochData, Scanned
  <1>2. CASE FetchUnits
    <2>1. PICK last \in Scanned : /\ \A s \in Scanned : s <= last
                                  /\ blocks[last].time >= (epoch + 1) * EpochSeconds
      BY DEF EpochComplete
    <2>1a. next \in Nat /\ settled \in Nat /\ settled <= head
      BY DEF FinalInv, ContigInv, TypeInv, TypeOK, ChainTypeOK
    <2>2. /\ next \in Nat /\ settled \in Nat /\ settled <= head
          /\ Scanned = StartSeqno..(next - 1)
          /\ next \in StartSeqno..settled
          /\ blocks' = [s \in StartSeqno..next |->
                          IF s = next THEN Canonical(next) ELSE blocks[s]]
      BY <1>2, <2>1a, FetchedIsFinal
    <2>3. Scanned' = Scanned \cup {next} /\ next \notin Scanned
      BY <2>2 DEF Scanned
    <2>4. blocks'[next] = Canonical(next)
             /\ \A s \in Scanned : blocks'[s] = blocks[s]
      BY <2>2
    <2>5. chain[last].time <= chain[next].time
             /\ chain[next].time \in Nat /\ blocks[last].time = chain[last].time
             /\ chain[last].time \in Nat
      <3>1. last \in StartSeqno..(next - 1) /\ head \in Nat
        BY <2>1, <2>2 DEF FinalInv, ContigInv, TypeInv, TypeOK, ChainTypeOK
      <3>2. last \in 0..head /\ next \in 0..head /\ last <= next
        BY <3>1, <2>2
      <3>3. chain[last].time <= chain[next].time
        BY <3>2 DEF FinalInv, TimeMonotone
      <3>4. blocks[last].time = chain[last].time
        BY <2>1, CanonicalFields DEF FinalInv, ScannedBlocksAreFinal
      <3>5. chain[last] \in ChainBlock /\ chain[next] \in ChainBlock
        BY <3>2 DEF FinalInv, ContigInv, TypeInv, TypeOK, ChainTypeOK
      <3> QED
        BY <3>3, <3>4, <3>5 DEF ChainBlock
    <2>6. (epoch + 1) * EpochSeconds \in Nat
      OBVIOUS
    <2>7. blocks'[next].time = chain[next].time
             /\ blocks'[next].time >= (epoch + 1) * EpochSeconds
      BY <2>1, <2>4, <2>5, <2>6 DEF Canonical
    <2>8. \A s \in Scanned' : s <= next
      BY <2>2, <2>3
    <2>9. EpochComplete(epoch)'
      BY <2>3, <2>7, <2>8 DEF EpochComplete
    <2>10. EpochOf(blocks'[next].time) # epoch
      BY <2>5, <2>7, PastIsNotInEpoch
    <2>11. {t \in Scanned' : EpochOf(blocks'[t].time) = epoch}
              = {t \in Scanned : EpochOf(blocks[t].time) = epoch}
      BY <2>3, <2>4, <2>10
    <2>12. EpochData(epoch)' = EpochData(epoch)
      BY <2>4, <2>11 DEF EpochData, EpochOf
    <2> QED
      BY <2>9, <2>12
  <1>3. Next => blocks' = blocks \/ VerifyMismatch \/ FetchUnits
    BY DEF Next, Tick, ChainGrows, ChainForks, walkerVars, VerifyNone, VerifyMatch,
           ReadHead, BeginScan, FetchMeta, TickDone, RpcError
  <1> QED
    BY <1>1, <1>2, <1>3, NoMismatch

\* A served epoch stays served, with the same units.
THEOREM ServedEpochIsStable ==
    ASSUME FinalityDepth <= Confirmations
    PROVE  Spec => CompleteEpochStable
  <1>1. FinalInv /\ [Next]_vars => FinalInv'
    BY FinalStep
  <1>2. FinalInv /\ FinalInv' /\ [Next]_vars
          => [\A epoch \in Epochs :
                EpochComplete(epoch) =>
                   EpochComplete(epoch)' /\ EpochData(epoch)' = EpochData(epoch)]_vars
    <2> SUFFICES ASSUME FinalInv, FinalInv', Next, NEW epoch \in Epochs,
                        EpochComplete(epoch)
                 PROVE  EpochComplete(epoch)' /\ EpochData(epoch)' = EpochData(epoch)
      OBVIOUS
    <2> QED
      BY EpochsAreNat, ServedStep
  <1> QED
    BY FinalInit, <1>1, <1>2, PTL DEF Spec, CompleteEpochStable

\* A walker that holds final blocks only, and no gap, serves exact epochs.
LEMMA ExactWhenFinal ==
    ASSUME ChainTypeOK, TimeMonotone, Scanned \subseteq Nat,
           ScanIsContiguous, ScannedBlocksAreFinal
    PROVE  CompleteEpochExact
  <1> SUFFICES ASSUME NEW epoch \in Nat,
                      EpochComplete(epoch), StartsByEpoch(epoch)
               PROVE  EpochData(epoch) =
                        [s \in {t \in 0..head : EpochOf(chain[t].time) = epoch} |->
                           chain[s].branch]
    BY EpochsAreNat DEF CompleteEpochExact
  <1>1. PICK last \in Scanned : /\ \A s \in Scanned : s <= last
                                /\ blocks[last].time >= (epoch + 1) * EpochSeconds
    BY DEF EpochComplete
  <1>2. /\ head \in Nat /\ settled \in Nat /\ settled <= head
        /\ \A t \in 0..head : chain[t].time \in Nat
    BY DEF ChainTypeOK, ChainBlock
  <1>3. Scanned = StartSeqno..last /\ last \in 0..head
    <2>1. /\ checkpoint # None
          /\ Scanned = StartSeqno..checkpoint.seqno
          /\ checkpoint.seqno \in Scanned
      BY <1>1 DEF ScanIsContiguous
    <2>2. Scanned \subseteq Nat /\ last <= settled
      BY <1>1 DEF ScannedBlocksAreFinal
    <2>3. checkpoint.seqno = last
      BY <1>1, <2>1, <2>2
    <2> QED
      BY <1>2, <2>1, <2>2, <2>3
  <1>4. \A s \in Scanned : blocks[s] = Canonical(s)
    BY DEF ScannedBlocksAreFinal
  <1>5. \A s \in Scanned : blocks[s].time = chain[s].time
                          /\ blocks[s].units = chain[s].branch
    BY <1>4, CanonicalFields
  <1>6. ASSUME NEW t \in 0..head, t > last
        PROVE  EpochOf(chain[t].time) # epoch
    <2>1. chain[last].time <= chain[t].time
      BY <1>2, <1>3, <1>6 DEF TimeMonotone
    <2>2. chain[last].time >= (epoch + 1) * EpochSeconds
      BY <1>1, <1>5
    <2>3. chain[t].time >= (epoch + 1) * EpochSeconds
      <3>1. (epoch + 1) * EpochSeconds \in Nat
        OBVIOUS
      <3> QED
        BY <1>2, <1>3, <2>1, <2>2, <3>1
    <2> QED
      BY <1>2, <2>3, PastIsNotInEpoch
  <1>7. \A t \in 0..head : EpochOf(chain[t].time) = epoch => t \in Scanned
    BY <1>2, <1>3, <1>6 DEF StartsByEpoch
  <1>8. Scanned \subseteq 0..head
    BY <1>2, <1>3
  <1>9. {t \in Scanned : EpochOf(blocks[t].time) = epoch}
          = {t \in 0..head : EpochOf(chain[t].time) = epoch}
    BY <1>5, <1>7, <1>8
  <1> QED
    BY <1>5, <1>9 DEF EpochData

\* A served epoch has exactly the units of the chain's blocks of the epoch.
THEOREM ServedEpochIsExact ==
    ASSUME FinalityDepth <= Confirmations
    PROVE  Spec => []CompleteEpochExact
  <1>1. FinalInv /\ [Next]_vars => FinalInv'
    BY FinalStep
  <1>2. FinalInv => CompleteEpochExact
    BY ExactWhenFinal DEF FinalInv, ContigInv, TypeInv, TypeOK
  <1> QED
    BY FinalInit, <1>1, <1>2, PTL DEF Spec

-----------------------------------------------------------------------------
\* Each step of the walker appends the next settled block to the log, moves
\* the chain, or is invisible.
THEOREM WalkerImplementsLog ==
    ASSUME FinalityDepth <= Confirmations
    PROVE  Spec => ImplementsLog
  <1>1. FinalInv /\ [Next]_vars => FinalInv'
    BY FinalStep
  <1>2. Init => Log!LogInit
    BY DEF Init, ChainInit, WalkerInit, NoBlocks, Canonical,
           Log!LogInit, Log!ChainInit, Log!NoBlocks, Log!Canonical
  <1>3. FinalInv /\ [Next]_vars => [Log!LogNext]_<<Log!chainVars, blocks>>
    <2> SUFFICES ASSUME FinalInv, [Next]_vars
                 PROVE  [Log!LogNext]_<<Log!chainVars, blocks>>
      OBVIOUS
    <2>1. CASE ChainGrows
      BY <2>1 DEF ChainGrows, walkerVars, Grow, Log!LogNext, Log!ChainMoves, Log!Grow
    <2>2. CASE ChainForks
      <3>1. Log!Fork
        BY <2>2 DEF ChainForks, Fork, Log!Fork, Restrict, Log!Restrict
      <3>2. UNCHANGED blocks
        BY <2>2 DEF ChainForks, walkerVars
      <3> QED
        BY <3>1, <3>2 DEF Log!LogNext, Log!ChainMoves
    <2>3. CASE FetchUnits
      <3>1. /\ next \in StartSeqno..settled /\ StartSeqno \in Nat
            /\ Scanned = StartSeqno..(next - 1)
            /\ blocks' = [s \in StartSeqno..next |->
                            IF s = next THEN Canonical(next) ELSE blocks[s]]
        BY <2>3, FetchedIsFinal
      <3>2. next \in 0..settled /\ next >= StartSeqno
        BY <3>1 DEF FinalInv, ContigInv, TypeInv, TypeOK, ChainTypeOK
      <3>3. Log!Canonical(next) = Canonical(next)
        BY DEF Log!Canonical, Canonical
      <3>4. UNCHANGED Log!chainVars
        BY <2>3 DEF FetchUnits, Ingest, chainVars, Log!chainVars
      <3>5. Log!Append
        BY <3>1, <3>2, <3>3, <3>4 DEF Log!Append, Scanned
      <3> QED
        BY <3>5 DEF Log!LogNext
    <2>4. CASE chainVars' = chainVars /\ blocks' = blocks
      BY <2>4 DEF chainVars, Log!chainVars
    <2>5. ASSUME \/ VerifyNone \/ VerifyMatch \/ ReadHead \/ FetchMeta
                 \/ TickDone \/ RpcError \/ UNCHANGED vars
          PROVE  chainVars' = chainVars /\ blocks' = blocks
      BY <2>5 DEF VerifyNone, VerifyMatch, ReadHead, BeginScan, FetchMeta, TickDone, RpcError,
                  vars, walkerVars, chainVars
    <2> QED
      BY <2>1, <2>2, <2>3, <2>4, <2>5, NoMismatch DEF Next, Tick
  <1> QED
    BY FinalInit, <1>1, <1>2, <1>3, PTL DEF Spec, ImplementsLog, Log!LogSpec

-----------------------------------------------------------------------------
(* What holds when the chain forks below the walker's confirmations, but   *)
(* only between ticks                                                      *)

\* What of a step every proof below starts from.
LEMMA ContigFacts ==
    ASSUME ContigInv
    PROVE  /\ ChainTypeOK /\ ScanIsContiguous
           /\ checkpoint \in BlockRef \cup {None}
           /\ Scanned \subseteq Nat /\ blocks \in [Scanned -> Block]
           /\ finalized \in Nat /\ next \in Nat /\ rewound \in Nat
           /\ pc \in {"idle", "head", "scan", "units"}
           /\ head \in Nat /\ settled \in Nat /\ settled <= head /\ branch \in Nat
           /\ \A s \in 0..head : chain[s].branch \in Nat
           /\ \A s \in Scanned : blocks[s].hash \in Nat
  BY DEF ContigInv, TypeInv, TypeOK, ChainTypeOK, ChainBlock, Block

\* A step that is none of these leaves the scan and the chain alone.
LEMMA QuietSteps ==
    ASSUME [Next]_vars
    PROVE  \/ ChainGrows \/ ChainForks \/ VerifyMismatch \/ FetchUnits
           \/ /\ UNCHANGED <<head, chain, branch, settled>>
              /\ UNCHANGED <<checkpoint, blocks, rewound>>
  BY DEF Next, Tick, VerifyNone, VerifyMatch, ReadHead, FetchMeta, TickDone, RpcError,
         vars, walkerVars, chainVars

\* What a tick stores is the chain's block, when the chain keeps still.
LEMMA FetchedIsOnChain ==
    ASSUME ContigInv, PendingIsOnChain, FetchUnits
    PROVE  /\ next \in 0..head /\ next <= finalized
           /\ Scanned = StartSeqno..(next - 1)
           /\ Scanned' = Scanned \cup {next}
           /\ blocks'[next] = Canonical(next)
           /\ \A s \in Scanned : blocks'[s] = blocks[s]
           /\ checkpoint' = [seqno |-> next, hash |-> chain[next].branch]
           /\ UNCHANGED <<head, chain, branch, settled, rewound, finalized>>
           /\ pc' = "scan"
  <1>1. /\ next <= head /\ next <= finalized /\ meta = chain[next] /\ pc' = "scan"
        /\ UNCHANGED <<head, chain, branch, settled, rewound, finalized>>
    BY DEF FetchUnits, PendingIsOnChain, chainVars
  <1>2. next \in Nat /\ Scanned = StartSeqno..(next - 1)
    BY NextFacts, ContigFacts DEF FetchUnits, ContigInv, NextFollowsCheckpoint
  <1>3. /\ blocks' = [s \in Scanned \cup {next} |->
                        IF s = next
                        THEN [hash |-> meta.branch, time |-> meta.time,
                              units |-> chain[next].branch]
                        ELSE blocks[s]]
        /\ checkpoint' = [seqno |-> next, hash |-> meta.branch]
    BY DEF FetchUnits, Ingest
  <1>4. Scanned' = Scanned \cup {next} /\ next \notin Scanned
    BY <1>2, <1>3 DEF Scanned
  <1>5. blocks'[next] = Canonical(next)
    BY <1>1, <1>3 DEF Canonical
  <1>6. \A s \in Scanned : blocks'[s] = blocks[s]
    BY <1>3, <1>4
  <1> QED
    BY <1>1, <1>2, <1>3, <1>4, <1>5, <1>6, ContigFacts

\* What a mismatch keeps.
LEMMA RewindFacts ==
    ASSUME ContigInv, VerifyMismatch
    PROVE  /\ Scanned' \subseteq Scanned
           /\ \A s \in Scanned' : s < RewindTo /\ blocks'[s] = blocks[s]
           /\ RewindTo \in 0..checkpoint.seqno
           /\ checkpoint.seqno <= RewindTo + ReorgMargin \/ RewindTo = 0
           /\ checkpoint' # None =>
                 checkpoint'.seqno \in Scanned /\ checkpoint'.seqno + 1 = RewindTo
           /\ UNCHANGED <<head, chain, branch, settled>>
           /\ rewound' = RewindTo /\ pc' = "head"
  <1> DEFINE last == Monus(RewindTo, 1)
  <1>1. checkpoint \in BlockRef /\ Scanned \subseteq Nat /\ blocks \in [Scanned -> Block]
    BY ContigFacts DEF VerifyMismatch
  <1>2. RewindTo \in 0..checkpoint.seqno
        /\ (RewindTo > 0 => checkpoint.seqno <= RewindTo + ReorgMargin)
    BY <1>1 DEF RewindTo, Monus, BlockRef
  <1>3. /\ blocks' = Restrict(blocks, Kept) /\ rewound' = RewindTo /\ pc' = "head"
        /\ checkpoint' = IF last \in Kept
                         THEN [seqno |-> last, hash |-> blocks[last].hash]
                         ELSE None
        /\ UNCHANGED <<head, chain, branch, settled>>
    BY DEF VerifyMismatch, Rewind, chainVars
  <1>4. Scanned' = Kept /\ Kept \subseteq Scanned
    BY <1>3 DEF Restrict, Scanned, Kept
  <1>5. \A s \in Scanned' : s < RewindTo /\ blocks'[s] = blocks[s]
    BY <1>3, <1>4 DEF Restrict, Kept
  <1>6. checkpoint' # None =>
           checkpoint'.seqno \in Scanned /\ checkpoint'.seqno + 1 = RewindTo
    <2>1. last \in Kept => last < RewindTo /\ last \in Scanned
      BY DEF Kept
    <2>2. last \in Kept => last + 1 = RewindTo
      BY <1>2, <2>1 DEF Monus
    <2> QED
      BY <1>3, <2>1, <2>2
  <1> QED
    BY <1>2, <1>3, <1>4, <1>5, <1>6

-----------------------------------------------------------------------------
(* The two parts that both invariants need                                 *)

\* No branch is newer than the chain's, whatever happens.
LEMMA BranchesStep ==
    ASSUME ContigInv, BranchesInv, PendingIsOnChain, [Next]_vars
    PROVE  BranchesInv'
  <1>0. /\ head \in Nat /\ branch \in Nat /\ ChainTypeOK
        /\ \A s \in 0..head : chain[s].branch \in Nat
        /\ \A s \in Scanned : blocks[s].hash \in Nat
    BY ContigFacts
  <1> USE DEF BranchesInv
  <1>1. CASE ChainGrows
    <2>1. /\ head' = head + 1 /\ branch' = branch
          /\ \A s \in 0..head : chain'[s] = chain[s]
          /\ chain'[head + 1].branch = branch
          /\ blocks' = blocks
      BY <1>0, <1>1, GrowKeeps DEF ChainGrows, walkerVars
    <2>2. \A s \in 0..(head + 1) : s \in 0..head \/ s = head + 1
      BY <1>0
    <2> QED
      BY <1>0, <2>1, <2>2 DEF Scanned
  <1>2. CASE ChainForks
    <2>1. /\ head' \in Nat /\ head' <= head /\ branch' = branch + 1
          /\ \A s \in 0..head' : chain'[s] = chain[s]
          /\ blocks' = blocks
      BY <1>0, <1>2, ForkKeeps, ContigFacts DEF ChainForks, walkerVars
    <2>2. \A s \in 0..head' : s \in 0..head
      BY <1>0, <2>1
    <2> QED
      BY <1>0, <2>1, <2>2 DEF Scanned
  <1>3. CASE VerifyMismatch
    BY <1>3, RewindFacts
  <1>4. CASE FetchUnits
    <2>1. Canonical(next).hash = chain[next].branch
      BY DEF Canonical
    <2> QED
      BY <1>4, <2>1, FetchedIsOnChain
  <1>5. CASE UNCHANGED <<head, chain, branch, settled>> /\ UNCHANGED <<checkpoint, blocks, rewound>>
    BY <1>5 DEF Scanned
  <1> QED
    BY <1>1, <1>2, <1>3, <1>4, <1>5, QuietSteps

\* A chain that forks between ticks only keeps what a tick has in hand.
LEMMA PendingStep ==
    ASSUME ContigInv, PendingIsOnChain, ForksDuringTick = FALSE, [Next]_vars
    PROVE  PendingIsOnChain'
  <1>0. head \in Nat /\ finalized \in Nat /\ next \in Nat /\ ChainTypeOK
    BY ContigFacts
  <1> USE DEF PendingIsOnChain
  <1>1. CASE ChainGrows
    <2>1. /\ head' = head + 1 /\ \A s \in 0..head : chain'[s] = chain[s]
          /\ UNCHANGED <<pc, finalized, next, meta>>
      BY <1>0, <1>1, GrowKeeps DEF ChainGrows, walkerVars, tickVars
    <2>2. pc = "units" => next \in 0..head
      BY <1>0
    <2> QED
      BY <1>0, <2>1, <2>2
  <1>2. CASE ChainForks
    BY <1>2 DEF ChainForks, walkerVars
  <1>3. CASE VerifyNone \/ VerifyMatch \/ VerifyMismatch \/ TickDone \/ RpcError
    BY <1>3 DEF VerifyNone, VerifyMatch, VerifyMismatch, TickDone, RpcError, EndTick
  <1>4. CASE ReadHead
    <2>1. finalized' <= head /\ head' = head /\ pc' = "scan"
      BY <1>0, <1>4 DEF ReadHead, BeginScan, FinalizedHead, Monus, chainVars
    <2> QED
      BY <2>1
  <1>5. CASE FetchMeta
    BY <1>5 DEF FetchMeta, MoreToScan, chainVars
  <1>6. CASE FetchUnits
    BY <1>6 DEF FetchUnits, chainVars
  <1>7. CASE UNCHANGED vars
    BY <1>7 DEF vars, walkerVars, chainVars, tickVars
  <1> QED
    BY <1>1, <1>2, <1>3, <1>4, <1>5, <1>6, <1>7 DEF Next, Tick

-----------------------------------------------------------------------------
(* How AgreesIn goes on                                                    *)

\* New blocks are of the newest branch.
LEMMA GrowAgrees ==
    ASSUME ContigInv, checkpoint # None, ChainGrows,
           NEW low \in Nat, NEW f \in Nat, AgreesIn(low, f)
    PROVE  AgreesIn(low, f)'
  <1>1. /\ head \in Nat /\ Scanned \subseteq Nat
        /\ head' = head + 1 /\ branch' = branch
        /\ \A s \in 0..head : chain'[s] = chain[s]
        /\ chain'[head + 1].branch = branch
    BY ContigFacts, GrowKeeps DEF ChainGrows
  <1>2. UNCHANGED <<checkpoint, blocks>> /\ Scanned' = Scanned
    BY DEF ChainGrows, walkerVars, Scanned
  <1>3. ASSUME NEW s \in Scanned, ~Stale(s)
        PROVE  ~Stale(s)'
    <2>1. s \in 0..head /\ blocks[s] = Canonical(s)
      BY <1>1, <1>3 DEF Stale
    <2> QED
      BY <1>1, <1>2, <2>1 DEF Stale, Canonical
  <1>4. ASSUME f <= checkpoint.seqno, NEW s \in f..(head + 1)
        PROVE  chain'[s].branch > checkpoint.hash
    <2>1. CASE s = head + 1
      BY <1>1, <1>4, <2>1 DEF AgreesIn
    <2>2. CASE s \in f..head
      <3>1. s \in 0..head
        BY <1>1, <2>2
      <3> QED
        BY <1>1, <1>4, <2>2, <3>1 DEF AgreesIn
    <2> QED
      BY <1>1, <2>1, <2>2
  <1>5. \A s \in Scanned : low <= s /\ s < f => ~Stale(s)'
    BY <1>3 DEF AgreesIn
  <1> QED
    BY <1>1, <1>2, <1>4, <1>5 DEF AgreesIn

\* A fork may abandon more, down to the settled blocks; the next branch is newer
\* than anything that was scanned.
LEMMA ForkAgrees ==
    ASSUME ContigInv, BranchesInv, checkpoint # None, ChainForks,
           NEW low \in Nat, NEW f \in 0..(checkpoint.seqno + 1), AgreesIn(low, f)
    PROVE  \E e \in 0..f : (e = f \/ e > settled) /\ AgreesIn(low, e)'
  <1>1. /\ head \in Nat /\ settled \in Nat /\ branch \in Nat /\ Scanned \subseteq Nat
        /\ checkpoint \in BlockRef /\ checkpoint.hash \in Nat /\ checkpoint.seqno \in Nat
        /\ head' \in settled..(head - 1) /\ branch' = branch + 1
        /\ \A s \in 0..head' : chain'[s] = chain[s]
    BY ContigFacts, ForkKeeps DEF ChainForks, BlockRef
  <1>2. UNCHANGED <<checkpoint, blocks>> /\ Scanned' = Scanned
    BY DEF ChainForks, walkerVars, Scanned
  <1>3. checkpoint.hash <= branch
    BY ContigFacts DEF BranchesInv, ScanIsContiguous
  <1>a. PICK h \in Nat : h = head'
    BY <1>1
  <1>b. settled \in Nat /\ settled <= h /\ h < head /\ head \in Nat
    BY <1>1, <1>a
  <1>c. f \in Nat /\ f \in 0..f
    BY <1>1
  <1>4. PICK e \in 0..f : (e = f /\ e <= h + 1) \/ (e = h + 1 /\ e > settled)
    <2>1. CASE f <= h + 1
      BY <1>c, <2>1
    <2>2. CASE h + 1 < f
      <3>1. h + 1 \in 0..f /\ h + 1 > settled
        BY <1>b, <1>c, <2>2
      <3> QED
        BY <3>1
    <2> QED
      BY <1>c, <2>1, <2>2
  <1>5. ASSUME NEW s \in Scanned, low <= s, s < e
        PROVE  ~Stale(s)'
    <2>a. s \in Nat
      BY <1>1
    <2>b. s < f /\ s <= h
      BY <1>b, <1>c, <1>4, <1>5, <2>a
    <2>1. s < f /\ s \in 0..head'
      BY <1>a, <2>a, <2>b
    <2>2. blocks[s] = Canonical(s)
      BY <1>5, <2>1 DEF AgreesIn, Stale
    <2> QED
      BY <1>1, <1>2, <2>1, <2>2 DEF Stale, Canonical
  <1>6. ASSUME e <= checkpoint.seqno, NEW s \in e..head'
        PROVE  chain'[s].branch > checkpoint.hash
    <2>1. e <= s /\ s <= head' /\ s \in Nat
      BY <1>4, <1>6
    <2>a. e <= h
      BY <1>a, <1>c, <1>4, <2>1
    <2>2. e = f
      BY <1>4, <2>a
    <2>3. s \in f..head /\ s \in 0..head' /\ f <= checkpoint.seqno
      BY <1>1, <1>4, <1>6, <2>1, <2>2
    <2> QED
      BY <1>1, <2>3 DEF AgreesIn
  <1>7. branch' > checkpoint.hash
    BY <1>1, <1>3
  <1>8. AgreesIn(low, e)'
    BY <1>2, <1>5, <1>6, <1>7 DEF AgreesIn
  <1> QED
    BY <1>4, <1>8

\* Where the scan holds nothing stale, it agrees with the chain to its end.
LEMMA AllAgree ==
    ASSUME checkpoint \in BlockRef, NEW low, \A s \in Scanned : low <= s => ~Stale(s)
    PROVE  AgreesIn(low, checkpoint.seqno + 1)
  BY DEF AgreesIn, BlockRef

\* A checkpoint that the chain still has vouches for the scan.
LEMMA MatchAgrees ==
    ASSUME ContigInv, VerifyMatch,
           NEW low \in Nat, NEW f \in 0..(checkpoint.seqno + 1), AgreesIn(low, f)
    PROVE  \A s \in Scanned : low <= s => ~Stale(s)
  <1>1. /\ head \in Nat /\ checkpoint # None /\ checkpoint.seqno \in Nat
        /\ checkpoint.hash \in Nat
        /\ checkpoint.seqno <= head /\ chain[checkpoint.seqno].branch = checkpoint.hash
    BY ContigFacts DEF VerifyMatch, BlockRef
  <1>2. ~(f <= checkpoint.seqno)
    <2> SUFFICES ASSUME f <= checkpoint.seqno PROVE FALSE
      OBVIOUS
    <2>1. checkpoint.seqno \in f..head
      BY <1>1
    <2> QED
      BY <1>1, <2>1 DEF AgreesIn
  <1>3. \A s \in Scanned : s \in Nat /\ s <= checkpoint.seqno
    BY <1>1, ContigFacts DEF ScanIsContiguous
  <1>4. \A s \in Scanned : s < f
    BY <1>1, <1>2, <1>3
  <1> QED
    BY <1>4 DEF AgreesIn

-----------------------------------------------------------------------------
(* Forks of any depth                                                      *)

LEMMA StaleInit == Init => StaleInv
  BY ContigInit
     DEF Init, ChainInit, WalkerInit, StaleInv, BranchesInv, PendingIsOnChain, Scanned,
         NoBlocks

\* Blocks that are not stale stay so while the chain only grows, and a stored
\* block is not stale.
LEMMA StaleOnlyStays ==
    ASSUME StaleInv, ForksDuringTick = FALSE, [Next]_vars, pc' # "idle"
    PROVE  StaleOnlyBelowRewind'
  <1>0. ContigInv /\ PendingIsOnChain /\ (pc # "idle" => StaleOnlyBelowRewind)
    BY DEF StaleInv
  <1>1. /\ head \in Nat /\ rewound \in Nat /\ Scanned \subseteq Nat /\ ChainTypeOK
        /\ checkpoint \in BlockRef \cup {None}
    BY <1>0, ContigFacts
  <1>2. CASE ChainGrows
    <2>1. /\ head' = head + 1 /\ \A s \in 0..head : chain'[s] = chain[s]
          /\ UNCHANGED <<blocks, pc, rewound>> /\ Scanned' = Scanned
      BY <1>1, <1>2, GrowKeeps DEF ChainGrows, walkerVars, Scanned
    <2>2. ASSUME NEW s \in Scanned, ~Stale(s) PROVE ~Stale(s)'
      <3>1. s \in 0..head /\ blocks[s] = Canonical(s)
        BY <1>1, <2>2 DEF Stale
      <3> QED
        BY <1>1, <2>1, <3>1 DEF Stale, Canonical
    <2> QED
      BY <1>0, <2>1, <2>2 DEF StaleOnlyBelowRewind
  <1>3. CASE ChainForks
    BY <1>3 DEF ChainForks, walkerVars
  <1>4. CASE VerifyMismatch
    <2>1. \A s \in Scanned' : s < rewound'
      BY <1>0, <1>4, RewindFacts
    <2> QED
      BY <2>1 DEF StaleOnlyBelowRewind
  <1>5. CASE FetchUnits
    <2>1. /\ next \in 0..head /\ Scanned' = Scanned \cup {next}
          /\ blocks'[next] = Canonical(next)
          /\ \A s \in Scanned : blocks'[s] = blocks[s]
          /\ UNCHANGED <<head, chain, rewound>> /\ pc = "units"
      BY <1>0, <1>5, FetchedIsOnChain DEF FetchUnits
    <2>2. PICK n \in Nat : n = next
      BY <2>1
    <2>3. ~Stale(n)'
      BY <1>1, <2>1, <2>2 DEF Stale, Canonical
    <2>4. ASSUME NEW s \in Scanned, ~Stale(s) PROVE ~Stale(s)'
      BY <2>1, <2>4 DEF Stale, Canonical
    <2> QED
      BY <1>0, <2>1, <2>2, <2>3, <2>4 DEF StaleOnlyBelowRewind
  <1>6. CASE VerifyNone
    BY <1>0, <1>6
       DEF VerifyNone, ContigInv, ScanIsContiguous, StaleOnlyBelowRewind, Scanned
  <1>7. CASE VerifyMatch
    <2>1. checkpoint # None
      BY <1>7 DEF VerifyMatch
    <2>2. PICK low \in Nat : low = rewound
      BY <1>1
    <2>3. PICK f \in 0..(checkpoint.seqno + 1) : AgreesIn(low, f)
      BY <2>1, <2>2 DEF StaleInv
    <2>4. \A s \in Scanned : low <= s => ~Stale(s)
      BY <1>0, <1>7, <2>3, MatchAgrees
    <2>5. StaleOnlyBelowRewind
      BY <1>1, <2>2, <2>4 DEF StaleOnlyBelowRewind
    <2> QED
      BY <1>7, <2>5 DEF VerifyMatch, chainVars, StaleOnlyBelowRewind, Stale, Canonical, Scanned
  <1>8. CASE ReadHead \/ FetchMeta \/ TickDone \/ RpcError \/ UNCHANGED vars
    <2>1. /\ UNCHANGED <<head, chain, blocks, rewound>> /\ pc # "idle"
      BY <1>8 DEF ReadHead, FetchMeta, TickDone, RpcError, EndTick, vars, walkerVars, chainVars
    <2> QED
      BY <1>0, <2>1 DEF StaleOnlyBelowRewind, Stale, Canonical, Scanned
  <1> QED
    BY <1>2, <1>3, <1>4, <1>5, <1>6, <1>7, <1>8 DEF Next, Tick

LEMMA StaleStep ==
    ASSUME ForksDuringTick = FALSE
    PROVE  StaleInv /\ [Next]_vars => StaleInv'
  <1> SUFFICES ASSUME StaleInv, [Next]_vars PROVE StaleInv'
    OBVIOUS
  <1>0. ContigInv /\ BranchesInv /\ PendingIsOnChain
    BY DEF StaleInv
  <1>a. ContigInv' /\ BranchesInv' /\ PendingIsOnChain'
    BY <1>0, ContigStep, BranchesStep, PendingStep
  <1>b. pc' # "idle" => StaleOnlyBelowRewind'
    BY StaleOnlyStays
  <1> SUFFICES ASSUME checkpoint' # None
               PROVE  (\E f \in 0..(checkpoint.seqno + 1) : AgreesIn(rewound, f))'
    BY <1>a, <1>b DEF StaleInv
  <1>1. /\ rewound \in Nat /\ head \in Nat /\ Scanned \subseteq Nat
        /\ checkpoint \in BlockRef \cup {None} /\ checkpoint' \in BlockRef
        /\ ScanIsContiguous'
    BY <1>0, <1>a, ContigFacts DEF ContigInv, TypeInv, TypeOK
  <1>2. checkpoint'.seqno \in Nat /\ checkpoint'.seqno + 1 \in 0..(checkpoint'.seqno + 1)
    BY <1>1 DEF BlockRef
  <1>3. PICK low \in Nat : low = rewound
    BY <1>1
  <1>4. ASSUME checkpoint # None
        PROVE  \E f \in 0..(checkpoint.seqno + 1) : AgreesIn(low, f)
    BY <1>3, <1>4 DEF StaleInv
  <1>5. CASE ChainGrows
    <2>1. UNCHANGED <<checkpoint, rewound>> /\ checkpoint # None
      BY <1>5 DEF ChainGrows, walkerVars
    <2>2. PICK f \in 0..(checkpoint.seqno + 1) : AgreesIn(low, f)
      BY <1>4, <2>1
    <2>3. f \in Nat
      BY <2>2
    <2>4. AgreesIn(low, f)'
      BY <1>0, <1>5, <2>1, <2>2, <2>3, GrowAgrees
    <2> QED
      BY <1>3, <2>1, <2>4 DEF AgreesIn
  <1>6. CASE ChainForks
    <2>1. UNCHANGED <<checkpoint, rewound>> /\ checkpoint # None
      BY <1>6 DEF ChainForks, walkerVars
    <2>2. PICK f \in 0..(checkpoint.seqno + 1) : AgreesIn(low, f)
      BY <1>4, <2>1
    <2>3. PICK e \in 0..f : AgreesIn(low, e)'
      BY <1>0, <1>6, <2>1, <2>2, ForkAgrees
    <2>4. e \in 0..(checkpoint'.seqno + 1)
      BY <1>2, <2>1, <2>2, <2>3
    <2> QED
      BY <1>3, <2>1, <2>3, <2>4 DEF AgreesIn
  <1>7. CASE pc' # "idle" /\ (VerifyMismatch \/ FetchUnits)
    <2>1. \A s \in Scanned' : s < rewound' \/ ~Stale(s)'
      BY <1>b, <1>7 DEF StaleOnlyBelowRewind
    <2>2. rewound' \in Nat /\ Scanned' \subseteq Nat
      BY <1>a DEF ContigInv, TypeInv, TypeOK
    <2>3. \A s \in Scanned' : rewound' <= s => ~Stale(s)'
      BY <2>1, <2>2
    <2>4. ~(checkpoint'.seqno + 1 <= checkpoint'.seqno)
      BY <1>2
    <2> QED
      BY <1>2, <2>3, <2>4 DEF AgreesIn
  <1>8. CASE UNCHANGED <<head, chain, branch, settled>> /\ UNCHANGED <<checkpoint, blocks, rewound>>
    <2>1. PICK f \in 0..(checkpoint.seqno + 1) : AgreesIn(low, f)
      BY <1>4, <1>8
    <2>2. AgreesIn(low, f)'
      BY <1>8, <2>1 DEF AgreesIn, Scanned, Stale, Canonical
    <2> QED
      BY <1>3, <1>8, <2>2 DEF AgreesIn
  <1>9. VerifyMismatch \/ FetchUnits => pc' # "idle"
    BY DEF VerifyMismatch, FetchUnits
  <1> QED
    BY <1>5, <1>6, <1>7, <1>8, <1>9, QuietSteps

\* However deep the chain forks between ticks, a verified walker holds nothing
\* stale from the point on to which it last rewound.
THEOREM StaleDataIsBounded ==
    ASSUME ForksDuringTick = FALSE
    PROVE  Spec => VerifyBoundsStaleData
  <1>1. StaleInv /\ [Next]_vars => StaleInv'
    BY StaleStep
  <1>2. StaleInv /\ StaleInv' /\ [Next]_vars
          => [pc = "idle" /\ pc' = "head" => StaleOnlyBelowRewind']_vars
    BY DEF StaleInv
  <1> QED
    BY StaleInit, <1>1, <1>2, PTL DEF Spec, VerifyBoundsStaleData

-----------------------------------------------------------------------------
(* Forks that reach at most ReorgMargin + 1 blocks below the confirmations *)

LEMMA MarginInit == Init => MarginInv
  BY ContigInit
     DEF Init, ChainInit, WalkerInit, MarginInv, BranchesInv, PendingIsOnChain, SettledInv,
         VerifiedScanIsCanonical, Scanned, NoBlocks

LEMMA ReachGrows ==
    ASSUME NEW a \in Nat, NEW b \in Nat, a <= b,
           NEW x \in Nat, x <= a + ReorgMargin + 1
    PROVE  x <= b + ReorgMargin + 1
  OBVIOUS

\* The settled blocks stay within reach of what a tick may scan.
LEMMA ReachStep ==
    ASSUME MarginInv, FinalityDepth <= Confirmations + ReorgMargin + 1, [Next]_vars
    PROVE  /\ SettledInv'
           /\ pc' \in {"scan", "units"} => finalized' <= settled' + ReorgMargin + 1
           /\ settled' >= settled
  <1>0. /\ head \in Nat /\ settled \in Nat /\ finalized \in Nat /\ ChainTypeOK
        /\ head <= settled + FinalityDepth
        /\ pc \in {"scan", "units"} => finalized <= settled + ReorgMargin + 1
    BY ContigFacts DEF MarginInv, SettledInv
  <1>1. CASE ChainGrows
    <2>1. head' <= settled' + FinalityDepth /\ settled' >= settled /\ settled' \in Nat
          /\ UNCHANGED <<pc, finalized>>
      BY <1>0, <1>1, GrowKeeps, GrowType DEF ChainGrows, walkerVars, tickVars, ChainTypeOK
    <2>2. ASSUME finalized <= settled + ReorgMargin + 1
          PROVE  finalized <= settled' + ReorgMargin + 1
      <3>1. /\ settled \in Nat /\ settled' \in Nat /\ settled <= settled'
            /\ finalized \in Nat /\ ReorgMargin \in Nat
        BY <1>0, <2>1
      <3> QED
        BY <2>2, <3>1, ReachGrows
    <2> QED
      BY <1>0, <2>1, <2>2 DEF SettledInv
  <1>2. CASE ChainForks
    <2>1. head' \in Nat /\ head' <= head /\ settled' = settled /\ UNCHANGED <<pc, finalized>>
      BY <1>0, <1>2, ForkKeeps DEF ChainForks, walkerVars, tickVars
    <2> QED
      BY <1>0, <2>1 DEF SettledInv
  <1>3. CASE ReadHead
    <2>1. UNCHANGED <<head, settled>> /\ finalized' = Monus(head, Confirmations)
      BY <1>3 DEF ReadHead, BeginScan, FinalizedHead, chainVars
    <2>2. finalized' <= settled + ReorgMargin + 1
      BY <1>0, <2>1 DEF Monus
    <2> QED
      BY <1>0, <2>1, <2>2 DEF SettledInv
  <1>4. CASE \/ VerifyNone \/ VerifyMatch \/ VerifyMismatch \/ FetchMeta \/ FetchUnits
             \/ TickDone \/ RpcError \/ UNCHANGED vars
    <2>1. /\ UNCHANGED <<head, settled>>
          /\ pc' \in {"scan", "units"} => pc \in {"scan", "units"} /\ finalized' = finalized
      BY <1>4 DEF VerifyNone, VerifyMatch, VerifyMismatch, FetchMeta, FetchUnits, TickDone,
                  RpcError, EndTick, vars, walkerVars, tickVars, chainVars
    <2> QED
      BY <1>0, <2>1 DEF SettledInv
  <1> QED
    BY <1>1, <1>2, <1>3, <1>4 DEF Next, Tick

\* A rewind by the margin reaches below everything that was abandoned.
LEMMA RewindIsDeepEnough ==
    ASSUME MarginInv, VerifyMismatch
    PROVE  \A s \in Scanned' : ~Stale(s)'
  <1>0. /\ ContigInv /\ checkpoint # None /\ checkpoint \in BlockRef
        /\ head \in Nat /\ Scanned \subseteq Nat
    BY ContigFacts DEF MarginInv, VerifyMismatch
  <1>1. PICK f \in 0..(checkpoint.seqno + 1) :
           f + ReorgMargin >= checkpoint.seqno /\ AgreesIn(0, f)
    BY <1>0 DEF MarginInv
  <1>2. /\ Scanned' \subseteq Scanned
        /\ \A s \in Scanned' : s < RewindTo /\ blocks'[s] = blocks[s]
        /\ UNCHANGED <<head, chain>>
    BY <1>0, RewindFacts
  <1>3. RewindTo \in Nat /\ RewindTo <= f
    BY <1>0, <1>1 DEF RewindTo, Monus, BlockRef
  <1>4. ASSUME NEW s \in Scanned'
        PROVE  ~Stale(s)'
    <2>1. s \in Scanned /\ s \in Nat /\ s < RewindTo /\ blocks'[s] = blocks[s]
      BY <1>0, <1>2
    <2>2. 0 <= s /\ s < f
      BY <1>1, <1>3, <2>1
    <2>3. ~Stale(s)
      BY <1>1, <2>1, <2>2 DEF AgreesIn
    <2> QED
      BY <1>2, <2>1, <2>3 DEF Stale, Canonical
  <1> QED
    BY <1>4

\* What a tick has verified stays on the chain until the tick ends.
LEMMA VerifiedStep ==
    ASSUME MarginInv, ForksDuringTick = FALSE, [Next]_vars
    PROVE  VerifiedScanIsCanonical'
  <1>0. ContigInv /\ PendingIsOnChain /\ VerifiedScanIsCanonical
    BY DEF MarginInv
  <1>1. head \in Nat /\ Scanned \subseteq Nat /\ ChainTypeOK
    BY <1>0, ContigFacts
  <1>2. CASE ChainGrows
    <2>1. /\ head' = head + 1 /\ \A s \in 0..head : chain'[s] = chain[s]
          /\ UNCHANGED <<blocks, pc>> /\ Scanned' = Scanned
      BY <1>1, <1>2, GrowKeeps DEF ChainGrows, walkerVars, Scanned
    <2>2. ASSUME NEW s \in Scanned, ~Stale(s) PROVE ~Stale(s)'
      <3>1. s \in 0..head /\ blocks[s] = Canonical(s)
        BY <1>1, <2>2 DEF Stale
      <3> QED
        BY <1>1, <2>1, <3>1 DEF Stale, Canonical
    <2> QED
      BY <1>0, <2>1, <2>2 DEF VerifiedScanIsCanonical
  <1>3. CASE ChainForks
    BY <1>3 DEF ChainForks, walkerVars, VerifiedScanIsCanonical
  <1>4. CASE VerifyMismatch
    BY <1>4, RewindIsDeepEnough DEF VerifiedScanIsCanonical
  <1>5. CASE FetchUnits
    <2>1. /\ next \in 0..head /\ Scanned' = Scanned \cup {next}
          /\ blocks'[next] = Canonical(next)
          /\ \A s \in Scanned : blocks'[s] = blocks[s]
          /\ UNCHANGED <<head, chain>> /\ pc = "units"
      BY <1>0, <1>5, FetchedIsOnChain DEF FetchUnits
    <2>2. PICK n \in Nat : n = next
      BY <2>1
    <2>3. ~Stale(n)'
      BY <1>1, <2>1, <2>2 DEF Stale, Canonical
    <2>4. ASSUME NEW s \in Scanned, ~Stale(s) PROVE ~Stale(s)'
      BY <2>1, <2>4 DEF Stale, Canonical
    <2> QED
      BY <1>0, <2>1, <2>2, <2>3, <2>4 DEF VerifiedScanIsCanonical
  <1>6. CASE VerifyNone
    BY <1>0, <1>6
       DEF VerifyNone, ContigInv, ScanIsContiguous, VerifiedScanIsCanonical, Scanned
  <1>7. CASE VerifyMatch
    <2>1. PICK f \in 0..(checkpoint.seqno + 1) : AgreesIn(0, f)
      BY <1>7 DEF VerifyMatch, MarginInv
    <2>2. \A s \in Scanned : ~Stale(s)
      BY <1>0, <1>1, <1>7, <2>1, MatchAgrees
    <2> QED
      BY <1>7, <2>2
         DEF VerifyMatch, chainVars, VerifiedScanIsCanonical, Stale, Canonical, Scanned
  <1>8. CASE ReadHead \/ FetchMeta \/ TickDone \/ RpcError \/ UNCHANGED vars
    <2>1. /\ UNCHANGED <<head, chain, blocks>> /\ (pc' # "idle" => pc # "idle")
      BY <1>8 DEF ReadHead, FetchMeta, TickDone, RpcError, EndTick, vars, walkerVars, chainVars
    <2> QED
      BY <1>0, <2>1 DEF VerifiedScanIsCanonical, Stale, Canonical, Scanned
  <1> QED
    BY <1>2, <1>3, <1>4, <1>5, <1>6, <1>7, <1>8 DEF Next, Tick

LEMMA MarginStep ==
    ASSUME ForksDuringTick = FALSE, FinalityDepth <= Confirmations + ReorgMargin + 1
    PROVE  MarginInv /\ [Next]_vars => MarginInv'
  <1> SUFFICES ASSUME MarginInv, [Next]_vars PROVE MarginInv'
    OBVIOUS
  <1>0. ContigInv /\ BranchesInv /\ PendingIsOnChain /\ VerifiedScanIsCanonical
    BY DEF MarginInv
  <1>a. ContigInv' /\ BranchesInv' /\ PendingIsOnChain'
    BY <1>0, ContigStep, BranchesStep, PendingStep
  <1>b. VerifiedScanIsCanonical'
    BY VerifiedStep
  <1>c. /\ SettledInv' /\ settled' >= settled
        /\ pc' \in {"scan", "units"} => finalized' <= settled' + ReorgMargin + 1
    BY ReachStep
  <1> SUFFICES ASSUME checkpoint' # None
               PROVE  /\ checkpoint'.seqno <= settled' + ReorgMargin + 1
                      /\ \E f \in 0..(checkpoint'.seqno + 1) :
                            f + ReorgMargin >= checkpoint'.seqno /\ AgreesIn(0, f)'
    BY <1>a, <1>b, <1>c DEF MarginInv
  <1>1. /\ settled \in Nat /\ settled' \in Nat
        /\ checkpoint \in BlockRef \cup {None} /\ checkpoint' \in BlockRef
    BY <1>0, <1>a, ContigFacts DEF ContigInv, TypeInv, TypeOK, ChainTypeOK
  <1>2. checkpoint'.seqno \in Nat /\ checkpoint'.seqno + 1 \in 0..(checkpoint'.seqno + 1)
    BY <1>1 DEF BlockRef
  <1>3. ASSUME checkpoint # None
        PROVE  /\ checkpoint.seqno \in Nat
               /\ checkpoint.seqno <= settled + ReorgMargin + 1
               /\ \E f \in 0..(checkpoint.seqno + 1) :
                     f + ReorgMargin >= checkpoint.seqno /\ AgreesIn(0, f)
    BY <1>1, <1>3 DEF MarginInv, BlockRef
  <1>4. CASE ChainGrows
    <2>1. UNCHANGED checkpoint /\ checkpoint # None
      BY <1>4 DEF ChainGrows, walkerVars
    <2>2. PICK f \in 0..(checkpoint.seqno + 1) :
             f + ReorgMargin >= checkpoint.seqno /\ AgreesIn(0, f)
      BY <1>3, <2>1
    <2>3. f \in Nat /\ 0 \in Nat
      BY <2>2
    <2>4. AgreesIn(0, f)'
      BY <1>0, <1>4, <2>1, <2>2, <2>3, GrowAgrees
    <2>5. checkpoint.seqno <= settled' + ReorgMargin + 1
      BY <1>1, <1>3, <1>c, <2>1
    <2> QED
      BY <2>1, <2>2, <2>4, <2>5
  <1>5. CASE ChainForks
    <2>1. UNCHANGED checkpoint /\ checkpoint # None /\ settled' = settled
      BY <1>0, <1>5, ForkKeeps, ContigFacts DEF ChainForks, walkerVars
    <2>2. PICK f \in 0..(checkpoint.seqno + 1) :
             f + ReorgMargin >= checkpoint.seqno /\ AgreesIn(0, f)
      BY <1>3, <2>1
    <2>3. PICK e \in 0..f : (e = f \/ e > settled) /\ AgreesIn(0, e)'
      BY <1>0, <1>5, <2>1, <2>2, ForkAgrees
    <2>4. e \in 0..(checkpoint'.seqno + 1) /\ e + ReorgMargin >= checkpoint'.seqno
      BY <1>1, <1>2, <1>3, <2>1, <2>2, <2>3
    <2> QED
      BY <1>3, <2>1, <2>3, <2>4
  <1>6. CASE VerifyMismatch \/ FetchUnits
    <2>1. pc' # "idle"
      BY <1>6 DEF VerifyMismatch, FetchUnits
    <2>2. \A s \in Scanned' : ~Stale(s)'
      BY <1>b, <2>1 DEF VerifiedScanIsCanonical
    <2>3. ~(checkpoint'.seqno + 1 <= checkpoint'.seqno)
      BY <1>2
    <2>4. AgreesIn(0, checkpoint.seqno + 1)'
      BY <2>2, <2>3 DEF AgreesIn
    <2>5. checkpoint'.seqno <= settled' + ReorgMargin + 1
      <3>1. CASE VerifyMismatch
        <4>1. /\ checkpoint # None /\ settled' = settled
              /\ RewindTo \in 0..checkpoint.seqno /\ checkpoint'.seqno + 1 = RewindTo
          BY <1>0, <3>1, RewindFacts DEF VerifyMismatch
        <4> QED
          BY <1>1, <1>2, <1>3, <4>1
      <3>2. CASE FetchUnits
        <4>1. /\ checkpoint'.seqno = next /\ next <= finalized /\ settled' = settled
              /\ finalized \in Nat /\ next \in Nat
              /\ finalized <= settled + ReorgMargin + 1
          BY <1>0, <3>2, FetchedIsOnChain, ContigFacts DEF FetchUnits, MarginInv
        <4> QED
          BY <1>1, <4>1
      <3> QED
        BY <1>6, <3>1, <3>2
    <2> QED
      BY <1>2, <2>4, <2>5
  <1>7. CASE UNCHANGED <<head, chain, branch, settled>> /\ UNCHANGED <<checkpoint, blocks, rewound>>
    <2>1. PICK f \in 0..(checkpoint.seqno + 1) :
             f + ReorgMargin >= checkpoint.seqno /\ AgreesIn(0, f)
      BY <1>3, <1>7
    <2>2. AgreesIn(0, f)'
      BY <1>7, <2>1 DEF AgreesIn, Scanned, Stale, Canonical
    <2> QED
      BY <1>3, <1>7, <2>1, <2>2
  <1> QED
    BY <1>4, <1>5, <1>6, <1>7, QuietSteps

\* The margin suffices: when the chain forks at most ReorgMargin + 1 blocks below
\* the confirmations, and between ticks, all a verified walker holds is on the
\* chain.
THEOREM MarginSuffices ==
    ASSUME ForksDuringTick = FALSE, FinalityDepth <= Confirmations + ReorgMargin + 1
    PROVE  Spec => []VerifiedScanIsCanonical
  <1>1. MarginInv /\ [Next]_vars => MarginInv'
    BY MarginStep
  <1>2. MarginInv => VerifiedScanIsCanonical
    BY DEF MarginInv
  <1> QED
    BY MarginInit, <1>1, <1>2, PTL DEF Spec
=============================================================================
