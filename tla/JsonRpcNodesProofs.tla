------------------------- MODULE JsonRpcNodesProofs -------------------------
(***************************************************************************)
(* What holds of the walker whose JSON-RPC calls are answered from         *)
(* different views of the chain, for every value of its constants and any  *)
(* number of nodes, however far behind.                                    *)
(***************************************************************************)
EXTENDS JsonRpcNodes, RpcWalkerProofs

USE MasterchainAssumption, WalkerAssumption, NoneAssumption

\* The chain moves, and everything of it that is settled stays as it is.
LEMMA ChainMovesKeep ==
    ASSUME ChainTypeOK, SettledInv, TimeMonotone, ChainMoves
    PROVE  /\ ChainTypeOK' /\ SettledInv' /\ TimeMonotone'
           /\ settled' >= settled
           /\ \A s \in 0..settled : chain'[s] = chain[s]
           /\ past' = past \cup {Moment'}
           /\ UNCHANGED <<walkerVars, looked, lag>>
  <1>1. CASE Grow
    <2>1. ChainTypeOK' /\ TimeMonotone'
      BY <1>1, GrowType, GrowMonotone
    <2>2. SettledInv' /\ settled' >= settled
             /\ \A s \in 0..settled : chain'[s] = chain[s]
      BY <1>1, GrowKeeps DEF SettledInv, ChainTypeOK
    <2> QED
      BY <2>1, <2>2 DEF ChainMoves
  <1>2. CASE Fork
    <2>1. ChainTypeOK' /\ TimeMonotone'
      BY <1>2, ForkType, ForkMonotone
    <2>2. SettledInv' /\ settled' >= settled
             /\ \A s \in 0..settled : chain'[s] = chain[s]
      BY <1>2, ForkKeeps DEF SettledInv, ChainTypeOK
    <2> QED
      BY <2>1, <2>2 DEF ChainMoves
  <1> QED
    BY <1>1, <1>2 DEF ChainMoves

\* What an answer may be: it raises lag to what it lacks, and nothing moves.
LEMMA AnswerFacts ==
    ASSUME NodesInv, NEW view \in past, AnsweredFrom(view)
    PROVE  /\ lag' \in Nat /\ lag' >= lag
           /\ settled - view.settled <= lag'
           /\ view.settled \in Nat /\ settled \in Nat
           /\ view.head \in Nat /\ view.chain \in [0..view.head -> ChainBlock]
           /\ UNCHANGED <<chainVars, past>>
  <1>1. lag \in Nat /\ settled \in Nat /\ view.settled \in 0..settled
        /\ view.head \in Nat /\ view.chain \in [0..view.head -> ChainBlock]
    BY DEF NodesInv, NodesTypeInv, NodesTypeOK, ChainTypeOK, ViewsInv
  <1>2. lag' = IF settled - view.settled > lag THEN settled - view.settled ELSE lag
    BY DEF AnsweredFrom
  <1> QED
    BY <1>1, <1>2 DEF AnsweredFrom

\* The views stay as they are when the chain does.
LEMMA ViewsStay ==
    ASSUME ViewsInv, UNCHANGED <<chainVars, past>>
    PROVE  ViewsInv'
  BY DEF ViewsInv, SettledInv, TimeMonotone, chainVars

LEMMA MomentStays ==
    ASSUME ChainTypeOK, Moment \in past, UNCHANGED <<chainVars, past>>
    PROVE  ChainTypeOK' /\ Moment' \in past'
  BY DEF ChainTypeOK, Moment, chainVars

LEMMA NodesInit1 == NodesInit => NodesInv
  <1> SUFFICES ASSUME NodesInit PROVE NodesInv
    OBVIOUS
  <1>1. TypeInv /\ ContigInv
    BY TypeInit, ContigInit DEF NodesInit
  <1>2. /\ head = 0 /\ settled = 0 /\ past = {Moment} /\ lag = 0 /\ looked = None
        /\ pc = "idle" /\ meta = None
    BY DEF NodesInit, Init, ChainInit, WalkerInit
  <1>3. NodesTypeInv
    BY <1>1, <1>2 DEF TypeInv, TypeOK, NodesTypeInv, NodesTypeOK, Moment, ChainTypeOK
  <1>4. ViewsInv
    BY <1>1, <1>2 DEF ViewsInv, SettledInv, TimeMonotone, Moment, TypeInv, TypeOK, ChainTypeOK,
                      ChainBlock
  <1> QED
    BY <1>1, <1>2, <1>3, <1>4 DEF NodesInv, ContigInv, NextInLoop

\* Types, the contiguous scan and the views hold whatever is answered.
LEMMA NodesStep == NodesInv /\ [NodesNext]_nodesVars => NodesInv'
  <1> SUFFICES ASSUME NodesInv, [NodesNext]_nodesVars PROVE NodesInv'
    OBVIOUS
  <1>0. /\ NodesTypeOK /\ finalized \in Nat /\ next \in Nat
        /\ ScanIsContiguous /\ NextInLoop /\ ViewsInv
        /\ pc = "verify" => checkpoint # None
        /\ pc \in {"header", "units"} => scanned < MaxBlocksPerTick
    BY DEF NodesInv, NodesTypeInv
  <1>a. ASSUME UNCHANGED <<chainVars, past>>
        PROVE  ViewsInv' /\ ChainTypeOK' /\ Moment' \in past'
               /\ \A view \in past' :
                     view.head \in Nat /\ view.chain \in [0..view.head -> ChainBlock]
    BY <1>0, <1>a, ViewsStay, MomentStays DEF NodesTypeOK
  <1> USE DEF NodesInv, NodesTypeInv, NextInLoop
  <1>1. CASE ChainMoves
    <2>1. /\ ChainTypeOK' /\ SettledInv' /\ TimeMonotone'
          /\ settled' >= settled
          /\ \A s \in 0..settled : chain'[s] = chain[s]
          /\ past' = past \cup {Moment'}
          /\ UNCHANGED <<walkerVars, looked, lag>>
      BY <1>0, <1>1, ChainMovesKeep DEF ViewsInv, NodesTypeOK
    <2>2. settled \in Nat /\ settled' \in 0..head' /\ head' \in Nat
      BY <1>0, <2>1 DEF NodesTypeOK, ChainTypeOK
    <2>3. Moment'.head = head' /\ Moment'.chain = chain' /\ Moment'.settled = settled'
      BY DEF Moment
    <2>4. ASSUME NEW view \in past'
          PROVE  /\ view.head \in Nat /\ view.chain \in [0..view.head -> ChainBlock]
                 /\ view.settled \in 0..settled'
                 /\ view.head <= view.settled + FinalityDepth
                 /\ \A s \in 0..view.head : s <= view.settled => view.chain[s] = chain'[s]
      <3>1. CASE view = Moment'
        BY <3>1, <2>1, <2>2, <2>3 DEF ChainTypeOK, SettledInv
      <3>2. CASE view \in past
        <4>1. /\ view.head \in Nat /\ view.chain \in [0..view.head -> ChainBlock]
              /\ view.settled \in 0..settled
              /\ view.head <= view.settled + FinalityDepth
              /\ \A s \in 0..view.head : s <= view.settled => view.chain[s] = chain[s]
          BY <1>0, <3>2 DEF ViewsInv, NodesTypeOK
        <4>2. \A s \in 0..view.head : s <= view.settled => s \in 0..settled
          BY <4>1, <2>2
        <4> QED
          BY <4>1, <4>2, <2>1, <2>2
      <3> QED
        BY <2>1, <3>1, <3>2
    <2>5. ViewsInv'
      BY <2>1, <2>4 DEF ViewsInv
    <2>6. Moment' \in past'
      BY <2>1
    <2>7. NodesTypeOK' /\ finalized' \in Nat /\ next' \in Nat
      BY <1>0, <2>1, <2>4, <2>6 DEF NodesTypeOK, walkerVars, tickVars, Scanned
    <2> QED
      BY <1>0, <2>1, <2>5, <2>7 DEF walkerVars, tickVars, ScanIsContiguous, Scanned
  <1>2. CASE StartFresh
    <2>1. UNCHANGED <<chainVars, past, checkpoint, blocks, tickVars, looked, lag>>
          /\ pc = "idle" /\ pc' = "head"
      BY <1>2 DEF StartFresh, VerifyNone
    <2> QED
      BY <1>0, <1>a, <2>1 DEF NodesTypeOK, tickVars, Scanned, ScanIsContiguous
  <1>3. CASE LookupCheckpoint
    <2>1. PICK view \in past : /\ checkpoint.seqno <= view.head
                               /\ looked' = view.chain[checkpoint.seqno]
                               /\ AnsweredFrom(view)
      BY <1>3 DEF LookupCheckpoint
    <2>2. /\ UNCHANGED <<checkpoint, blocks, tickVars>>
          /\ pc = "idle" /\ pc' = "verify" /\ checkpoint \in BlockRef
      BY <1>0, <1>3 DEF LookupCheckpoint, NodesTypeOK
    <2>3. lag' \in Nat /\ UNCHANGED <<chainVars, past>>
          /\ view.head \in Nat /\ view.chain \in [0..view.head -> ChainBlock]
      BY <2>1, AnswerFacts
    <2>4. looked' \in ChainBlock
      BY <2>1, <2>2, <2>3 DEF BlockRef
    <2> QED
      BY <1>0, <1>a, <2>2, <2>3, <2>4 DEF NodesTypeOK, tickVars, Scanned, ScanIsContiguous
  <1>4. CASE HeaderMatches
    BY <1>0, <1>a, <1>4 DEF HeaderMatches, NodesTypeOK, tickVars, chainVars, Scanned,
                            ScanIsContiguous
  <1>5. CASE HeaderDiffers
    <2>1. /\ UNCHANGED <<chainVars, tickVars, past, lag>> /\ Rewind
          /\ pc = "verify" /\ pc' = "head" /\ looked' = None
      BY <1>5 DEF HeaderDiffers
    <2>2. Scanned \subseteq Nat /\ blocks \in [Scanned -> Block]
          /\ checkpoint \in BlockRef \cup {None}
      BY <1>0 DEF NodesTypeOK
    <2>3. checkpoint # None
      BY <1>0, <2>1
    <2>4. /\ checkpoint' \in BlockRef \cup {None}
          /\ Scanned' \subseteq Nat /\ blocks' \in [Scanned' -> Block]
      BY <2>1, <2>2, <2>3, RewindType
    <2>5. ScanIsContiguous'
      BY <1>0, <2>1, <2>2, <2>3, RewindContig
    <2> QED
      BY <1>0, <1>a, <2>1, <2>4, <2>5 DEF NodesTypeOK, tickVars
  <1>6. CASE AskHead
    <2>1. PICK view \in past : BeginScan(view.head) /\ AnsweredFrom(view)
      BY <1>6 DEF AskHead
    <2>2. /\ UNCHANGED <<checkpoint, blocks, meta, looked>>
          /\ pc = "head" /\ pc' = "scan"
      BY <1>6 DEF AskHead
    <2>3. lag' \in Nat /\ UNCHANGED <<chainVars, past>> /\ view.head \in Nat
      BY <2>1, AnswerFacts
    <2>4. finalized' \in Nat /\ scanned' = 0
          /\ next' = IF checkpoint = None THEN StartSeqno ELSE checkpoint.seqno + 1
      BY <2>1, <2>3, MonusFacts DEF BeginScan, FinalizedHead
    <2>5. next' \in Nat
      BY <1>0, <2>4 DEF NodesTypeOK, BlockRef
    <2>6. /\ Scanned' = Scanned
          /\ ScanIsContiguous' /\ NextInLoop'
      BY <1>0, <2>2, <2>4 DEF Scanned, ScanIsContiguous
    <2>7. /\ blocks' \in [Scanned' -> Block] /\ Scanned' \subseteq Nat
          /\ checkpoint' \in BlockRef \cup {None}
          /\ looked' \in ChainBlock \cup {None} /\ meta' \in ChainBlock \cup {None}
          /\ looked' = None /\ meta' = None
      BY <1>0, <2>2, <2>6 DEF NodesTypeOK
    <2>8. NodesTypeOK'
      BY <1>a, <2>2, <2>3, <2>4, <2>7 DEF NodesTypeOK
    <2> QED
      BY <1>a, <2>2, <2>3, <2>4, <2>5, <2>6, <2>8
  <1>7. CASE LookupBlock
    <2>1. PICK view \in past : /\ next <= view.head
                               /\ looked' = view.chain[next]
                               /\ AnsweredFrom(view)
      BY <1>7 DEF LookupBlock
    <2>2. /\ UNCHANGED <<checkpoint, blocks, tickVars>> /\ scanned < MaxBlocksPerTick
          /\ pc = "scan" /\ pc' = "header"
      BY <1>7 DEF LookupBlock, MoreToScan
    <2>3. lag' \in Nat /\ UNCHANGED <<chainVars, past>>
          /\ view.head \in Nat /\ view.chain \in [0..view.head -> ChainBlock]
      BY <2>1, AnswerFacts
    <2>4. looked' \in ChainBlock
      BY <1>0, <2>1, <2>3
    <2> QED
      BY <1>0, <1>a, <2>2, <2>3, <2>4 DEF NodesTypeOK, tickVars, Scanned, ScanIsContiguous
  <1>8. CASE GetHeader
    <2>1. /\ UNCHANGED <<chainVars, checkpoint, blocks, finalized, next, scanned, past, lag>>
          /\ pc = "header" /\ pc' = "units" /\ meta' = looked /\ looked' = None
      BY <1>8 DEF GetHeader
    <2>2. looked \in ChainBlock
      BY <1>0, <2>1 DEF NodesTypeOK
    <2> QED
      BY <1>0, <1>a, <2>1, <2>2 DEF NodesTypeOK, Scanned, ScanIsContiguous
  <1>9. CASE GetSettledWork
    <2>1. PICK view \in past : /\ next <= view.head
                               /\ Ingest(view.chain[next].branch)
                               /\ AnsweredFrom(view)
      BY <1>9 DEF GetSettledWork
    <2>2. pc = "units" /\ pc' = "scan" /\ UNCHANGED <<finalized, looked>>
      BY <1>9 DEF GetSettledWork
    <2>3. lag' \in Nat /\ UNCHANGED <<chainVars, past>>
          /\ view.head \in Nat /\ view.chain \in [0..view.head -> ChainBlock]
      BY <2>1, AnswerFacts
    <2>4. view.chain[next].branch \in Nat
      BY <1>0, <2>1, <2>3 DEF ChainBlock
    <2>5. Scanned \subseteq Nat /\ blocks \in [Scanned -> Block] /\ meta \in ChainBlock
          /\ checkpoint \in BlockRef \cup {None}
          /\ next = IF checkpoint = None THEN StartSeqno ELSE checkpoint.seqno + 1
      BY <1>0, <2>2 DEF NodesTypeOK
    <2>6. /\ checkpoint' \in BlockRef
          /\ Scanned' \subseteq Nat /\ blocks' \in [Scanned' -> Block]
          /\ next' \in Nat
      BY <1>0, <2>1, <2>4, <2>5, IngestType
    <2>7. ScanIsContiguous' /\ checkpoint' # None /\ next' = checkpoint'.seqno + 1
      BY <1>0, <2>1, <2>5, IngestContig
    <2>8. scanned' \in 0..MaxBlocksPerTick /\ meta' = None
      BY <1>0, <2>1, <2>2 DEF Ingest, NodesTypeOK
    <2> QED
      BY <1>0, <1>a, <2>2, <2>3, <2>6, <2>7, <2>8 DEF NodesTypeOK
  <1>10. CASE Return
    BY <1>0, <1>a, <1>10 DEF Return, TickDone, EndTick, NodesTypeOK, Scanned, ScanIsContiguous
  <1>11. CASE CallFails
    BY <1>0, <1>a, <1>11 DEF CallFails, EndTick, NodesTypeOK, Scanned, ScanIsContiguous
  <1>12. CASE UNCHANGED nodesVars
    BY <1>0, <1>a, <1>12 DEF nodesVars, vars, walkerVars, tickVars, NodesTypeOK, Scanned,
                             ScanIsContiguous
  <1> QED
    BY <1>1, <1>2, <1>3, <1>4, <1>5, <1>6, <1>7, <1>8, <1>9, <1>10, <1>11, <1>12
       DEF NodesNext

\* The variables keep their types.
THEOREM NodesTypeCorrect == NodesSpec => []NodesTypeOK
  <1>1. NodesInv => NodesTypeOK
    BY DEF NodesInv, NodesTypeInv
  <1> QED
    BY NodesInit1, NodesStep, <1>1, PTL DEF NodesSpec

-----------------------------------------------------------------------------
(* As long as the confirmations cover what answers lack                    *)

\* What is within a bound still is when the bound grows or it shrinks.
LEMMA Less ==
    ASSUME NEW a \in Nat, NEW b \in Nat, a <= b, NEW x \in Nat, NEW y \in Nat
    PROVE  /\ b + x <= y => a + x <= y
           /\ y <= a + x => y <= b + x
  OBVIOUS

\* What is confirmed is settled, and every view that is not further behind than
\* lag shows it.
LEMMA ConfirmedIsSettled ==
    ASSUME NEW s \in Nat, Confirmed(s), NEW l \in Nat, l + FinalityDepth <= Confirmations,
           NEW behind \in Nat, settled \in Nat, settled - behind <= l
    PROVE  s <= behind
  BY DEF Confirmed

\* What an answer shows of a confirmed block is that block.
LEMMA AnswerIsFinal ==
    ASSUME NodesInv, NEW view \in past, AnsweredFrom(view), Covered',
           NEW s \in Nat, Confirmed(s), s <= view.head
    PROVE  /\ Covered
           /\ s <= settled
           /\ view.chain[s] = chain[s]
  <1>1. /\ lag' \in Nat /\ lag \in Nat /\ lag' >= lag /\ settled - view.settled <= lag'
        /\ view.settled \in Nat /\ settled \in Nat /\ view.head \in Nat
    BY AnswerFacts DEF NodesInv, NodesTypeInv, NodesTypeOK
  <1>2. lag' + FinalityDepth <= Confirmations
    BY DEF Covered
  <1>3. s <= view.settled
    BY <1>1, <1>2, ConfirmedIsSettled
  <1>4. view.settled <= settled
           /\ \A t \in 0..view.head : t <= view.settled => view.chain[t] = chain[t]
    BY <1>1 DEF NodesInv, ViewsInv
  <1>5. lag + FinalityDepth <= Confirmations
    BY <1>1, <1>2, Less
  <1> QED
    BY <1>1, <1>3, <1>4, <1>5 DEF Covered

\* lag never falls, so what is covered now was covered before.
LEMMA CoveredBefore ==
    ASSUME NodesInv, NodesNext, Covered'
    PROVE  Covered
  <1>1. lag \in Nat /\ lag' + FinalityDepth <= Confirmations
    BY DEF NodesInv, NodesTypeInv, NodesTypeOK, Covered
  <1>2. CASE lag' = lag
    BY <1>1, <1>2 DEF Covered
  <1>3. CASE \E view \in past : AnsweredFrom(view)
    <2>1. lag' \in Nat /\ lag' >= lag
      BY <1>3, AnswerFacts
    <2>2. lag <= lag' /\ FinalityDepth \in Nat /\ Confirmations \in Nat
      BY <1>1, <2>1
    <2>3. lag + FinalityDepth <= Confirmations
      BY <1>1, <2>1, <2>2, Less
    <2> QED
      BY <2>3 DEF Covered
  <1>4. CASE LookupCheckpoint \/ AskHead \/ LookupBlock \/ GetSettledWork
    BY <1>3, <1>4 DEF LookupCheckpoint, AskHead, LookupBlock, GetSettledWork
  <1>5. CASE \/ ChainMoves \/ StartFresh \/ HeaderMatches \/ HeaderDiffers
             \/ GetHeader \/ Return \/ CallFails
    BY <1>2, <1>5 DEF ChainMoves, StartFresh, HeaderMatches, HeaderDiffers, GetHeader,
                      Return, CallFails
  <1> QED
    BY <1>4, <1>5 DEF NodesNext

\* A confirmed block stays confirmed.
LEMMA ConfirmedStays ==
    ASSUME settled \in Nat, settled' \in Nat, settled' >= settled,
           NEW s \in Nat, Confirmed(s)
    PROVE  s = 0 \/ s + Confirmations <= settled' + FinalityDepth
  <1>1. settled <= settled' /\ s + Confirmations \in Nat /\ FinalityDepth \in Nat
    OBVIOUS
  <1> QED
    BY <1>1, Less DEF Confirmed

\* A loop only asks for confirmed blocks.
LEMMA NextIsConfirmed ==
    ASSUME NodesInv, NEW f \in Nat, Confirmed(f), next <= f
    PROVE  Confirmed(next)
  <1>1. next \in Nat /\ settled \in Nat
    BY DEF NodesInv, NodesTypeInv, NodesTypeOK, ChainTypeOK
  <1> QED
    BY <1>1 DEF Confirmed

LEMMA ConfirmedInit == NodesInit => ConfirmedInv
  BY DEF NodesInit, Init, WalkerInit, ConfirmedInv, Scanned, NoBlocks

LEMMA ConfirmedStep ==
    NodesInv /\ NodesInv' /\ ConfirmedInv /\ [NodesNext]_nodesVars => ConfirmedInv'
  <1> SUFFICES ASSUME NodesInv, NodesInv', ConfirmedInv, [NodesNext]_nodesVars
               PROVE  ConfirmedInv'
    OBVIOUS
  <1>0. /\ settled \in Nat /\ settled' \in Nat /\ finalized \in Nat /\ next \in Nat
        /\ Scanned \subseteq Nat /\ checkpoint \in BlockRef \cup {None}
    BY DEF NodesInv, NodesTypeInv, NodesTypeOK, ChainTypeOK
  <1>1. CASE ChainMoves
    <2>1. settled' >= settled /\ UNCHANGED walkerVars
      BY <1>1, ChainMovesKeep DEF NodesInv, NodesTypeInv, NodesTypeOK, ViewsInv
    <2> QED
      BY <1>0, <2>1, ConfirmedStays DEF ConfirmedInv, Confirmed, walkerVars, tickVars, Scanned
  <1>2. ASSUME settled' = settled, Scanned' \subseteq Scanned,
               pc' \notin {"scan", "header", "units"}
        PROVE  ConfirmedInv'
    BY <1>0, <1>2 DEF ConfirmedInv, Confirmed
  <1>3. CASE StartFresh \/ LookupCheckpoint \/ HeaderMatches \/ Return \/ CallFails
    <2>1. settled' = settled /\ blocks' = blocks /\ pc' \notin {"scan", "header", "units"}
      BY <1>3 DEF StartFresh, VerifyNone, LookupCheckpoint, AnsweredFrom, HeaderMatches,
                  Return, TickDone, CallFails, EndTick, chainVars
    <2> QED
      BY <1>2, <2>1 DEF Scanned
  <1>4. CASE HeaderDiffers
    <2>1. settled' = settled /\ pc' = "head" /\ Scanned' \subseteq Scanned
      BY <1>4 DEF HeaderDiffers, chainVars, Rewind, Kept, Scanned, Restrict
    <2> QED
      BY <1>2, <2>1
  <1>5. CASE AskHead
    <2>1. PICK view \in past : BeginScan(view.head) /\ AnsweredFrom(view)
      BY <1>5 DEF AskHead
    <2>2. settled' = settled /\ blocks' = blocks /\ pc' = "scan"
      BY <1>5, <2>1 DEF AskHead, AnsweredFrom, chainVars
    <2>3. view.head \in Nat /\ view.head <= settled + FinalityDepth
      <3>1. view.head \in Nat /\ view.settled \in 0..settled
            /\ view.head <= view.settled + FinalityDepth
        BY DEF NodesInv, NodesTypeInv, NodesTypeOK, ViewsInv
      <3> QED
        BY <1>0, <3>1
    <2>4. finalized' = Monus(view.head, Confirmations)
      BY <2>1 DEF BeginScan, FinalizedHead
    <2>5. Confirmed(finalized)'
      BY <1>0, <2>2, <2>3, <2>4 DEF Confirmed, Monus
    <2> QED
      BY <1>0, <2>2, <2>5 DEF ConfirmedInv, Confirmed, Scanned
  <1>6. CASE LookupBlock
    <2>1. /\ UNCHANGED <<settled, blocks, finalized, next>> /\ next <= finalized
          /\ pc = "scan" /\ pc' = "header"
      BY <1>6 DEF LookupBlock, MoreToScan, AnsweredFrom, chainVars, tickVars
    <2> QED
      BY <1>0, <2>1 DEF ConfirmedInv, Confirmed, Scanned
  <1>7. CASE GetHeader
    <2>1. UNCHANGED <<settled, blocks, finalized, next>> /\ pc = "header" /\ pc' = "units"
      BY <1>7 DEF GetHeader, chainVars
    <2> QED
      BY <1>0, <2>1 DEF ConfirmedInv, Confirmed, Scanned
  <1>8. CASE GetSettledWork
    <2>1. /\ UNCHANGED <<settled, finalized>> /\ pc = "units" /\ pc' = "scan"
          /\ Scanned' = Scanned \cup {next}
      BY <1>8 DEF GetSettledWork, Ingest, AnsweredFrom, chainVars, Scanned
    <2>2. Confirmed(next)
      BY <1>0, <2>1, NextIsConfirmed DEF ConfirmedInv
    <2> QED
      BY <1>0, <2>1, <2>2 DEF ConfirmedInv, Confirmed
  <1>9. CASE UNCHANGED nodesVars
    BY <1>0, <1>9 DEF nodesVars, vars, chainVars, walkerVars, tickVars, ConfirmedInv,
                      Confirmed, Scanned
  <1> QED
    BY <1>1, <1>3, <1>4, <1>5, <1>6, <1>7, <1>8, <1>9 DEF NodesNext

\* While it is covered, what is confirmed is settled.
LEMMA CoveredIsSettled ==
    ASSUME Covered, NEW s \in Nat, Confirmed(s), settled \in Nat, lag \in Nat
    PROVE  s <= settled
  BY ConfirmedIsSettled DEF Covered

\* The checkpoint is a confirmed block of the chain.
LEMMA CheckpointIsFinal ==
    ASSUME NodesInv, ConfirmedInv, ScannedBlocksAreFinal, checkpoint # None
    PROVE  /\ checkpoint.seqno \in Nat /\ Confirmed(checkpoint.seqno)
           /\ checkpoint.seqno <= settled
           /\ chain[checkpoint.seqno].branch = checkpoint.hash
  <1>1. /\ checkpoint.seqno \in Scanned /\ Scanned \subseteq Nat
        /\ blocks[checkpoint.seqno].hash = checkpoint.hash
    BY DEF NodesInv, NodesTypeInv, NodesTypeOK, ScanIsContiguous
  <1>2. blocks[checkpoint.seqno] = Canonical(checkpoint.seqno)
    BY <1>1 DEF ScannedBlocksAreFinal
  <1>3. Canonical(checkpoint.seqno).hash = chain[checkpoint.seqno].branch
    BY DEF Canonical
  <1> QED
    BY <1>1, <1>2, <1>3 DEF ScannedBlocksAreFinal, ConfirmedInv

\* So it is never rewound.
LEMMA HeaderNeverDiffers ==
    ASSUME NodesFinalInv, Covered
    PROVE  ~HeaderDiffers
  <1> SUFFICES ASSUME HeaderDiffers PROVE FALSE
    OBVIOUS
  <1>1. /\ pc = "verify" /\ looked.branch # checkpoint.hash
        /\ checkpoint # None /\ looked = chain[checkpoint.seqno]
    BY DEF HeaderDiffers, NodesFinalInv, NodesInv, NodesTypeInv, InHandIsFinal
  <1> QED
    BY <1>1, CheckpointIsFinal DEF NodesFinalInv

\* The block in hand is the next of the scan and confirmed.
LEMMA NextInHand ==
    ASSUME NodesInv, ConfirmedInv, pc \in {"header", "units"}
    PROVE  /\ next \in Nat /\ next >= StartSeqno /\ Confirmed(next)
           /\ Scanned = StartSeqno..(next - 1)
  <1>1. /\ finalized \in Nat /\ checkpoint \in BlockRef \cup {None} /\ ScanIsContiguous
        /\ next = IF checkpoint = None THEN StartSeqno ELSE checkpoint.seqno + 1
    BY DEF NodesInv, NodesTypeInv, NodesTypeOK, NextInLoop
  <1>2. Confirmed(finalized) /\ next <= finalized
    BY DEF ConfirmedInv
  <1> QED
    BY <1>1, <1>2, NextFacts, NextIsConfirmed

\* What is stored is the next settled block, whoever answered.
LEMMA StoredIsFinal ==
    ASSUME NodesFinalInv, GetSettledWork, Covered'
    PROVE  /\ next \in StartSeqno..settled
           /\ Scanned = StartSeqno..(next - 1)
           /\ blocks' = [s \in StartSeqno..next |->
                           IF s = next THEN Canonical(next) ELSE blocks[s]]
           /\ UNCHANGED chainVars
  <1>1. PICK view \in past : /\ next <= view.head
                             /\ Ingest(view.chain[next].branch)
                             /\ AnsweredFrom(view)
    BY DEF GetSettledWork
  <1>2. /\ next \in Nat /\ next >= StartSeqno /\ Confirmed(next)
        /\ Scanned = StartSeqno..(next - 1)
    BY NextInHand DEF GetSettledWork, NodesFinalInv
  <1>3. Covered /\ next <= settled /\ view.chain[next] = chain[next]
    BY <1>1, <1>2, AnswerIsFinal DEF NodesFinalInv
  <1>4. meta = chain[next]
    BY <1>3 DEF NodesFinalInv, InHandIsFinal, GetSettledWork
  <1>5. settled \in Nat
    BY DEF NodesFinalInv, NodesInv, NodesTypeInv, NodesTypeOK, ChainTypeOK
  <1>6. StartSeqno..next = Scanned \cup {next} /\ next \in StartSeqno..settled
    BY <1>2, <1>3, <1>5
  <1>7. [hash |-> meta.branch, time |-> meta.time, units |-> view.chain[next].branch]
           = Canonical(next)
    BY <1>3, <1>4 DEF Canonical
  <1>8. blocks' = [s \in Scanned \cup {next} |->
                     IF s = next THEN Canonical(next) ELSE blocks[s]]
    BY <1>1, <1>7 DEF Ingest
  <1> QED
    BY <1>1, <1>2, <1>6, <1>8 DEF AnsweredFrom

\* The settled part of the chain stays, and so does what is final of the walker.
LEMMA FinalStays ==
    ASSUME NodesFinalInv, Covered, ChainMoves
    PROVE  ScannedBlocksAreFinal' /\ InHandIsFinal'
  <1>0. /\ settled' \in Nat /\ settled' >= settled
        /\ \A s \in 0..settled : chain'[s] = chain[s]
        /\ UNCHANGED walkerVars /\ UNCHANGED looked
    BY ChainMovesKeep
       DEF NodesFinalInv, NodesInv, NodesTypeInv, NodesTypeOK, ViewsInv, ChainTypeOK
  <1>1. settled \in Nat /\ lag \in Nat /\ Scanned \subseteq Nat
    BY DEF NodesFinalInv, NodesInv, NodesTypeInv, NodesTypeOK, ChainTypeOK
  <1>2. /\ UNCHANGED <<checkpoint, blocks, pc, next, meta>>
        /\ Scanned' = Scanned
    BY <1>0 DEF walkerVars, tickVars, Scanned
  <1>3. ScannedBlocksAreFinal /\ InHandIsFinal
    BY DEF NodesFinalInv
  <1>4. ScannedBlocksAreFinal'
    <2>1. ASSUME NEW s \in Scanned
          PROVE  s <= settled' /\ blocks'[s] = Canonical(s)'
      <3>1. s \in 0..settled /\ blocks[s] = Canonical(s)
        BY <1>1, <1>3 DEF ScannedBlocksAreFinal
      <3> QED
        BY <1>0, <1>1, <1>2, <3>1 DEF Canonical
    <2> QED
      BY <1>2, <2>1 DEF ScannedBlocksAreFinal
  <1>5. CASE pc = "verify"
    <2>1. checkpoint # None
      BY <1>5 DEF NodesFinalInv, NodesInv, NodesTypeInv
    <2>2. checkpoint.seqno \in 0..settled
      BY <1>1, <1>3, <2>1, CheckpointIsFinal DEF NodesFinalInv
    <2> QED
      BY <1>0, <1>2, <1>3, <1>4, <1>5, <2>2 DEF InHandIsFinal
  <1>6. CASE pc \in {"header", "units"}
    <2>1. next \in 0..settled
      BY <1>1, <1>6, NextInHand, CoveredIsSettled DEF NodesFinalInv
    <2> QED
      BY <1>0, <1>2, <1>3, <1>4, <1>6, <2>1 DEF InHandIsFinal
  <1>7. CASE pc \notin {"verify", "header", "units"}
    BY <1>2, <1>4, <1>7 DEF InHandIsFinal
  <1> QED
    BY <1>5, <1>6, <1>7

LEMMA NodesFinalInit == NodesInit => NodesFinalInv
  BY NodesInit1, ConfirmedInit
     DEF NodesInit, Init, WalkerInit, NodesFinalInv, ScannedBlocksAreFinal, Scanned,
         NoBlocks, InHandIsFinal

LEMMA NodesFinalStep == NodesFinalInv /\ [NodesNext]_nodesVars => NodesFinalInv'
  <1> SUFFICES ASSUME NodesFinalInv, [NodesNext]_nodesVars PROVE NodesFinalInv'
    OBVIOUS
  <1>0. NodesInv /\ NodesInv' /\ ConfirmedInv /\ ConfirmedInv'
    BY NodesStep, ConfirmedStep DEF NodesFinalInv
  <1> SUFFICES ASSUME Covered' PROVE ScannedBlocksAreFinal' /\ InHandIsFinal'
    BY <1>0 DEF NodesFinalInv
  <1>a. Covered
    <2>1. CASE UNCHANGED nodesVars
      BY <2>1 DEF nodesVars, Covered
    <2> QED
      BY <1>0, <2>1, CoveredBefore
  <1>b. ScannedBlocksAreFinal /\ InHandIsFinal
    BY <1>a DEF NodesFinalInv
  <1>c. /\ settled \in Nat /\ lag \in Nat /\ checkpoint \in BlockRef \cup {None}
        /\ Scanned \subseteq Nat
    BY <1>0 DEF NodesInv, NodesTypeInv, NodesTypeOK, ChainTypeOK
  <1>d. ASSUME chainVars' = chainVars, blocks' = blocks PROVE ScannedBlocksAreFinal'
    BY <1>b, <1>d DEF chainVars, ScannedBlocksAreFinal, Scanned, Canonical
  <1>1. CASE ChainMoves
    BY <1>a, <1>1, FinalStays
  <1>2. CASE StartFresh \/ HeaderMatches \/ AskHead \/ Return \/ CallFails
    <2>1. chainVars' = chainVars /\ blocks' = blocks
          /\ pc' \notin {"verify", "header", "units"}
      BY <1>2 DEF StartFresh, VerifyNone, HeaderMatches, AskHead, AnsweredFrom, Return,
                  TickDone, CallFails, EndTick, chainVars
    <2> QED
      BY <1>d, <2>1 DEF InHandIsFinal
  <1>3. CASE LookupCheckpoint
    <2>1. PICK view \in past : /\ checkpoint.seqno <= view.head
                               /\ looked' = view.chain[checkpoint.seqno]
                               /\ AnsweredFrom(view)
      BY <1>3 DEF LookupCheckpoint
    <2>2. checkpoint # None /\ pc' = "verify" /\ UNCHANGED <<checkpoint, blocks>>
          /\ UNCHANGED chainVars
      BY <1>3, <2>1 DEF LookupCheckpoint, AnsweredFrom
    <2>3. checkpoint.seqno \in Nat /\ Confirmed(checkpoint.seqno)
      BY <1>0, <1>b, <2>2, CheckpointIsFinal
    <2>4. view.chain[checkpoint.seqno] = chain[checkpoint.seqno]
      BY <1>0, <2>1, <2>3, AnswerIsFinal
    <2> QED
      BY <1>d, <2>1, <2>2, <2>4 DEF InHandIsFinal, chainVars
  <1>4. CASE HeaderDiffers
    BY <1>4, <1>a, HeaderNeverDiffers
  <1>5. CASE LookupBlock
    <2>1. PICK view \in past : /\ next <= view.head
                               /\ looked' = view.chain[next]
                               /\ AnsweredFrom(view)
      BY <1>5 DEF LookupBlock
    <2>2. /\ pc = "scan" /\ pc' = "header" /\ UNCHANGED <<next, blocks>>
          /\ UNCHANGED chainVars /\ next <= finalized
      BY <1>5, <2>1 DEF LookupBlock, MoreToScan, AnsweredFrom, tickVars
    <2>3. next \in Nat /\ finalized \in Nat /\ Confirmed(finalized)
      BY <1>0, <2>2 DEF NodesInv, NodesTypeInv, ConfirmedInv
    <2>4. view.chain[next] = chain[next]
      BY <1>0, <2>1, <2>2, <2>3, NextIsConfirmed, AnswerIsFinal
    <2> QED
      BY <1>d, <2>1, <2>2, <2>4 DEF InHandIsFinal, chainVars
  <1>6. CASE GetHeader
    <2>1. /\ pc = "header" /\ pc' = "units" /\ meta' = looked
          /\ UNCHANGED <<next, blocks>> /\ UNCHANGED chainVars
      BY <1>6 DEF GetHeader
    <2> QED
      BY <1>b, <1>d, <2>1 DEF InHandIsFinal, chainVars
  <1>7. CASE GetSettledWork
    <2>1. /\ next \in StartSeqno..settled
          /\ Scanned = StartSeqno..(next - 1)
          /\ blocks' = [s \in StartSeqno..next |->
                          IF s = next THEN Canonical(next) ELSE blocks[s]]
          /\ UNCHANGED chainVars
      BY <1>7, StoredIsFinal
    <2>2. Scanned' = StartSeqno..next
      BY <2>1 DEF Scanned
    <2>3. ASSUME NEW s \in StartSeqno..next
          PROVE  s <= settled /\ blocks'[s] = Canonical(s)
      <3>1. CASE s = next
        BY <1>c, <2>1, <3>1
      <3>2. CASE s # next
        <4>1. s \in Scanned /\ blocks'[s] = blocks[s]
          BY <1>c, <2>1, <3>2
        <4> QED
          BY <1>b, <4>1 DEF ScannedBlocksAreFinal
      <3> QED
        BY <3>1, <3>2
    <2>4. ScannedBlocksAreFinal'
      BY <2>1, <2>2, <2>3 DEF chainVars, ScannedBlocksAreFinal, Canonical
    <2>5. pc' = "scan"
      BY <1>7 DEF GetSettledWork
    <2> QED
      BY <2>4, <2>5 DEF InHandIsFinal
  <1>8. CASE UNCHANGED nodesVars
    BY <1>8, <1>b, <1>d DEF nodesVars, vars, walkerVars, tickVars, chainVars, InHandIsFinal
  <1> QED
    BY <1>1, <1>2, <1>3, <1>4, <1>5, <1>6, <1>7, <1>8 DEF NodesNext

\* Whatever the nodes answer, as long as the confirmations cover how far behind
\* they were, what the walker holds is final and what it serves is exact.
THEOREM LagIsCoveredAlways == NodesSpec => []LagIsCovered
  <1>1. NodesFinalInv => LagIsCovered
    <2> SUFFICES ASSUME NodesFinalInv, Covered
                 PROVE  ScannedBlocksAreFinal /\ CompleteEpochExact
      BY DEF LagIsCovered
    <2>1. ScannedBlocksAreFinal
      BY DEF NodesFinalInv
    <2>2. ChainTypeOK /\ TimeMonotone /\ Scanned \subseteq Nat /\ ScanIsContiguous
      BY DEF NodesFinalInv, NodesInv, NodesTypeInv, NodesTypeOK, ViewsInv
    <2> QED
      BY <2>1, <2>2, ExactWhenFinal
  <1> QED
    BY NodesFinalInit, NodesFinalStep, <1>1, PTL DEF NodesSpec

\* And all it does to its blocks is to append the next settled one.
THEOREM NodesOnlyAppend == NodesSpec => AppendsWhileCovered
  <1>1. NodesFinalInv /\ [NodesNext]_nodesVars
          => [Covered' /\ blocks' # blocks => Log!Append]_nodesVars
    <2> SUFFICES ASSUME NodesFinalInv, NodesNext, Covered', blocks' # blocks
                 PROVE  Log!Append
      OBVIOUS
    <2>1. Covered
      BY CoveredBefore DEF NodesFinalInv
    <2>2. GetSettledWork
      BY <2>1, HeaderNeverDiffers
         DEF NodesNext, ChainMoves, walkerVars, StartFresh, VerifyNone, LookupCheckpoint,
             HeaderMatches, AskHead, LookupBlock, GetHeader, Return, TickDone, CallFails
    <2>3. /\ next \in StartSeqno..settled /\ StartSeqno \in Nat
          /\ Scanned = StartSeqno..(next - 1)
          /\ blocks' = [s \in StartSeqno..next |->
                          IF s = next THEN Canonical(next) ELSE blocks[s]]
          /\ UNCHANGED chainVars
      BY <2>2, StoredIsFinal
    <2>4. settled \in Nat
      BY DEF NodesFinalInv, NodesInv, NodesTypeInv, NodesTypeOK, ChainTypeOK
    <2>5. next \in 0..settled /\ next >= StartSeqno
      BY <2>3, <2>4
    <2>6. Log!Canonical(next) = Canonical(next)
      BY DEF Log!Canonical, Canonical
    <2>7. UNCHANGED Log!chainVars
      BY <2>3 DEF chainVars, Log!chainVars
    <2> QED
      BY <2>3, <2>5, <2>6, <2>7 DEF Log!Append, Scanned
  <1> QED
    BY NodesFinalInit, NodesFinalStep, <1>1, PTL DEF NodesSpec, AppendsWhileCovered
=============================================================================
