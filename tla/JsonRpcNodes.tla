---------------------------- MODULE JsonRpcNodes ----------------------------
(***************************************************************************)
(* The walker over JsonRpcChainRpc (crates/aipow-indexer/src/rpc.rs), call *)
(* by call.  One ChainRpc method may be two JSON-RPC calls: block_meta     *)
(* looks the block up by seqno and then asks for the header of the root    *)
(* hash it was told.  The endpoint may stand for several nodes, which are  *)
(* behind the live chain, each by its own delay; so a call is answered     *)
(* from the chain as it is or as it was at some earlier moment, and two    *)
(* calls of one tick need not see the same one.                            *)
(*                                                                         *)
(* pc names the call that is awaited: that of RpcWalker, "verify" for the  *)
(* checkpoint's getBlockHeader and "header" for that of next.              *)
(***************************************************************************)
EXTENDS RpcWalker

VARIABLES
    past,     \* every view of the chain that a node may still have
    looked,   \* block_meta's local: the block lookupBlock answered, or None
    lag       \* history: how many settled blocks an answer lacked at most

nodesVars == <<vars, past, looked, lag>>

\* The chain as it is now.
Moment == [head |-> head, chain |-> chain, settled |-> settled]

NodesTypeOK ==
    /\ ChainTypeOK
    /\ Moment \in past
    /\ \A view \in past :
          view.head \in Nat /\ view.chain \in [0..view.head -> ChainBlock]
    /\ checkpoint \in BlockRef \cup {None}
    /\ Scanned \subseteq Nat
    /\ blocks \in [Scanned -> Block]
    /\ pc \in {"idle", "verify", "head", "scan", "header", "units"}
    /\ scanned \in 0..MaxBlocksPerTick
    /\ looked \in ChainBlock \cup {None} /\ (looked # None <=> pc \in {"verify", "header"})
    /\ meta \in ChainBlock \cup {None} /\ (meta # None <=> pc = "units")
    /\ lag \in Nat

NodesInit ==
    /\ Init
    /\ past = {Moment}
    /\ looked = None
    /\ lag = 0

\* The chain moves; nodes may follow at any time, or not yet.
ChainMoves ==
    /\ Grow \/ Fork
    /\ past' = past \cup {Moment'}
    /\ UNCHANGED <<walkerVars, looked, lag>>

\* The answer comes from a node with this view.
AnsweredFrom(view) ==
    /\ lag' = IF settled - view.settled > lag THEN settled - view.settled ELSE lag
    /\ UNCHANGED <<chainVars, past>>

-----------------------------------------------------------------------------
(* verify_checkpoint                                                       *)

\* There is nothing to verify.
StartFresh == VerifyNone /\ UNCHANGED <<past, looked, lag>>

\* lookupBlock of the checkpoint's seqno.
LookupCheckpoint ==
    /\ pc = "idle"
    /\ checkpoint # None
    /\ \E view \in past :
          /\ checkpoint.seqno <= view.head
          /\ looked' = view.chain[checkpoint.seqno]
          /\ AnsweredFrom(view)
    /\ pc' = "verify"
    /\ UNCHANGED <<checkpoint, blocks, tickVars, rewound>>

\* getBlockHeader answers: of the root hash that was looked up, so whichever
\* node answers, it is about that block.
HeaderMatches ==
    /\ pc = "verify"
    /\ looked.branch = checkpoint.hash
    /\ looked' = None
    /\ pc' = "head"
    /\ UNCHANGED <<chainVars, checkpoint, blocks, tickVars, rewound, past, lag>>

HeaderDiffers ==
    /\ pc = "verify"
    /\ looked.branch # checkpoint.hash
    /\ Rewind
    /\ looked' = None
    /\ pc' = "head"
    /\ UNCHANGED <<chainVars, tickVars, past, lag>>

-----------------------------------------------------------------------------
(* tick, after verify_checkpoint                                           *)

\* getMasterchainInfo.
AskHead ==
    /\ pc = "head"
    /\ \E view \in past : BeginScan(view.head) /\ AnsweredFrom(view)
    /\ pc' = "scan"
    /\ UNCHANGED <<checkpoint, blocks, meta, rewound, looked>>

\* lookupBlock of next.
LookupBlock ==
    /\ pc = "scan"
    /\ MoreToScan
    /\ \E view \in past :
          /\ next <= view.head
          /\ looked' = view.chain[next]
          /\ AnsweredFrom(view)
    /\ pc' = "header"
    /\ UNCHANGED <<checkpoint, blocks, tickVars, rewound>>

\* getBlockHeader of the root hash that was looked up.
GetHeader ==
    /\ pc = "header"
    /\ meta' = looked
    /\ looked' = None
    /\ pc' = "units"
    /\ UNCHANGED <<chainVars, checkpoint, blocks, finalized, next, scanned, rewound,
                   past, lag>>

\* aipowGetSettledWork of next: by its seqno, from any node.
GetSettledWork ==
    /\ pc = "units"
    /\ \E view \in past :
          /\ next <= view.head
          /\ Ingest(view.chain[next].branch)
          /\ AnsweredFrom(view)
    /\ pc' = "scan"
    /\ UNCHANGED <<finalized, rewound, looked>>

Return == TickDone /\ UNCHANGED <<past, looked, lag>>

\* The transport fails, the node answers an error (it has no such block), or
\* the answer is not of the shape that is expected: tick() returns the error.
CallFails ==
    /\ pc \in {"verify", "head", "header", "units"} \/ (pc = "scan" /\ MoreToScan)
    /\ EndTick
    /\ looked' = None
    /\ UNCHANGED <<chainVars, checkpoint, blocks, rewound, past, lag>>

NodesNext ==
    \/ ChainMoves
    \/ StartFresh \/ LookupCheckpoint \/ HeaderMatches \/ HeaderDiffers
    \/ AskHead \/ LookupBlock \/ GetHeader \/ GetSettledWork \/ Return \/ CallFails

NodesSpec == NodesInit /\ [][NodesNext]_nodesVars

-----------------------------------------------------------------------------
\* The confirmations cover the finality of the chain and the delay of nodes.
Covered == lag + FinalityDepth <= Confirmations

\* As long as no answer lacked more settled blocks than the confirmations leave
\* beyond the chain's finality, the walker holds final blocks only, each whole
\* though its id, its time and its units come from three calls that three nodes
\* may have answered, and it serves epochs exactly.
LagIsCovered == Covered => ScannedBlocksAreFinal /\ CompleteEpochExact

\* And until then what it does to its blocks is to append settled ones.
AppendsWhileCovered == [][Covered' /\ blocks' # blocks => Log!Append]_nodesVars

-----------------------------------------------------------------------------
(* What LagIsCovered rests on                                              *)

\* What NodesTypeOK needs to be inductive: a block is only looked up by a loop
\* that may scan one block more, or for a checkpoint that is there.
NodesTypeInv ==
    /\ NodesTypeOK
    /\ finalized \in Nat /\ next \in Nat
    /\ pc = "verify" => checkpoint # None
    /\ pc \in {"header", "units"} => scanned < MaxBlocksPerTick

\* Every view ends FinalityDepth above what it shows as settled, and that part
\* of it is still the chain's.
ViewsInv ==
    /\ SettledInv
    /\ TimeMonotone
    /\ \A view \in past :
          /\ view.settled \in 0..settled
          /\ view.head <= view.settled + FinalityDepth
          /\ \A s \in 0..view.head : s <= view.settled => view.chain[s] = chain[s]

NextInLoop ==
    pc \in {"scan", "header", "units"} =>
        next = IF checkpoint = None THEN StartSeqno ELSE checkpoint.seqno + 1

\* Confirmations deep, by some head that was never more than FinalityDepth above
\* the settled blocks.  (A short chain's finalized head saturates at genesis.)
Confirmed(s) == s = 0 \/ s + Confirmations <= settled + FinalityDepth

ConfirmedInv ==
    /\ \A s \in Scanned : Confirmed(s)
    /\ pc \in {"scan", "header", "units"} => Confirmed(finalized)
    /\ pc \in {"header", "units"} => next <= finalized

InHandIsFinal ==
    /\ pc = "verify" => looked = chain[checkpoint.seqno]
    /\ pc = "header" => looked = chain[next]
    /\ pc = "units" => meta = chain[next]

NodesInv == NodesTypeInv /\ ScanIsContiguous /\ NextInLoop /\ ViewsInv

NodesFinalInv ==
    /\ NodesInv
    /\ ConfirmedInv
    /\ Covered => ScannedBlocksAreFinal /\ InHandIsFinal
=============================================================================
