---------------------------- MODULE Masterchain ----------------------------
(***************************************************************************)
(* The masterchain that the indexer reads over RPC.  It is not part of the *)
(* scorer: it is the environment, modelled from what ChainRpc assumes      *)
(* (crates/aipow-indexer/src/rpc.rs).                                      *)
(*                                                                         *)
(* A block is its branch and its time.  A branch number is used for one    *)
(* block of a seqno at most, so <<seqno, branch>> plays the root hash: two *)
(* blocks of one seqno have the same hash exactly when they have the same  *)
(* branch.  The settled units of a block are named by the block's branch.  *)
(* A chain that switches back to a branch it had left is not modelled.     *)
(***************************************************************************)
EXTENDS Integers, Functions

CONSTANTS
    FinalityDepth,  \* a block with this many blocks above it is never replaced
    MaxHead,        \* bound: the highest seqno of a behaviour
    MaxForks,       \* bound: how many times the chain may fork
    MaxGap          \* bound: the time between two consecutive blocks

ASSUME MasterchainAssumption ==
    /\ FinalityDepth \in Nat
    /\ MaxHead \in Nat
    /\ MaxForks \in Nat
    /\ MaxGap \in Nat

VARIABLES
    head,     \* seqno of the last block
    chain,    \* the blocks 0..head of the live chain
    branch,   \* the branch that new blocks are added to
    settled   \* the highest seqno that was ever FinalityDepth blocks deep

chainVars == <<head, chain, branch, settled>>

ChainBlock == [branch : Nat, time : Nat]

ChainTypeOK ==
    /\ head \in Nat
    /\ chain \in [0..head -> ChainBlock]
    /\ branch \in Nat
    /\ settled \in 0..head

\* Genesis, block 0, is final from the start.
ChainInit ==
    /\ head = 0
    /\ chain = [s \in {0} |-> [branch |-> 0, time |-> 0]]
    /\ branch = 0
    /\ settled = 0

\* A block is added; its time is not before its parent's.
Grow ==
    /\ head < MaxHead
    /\ head' = head + 1
    /\ \E gap \in 0..MaxGap :
          chain' = [s \in 0..(head + 1) |->
                      IF s <= head THEN chain[s]
                      ELSE [branch |-> branch, time |-> chain[head].time + gap]]
    /\ settled' = IF head + 1 - FinalityDepth > settled
                  THEN head + 1 - FinalityDepth
                  ELSE settled
    /\ UNCHANGED branch

\* Blocks from f on are abandoned; growth goes on, on a new branch.
Fork ==
    /\ branch < MaxForks
    /\ \E f \in (settled + 1)..head :
          /\ head' = f - 1
          /\ chain' = Restrict(chain, 0..(f - 1))
    /\ branch' = branch + 1
    /\ UNCHANGED settled

TimeMonotone ==
    \A s, t \in 0..head : s <= t => chain[s].time <= chain[t].time

-----------------------------------------------------------------------------
\* What one block looks like once it is scanned in one piece.
Canonical(s) ==
    [hash |-> chain[s].branch, time |-> chain[s].time, units |-> chain[s].branch]

\* The empty map of scanned blocks.
NoBlocks == [s \in {} |-> Canonical(s)]
=============================================================================
