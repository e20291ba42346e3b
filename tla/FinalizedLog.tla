---------------------------- MODULE FinalizedLog ----------------------------
(***************************************************************************)
(* What the walker promises its callers when the chain is final at the     *)
(* configured number of confirmations: a log of settled blocks that grows  *)
(* by one block at a time, in seqno order, and never changes, whatever the *)
(* chain does above its final part.                                        *)
(***************************************************************************)
EXTENDS Masterchain

CONSTANT StartSeqno   \* the first block of the log

VARIABLE log          \* the blocks StartSeqno..last, as they are on the chain

Append ==
    /\ \E s \in 0..settled :
          /\ s >= StartSeqno
          /\ DOMAIN log = StartSeqno..(s - 1)
          /\ log' = [t \in StartSeqno..s |-> IF t = s THEN Canonical(s) ELSE log[t]]
    /\ UNCHANGED chainVars

ChainMoves == (Grow \/ Fork) /\ UNCHANGED log

LogInit == ChainInit /\ log = NoBlocks
LogNext == Append \/ ChainMoves
LogSpec == LogInit /\ [][LogNext]_<<chainVars, log>>
=============================================================================
