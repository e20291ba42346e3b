---------------------------- MODULE MCMaturation ----------------------------
(* Small payouts for TLC: every share of ten, up to five stream epochs.    *)
EXTENDS Maturation

MCTotals == 0..40
MCImmediateShares == 0..11
MCStreamLengths == 0..5
=============================================================================
