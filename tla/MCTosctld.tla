----------------------------- MODULE MCTosctld -----------------------------
(* Two scorers and a short list for TLC.                                    *)
EXTENDS Tosctld, TLC

CONSTANTS s1, s2

MCScorers == {s1, s2}

\* Scorers are interchangeable.
MCSymmetry == Permutations(MCScorers)
=============================================================================
