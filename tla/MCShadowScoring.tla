-------------------------- MODULE MCShadowScoring --------------------------
(* Two processes and a short list for TLC.                                 *)
EXTENDS ShadowScoring

CONSTANTS s1, s2

MCScorers == {s1, s2}
=============================================================================
