--------------------------- MODULE MCJsonRpcNodes ---------------------------
(* Instances of JsonRpcNodes for TLC; the cfg gives the constants.         *)
EXTENDS JsonRpcNodes
=============================================================================
