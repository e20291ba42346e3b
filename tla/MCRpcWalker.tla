---------------------------- MODULE MCRpcWalker ----------------------------
(* Instances of RpcWalker for TLC; the cfgs give the constants.            *)
EXTENDS RpcWalker
=============================================================================
