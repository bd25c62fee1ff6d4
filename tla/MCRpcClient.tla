---------------------------- MODULE MCRpcClient ----------------------------
(* Instances of RpcClient for TLC.                                         *)
EXTENDS RpcClient, TLC

CONSTANTS g1, g2
=============================================================================
