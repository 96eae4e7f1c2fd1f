---------------------------- MODULE MCRpcClient ----------------------------
(* Bounded instances of RpcClient for TLC. *)
EXTENDS RpcClient
=============================================================================
