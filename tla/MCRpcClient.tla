---------------------------- MODULE MCRpcClient ----------------------------
(* Instances of RpcClient for TLC: every history with two registrations.   *)
EXTENDS RpcClient

=============================================================================
