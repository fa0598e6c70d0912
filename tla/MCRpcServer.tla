----------------------------- MODULE MCRpcServer -----------------------------
(* Symmetry for TLC.                                                       *)
EXTENDS RpcServer, TLC

Interchangeable == Permutations(Clients)
=============================================================================
