------------------------ MODULE MCInteractivePolling ------------------------
(* Small sets of operations for TLC.                                       *)
EXTENDS InteractivePolling, TLC

Interchangeable == Permutations(Pollers) \cup Permutations(Clients)
=============================================================================
