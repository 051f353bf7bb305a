---------------------------- MODULE MCPairMatch ----------------------------
(* Small instances of PairMatch for TLC. *)
EXTENDS PairMatch, TLC

Interchangeable == Permutations(Clients)
=============================================================================
