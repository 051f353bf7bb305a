--------------------------- MODULE MCAttribution ---------------------------
(* Small instances of Attribution for TLC. *)
EXTENDS Attribution, TLC

Interchangeable == Permutations(Clients) \cup Permutations(Hosts) \cup Permutations(ConnIds)
=============================================================================
