--------------------------- MODULE MCLonelySweep ---------------------------
(* Small instances of LonelySweep for TLC. *)
EXTENDS LonelySweep, TLC

OneAddressPerIP == [a \in Addrs |-> a]

Interchangeable == Permutations(Addrs) \cup Permutations(Hosts)
=============================================================================
