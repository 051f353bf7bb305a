--------------------------- MODULE MCMatchmaking ---------------------------
(* Small instances of Matchmaking for TLC. *)
EXTENDS Matchmaking, TLC

CONSTANT c1, c2, c3, c4

\* Every client has an address of its own: the addresses serve as IPs too.
OneAddressPerIP == [a \in Addrs |-> a]

\* c3 and c4 are two players behind one NAT.
SharedIP == [a \in Addrs |-> IF a = c4 THEN c3 ELSE a]

Interchangeable == Permutations(Addrs) \cup Permutations(Hosts)
NatInterchangeable == Permutations({c1, c2})
=============================================================================
