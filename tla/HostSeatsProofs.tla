-------------------------- MODULE HostSeatsProofs --------------------------
(***************************************************************************)
(* What the contract of HostSeats is worth: whoever keeps it (Matchmaking, *)
(* the composition with the lonely-player sweep, PairMatch) never has more *)
(* clients on a host than it has seats, or a client on two hosts.          *)
(***************************************************************************)
EXTENDS HostSeats, FiniteSetTheorems, TLAPS

\* At most Capacity clients at a host, each of them at no other.
SeatsInv ==
    /\ seats \in [Hosts -> SUBSET Clients] /\ matched \in [Hosts -> BOOLEAN]
    /\ \A h \in Hosts : Cardinality(seats[h]) <= Capacity
    /\ \A g, h \in Hosts : g # h => seats[g] \cap seats[h] = {}

\* With finitely many clients a host that loses some of its clients has no more than
\* before.
LEMMA FewerSeats ==
    ASSUME IsFiniteSet(Clients), NEW T \in SUBSET Clients, NEW S \in SUBSET T
    PROVE  /\ Cardinality(S) \in Nat /\ Cardinality(T) \in Nat
           /\ Cardinality(S) <= Cardinality(T)
<1>1. IsFiniteSet(T)
  BY FS_Subset
<1>. QED
  BY <1>1, FS_Subset, FS_CardinalityType

LEMMA SeatsStep ==
    ASSUME IsFiniteSet(Clients), Capacity \in Nat, SeatsInv, [Next]_seatVars
    PROVE  SeatsInv'
<1>1. ASSUME NEW c \in Clients, NEW h \in Hosts, Join(c, h) PROVE SeatsInv'
  <2>1. /\ seats'[h] = seats[h] \cup {c} /\ c \notin seats[h]
        /\ \A g \in Hosts \ {h} : seats'[g] = seats[g] /\ c \notin seats[g]
        /\ seats' \in [Hosts -> SUBSET Clients] /\ matched' = matched
    BY <1>1 DEF Join, SeatsInv
  <2>2. Cardinality(seats'[h]) <= Capacity
    <3>1. IsFiniteSet(seats[h])
      BY FS_Subset DEF SeatsInv
    <3>2. Cardinality(seats[h]) \in Nat /\ Cardinality(seats'[h]) = Cardinality(seats[h]) + 1
      BY <2>1, <3>1, FS_AddElement, FS_CardinalityType
    <3>. QED
      BY <1>1, <3>2 DEF Join
  <2>. QED
    BY <2>1, <2>2 DEF SeatsInv
<1>2. ASSUME NEW h \in Hosts, Match(h) PROVE SeatsInv'
  BY <1>2 DEF Match, SeatsInv
<1>3. CASE Vacate
  <2>1. \A h \in Hosts : Cardinality(seats'[h]) <= Capacity
    <3>. SUFFICES ASSUME NEW h \in Hosts PROVE Cardinality(seats'[h]) <= Capacity
      OBVIOUS
    <3>1. seats[h] \in SUBSET Clients /\ seats'[h] \in SUBSET seats[h]
      BY <1>3 DEF Vacate, SeatsInv
    <3>. QED
      BY <3>1, FewerSeats DEF SeatsInv
  <2>2. \A g, h \in Hosts : g # h => seats'[g] \cap seats'[h] = {}
    BY <1>3 DEF Vacate, SeatsInv
  <2>. QED
    BY <1>3, <2>1, <2>2 DEF Vacate, SeatsInv
<1>4. CASE UNCHANGED seatVars
  BY <1>4 DEF seatVars, SeatsInv
<1>. QED
  BY <1>1, <1>2, <1>3, <1>4 DEF Next

\* The contract bounds every host by its seats and keeps every client on one host, for
\* any finite set of clients, any number of hosts and of seats.
THEOREM SeatsAreNotShared ==
    ASSUME IsFiniteSet(Clients), Capacity \in Nat
    PROVE  Spec => []SeatsInv
<1>1. Init => SeatsInv
  BY FS_EmptySet DEF Init, SeatsInv
<1>2. SeatsInv /\ [Next]_seatVars => SeatsInv'
  BY SeatsStep
<1>. QED
  BY <1>1, <1>2, PTL DEF Spec

\* A match, as long as it lasts, admits nobody: its host only loses clients.
THEOREM MatchedHostsAreClosed ==
    Spec => [][\A h \in Hosts : matched[h] => seats'[h] \subseteq seats[h]]_seatVars
<1>1. seats \in [Hosts -> SUBSET Clients] /\ [Next]_seatVars =>
         [\A h \in Hosts : matched[h] => seats'[h] \subseteq seats[h]]_seatVars
  BY DEF Next, Join, Match, Vacate, seatVars
<1>2. Spec => [](seats \in [Hosts -> SUBSET Clients])
  <2>1. Init => seats \in [Hosts -> SUBSET Clients]
    BY DEF Init
  <2>2. seats \in [Hosts -> SUBSET Clients] /\ [Next]_seatVars =>
           (seats \in [Hosts -> SUBSET Clients])'
    BY DEF Next, Join, Match, Vacate, seatVars
  <2>. QED
    BY <2>1, <2>2, PTL DEF Spec
<1>. QED
  BY <1>1, <1>2, PTL DEF Spec
=============================================================================
