----------------------------- MODULE HostSeats -----------------------------
(***************************************************************************)
(* What matchmaking promises about a host's seats, whatever the tiers, the *)
(* cushion and the locking do: aom-lobby gives a client a seat only if the *)
(* client has none, on a host that still has a free seat and is not        *)
(* matched.  Clients may leave, and hosts be closed, at any moment.        *)
(***************************************************************************)
EXTENDS Integers, FiniteSets

CONSTANTS Hosts, Clients, Capacity

VARIABLES
    seats,   \* the clients seated at each host
    matched  \* whether the host's two clients have been paired

seatVars == <<seats, matched>>

Init == /\ seats = [h \in Hosts |-> {}]
        /\ matched = [h \in Hosts |-> FALSE]

Join(c, h) ==
    /\ \A g \in Hosts : c \notin seats[g]
    /\ Cardinality(seats[h]) < Capacity
    /\ ~matched[h]
    /\ seats' = [seats EXCEPT ![h] = @ \cup {c}]
    /\ UNCHANGED matched

Match(h) ==
    /\ ~matched[h]
    /\ matched' = [matched EXCEPT ![h] = TRUE]
    /\ UNCHANGED seats

\* Clients leave and pairings end, in any number: nobody gains a seat by it, and no
\* host a match.
Vacate ==
    /\ seats' \in [Hosts -> SUBSET Clients] /\ matched' \in [Hosts -> BOOLEAN]
    /\ \A h \in Hosts : seats'[h] \subseteq seats[h] /\ (matched'[h] => matched[h])

Next == \/ \E c \in Clients, h \in Hosts : Join(c, h)
        \/ \E h \in Hosts : Match(h)
        \/ Vacate

Spec == Init /\ [][Next]_seatVars
=============================================================================
