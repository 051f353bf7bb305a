---------------------------- MODULE Attribution ----------------------------
(***************************************************************************)
(* Whose packet is it?  Every host sends to sessionProxy's one socket      *)
(* (lobby/main.go), and relayBackendInitiated must find the client each    *)
(* packet is meant for: by the conn-ID in its wrapper, else by the client  *)
(* that last used the discovery port, else by taking any session.          *)
(*                                                                         *)
(* sessionProxy.run is one goroutine; pc is where it is with a packet of a *)
(* host.  Departures, podLister and the discovery loop run between its     *)
(* steps.  Selection and admission are Matchmaking's subject: here a join  *)
(* is one step.                                                            *)
(***************************************************************************)
EXTENDS Integers, FiniteSets

CONSTANTS
    Hosts,     \* hostCandidates
    Clients,   \* real clients, each behind an IP of its own
    ConnIds,   \* bound: conn-IDs a host hands out, one per connection it accepts
    Nil

ASSUME ApartFromNil == Nil \notin Hosts \cup Clients \cup ConnIds
ASSUME HostsAreNotClients == Hosts \cap Clients = {}

\* Whoever may send to the session port: the keys of the session table.
Senders == Clients \cup Hosts

VARIABLES
    phase,    \* of each host: "new", "listed" (in hostPool.hosts), "gone"
    tracker,  \* clientTracker.addr: the client last seen on the discovery port
    sess,     \* sessionProxy.sessions: the host of each sender's session
    connID,   \* session.connID, Nil until known
    owner,    \* per host, whose connection each conn-ID stands for (known to the host only)
    pc,       \* where the session loop is with a packet of a host
    pkt,      \* ... the packet: the host it came from, the conn-ID in its wrapper
    recent,   \* ... what tracker.get returned
    cur       \* ... the sender whose session it is attributed to

tableVars == <<sess, connID>>
loopVars  == <<pc, pkt, recent, cur>>
vars == <<phase, tracker, tableVars, owner, loopVars>>

Packets == [host : Hosts \cup {Nil}, id : ConnIds \cup {Nil}]
NoPacket == [host |-> Nil, id |-> Nil]

AttributionTypeOK ==
    /\ phase \in [Hosts -> {"new", "listed", "gone"}]
    /\ tracker \in Clients \cup {Nil} /\ recent \in Clients \cup {Nil}
    /\ sess \in [Senders -> Hosts \cup {Nil}]
    /\ connID \in [Senders -> ConnIds \cup {Nil}]
    /\ \A a \in Senders : sess[a] = Nil => connID[a] = Nil
    /\ owner \in [Hosts -> [ConnIds -> Clients \cup {Nil}]]
    /\ pc \in {"idle", "byConnID", "tracker", "byIP", "any", "found"}
    /\ pkt \in Packets
    /\ cur \in Senders \cup {Nil}
    /\ pc = "idle" <=> pkt = NoPacket
    /\ pc = "found" <=> cur # Nil

Idle == pc' = "idle" /\ pkt' = NoPacket /\ recent' = Nil /\ cur' = Nil

Init ==
    /\ phase = [h \in Hosts |-> "new"]
    /\ tracker = Nil
    /\ sess = [a \in Senders |-> Nil] /\ connID = [a \in Senders |-> Nil]
    /\ owner = [h \in Hosts |-> [i \in ConnIds |-> Nil]]
    /\ pc = "idle" /\ pkt = NoPacket /\ recent = Nil /\ cur = Nil

-----------------------------------------------------------------------------
(* Clients                                                                  *)

\* clientTracker.set, on every packet of a client to the discovery port.
TrackerSet(c) ==
    /\ tracker' = c
    /\ UNCHANGED <<phase, tableVars, owner, loopVars>>

\* forwardToBackend: a sender without a session gets one, on a host with a seat.
Admit(a, h) ==
    /\ pc = "idle" /\ sess[a] = Nil
    /\ phase[h] = "listed" /\ Cardinality({b \in Senders : sess[b] = h}) < 2
    /\ sess' = [sess EXCEPT ![a] = h]
    /\ UNCHANGED <<phase, tracker, connID, owner, loopVars>>

\* A host has met a client, and may send to the proxy, once it accepted a connection.
HasMet(h, c) == \E i \in ConnIds : owner[h][i] = c
HasMetSomebody(h) == \E c \in Clients : HasMet(h, c)

\* External: the host accepts the connection of a client whose packets reach it, and
\* numbers it with its own counter.
HostAccepts(h, c) ==
    /\ sess[c] = h
    /\ \E i \in ConnIds : owner[h][i] = Nil /\ owner' = [owner EXCEPT ![h][i] = c]
    /\ UNCHANGED <<phase, tracker, tableVars, loopVars>>

\* run, for a packet of a pod that is no longer (or not yet) in the pool:
\* hostForBackendIP does not know it, and it is handled like a client's.
StrayPacket(h, g) ==
    /\ phase[h] # "listed" /\ HasMetSomebody(h)
    /\ Admit(h, g)

-----------------------------------------------------------------------------
(* relayBackendInitiated                                                    *)

\* run, for a packet of a host in the pool: wrapped with the conn-ID of a connection
\* it has accepted, or not wrapped (Nil).  It may be for a client that has left.
HostPacket(h, i) ==
    /\ pc = "idle" /\ phase[h] = "listed" /\ HasMetSomebody(h)
    /\ i # Nil => owner[h][i] # Nil
    /\ pkt' = [host |-> h, id |-> i]
    /\ pc' = IF i = Nil THEN "tracker" ELSE "byConnID"
    /\ UNCHANGED <<phase, tracker, tableVars, owner, recent, cur>>

SessionsOf(h) == {a \in Senders : sess[a] = h}

\* One of the sessions in S, or on with the next way of finding one.
Take(S, next) ==
    /\ IF S = {} THEN pc' = next /\ UNCHANGED cur
                 ELSE pc' = "found" /\ \E a \in S : cur' = a
    /\ UNCHANGED <<phase, tracker, tableVars, owner, pkt, recent>>

\* Sabotaged: conn-IDs are ignored, as before they were learned.
SkipConnID == pc = "byConnID" /\ Take({}, "tracker")

\* sessionClientAddrForConnID.
ByConnID == /\ pc = "byConnID"
            /\ Take({a \in SessionsOf(pkt.host) : connID[a] = pkt.id}, "tracker")

ReadTracker ==
    /\ pc = "tracker" /\ pc' = "byIP" /\ recent' = tracker
    /\ UNCHANGED <<phase, tracker, tableVars, owner, pkt, cur>>

\* Sabotaged: the search is not limited to the sessions of the packet's host.
ByIPAnywhere == pc = "byIP" /\ Take({a \in Senders : sess[a] # Nil /\ a = recent}, "any")

\* sessionClientAddrForIP.
ByIP == pc = "byIP" /\ Take(SessionsOf(pkt.host) \cap {recent}, "any")

\* anySessionClientAddr.  Without a session of this host the packet goes to the
\* tracker's raw address, a discovery port: no session there either.
AnySession ==
    /\ pc = "any"
    /\ IF SessionsOf(pkt.host) = {}
       THEN Idle /\ UNCHANGED <<phase, tracker, tableVars, owner>>
       ELSE Take(SessionsOf(pkt.host), "any")

\* The session at that address, if it is still there, learns the conn-ID of the first
\* wrapped packet (and is welcomed); the packet is sent.
Relay ==
    /\ pc = "found" /\ Idle
    /\ connID' = [connID EXCEPT ![cur] =
                    IF @ = Nil /\ sess[cur] # Nil THEN pkt.id ELSE @]
    /\ UNCHANGED <<phase, tracker, sess, owner>>

-----------------------------------------------------------------------------
(* Departures and pods                                                      *)

\* Sabotaged: a session's conn-ID is left to the next one of its client.
Forget(gone) == /\ sess' = [a \in Senders |-> IF a \in gone THEN Nil ELSE sess[a]]
                /\ UNCHANGED connID

\* Sessions are deleted with what they have learned.
Close(gone) ==
    /\ sess' = [a \in Senders |-> IF a \in gone THEN Nil ELSE sess[a]]
    /\ connID' = [a \in Senders |-> IF a \in gone THEN Nil ELSE connID[a]]

\* The reaper, a resign timer or the lonely kick.
CloseSession(a) ==
    /\ sess[a] # Nil /\ Close({a})
    /\ UNCHANGED <<phase, tracker, owner, loopVars>>

AddHost(h) ==
    /\ phase[h] = "new" /\ phase' = [phase EXCEPT ![h] = "listed"]
    /\ UNCHANGED <<tracker, tableVars, owner, loopVars>>

RemoveHost(h) ==
    /\ phase[h] = "listed" /\ phase' = [phase EXCEPT ![h] = "gone"]
    /\ Close(SessionsOf(h))
    /\ UNCHANGED <<tracker, owner, loopVars>>

-----------------------------------------------------------------------------
SessionLoop ==
    \/ \E c \in Clients, h \in Hosts : Admit(c, h)
    \/ \E h, g \in Hosts : StrayPacket(h, g)
    \/ \E h \in Hosts, i \in ConnIds \cup {Nil} : HostPacket(h, i)
    \/ ByConnID \/ ReadTracker \/ ByIP \/ AnySession \/ Relay

Next ==
    \/ SessionLoop
    \/ \E c \in Clients : TrackerSet(c) \/ \E h \in Hosts : HostAccepts(h, c)
    \/ \E a \in Senders : CloseSession(a)
    \/ \E h \in Hosts : AddHost(h) \/ RemoveHost(h)

Spec == Init /\ [][Next]_vars

-----------------------------------------------------------------------------
(* Properties                                                               *)

\* What a host sends is only ever attributed to sessions on that host, although the
\* session may go, or the tracker move on, while it is being attributed (the N-host
\* isolation of relayBackendInitiated).
AttributedToTheirHost ==
    pc = "found" => sess[cur] \in {pkt.host, Nil}

\* A conn-ID identifies one session of its host: two sessions never learn the same one,
\* although it may be learned by a guess.
ConnIdsAreApart ==
    \A a, b \in Senders :
       sess[a] # Nil /\ sess[a] = sess[b] /\ connID[a] # Nil /\ connID[a] = connID[b] => a = b

\* A wrapped packet goes to the session that has learned its conn-ID, whoever pinged
\* the discovery port meanwhile (the 2026-08-12 fix: the backend's packets for one
\* client landed on another).
LearnedIdDecides ==
    \A a \in Senders :
       pc = "found" /\ sess[a] = pkt.host /\ connID[a] # Nil /\ connID[a] = pkt.id => cur = a

\* session.connID is "the backend's own wrapper conn-ID for this specific client
\* relationship", learned when "sess is already known for certain".
ConnIdIsTheirs ==
    \A c \in Clients :
       sess[c] # Nil /\ connID[c] # Nil => owner[sess[c]][connID[c]] = c
=============================================================================
