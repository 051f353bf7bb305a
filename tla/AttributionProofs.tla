------------------------- MODULE AttributionProofs -------------------------
(***************************************************************************)
(* Proofs about Attribution.  The argument: only the session loop inserts  *)
(* sessions and learns conn-IDs, so between the lookup by conn-ID and the  *)
(* learning of one no session can come to know it; departures only forget. *)
(***************************************************************************)
EXTENDS Attribution, TLAPS

\* Past the lookup by conn-ID, no session of the host has learned the packet's.
Unlearned ==
    pc \in {"tracker", "byIP", "any"} =>
       \A a \in Senders : sess[a] = pkt.host /\ connID[a] # Nil => connID[a] # pkt.id

\* The inductive invariant.
AttributionInv ==
    /\ AttributionTypeOK
    /\ AttributedToTheirHost
    /\ ConnIdsAreApart
    /\ LearnedIdDecides
    /\ Unlearned

LEMMA InvInit == Init => AttributionInv
  BY ApartFromNil DEF Init, AttributionInv, AttributionTypeOK, AttributedToTheirHost,
     ConnIdsAreApart, LearnedIdDecides, Unlearned, Packets, NoPacket, Senders

\* Steps that leave the sessions and the loop alone.
LEMMA ElsewhereKeepsInv ==
  ASSUME AttributionInv, UNCHANGED <<tableVars, loopVars>>,
         phase' \in [Hosts -> {"new", "listed", "gone"}],
         tracker' \in Clients \cup {Nil},
         owner' \in [Hosts -> [ConnIds -> Clients \cup {Nil}]]
  PROVE  AttributionInv'
  BY DEF AttributionInv, AttributionTypeOK, AttributedToTheirHost, ConnIdsAreApart,
     LearnedIdDecides, Unlearned, SessionsOf, tableVars, loopVars

\* Closing sessions only forgets.
LEMMA CloseKeepsInv ==
  ASSUME AttributionInv, NEW gone, Close(gone),
         phase' \in [Hosts -> {"new", "listed", "gone"}],
         UNCHANGED <<tracker, owner, loopVars>>
  PROVE  AttributionInv'
<1>1. /\ sess' \in [Senders -> Hosts \cup {Nil}]
      /\ connID' \in [Senders -> ConnIds \cup {Nil}]
      /\ \A a \in Senders : /\ sess'[a] \in {sess[a], Nil}
                            /\ connID'[a] \in {connID[a], Nil}
                            /\ sess'[a] = Nil => connID'[a] = Nil
  BY DEF AttributionInv, AttributionTypeOK, Close
<1>2. AttributionTypeOK'
  BY <1>1 DEF AttributionInv, AttributionTypeOK, loopVars
<1>3. AttributedToTheirHost'
  BY <1>1 DEF AttributionInv, AttributionTypeOK, AttributedToTheirHost, loopVars
<1>4. ConnIdsAreApart' /\ LearnedIdDecides' /\ Unlearned'
  BY <1>1 DEF AttributionInv, AttributionTypeOK, ConnIdsAreApart, LearnedIdDecides,
     Unlearned, loopVars
<1>5. QED BY <1>2, <1>3, <1>4 DEF AttributionInv

\* A session is admitted when the loop is between packets.
LEMMA AdmitKeepsInv ==
  ASSUME AttributionInv, NEW a \in Senders, NEW h \in Hosts, Admit(a, h)
  PROVE  AttributionInv'
<1>1. /\ sess' \in [Senders -> Hosts \cup {Nil}] /\ connID' = connID /\ pc' = "idle"
      /\ connID[a] = Nil /\ \A b \in Senders \ {a} : sess'[b] = sess[b]
      /\ sess'[a] # Nil
  BY ApartFromNil DEF AttributionInv, AttributionTypeOK, Admit, loopVars
<1>2. AttributionTypeOK'
  BY <1>1 DEF AttributionInv, AttributionTypeOK, Admit, loopVars
<1>3. ConnIdsAreApart'
  BY <1>1 DEF AttributionInv, ConnIdsAreApart
<1>4. AttributedToTheirHost' /\ LearnedIdDecides' /\ Unlearned'
  BY <1>1 DEF AttributedToTheirHost, LearnedIdDecides, Unlearned
<1>5. QED BY <1>2, <1>3, <1>4 DEF AttributionInv

\* Where Take may go: on without a session, or to one in S.
LEMMA TakeKeepsInv ==
  ASSUME AttributionInv, NEW S \in SUBSET SessionsOf(pkt.host), NEW next,
         next \in {"tracker", "byIP", "any"}, Take(S, next),
         pc # "idle", pc # "found",
         Unlearned /\ (pc = "byConnID" =>
            S = {a \in SessionsOf(pkt.host) : connID[a] = pkt.id})
  PROVE  AttributionInv'
<1>1. CASE S = {}
  <2>1. pc' = next /\ UNCHANGED <<cur, tableVars, pkt, recent, phase, tracker, owner>>
    BY <1>1 DEF Take
  <2>2. AttributionTypeOK'
    BY <2>1 DEF AttributionInv, AttributionTypeOK, tableVars
  <2>3. Unlearned'
    BY <1>1, <2>1 DEF AttributionInv, AttributionTypeOK, Unlearned, SessionsOf, tableVars
  <2>4. AttributedToTheirHost' /\ LearnedIdDecides' /\ ConnIdsAreApart'
    BY <2>1 DEF AttributionInv, AttributedToTheirHost, LearnedIdDecides, ConnIdsAreApart,
       tableVars
  <2>5. QED BY <2>2, <2>3, <2>4 DEF AttributionInv
<1>2. CASE S # {}
  <2>1. /\ pc' = "found" /\ UNCHANGED <<tableVars, pkt, recent, phase, tracker, owner>>
        /\ cur' \in S /\ cur' \in Senders /\ sess[cur'] = pkt.host
    BY <1>2 DEF Take, SessionsOf
  <2>2. AttributionTypeOK'
    <3>1. cur' # Nil BY <2>1, ApartFromNil DEF Senders
    <3>2. QED BY <2>1, <3>1 DEF AttributionInv, AttributionTypeOK, tableVars
  <2>3. AttributedToTheirHost' /\ Unlearned' /\ ConnIdsAreApart'
    BY <2>1 DEF AttributionInv, AttributedToTheirHost, Unlearned, ConnIdsAreApart, tableVars
  <2>4. LearnedIdDecides'
    <3>1. SUFFICES ASSUME NEW a \in Senders, sess[a] = pkt.host, connID[a] # Nil,
                          connID[a] = pkt.id
                   PROVE  cur' = a
      BY <2>1 DEF LearnedIdDecides, tableVars
    <3>2. pc = "byConnID"
      BY <3>1 DEF AttributionInv, AttributionTypeOK, Unlearned
    <3>3. connID[cur'] = pkt.id /\ sess[a] # Nil
      BY <2>1, <3>1, <3>2 DEF AttributionInv, AttributionTypeOK
    <3>4. QED BY <2>1, <3>1, <3>3 DEF AttributionInv, ConnIdsAreApart
  <2>5. QED BY <2>2, <2>3, <2>4 DEF AttributionInv
<1>3. QED BY <1>1, <1>2

\* The packet is sent, and its conn-ID learned.
LEMMA RelayKeepsInv ==
  ASSUME AttributionInv, Relay
  PROVE  AttributionInv'
<1>1. cur \in Senders /\ sess[cur] \in {pkt.host, Nil} /\ pkt.id \in ConnIds \cup {Nil}
  BY DEF AttributionInv, AttributionTypeOK, AttributedToTheirHost, Relay, Packets
<1>2. /\ sess' = sess /\ pc' = "idle" /\ connID' \in [Senders -> ConnIds \cup {Nil}]
      /\ \A b \in Senders \ {cur} : connID'[b] = connID[b]
      /\ connID'[cur] = IF connID[cur] = Nil /\ sess[cur] # Nil THEN pkt.id ELSE connID[cur]
  BY <1>1 DEF AttributionInv, AttributionTypeOK, Relay, Idle
<1>3. AttributionTypeOK'
  BY <1>1, <1>2, ApartFromNil
     DEF AttributionInv, AttributionTypeOK, Relay, Idle, Packets, NoPacket
<1>4. ConnIdsAreApart'
  <2>1. SUFFICES ASSUME NEW b \in Senders \ {cur}, sess[cur] # Nil, sess[b] = sess[cur],
                        connID'[cur] # Nil, connID[b] = connID'[cur]
                 PROVE  FALSE
    BY <1>1, <1>2 DEF AttributionInv, ConnIdsAreApart
  <2>2. connID[cur] = Nil /\ connID[b] = pkt.id
    BY <1>1, <1>2, <2>1 DEF AttributionInv, ConnIdsAreApart
  <2>3. QED BY <1>1, <1>2, <2>1, <2>2 DEF AttributionInv, LearnedIdDecides, Relay
<1>5. AttributedToTheirHost' /\ LearnedIdDecides' /\ Unlearned'
  BY <1>2 DEF AttributedToTheirHost, LearnedIdDecides, Unlearned
<1>6. QED BY <1>3, <1>4, <1>5 DEF AttributionInv

LEMMA InvNext == AttributionInv /\ [Next]_vars => AttributionInv'
<1> SUFFICES ASSUME AttributionInv, [Next]_vars PROVE AttributionInv'
  OBVIOUS
<1> USE DEF AttributionInv
<1>1. ASSUME NEW c \in Clients, NEW h \in Hosts, Admit(c, h) PROVE AttributionInv'
  BY <1>1, AdmitKeepsInv DEF Senders
<1>2. ASSUME NEW h \in Hosts, NEW g \in Hosts, StrayPacket(h, g) PROVE AttributionInv'
  BY <1>2, AdmitKeepsInv DEF StrayPacket, Senders
<1>3. ASSUME NEW h \in Hosts, NEW i \in ConnIds \cup {Nil}, HostPacket(h, i)
      PROVE AttributionInv'
  <2>1. AttributionTypeOK'
    BY <1>3, ApartFromNil DEF HostPacket, AttributionTypeOK, tableVars, Packets, NoPacket
  <2>2. AttributedToTheirHost' /\ LearnedIdDecides' /\ ConnIdsAreApart'
    BY <1>3 DEF HostPacket, AttributionTypeOK, AttributedToTheirHost, LearnedIdDecides,
       ConnIdsAreApart, tableVars
  <2>3. Unlearned'
    BY <1>3 DEF HostPacket, Unlearned, tableVars
  <2>4. QED BY <2>1, <2>2, <2>3
<1>4. CASE ByConnID
  BY <1>4, TakeKeepsInv DEF ByConnID, Unlearned
<1>5. CASE ReadTracker
  BY <1>5 DEF ReadTracker, AttributionTypeOK, AttributedToTheirHost, LearnedIdDecides,
     ConnIdsAreApart, Unlearned, tableVars
<1>6. CASE ByIP
  BY <1>6, TakeKeepsInv DEF ByIP
<1>7. CASE AnySession
  <2>1. CASE SessionsOf(pkt.host) = {}
    BY <1>7, <2>1, ApartFromNil DEF AnySession, Idle, AttributionTypeOK,
       AttributedToTheirHost, LearnedIdDecides, ConnIdsAreApart, Unlearned, tableVars,
       Packets, NoPacket
  <2>2. CASE SessionsOf(pkt.host) # {}
    BY <1>7, <2>2, TakeKeepsInv DEF AnySession
  <2>3. QED BY <2>1, <2>2
<1>8. CASE Relay
  BY <1>8, RelayKeepsInv
<1>9. ASSUME NEW c \in Clients, TrackerSet(c) PROVE AttributionInv'
  BY <1>9, ElsewhereKeepsInv DEF TrackerSet, AttributionTypeOK
<1>10. ASSUME NEW c \in Clients, NEW h \in Hosts, HostAccepts(h, c) PROVE AttributionInv'
  BY <1>10, ElsewhereKeepsInv DEF HostAccepts, AttributionTypeOK
<1>11. ASSUME NEW a \in Senders, CloseSession(a) PROVE AttributionInv'
  BY <1>11, CloseKeepsInv DEF CloseSession, AttributionTypeOK
<1>12. ASSUME NEW h \in Hosts, AddHost(h) PROVE AttributionInv'
  BY <1>12, ElsewhereKeepsInv DEF AddHost, AttributionTypeOK
<1>13. ASSUME NEW h \in Hosts, RemoveHost(h) PROVE AttributionInv'
  BY <1>13, CloseKeepsInv DEF RemoveHost, AttributionTypeOK
<1>14. CASE UNCHANGED vars
  BY <1>14, ElsewhereKeepsInv DEF vars, tableVars, loopVars, AttributionTypeOK
<1>15. QED
  BY <1>1, <1>2, <1>3, <1>4, <1>5, <1>6, <1>7, <1>8, <1>9, <1>10, <1>11, <1>12, <1>13,
     <1>14 DEF Next, SessionLoop

\* The inductive invariant holds throughout.
THEOREM AlwaysAttributionInv == Spec => []AttributionInv
  BY InvInit, InvNext, PTL DEF Spec

\* Every variable of the session loop keeps its type.
THEOREM AttributionTyping == Spec => []AttributionTypeOK
<1>1. AttributionInv => AttributionTypeOK BY DEF AttributionInv
<1>2. QED BY <1>1, AlwaysAttributionInv, PTL

\* No host's packet is attributed to a session on another host, for any number of hosts.
THEOREM HostsAreIsolated == Spec => []AttributedToTheirHost
<1>1. AttributionInv => AttributedToTheirHost BY DEF AttributionInv
<1>2. QED BY <1>1, AlwaysAttributionInv, PTL

\* Two sessions on a host never learn the same conn-ID, whatever was guessed before.
THEOREM ConnIdsStayApart == Spec => []ConnIdsAreApart
<1>1. AttributionInv => ConnIdsAreApart BY DEF AttributionInv
<1>2. QED BY <1>1, AlwaysAttributionInv, PTL

\* A learned conn-ID decides the attribution, whatever the tracker says.
THEOREM LearnedIdsDecide == Spec => []LearnedIdDecides
<1>1. AttributionInv => LearnedIdDecides BY DEF AttributionInv
<1>2. QED BY <1>1, AlwaysAttributionInv, PTL
=============================================================================
