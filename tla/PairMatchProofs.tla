-------------------------- MODULE PairMatchProofs --------------------------
(***************************************************************************)
(* Proofs about PairMatch, for every set of clients.                       *)
(*                                                                         *)
(* The argument.  ensurePairRelay returns an existing relay unexamined.    *)
(* That it is the right one follows from who can be on the host: a relay   *)
(* keeps newcomers out, so whoever has a session while there is a relay is *)
(* one of its endpoints; and while the loop looks for a peer and for the   *)
(* relay nobody can join, so the client it serves and the one it found are *)
(* the only ones who may still be there.  That also keeps a pair together: *)
(* with both of its clients there, everybody else who is still in some     *)
(* timer, callback or kick is neither on the host nor on the relay.        *)
(***************************************************************************)
EXTENDS PairMatch, FiniteSetTheorems, TLAPS

-----------------------------------------------------------------------------
(* The inductive invariant                                                  *)

AtMostTwo(S) == \E x, y : S \subseteq {x, y}

\* Who can be on the host, and what the loop may rely on in each of its steps.
Company ==
    /\ AtMostTwo(Seated)
    /\ pair # {} => Seated \subseteq pair
    /\ pc # "idle" => cur \in Clients
    /\ pc = "broadcast" => AtMostTwo(Seated \cup {cur}) /\ (pair # {} => cur \in pair)
    /\ pc = "matched" => /\ other \in Clients /\ other # cur
                         /\ Seated \subseteq {cur, other}
                         /\ pair # {} => pair = {cur, other}

PairInv == PairTypeOK /\ Company

-----------------------------------------------------------------------------
(* Lemmas                                                                   *)

\* A client joins a host that has at most one other.
LEMMA RoomForOne ==
    ASSUME NEW a \in Clients, Cardinality(Seated) < MaxRealClientsPerHost
    PROVE  AtMostTwo(Seated \cup {a})
<1>1. Seated \subseteq Clients /\ IsFiniteSet(Seated)
  BY ClientsType, FS_Subset DEF Seated
<1>2. Cardinality(Seated) \in Nat
  BY <1>1, FS_CardinalityType
<1>3. CASE Cardinality(Seated) = 0
  <2>1. Seated = {}
    BY <1>1, <1>3, FS_EmptySet
  <2>. QED
    BY <2>1 DEF AtMostTwo
<1>4. CASE Cardinality(Seated) = 1
  <2>1. PICK x : Seated = {x}
    BY <1>1, <1>4, FS_Singleton
  <2>. QED
    BY <1>1, <2>1 DEF AtMostTwo
<1>. QED
  BY <1>2, <1>3, <1>4 DEF MaxRealClientsPerHost

\* Departures: steps that leave the loop alone, and may only delete sessions and close
\* the relay.
LEMMA CompanyFrame ==
    ASSUME Company, UNCHANGED loopVars,
           Seated' \subseteq Seated, pair' \in {pair, {}}
    PROVE  Company'
<1>1. \A S, T : S \subseteq T /\ AtMostTwo(T) => AtMostTwo(S)
  BY DEF AtMostTwo
<1>2. AtMostTwo(Seated)' <=> AtMostTwo(Seated')
  BY DEF AtMostTwo
<1>3. AtMostTwo(Seated \cup {cur})' <=> AtMostTwo(Seated' \cup {cur})
  BY DEF AtMostTwo, loopVars
<1>4. pc = "broadcast" => AtMostTwo(Seated' \cup {cur})
  <2>1. Seated' \cup {cur} \subseteq Seated \cup {cur}
    OBVIOUS
  <2>. QED
    BY <1>1, <2>1 DEF Company
<1>5. AtMostTwo(Seated')
  BY <1>1 DEF Company
<1>. QED
  BY <1>2, <1>3, <1>4, <1>5 DEF Company, loopVars

\* onClientGone closes the relay or leaves it as it is.
LEMMA GoneRelay ==
    ASSUME PairTypeOK, NEW a \in Clients, OnClientGone(a)
    PROVE  /\ pair' \in {pair, {}} /\ pair' \in Relays
           /\ notified' \subseteq pair' /\ relayIdle' \subseteq pair'
           /\ relayResigning' \subseteq pair'
           /\ ready' \in [Clients -> {"absent", "yes", "no"}]
BY DEF PairTypeOK, OnClientGone, CloseRelay, relayVars, Relays

\* Deleting sessions adds none.
LEMMA DropLeaves ==
    ASSUME PairTypeOK, NEW gone \in SUBSET Clients, Drop(gone)
    PROVE  /\ sess' \in [Clients -> {"none", "open", "landed"}]
           /\ Seated' \subseteq Seated
           /\ resigning' \subseteq Clients /\ hostIdle' \subseteq Clients
           /\ leaving' \subseteq Clients
BY DEF PairTypeOK, Drop, Seated

\* Two of the at most two clients on the host are all of them.
LEMMA OnlyTheTwo ==
    ASSUME NEW S, NEW a, NEW b, a \in S, b \in S, a # b, AtMostTwo(S)
    PROVE  S = {a, b}
BY DEF AtMostTwo

\* A relay that serves two different clients serves nobody else.
LEMMA RelayOfTwo ==
    ASSUME NEW r \in Relays, NEW a \in r, NEW b \in r, a # b
    PROVE  r = {a, b}
BY DEF Relays

-----------------------------------------------------------------------------
(* Type correctness                                                         *)

LEMMA PairTypeStep == PairInv /\ [Next]_vars => PairTypeOK'
<1>. SUFFICES ASSUME PairInv, [Next]_vars PROVE PairTypeOK'
  OBVIOUS
<1>0. PairTypeOK /\ Company
  BY DEF PairInv
<1>. USE DEF sessVars, relayVars, readyVars, waitVars, loopVars
<1>1. ASSUME NEW a \in Clients, Join(a) \/ LookUp(a) \/ HostPacket(a) PROVE PairTypeOK'
  <2>1. sess' \in [Clients -> {"none", "open", "landed"}]
    BY <1>0, <1>1 DEF Join, LookUp, HostPacket, PairTypeOK
  <2>. QED
    BY <1>0, <1>1, <2>1 DEF Join, LookUp, HostPacket, PairTypeOK, Idle, At
<1>2. CASE PlainPacket \/ ResignPacket
  BY <1>0, <1>2 DEF PlainPacket, ResignPacket, PairTypeOK, Company, Idle
<1>3. ASSUME NEW r \in {"yes", "no"}, ReadyPacket(r) PROVE PairTypeOK'
  <2>1. ready' \in [Clients -> {"absent", "yes", "no"}] /\ started' \in BOOLEAN
    BY <1>0, <1>3 DEF ReadyPacket, PairTypeOK, BothReady
  <2>. QED
    BY <1>0, <1>3, <2>1 DEF ReadyPacket, PairTypeOK, Idle
<1>4. CASE FindOther
  BY <1>0, <1>4 DEF FindOther, PairTypeOK, Idle, Seated
<1>5. CASE EnsurePairRelay
  <2>1. cur \in Clients /\ other \in Clients /\ other # cur
    BY <1>0, <1>5 DEF EnsurePairRelay, Company
  <2>2. {cur, other} \in Relays
    BY <2>1 DEF Relays
  <2>3. /\ pair' \in Relays /\ notified' \subseteq pair'
        /\ relayIdle' \subseteq pair' /\ relayResigning' \subseteq pair'
    BY <1>0, <1>5, <2>2 DEF EnsurePairRelay, PairTypeOK, Company
  <2>. QED
    BY <1>0, <1>5, <2>3 DEF EnsurePairRelay, PairTypeOK, Idle
<1>6. ASSUME NEW a \in Clients, RelayPacket(a) \/ RelayResign(a) \/ RelaySilence(a)
      PROVE  PairTypeOK'
  BY <1>0, <1>6 DEF RelayPacket, RelayResign, RelaySilence, PairTypeOK
<1>7. ASSUME NEW a \in Clients, HostSilence(a) PROVE PairTypeOK'
  BY <1>0, <1>7 DEF HostSilence, PairTypeOK
<1>8. ASSUME NEW a \in Clients, ResignTimer(a) PROVE PairTypeOK'
  <2>1. OnClientGone(a) /\ Drop({a}) /\ {a} \in SUBSET Clients
    BY <1>8 DEF ResignTimer
  <2>. QED
    BY <1>0, <1>8, <2>1, GoneRelay, DropLeaves DEF ResignTimer, PairTypeOK
<1>9. ASSUME NEW a \in Clients, RelayResignTimer(a) \/ SessionRemoved(a)
      PROVE  PairTypeOK'
  <2>1. OnClientGone(a)
    BY <1>9 DEF RelayResignTimer, SessionRemoved
  <2>. QED
    BY <1>0, <1>9, <2>1, GoneRelay DEF RelayResignTimer, SessionRemoved, PairTypeOK
<1>10. ASSUME NEW a \in Clients, Reap(a) PROVE PairTypeOK'
  <2>1. Drop({a}) /\ {a} \in SUBSET Clients
    BY <1>10 DEF Reap
  <2>. QED
    BY <1>0, <1>10, <2>1, DropLeaves DEF Reap, PairTypeOK
<1>11. CASE RemoveHost
  <2>1. Drop(Clients) /\ Clients \in SUBSET Clients
    BY <1>11 DEF RemoveHost
  <2>. QED
    BY <1>0, <1>11, <2>1, DropLeaves DEF RemoveHost, CloseRelay, PairTypeOK, Relays
<1>12. ASSUME NEW a \in Clients, KickRecheck(a) PROVE PairTypeOK'
  BY <1>0, <1>12 DEF KickRecheck, PairTypeOK
<1>13. CASE KickClose
  <2>1. /\ kicked \in Clients /\ {kicked} \in SUBSET Clients
        /\ OnClientGone(kicked) /\ Drop({kicked})
    BY <1>0, <1>13 DEF KickClose, PairTypeOK
  <2>. QED
    BY <1>0, <1>13, <2>1, GoneRelay, DropLeaves DEF KickClose, PairTypeOK
<1>14. CASE UNCHANGED vars
  BY <1>0, <1>14 DEF vars, PairTypeOK
<1>. QED
  BY <1>1, <1>2, <1>3, <1>4, <1>5, <1>6, <1>7, <1>8, <1>9, <1>10, <1>11, <1>12, <1>13, <1>14
  DEF Next, SessionLoop

-----------------------------------------------------------------------------
(* Who is on the host                                                       *)

LEMMA CompanyStep == PairInv /\ [Next]_vars => Company'
<1>. SUFFICES ASSUME PairInv, [Next]_vars PROVE Company'
  OBVIOUS
<1>0. PairTypeOK /\ Company
  BY DEF PairInv
<1>1. ASSUME NEW a \in Clients, Join(a) PROVE Company'
  <2>1. AtMostTwo(Seated \cup {a})
    BY <1>1, RoomForOne DEF Join
  <2>2. Seated' \subseteq Seated \cup {a}
    BY <1>0, <1>1 DEF Join, Seated, PairTypeOK
  <2>3. AtMostTwo(Seated)'
    BY <2>1, <2>2 DEF AtMostTwo
  <2>. QED
    BY <1>1, <2>3 DEF Join, Company, At, relayVars
<1>2. ASSUME NEW a \in Clients, LookUp(a) PROVE Company'
  <2>1. AtMostTwo(Seated)' /\ Seated' = Seated
    BY <1>0, <1>2 DEF LookUp, Company, AtMostTwo, Seated, sessVars
  <2>. QED
    BY <1>0, <1>2, <2>1 DEF LookUp, Company, At, relayVars
<1>3. ASSUME NEW a \in Clients, HostPacket(a) PROVE Company'
  <2>1. Seated' = Seated /\ a \in Seated
    BY <1>0, <1>3 DEF HostPacket, Seated, PairTypeOK
  <2>2. AtMostTwo(Seated)'
    BY <1>0, <2>1 DEF Company, AtMostTwo
  <2>3. cur' = a => AtMostTwo(Seated \cup {cur})'
    BY <1>0, <2>1 DEF Company, AtMostTwo
  <2>4. pair' = pair /\ pc' \in {"idle", "broadcast"} /\ (pc' = "broadcast" => cur' = a)
    BY <1>3 DEF HostPacket, At, Idle, relayVars
  <2>. QED
    BY <1>0, <2>1, <2>2, <2>3, <2>4 DEF Company
<1>4. ASSUME UNCHANGED <<sess, pair>>, Idle PROVE Company'
  <2>1. AtMostTwo(Seated)' /\ Seated' = Seated
    BY <1>0, <1>4 DEF Company, AtMostTwo, Seated
  <2>. QED
    BY <1>0, <1>4, <2>1 DEF Company, Idle
<1>5. CASE FindOther
  <2>1. ASSUME NEW b \in Seated \ {cur}, other' = b, pc' = "matched", cur' = cur,
               pc = "broadcast", UNCHANGED <<sess, pair>>
        PROVE  Company'
    <3>1. AtMostTwo(Seated)' /\ Seated' = Seated /\ b \in Clients
      BY <1>0, <2>1 DEF Company, AtMostTwo, Seated
    <3>2. Seated \cup {cur} = {cur, b}
      BY <1>0, <2>1, OnlyTheTwo DEF Company
    <3>3. pair # {} => pair = {cur, b}
      BY <1>0, <2>1, RelayOfTwo DEF Company, PairTypeOK
    <3>. QED
      BY <1>0, <2>1, <3>1, <3>2, <3>3 DEF Company
  <2>. QED
    BY <1>4, <1>5, <2>1 DEF FindOther, sessVars, relayVars
<1>6. CASE EnsurePairRelay
  <2>1. AtMostTwo(Seated)' /\ Seated' = Seated
    BY <1>0, <1>6 DEF EnsurePairRelay, Company, AtMostTwo, Seated, sessVars
  <2>2. pair' = {cur, other} /\ Seated \subseteq {cur, other}
    BY <1>0, <1>6 DEF EnsurePairRelay, Company
  <2>. QED
    BY <1>6, <2>1, <2>2 DEF EnsurePairRelay, Company, Idle
<1>7. ASSUME UNCHANGED <<sess, pair, loopVars>> PROVE Company'
  BY <1>0, <1>7, CompanyFrame DEF Seated
<1>8. ASSUME NEW a \in Clients, ResignTimer(a) PROVE Company'
  <2>1. OnClientGone(a) /\ Drop({a}) /\ {a} \in SUBSET Clients /\ UNCHANGED loopVars
    BY <1>8 DEF ResignTimer
  <2>. QED
    BY <1>0, <2>1, GoneRelay, DropLeaves, CompanyFrame
<1>9. ASSUME NEW a \in Clients, RelayResignTimer(a) \/ SessionRemoved(a)
      PROVE  Company'
  <2>1. OnClientGone(a) /\ sess' = sess /\ UNCHANGED loopVars
    BY <1>9 DEF RelayResignTimer, SessionRemoved, sessVars
  <2>2. Seated' \subseteq Seated
    BY <2>1 DEF Seated
  <2>. QED
    BY <1>0, <2>1, <2>2, GoneRelay, CompanyFrame
<1>10. ASSUME NEW a \in Clients, Reap(a) PROVE Company'
  <2>1. Drop({a}) /\ {a} \in SUBSET Clients /\ UNCHANGED loopVars /\ pair' = pair
    BY <1>10 DEF Reap, relayVars
  <2>. QED
    BY <1>0, <2>1, DropLeaves, CompanyFrame
<1>11. CASE RemoveHost
  <2>1. /\ Drop(Clients) /\ Clients \in SUBSET Clients
        /\ UNCHANGED loopVars /\ pair' = {}
    BY <1>11 DEF RemoveHost, CloseRelay
  <2>. QED
    BY <1>0, <2>1, DropLeaves, CompanyFrame
<1>12. ASSUME NEW a \in Clients,
              \/ RelayPacket(a) \/ RelayResign(a) \/ KickRecheck(a)
              \/ RelaySilence(a) \/ HostSilence(a)
       PROVE  Company'
  BY <1>7, <1>12
  DEF RelayPacket, RelayResign, RelaySilence, HostSilence, KickRecheck, sessVars, relayVars
<1>13. CASE PlainPacket \/ ResignPacket \/ \E r \in {"yes", "no"} : ReadyPacket(r)
  BY <1>4, <1>13 DEF PlainPacket, ResignPacket, ReadyPacket, relayVars
<1>14. CASE KickClose
  <2>1. /\ kicked \in Clients /\ {kicked} \in SUBSET Clients
        /\ OnClientGone(kicked) /\ Drop({kicked}) /\ UNCHANGED loopVars
    BY <1>0, <1>14 DEF KickClose, PairTypeOK
  <2>. QED
    BY <1>0, <2>1, GoneRelay, DropLeaves, CompanyFrame
<1>15. CASE UNCHANGED vars
  BY <1>7, <1>15 DEF vars, sessVars, relayVars
<1>. QED
  BY <1>1, <1>2, <1>3, <1>5, <1>6, <1>8, <1>9, <1>10, <1>11, <1>12, <1>13, <1>14, <1>15
  DEF Next, SessionLoop

LEMMA PairInitInv == Init => PairInv
<1>. SUFFICES ASSUME Init PROVE PairInv
  OBVIOUS
<1>1. PairTypeOK
  BY DEF Init, PairTypeOK, Relays
<1>2. Seated = {}
  BY DEF Init, Seated
<1>3. AtMostTwo(Seated)
  BY <1>2 DEF AtMostTwo
<1>. QED
  BY <1>1, <1>3 DEF Init, Company, PairInv

-----------------------------------------------------------------------------
(* The theorems                                                             *)

\* The invariant holds of every reachable state.
THEOREM PairInvariance == Spec => []PairInv
<1>1. PairInv /\ [Next]_vars => PairInv'
  BY PairTypeStep, CompanyStep DEF PairInv
<1>. QED
  BY <1>1, PairInitInv, PTL DEF Spec

\* Every variable keeps its type; in particular a relay always has two endpoints, and
\* its records are about them.
THEOREM PairTypeCorrect == Spec => []PairTypeOK
<1>1. PairInv => PairTypeOK
  BY DEF PairInv
<1>. QED
  BY <1>1, PairInvariance, PTL

\* Whichever relay ensurePairRelay comes upon, it serves the client it is called for and
\* the peer found for that client.
THEOREM PeersShare == Spec => []PeersShareTheirRelay
<1>1. PairInv => PeersShareTheirRelay
  BY DEF PairInv, Company, PeersShareTheirRelay
<1>. QED
  BY <1>1, PairInvariance, PTL

\* onClientGone of somebody who is not in the relay leaves it alone.
LEMMA StrangerGone ==
    ASSUME NEW a, a \notin pair, OnClientGone(a)
    PROVE  pair' = pair
BY DEF OnClientGone, relayVars

\* Deleting the session of a client deletes no other's.
LEMMA DropOnly ==
    ASSUME PairTypeOK, NEW a \in Clients, Drop({a})
    PROVE  Seated' = Seated \ {a}
BY DEF PairTypeOK, Drop, Seated

\* Every step that leaves the host in the pool leaves a settled pair together, or reaps one
\* of it that is silent on both channels.
LEMMA SettledStep ==
    PairInv /\ [Next]_vars =>
        (Settled /\ listed' = listed =>
            /\ pair' = pair /\ Seated' \subseteq pair
            /\ \A a \in pair \ Seated' : a \in hostIdle \cap relayIdle)
<1>. SUFFICES ASSUME PairInv, [Next]_vars, Settled, listed' = listed
              PROVE  /\ pair' = pair /\ Seated' \subseteq pair
                     /\ \A a \in pair \ Seated' : a \in hostIdle \cap relayIdle
  OBVIOUS
<1>. DEFINE Together == /\ pair' = pair /\ Seated' \subseteq pair
                        /\ \A a \in pair \ Seated' : a \in hostIdle \cap relayIdle
<1>0. PairTypeOK /\ pair # {} /\ Seated = pair
  BY DEF PairInv, Company, Settled
<1>1. ASSUME pair' = pair, Seated' = Seated PROVE Together
  BY <1>0, <1>1
<1>2. ASSUME NEW a \in Clients \ pair, OnClientGone(a), Drop({a}) PROVE Together
  <2>1. pair' = pair
    BY <1>2, StrangerGone
  <2>2. Seated' = Seated
    BY <1>0, <1>2, DropOnly
  <2>. QED
    BY <1>1, <2>1, <2>2
<1>3. ASSUME NEW a \in Clients, ResignTimer(a) PROVE Together
  BY <1>2, <1>3 DEF ResignTimer, Settled
<1>4. CASE KickClose
  BY <1>0, <1>2, <1>4 DEF KickClose, PairTypeOK, Settled
<1>5. ASSUME NEW a \in Clients, RelayResignTimer(a) \/ SessionRemoved(a) PROVE Together
  <2>1. OnClientGone(a) /\ a \notin pair /\ sess' = sess
    BY <1>5 DEF RelayResignTimer, SessionRemoved, Settled, sessVars
  <2>. QED
    BY <1>1, <2>1, StrangerGone DEF Seated
<1>6. ASSUME NEW a \in Clients, Reap(a) PROVE Together
  <2>1. pair' = pair /\ Seated' = Seated \ {a} /\ BothChannelsIdle(a)
    BY <1>0, <1>6, DropOnly DEF Reap, relayVars
  <2>. QED
    BY <1>0, <2>1 DEF BothChannelsIdle
<1>7. CASE EnsurePairRelay
  BY <1>0, <1>1, <1>7 DEF EnsurePairRelay, Seated, sessVars
<1>8. ASSUME NEW a \in Clients, HostPacket(a) PROVE Together
  BY <1>0, <1>1, <1>8 DEF HostPacket, Seated, PairTypeOK, relayVars
<1>9. ASSUME UNCHANGED <<sess, pair>> PROVE Together
  BY <1>1, <1>9 DEF Seated
<1>10. ASSUME NEW a \in Clients,
              \/ LookUp(a) \/ RelayPacket(a) \/ RelayResign(a) \/ KickRecheck(a)
              \/ HostSilence(a) \/ RelaySilence(a)
       PROVE  Together
  BY <1>9, <1>10
  DEF LookUp, RelayPacket, RelayResign, KickRecheck, HostSilence, RelaySilence, sessVars,
      relayVars
<1>11. CASE PlainPacket \/ ResignPacket \/ FindOther \/ \E r \in {"yes", "no"} : ReadyPacket(r)
  BY <1>9, <1>11 DEF PlainPacket, ResignPacket, FindOther, ReadyPacket, sessVars, relayVars
<1>12. ASSUME NEW a \in Clients, Join(a) PROVE FALSE
  BY <1>0, <1>12 DEF Join
<1>13. CASE RemoveHost
  BY <1>13 DEF RemoveHost
<1>14. CASE UNCHANGED vars
  BY <1>9, <1>14 DEF vars, sessVars, relayVars
<1>. QED
  BY <1>3, <1>4, <1>5, <1>6, <1>7, <1>8, <1>10, <1>11, <1>12, <1>13, <1>14
  DEF Next, SessionLoop

\* Two clients that have been paired stay together whatever is still to come of others who
\* were on their host, until the host goes or one of them resigns or falls silent.
THEOREM PairsStayTogether == Spec => SettledPairsStay
BY SettledStep, PairInvariance, PTL DEF Spec, SettledPairsStay

-----------------------------------------------------------------------------
(* The seat contract                                                        *)

\* The seats of this host, as HostSeats knows them.
Host      == "host"
SeatsHere == [h \in {Host} |-> Seated]
MatchHere == [h \in {Host} |-> pair # {}]
Seats == INSTANCE HostSeats
         WITH Hosts <- {Host}, Capacity <- MaxRealClientsPerHost,
              seats <- SeatsHere, matched <- MatchHere

\* Whoever leaves, and whether or not the relay is closed: that is the contract's Vacate.
LEMMA SeatsLeave ==
    ASSUME PairInv, Seated' \subseteq Seated, pair' \in {pair, {}}
    PROVE  Seats!Vacate
<1>1. Seated \subseteq Clients
  BY DEF Seated
<1>. QED
  BY <1>1 DEF Seats!Vacate, SeatsHere, MatchHere

\* Join is the only step that seats a client, and it asks the contract's questions.
LEMMA SeatTaken ==
    ASSUME PairInv, NEW a \in Clients, Join(a)
    PROVE  Seats!Join(a, Host)
<1>1. /\ sess[a] = "none" /\ pair = {} /\ pair' = pair
      /\ sess' = [sess EXCEPT ![a] = "open"]
      /\ Cardinality(Seated) < MaxRealClientsPerHost
  BY DEF Join, relayVars
<1>2. a \notin Seated /\ Seated' = Seated \cup {a}
  BY <1>1 DEF PairInv, PairTypeOK, Seated
<1>3. SeatsHere' = [SeatsHere EXCEPT ![Host] = @ \cup {a}]
  BY <1>2 DEF SeatsHere
<1>4. UNCHANGED MatchHere /\ ~MatchHere[Host]
  BY <1>1 DEF MatchHere
<1>5. Seats!Cardinality(SeatsHere[Host]) < MaxRealClientsPerHost
  BY <1>1 DEF Seats!Cardinality, Cardinality, SeatsHere
<1>6. \A g \in {Host} : a \notin SeatsHere[g]
  BY <1>2 DEF SeatsHere
<1>. QED
  BY <1>3, <1>4, <1>5, <1>6 DEF Seats!Join

\* ensurePairRelay matches the host, unless it is matched already.
LEMMA MatchMade ==
    ASSUME PairInv, EnsurePairRelay
    PROVE  Seats!Next
<1>1. Seated' = Seated
  BY DEF EnsurePairRelay, Seated, sessVars
<1>2. CASE pair = {}
  <2>1. pair' # {} /\ ~MatchHere[Host]
    BY <1>2 DEF EnsurePairRelay, MatchHere
  <2>2. MatchHere' = [MatchHere EXCEPT ![Host] = TRUE] /\ UNCHANGED SeatsHere
    BY <1>1, <2>1 DEF MatchHere, SeatsHere
  <2>. QED
    BY <2>1, <2>2 DEF Seats!Match, Seats!Next
<1>3. CASE pair # {}
  <2>1. pair' = pair
    BY <1>3 DEF EnsurePairRelay
  <2>. QED
    BY <1>1, <2>1, SeatsLeave DEF Seats!Next
<1>. QED
  BY <1>2, <1>3

LEMMA SeatsStep == PairInv /\ [Next]_vars => [Seats!Next]_(Seats!seatVars)
<1>. SUFFICES ASSUME PairInv, [Next]_vars PROVE Seats!Next
  OBVIOUS
<1>0. PairTypeOK
  BY DEF PairInv
<1>1. ASSUME Seated' \subseteq Seated, pair' \in {pair, {}} PROVE Seats!Next
  BY <1>1, SeatsLeave DEF Seats!Next
<1>2. ASSUME UNCHANGED <<sess, pair>> PROVE Seats!Next
  BY <1>1, <1>2 DEF Seated
<1>3. ASSUME NEW a \in Clients, Join(a) PROVE Seats!Next
  BY <1>3, SeatTaken DEF Seats!Next
<1>4. ASSUME NEW a \in Clients, HostPacket(a) PROVE Seats!Next
  <2>1. Seated' \subseteq Seated /\ pair' = pair
    BY <1>0, <1>4 DEF HostPacket, Seated, PairTypeOK, relayVars
  <2>. QED
    BY <1>1, <2>1
<1>5. CASE \/ \E a \in Clients : LookUp(a)
           \/ PlainPacket \/ ResignPacket \/ FindOther
           \/ \E r \in {"yes", "no"} : ReadyPacket(r)
  BY <1>2, <1>5
  DEF LookUp, PlainPacket, ResignPacket, FindOther, ReadyPacket, sessVars, relayVars
<1>6. ASSUME NEW a \in Clients,
             \/ RelayPacket(a) \/ RelayResign(a) \/ KickRecheck(a)
             \/ HostSilence(a) \/ RelaySilence(a)
      PROVE  Seats!Next
  BY <1>2, <1>6
  DEF RelayPacket, RelayResign, KickRecheck, HostSilence, RelaySilence, sessVars, relayVars
<1>7. ASSUME NEW a \in Clients, ResignTimer(a) PROVE Seats!Next
  <2>1. OnClientGone(a) /\ Drop({a}) /\ {a} \in SUBSET Clients
    BY <1>7 DEF ResignTimer
  <2>. QED
    BY <1>0, <1>1, <2>1, GoneRelay, DropLeaves
<1>8. ASSUME NEW a \in Clients, RelayResignTimer(a) \/ SessionRemoved(a) PROVE Seats!Next
  <2>1. OnClientGone(a) /\ Seated' = Seated
    BY <1>8 DEF RelayResignTimer, SessionRemoved, sessVars, Seated
  <2>. QED
    BY <1>0, <1>1, <2>1, GoneRelay
<1>9. ASSUME NEW a \in Clients, Reap(a) PROVE Seats!Next
  <2>1. Drop({a}) /\ {a} \in SUBSET Clients /\ pair' = pair
    BY <1>9 DEF Reap, relayVars
  <2>. QED
    BY <1>0, <1>1, <2>1, DropLeaves
<1>10. CASE RemoveHost
  <2>1. Drop(Clients) /\ Clients \in SUBSET Clients /\ pair' = {}
    BY <1>10 DEF RemoveHost, CloseRelay
  <2>. QED
    BY <1>0, <1>1, <2>1, DropLeaves
<1>11. CASE KickClose
  <2>1. /\ kicked \in Clients /\ {kicked} \in SUBSET Clients
        /\ OnClientGone(kicked) /\ Drop({kicked})
    BY <1>0, <1>11 DEF KickClose, PairTypeOK
  <2>. QED
    BY <1>0, <1>1, <2>1, GoneRelay, DropLeaves
<1>12. CASE UNCHANGED vars
  BY <1>2, <1>12 DEF vars, sessVars, relayVars
<1>. QED
  BY <1>3, <1>4, <1>5, <1>6, <1>7, <1>8, <1>9, <1>10, <1>11, <1>12, MatchMade
  DEF Next, SessionLoop

\* One host's match in all its detail - ready toggles, timers, the reaper, the relay -
\* keeps the contract that Matchmaking, which knows only sessions and relays, is shown to
\* keep: the two views of a host agree on who may be on it.
THEOREM PairKeepsSeats == Spec => Seats!Spec
<1>1. Init => Seats!Init
  BY DEF Init, Seats!Init, SeatsHere, MatchHere, Seated
<1>. QED
  BY <1>1, SeatsStep, PairInvariance, PTL DEF Spec, Seats!Spec
=============================================================================
