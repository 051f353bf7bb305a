------------------------- MODULE MatchmakingProofs -------------------------
(***************************************************************************)
(* Proofs about Matchmaking, for every number of hosts and clients, every  *)
(* sharing of IPs between addresses and every cushion.                     *)
(*                                                                         *)
(* The argument.  The capacity check and the insertion of a session are    *)
(* separate steps, so "at most two per host" is not inductive: it needs    *)
(* what the session loop may rely on between them (LoopInv).  Nobody but   *)
(* the loop inserts a session or creates a relay, so the room found at     *)
(* selection is still there at insertion, and whoever was found on a host  *)
(* is still there or has no session at all.  That a match is closed to     *)
(* strangers, and that a removed host keeps at most one player, is a       *)
(* second invariant on top of it (Occupancy): every session of a matched   *)
(* host belongs to its pair, also while the loop is about to make one.     *)
(***************************************************************************)
EXTENDS Matchmaking, FiniteSetTheorems, TLAPS

-----------------------------------------------------------------------------
(* The inductive invariant                                                  *)

\* What holds of the loop's local variables while it is between two of its steps.
Admitting == /\ cur \in Addrs /\ target \in Hosts
             /\ sess[cur] = Nil
             /\ pair[target] = {}
             /\ Cardinality(SessionsOn(target)) < MaxRealClientsPerHost

Pairing == /\ cur \in Addrs /\ target \in Hosts
           /\ sess[cur] \in {target, Nil}

LoopInv ==
    /\ pc \in {"selected", "admitted"} => Admitting
    /\ pc \in {"broadcast", "matched"} => Pairing
    /\ pc = "matched" => other \in Addrs /\ other # cur /\ sess[other] \in {target, Nil}

Inv == TypeOK /\ LoopInv /\ AtMostTwoPerHost /\ AssignedIsListed

-----------------------------------------------------------------------------
(* Lemmas                                                                   *)

\* The sessions of a host are a finite set.
LEMMA SessionsFinite ==
    ASSUME NEW h
    PROVE  /\ IsFiniteSet(SessionsOn(h))
           /\ Cardinality(SessionsOn(h)) \in Nat
<1>1. SessionsOn(h) \subseteq Addrs
  BY DEF SessionsOn
<1>. QED
  BY <1>1, FiniteAddrs, FS_Subset, FS_CardinalityType

\* Deleting sessions never raises the count of any host.
LEMMA FewerSessions ==
    ASSUME NEW h \in Hosts, SessionsOn(h)' \subseteq SessionsOn(h)
    PROVE  /\ Cardinality(SessionsOn(h)') \in Nat
           /\ Cardinality(SessionsOn(h)') <= Cardinality(SessionsOn(h))
<1>1. IsFiniteSet(SessionsOn(h))
  BY SessionsFinite
<1>2. IsFiniteSet(SessionsOn(h)') /\ Cardinality(SessionsOn(h)') <= Cardinality(SessionsOn(h))
  BY <1>1, FS_Subset
<1>. QED
  BY <1>2, FS_CardinalityType

\* One more session at most raises the count by one.
LEMMA OneMoreSession ==
    ASSUME NEW h \in Hosts, NEW a, SessionsOn(h)' = SessionsOn(h) \cup {a}
    PROVE  /\ Cardinality(SessionsOn(h)') \in Nat
           /\ Cardinality(SessionsOn(h)') <= Cardinality(SessionsOn(h)) + 1
<1>1. IsFiniteSet(SessionsOn(h)) /\ Cardinality(SessionsOn(h)) \in Nat
  BY SessionsFinite
<1>2. /\ IsFiniteSet(SessionsOn(h) \cup {a})
      /\ Cardinality(SessionsOn(h) \cup {a})
            = IF a \in SessionsOn(h) THEN Cardinality(SessionsOn(h))
              ELSE Cardinality(SessionsOn(h)) + 1
  BY <1>1, FS_AddElement
<1>3. Cardinality(SessionsOn(h) \cup {a}) \in Nat
  BY <1>2, FS_CardinalityType
<1>. QED
  BY <1>1, <1>2, <1>3

\* What every call of assignForClient does to the pool: it stamps at most the host it
\* returns, which is in the pool, not full, and unclaimed or cached.
LEMMA AssignmentStep ==
    ASSUME TypeOK, NEW ip \in IPs, NEW h \in Hosts \cup {Nil}, AssignForClient(ip, h)
    PROVE  /\ assigned' \in [IPs -> Hosts \cup {Nil}]
           /\ assigned' = [assigned EXCEPT ![ip] = h]
           /\ firstClient' \in [Hosts -> IPs \cup {Nil}]
           /\ joinedAge' \in [Hosts -> 0..AgeCap]
           /\ landedAge' \in [Hosts -> {NotLanded} \cup 0..AgeCap]
           /\ h # Nil => Listed(h) /\ ~HostFull(h)
           /\ \A g \in Hosts : firstClient'[g] # firstClient[g] =>
                 SessionsOn(g) = {} /\ ~Claimed(g)
<1>0. 0 \in 0..AgeCap
  BY Times
<1>1. CASE Usable(ip) /\ h = assigned[ip] /\ UNCHANGED <<assigned, claimVars>>
  <2>1. assigned' = [assigned EXCEPT ![ip] = h]
    BY <1>1 DEF TypeOK
  <2>2. Listed(h) /\ ~HostFull(h)
    BY <1>1 DEF Usable
  <2>. QED
    BY <1>1, <2>1, <2>2 DEF TypeOK, claimVars
<1>2. CASE /\ ~Usable(ip)
           /\ \E up \in SUBSET Hosts : SelectLocked(ip, up, h)
           /\ assigned' = [assigned EXCEPT ![ip] = h]
  <2>1. PICK up \in SUBSET Hosts : SelectLocked(ip, up, h)
    BY <1>2
  <2>2. assigned' \in [IPs -> Hosts \cup {Nil}]
    BY <1>2 DEF TypeOK
  <2>3. CASE h \in WaitingTier(up) /\ UNCHANGED claimVars
    BY <1>2, <2>2, <2>3 DEF TypeOK, claimVars, WaitingTier, Eligible
  <2>4. CASE /\ WaitingTier(up) = {} /\ h \in EmptyTier(up)
             /\ firstClient' = [firstClient EXCEPT ![h] = ip]
             /\ joinedAge' = [joinedAge EXCEPT ![h] = 0]
             /\ landedAge' = [landedAge EXCEPT ![h] = NotLanded]
    <3>1. /\ h \in Hosts /\ Listed(h) /\ ~HostFull(h)
          /\ SessionsOn(h) = {} /\ ~Claimed(h)
      BY <2>4 DEF EmptyTier, Eligible
    <3>2. /\ firstClient' \in [Hosts -> IPs \cup {Nil}]
          /\ joinedAge' \in [Hosts -> 0..AgeCap]
          /\ landedAge' \in [Hosts -> {NotLanded} \cup 0..AgeCap]
      BY <1>0, <2>4, <3>1 DEF TypeOK
    <3>3. \A g \in Hosts : firstClient'[g] # firstClient[g] => g = h
      BY <2>4, <3>1 DEF TypeOK
    <3>. QED
      BY <1>2, <2>2, <3>1, <3>2, <3>3
  <2>5. CASE Eligible(up) = {} /\ h = Nil /\ UNCHANGED claimVars
    BY <1>2, <2>2, <2>5 DEF TypeOK, claimVars
  <2>. QED
    BY <2>1, <2>3, <2>4, <2>5 DEF SelectLocked
<1>. QED
  BY <1>1, <1>2 DEF AssignForClient

\* A CD-key echo is at most a landing of the host's first client.
LEMMA LandingType ==
    ASSUME TypeOK, NEW h \in Hosts, NEW ip, MarkFirstClientLanded(h, ip)
    PROVE  landedAge' \in [Hosts -> {NotLanded} \cup 0..AgeCap]
<1>1. 0 \in 0..AgeCap
  BY Times
<1>. QED
  BY <1>1 DEF TypeOK, MarkFirstClientLanded

\* A departure closes the host's relay or leaves it whole.
LEMMA RelayCloses ==
    ASSUME TypeOK, NEW a, NEW h \in Hosts
    PROVE  PairWithout(a, h) \in Relays
BY DEF TypeOK, PairWithout, Relays

-----------------------------------------------------------------------------
(* Type correctness                                                         *)

LEMMA TypeInit == Init => TypeOK
<1>. SUFFICES ASSUME Init PROVE TypeOK
  OBVIOUS
<1>1. 0 \in 0..AgeCap
  BY Times
<1>. QED
  BY <1>1 DEF Init, StartWith, TypeOK, Relays

LEMMA TypeStep == Inv /\ [Next]_vars => TypeOK'
<1>. SUFFICES ASSUME Inv, [Next]_vars PROVE TypeOK'
  OBVIOUS
<1>. USE DEF TypeOK
<1>0. TypeOK /\ LoopInv
  BY DEF Inv
<1>1. ASSUME NEW ip \in IPs, DiscoveryQuery(ip) PROVE TypeOK'
  <2>1. PICK h \in Hosts \cup {Nil} : AssignForClient(ip, h)
    BY <1>1 DEF DiscoveryQuery
  <2>. QED
    BY <1>0, <1>1, <2>1, AssignmentStep DEF DiscoveryQuery, loopVars
<1>2. ASSUME NEW a \in Addrs, SelectHost(a) PROVE TypeOK'
  <2>1. PICK h \in Hosts \cup {Nil} :
           /\ AssignForClient(IpOf[a], h)
           /\ IF h = Nil THEN UNCHANGED loopVars
              ELSE pc' = "selected" /\ cur' = a /\ target' = h /\ UNCHANGED other
    BY <1>2 DEF SelectHost
  <2>2. /\ assigned' \in [IPs -> Hosts \cup {Nil}]
        /\ firstClient' \in [Hosts -> IPs \cup {Nil}]
        /\ joinedAge' \in [Hosts -> 0..AgeCap]
        /\ landedAge' \in [Hosts -> {NotLanded} \cup 0..AgeCap]
    BY <1>0, <2>1, IpOfType, AssignmentStep
  <2>. QED
    BY <1>0, <1>2, <2>1, <2>2 DEF SelectHost, loopVars
<1>3. CASE CheckCushion
  BY <1>0, <1>3 DEF CheckCushion, Idle, claimVars
<1>4. ASSUME NEW echo \in BOOLEAN, InsertSession(echo) PROVE TypeOK'
  <2>1. target \in Hosts
    BY <1>0, <1>4 DEF InsertSession, LoopInv, Admitting
  <2>2. landedAge' \in [Hosts -> {NotLanded} \cup 0..AgeCap]
    BY <1>0, <1>4, <2>1, LandingType DEF InsertSession
  <2>. QED
    BY <1>0, <1>4, <2>2 DEF InsertSession, Idle
<1>5. ASSUME NEW a \in Addrs, CDKeyEcho(a) PROVE TypeOK'
  <2>1. landedAge' \in [Hosts -> {NotLanded} \cup 0..AgeCap]
    BY <1>0, <1>5, LandingType DEF CDKeyEcho
  <2>. QED
    BY <1>0, <1>5, <2>1 DEF CDKeyEcho, loopVars
<1>6. ASSUME NEW a \in Addrs, PeerBroadcast(a) PROVE TypeOK'
  BY <1>0, <1>6 DEF PeerBroadcast, claimVars
<1>7. CASE FindOther
  BY <1>0, <1>7 DEF FindOther, Idle, OtherSessions, claimVars
<1>8. CASE EnsurePairRelay
  <2>1. cur \in Addrs /\ other \in Addrs /\ other # cur
    BY <1>0, <1>8 DEF EnsurePairRelay, LoopInv, Pairing
  <2>2. {cur, other} \in Relays
    BY <2>1 DEF Relays
  <2>3. pair' \in [Hosts -> Relays]
    BY <1>0, <1>8, <2>2 DEF EnsurePairRelay
  <2>. QED
    BY <1>0, <1>8, <2>3 DEF EnsurePairRelay, Idle, claimVars
<1>9. ASSUME NEW a \in Addrs, ReapSession(a) PROVE TypeOK'
  BY <1>0, <1>9 DEF ReapSession, claimVars, loopVars
<1>10. ASSUME NEW a \in Addrs, NEW h \in Hosts, ResignTimer(a, h) PROVE TypeOK'
  <2>1. pair' \in [Hosts -> Relays]
    BY <1>0, <1>10, RelayCloses DEF ResignTimer, CloseSessionOf
  <2>. QED
    BY <1>0, <1>10, <2>1 DEF ResignTimer, CloseSessionOf, claimVars, loopVars
<1>11. ASSUME NEW a \in Addrs, NEW h \in Hosts, OnSessionRemoved(a, h) PROVE TypeOK'
  <2>1. pair' \in [Hosts -> Relays]
    BY <1>0, <1>11, RelayCloses DEF OnSessionRemoved
  <2>. QED
    BY <1>0, <1>11, <2>1 DEF OnSessionRemoved, claimVars, loopVars
<1>12. ASSUME NEW h \in Hosts, AddHost(h) PROVE TypeOK'
  BY <1>0, <1>12 DEF AddHost, claimVars, loopVars
<1>13. ASSUME NEW h \in Hosts, RemoveHost(h) PROVE TypeOK'
  BY <1>0, <1>13 DEF RemoveHost, Relays, claimVars, loopVars
<1>14. CASE Tick
  <2>1. \A age \in 0..AgeCap : Older(age) \in 0..AgeCap
    BY Times DEF Older
  <2>2. joinedAge' \in [Hosts -> 0..AgeCap]
    BY <1>0, <1>14, <2>1 DEF Tick
  <2>3. landedAge' \in [Hosts -> {NotLanded} \cup 0..AgeCap]
    BY <1>0, <1>14, <2>1 DEF Tick
  <2>. QED
    BY <1>0, <1>14, <2>2, <2>3 DEF Tick, loopVars
<1>15. ASSUME NEW a \in Addrs, ResignPacket(a) PROVE TypeOK'
  BY <1>0, <1>15 DEF ResignPacket, claimVars, loopVars
<1>16. ASSUME NEW h \in Hosts, RelayResignTimer(h) PROVE TypeOK'
  <2>1. pair' \in [Hosts -> Relays]
    BY <1>0, <1>16 DEF RelayResignTimer, Relays
  <2>. QED
    BY <1>0, <1>16, <2>1 DEF RelayResignTimer, claimVars, loopVars
<1>17. CASE UNCHANGED vars
  BY <1>0, <1>17 DEF vars, claimVars, loopVars
<1>. QED
  BY <1>1, <1>2, <1>3, <1>4, <1>5, <1>6, <1>7, <1>8, <1>9, <1>10, <1>11, <1>12, <1>13,
     <1>14, <1>15, <1>16, <1>17
  DEF Next, SessionLoop, Departure, PodLister

-----------------------------------------------------------------------------
(* The inductive invariant                                                  *)

\* Steps that are not the loop's: they may delete sessions and close relays, and the
\* loop can still rely on what it knew.
LEMMA LoopFrame ==
    ASSUME Inv, UNCHANGED loopVars,
           \A a \in Addrs : sess'[a] \in {sess[a], Nil},
           \A h \in Hosts : pair'[h] \subseteq pair[h]
    PROVE  LoopInv' /\ AtMostTwoPerHost'
<1>1. \A h \in Hosts : SessionsOn(h)' \subseteq SessionsOn(h)
  BY DistinctNil DEF SessionsOn
<1>2. \A h \in Hosts : /\ Cardinality(SessionsOn(h)) \in Nat
                       /\ Cardinality(SessionsOn(h)') \in Nat
                       /\ Cardinality(SessionsOn(h)') <= Cardinality(SessionsOn(h))
  BY <1>1, SessionsFinite, FewerSessions
<1>3. AtMostTwoPerHost'
  BY <1>2 DEF Inv, AtMostTwoPerHost, MaxRealClientsPerHost
<1>4. LoopInv'
  <2>1. Admitting => Admitting'
    BY <1>2 DEF Admitting, loopVars, MaxRealClientsPerHost
  <2>2. Pairing => Pairing'
    BY DEF Pairing, loopVars
  <2>. QED
    BY <2>1, <2>2 DEF Inv, LoopInv, loopVars
<1>. QED
  BY <1>3, <1>4

\* Steps of the loop that leave the sessions alone.
LEMMA SameSessions ==
    ASSUME Inv, sess' = sess
    PROVE  /\ AtMostTwoPerHost'
           /\ \A h : SessionsOn(h)' = SessionsOn(h)
BY DEF Inv, AtMostTwoPerHost, SessionsOn

LEMMA InvInit == Init => Inv
<1>. SUFFICES ASSUME Init PROVE Inv
  OBVIOUS
<1>1. TypeOK
  BY TypeInit
<1>2. LoopInv /\ AssignedIsListed
  BY DEF Init, StartWith, LoopInv, AssignedIsListed
<1>3. \A h \in Hosts : SessionsOn(h) = {}
  BY DistinctNil DEF Init, StartWith, SessionsOn
<1>4. AtMostTwoPerHost
  BY <1>3, FS_EmptySet DEF AtMostTwoPerHost, MaxRealClientsPerHost
<1>. QED
  BY <1>1, <1>2, <1>4 DEF Inv

\* The loop's knowledge and the capacity of the hosts survive every step.
LEMMA CapacityStep == Inv /\ [Next]_vars => LoopInv' /\ AtMostTwoPerHost'
<1>. SUFFICES ASSUME Inv, [Next]_vars PROVE LoopInv' /\ AtMostTwoPerHost'
  OBVIOUS
<1>0. TypeOK /\ LoopInv /\ AtMostTwoPerHost
  BY DEF Inv
<1>1. ASSUME NEW ip \in IPs, DiscoveryQuery(ip) PROVE LoopInv' /\ AtMostTwoPerHost'
  BY <1>1, LoopFrame DEF DiscoveryQuery
<1>2. ASSUME NEW a \in Addrs, SelectHost(a) PROVE LoopInv' /\ AtMostTwoPerHost'
  <2>1. PICK h \in Hosts \cup {Nil} :
           /\ AssignForClient(IpOf[a], h)
           /\ IF h = Nil THEN UNCHANGED loopVars
              ELSE pc' = "selected" /\ cur' = a /\ target' = h /\ UNCHANGED other
    BY <1>2 DEF SelectHost
  <2>2. CASE h = Nil
    BY <1>2, <2>1, <2>2, LoopFrame DEF SelectHost
  <2>3. CASE h # Nil
    <3>1. h \in Hosts /\ ~HostFull(h)
      BY <1>0, <2>1, <2>3, IpOfType, AssignmentStep
    <3>2. pair[h] = {} /\ Cardinality(SessionsOn(h)) < MaxRealClientsPerHost
      BY <3>1, SessionsFinite DEF HostFull, MaxRealClientsPerHost
    <3>3. AtMostTwoPerHost' /\ \A g : SessionsOn(g)' = SessionsOn(g)
      BY <1>2, SameSessions DEF SelectHost
    <3>4. Admitting'
      BY <1>2, <2>1, <2>3, <3>1, <3>2, <3>3 DEF SelectHost, Admitting
    <3>. QED
      BY <2>1, <2>3, <3>3, <3>4 DEF LoopInv
  <2>. QED
    BY <2>2, <2>3
<1>3. CASE CheckCushion
  <2>1. AtMostTwoPerHost' /\ \A g : SessionsOn(g)' = SessionsOn(g)
    BY <1>3, SameSessions DEF CheckCushion
  <2>2. LoopInv'
    BY <1>0, <1>3, <2>1 DEF CheckCushion, LoopInv, Admitting, Idle
  <2>. QED
    BY <2>1, <2>2
<1>4. ASSUME NEW echo \in BOOLEAN, InsertSession(echo)
      PROVE LoopInv' /\ AtMostTwoPerHost'
  <2>1. Admitting
    BY <1>0, <1>4 DEF InsertSession, LoopInv
  <2>2. LoopInv'
    BY <1>4 DEF InsertSession, Idle, LoopInv
  <2>3. PICK h \in Hosts, c \in Addrs : h = target /\ c = cur
    BY <2>1 DEF Admitting
  <2>4. SessionsOn(h)' = SessionsOn(h) \cup {c}
    BY <1>0, <1>4, <2>3 DEF InsertSession, SessionsOn, TypeOK
  <2>5. ASSUME NEW g \in Hosts, g # h PROVE SessionsOn(g)' = SessionsOn(g)
    <3>1. \A a \in Addrs : sess'[a] = IF a = c THEN h ELSE sess[a]
      BY <1>0, <1>4, <2>3 DEF InsertSession, TypeOK
    <3>2. sess[c] # g
      BY <2>1, <2>3, <2>5, DistinctNil DEF Admitting
    <3>3. \A a \in Addrs : sess'[a] = g <=> sess[a] = g
      BY <2>5, <3>1, <3>2
    <3>. QED
      BY <3>3 DEF SessionsOn
  <2>6. Cardinality(SessionsOn(h)') <= MaxRealClientsPerHost
    <3>1. Cardinality(SessionsOn(h)) < MaxRealClientsPerHost
      BY <2>1, <2>3 DEF Admitting, SessionsOn
    <3>2. /\ Cardinality(SessionsOn(h)') \in Nat
          /\ Cardinality(SessionsOn(h)') <= Cardinality(SessionsOn(h)) + 1
      BY <2>4, OneMoreSession
    <3>3. Cardinality(SessionsOn(h)) \in Nat
      BY SessionsFinite
    <3>. QED
      BY <3>1, <3>2, <3>3 DEF MaxRealClientsPerHost
  <2>7. AtMostTwoPerHost'
    BY <1>0, <2>5, <2>6 DEF AtMostTwoPerHost, MaxRealClientsPerHost
  <2>. QED
    BY <2>2, <2>7
<1>5. ASSUME NEW a \in Addrs, CDKeyEcho(a) PROVE LoopInv' /\ AtMostTwoPerHost'
  BY <1>5, LoopFrame DEF CDKeyEcho
<1>6. ASSUME NEW a \in Addrs, PeerBroadcast(a) PROVE LoopInv' /\ AtMostTwoPerHost'
  <2>1. AtMostTwoPerHost'
    BY <1>6, SameSessions DEF PeerBroadcast
  <2>2. Pairing'
    BY <1>0, <1>6 DEF PeerBroadcast, Pairing, TypeOK
  <2>. QED
    BY <1>6, <2>1, <2>2 DEF PeerBroadcast, LoopInv
<1>7. CASE FindOther
  <2>1. AtMostTwoPerHost'
    BY <1>7, SameSessions DEF FindOther
  <2>2. LoopInv'
    BY <1>0, <1>7 DEF FindOther, LoopInv, Pairing, OtherSessions, Idle
  <2>. QED
    BY <2>1, <2>2
<1>8. CASE EnsurePairRelay
  <2>1. AtMostTwoPerHost'
    BY <1>8, SameSessions DEF EnsurePairRelay
  <2>2. LoopInv'
    BY <1>8 DEF EnsurePairRelay, LoopInv, Idle
  <2>. QED
    BY <2>1, <2>2
<1>9. ASSUME NEW a \in Addrs, ReapSession(a) PROVE LoopInv' /\ AtMostTwoPerHost'
  BY <1>0, <1>9, LoopFrame DEF ReapSession, TypeOK
<1>10. ASSUME NEW a \in Addrs, NEW h \in Hosts, ResignTimer(a, h)
       PROVE LoopInv' /\ AtMostTwoPerHost'
  BY <1>0, <1>10, LoopFrame DEF ResignTimer, CloseSessionOf, PairWithout, TypeOK
<1>11. ASSUME NEW a \in Addrs, NEW h \in Hosts, OnSessionRemoved(a, h)
       PROVE LoopInv' /\ AtMostTwoPerHost'
  BY <1>0, <1>11, LoopFrame DEF OnSessionRemoved, PairWithout, TypeOK
<1>12. ASSUME NEW h \in Hosts, AddHost(h) PROVE LoopInv' /\ AtMostTwoPerHost'
  BY <1>12, LoopFrame DEF AddHost
<1>13. ASSUME NEW h \in Hosts, RemoveHost(h) PROVE LoopInv' /\ AtMostTwoPerHost'
  BY <1>0, <1>13, LoopFrame DEF RemoveHost, TypeOK
<1>14. CASE Tick
  BY <1>14, LoopFrame DEF Tick
<1>15. ASSUME NEW a \in Addrs, ResignPacket(a) PROVE LoopInv' /\ AtMostTwoPerHost'
  BY <1>15, LoopFrame DEF ResignPacket
<1>16. ASSUME NEW h \in Hosts, RelayResignTimer(h) PROVE LoopInv' /\ AtMostTwoPerHost'
  BY <1>0, <1>16, LoopFrame DEF RelayResignTimer, TypeOK
<1>17. CASE UNCHANGED vars
  BY <1>17, LoopFrame DEF vars
<1>. QED
  BY <1>1, <1>2, <1>3, <1>4, <1>5, <1>6, <1>7, <1>8, <1>9, <1>10, <1>11, <1>12, <1>13,
     <1>14, <1>15, <1>16, <1>17
  DEF Next, SessionLoop, Departure, PodLister

\* Assignments point into the pool after every step.
LEMMA AssignedStep == Inv /\ [Next]_vars => AssignedIsListed'
<1>. SUFFICES ASSUME Inv, [Next]_vars PROVE AssignedIsListed'
  OBVIOUS
<1>0. TypeOK /\ AssignedIsListed
  BY DEF Inv
<1>1. ASSUME NEW ip \in IPs, NEW h \in Hosts \cup {Nil},
             AssignForClient(ip, h), phase' = phase
      PROVE  AssignedIsListed'
  <2>1. assigned' = [assigned EXCEPT ![ip] = h] /\ (h # Nil => Listed(h))
    BY <1>0, <1>1, AssignmentStep
  <2>. QED
    BY <1>0, <1>1, <2>1 DEF AssignedIsListed, Listed, TypeOK
<1>2. ASSUME NEW ip \in IPs, DiscoveryQuery(ip) PROVE AssignedIsListed'
  BY <1>1, <1>2 DEF DiscoveryQuery
<1>3. ASSUME NEW a \in Addrs, SelectHost(a) PROVE AssignedIsListed'
  BY <1>1, <1>3, IpOfType DEF SelectHost
<1>4. ASSUME NEW h \in Hosts, AddHost(h) PROVE AssignedIsListed'
  BY <1>0, <1>4 DEF AddHost, AssignedIsListed, Listed, TypeOK
<1>5. ASSUME NEW h \in Hosts, RemoveHost(h) PROVE AssignedIsListed'
  BY <1>0, <1>5 DEF RemoveHost, AssignedIsListed, Listed, TypeOK
<1>6. ASSUME UNCHANGED <<phase, assigned>> PROVE AssignedIsListed'
  BY <1>0, <1>6 DEF AssignedIsListed, Listed
<1>7. CASE SessionLoop
  BY <1>3, <1>6, <1>7
  DEF SessionLoop, CDKeyEcho, ResignPacket, PeerBroadcast, CheckCushion, InsertSession,
      FindOther, EnsurePairRelay
<1>8. CASE Departure
  BY <1>6, <1>8 DEF Departure, ReapSession, ResignTimer, OnSessionRemoved, RelayResignTimer
<1>. QED
  BY <1>2, <1>4, <1>5, <1>6, <1>7, <1>8 DEF Next, PodLister, Tick, vars

\* The invariant holds of every reachable state.
THEOREM Invariance == Spec => []Inv
<1>1. Inv /\ [Next]_vars => Inv'
  BY TypeStep, CapacityStep, AssignedStep DEF Inv
<1>. QED
  BY <1>1, InvInit, PTL DEF Spec

-----------------------------------------------------------------------------
(* The safety theorems                                                      *)

\* Every variable keeps its type.
THEOREM TypeCorrect == Spec => []TypeOK
<1>1. Inv => TypeOK
  BY DEF Inv
<1>. QED
  BY <1>1, Invariance, PTL

\* However many clients and goroutines race for it, a host never has more than two
\* sessions.
THEOREM Capacity == Spec => []AtMostTwoPerHost
<1>1. Inv => AtMostTwoPerHost
  BY DEF Inv
<1>. QED
  BY <1>1, Invariance, PTL

\* removeHost leaves no assignment to a removed pod, and none is made later.
THEOREM NoDeadAssignment == Spec => []AssignedIsListed
<1>1. Inv => AssignedIsListed
  BY DEF Inv
<1>. QED
  BY <1>1, Invariance, PTL

\* A step that changes the holder of a claim is an assignment, and AssignForClient passes
\* over a host that is occupied or freshly claimed.
LEMMA ClaimStep ==
    Inv /\ [Next]_vars =>
        \A h \in Hosts : firstClient'[h] # firstClient[h] /\ firstClient[h] # Nil =>
                           joinedAge[h] >= JoinCushion /\ SessionsOn(h) = {}
<1>. DEFINE Stands(h) == firstClient'[h] # firstClient[h] /\ firstClient[h] # Nil =>
                            joinedAge[h] >= JoinCushion /\ SessionsOn(h) = {}
<1>. SUFFICES ASSUME Inv, [Next]_vars PROVE \A h \in Hosts : Stands(h)
  OBVIOUS
<1>0. TypeOK
  BY DEF Inv
<1>1. ASSUME NEW ip \in IPs, NEW g \in Hosts \cup {Nil}, AssignForClient(ip, g)
      PROVE  \A h \in Hosts : Stands(h)
  <2>1. \A h \in Hosts : firstClient'[h] # firstClient[h] =>
           SessionsOn(h) = {} /\ ~Claimed(h)
    BY <1>0, <1>1, AssignmentStep
  <2>. QED
    BY <1>0, <2>1, Times DEF Claimed, TypeOK
<1>2. ASSUME firstClient' = firstClient PROVE \A h \in Hosts : Stands(h)
  BY <1>2
<1>3. CASE \E ip \in IPs : DiscoveryQuery(ip)
  BY <1>1, <1>3 DEF DiscoveryQuery
<1>4. CASE \E a \in Addrs : SelectHost(a)
  BY <1>1, <1>4, IpOfType DEF SelectHost
<1>5. CASE SessionLoop
  BY <1>2, <1>4, <1>5
  DEF SessionLoop, CDKeyEcho, ResignPacket, PeerBroadcast, CheckCushion,
      InsertSession, FindOther, EnsurePairRelay, claimVars
<1>6. CASE Departure
  BY <1>2, <1>6
  DEF Departure, ReapSession, ResignTimer, OnSessionRemoved, RelayResignTimer, claimVars
<1>7. CASE PodLister
  BY <1>2, <1>7 DEF PodLister, AddHost, RemoveHost, claimVars
<1>8. CASE Tick
  BY <1>2, <1>8 DEF Tick
<1>9. CASE UNCHANGED vars
  BY <1>2, <1>9 DEF vars, claimVars
<1>. QED
  BY <1>3, <1>5, <1>6, <1>7, <1>8, <1>9 DEF Next

\* A claim on a host passes to another client only once its cushion has run out and
\* nobody has a session there.
THEOREM ClaimsStand == Spec => ClaimStands
BY ClaimStep, Invariance, PTL DEF Spec, ClaimStands

\* No relay is ever created between clients of different hosts.
THEOREM PairsStayOnOneHost == Spec => NeverPairsAcrossHosts
<1>. DEFINE Local(h) == pair'[h] # pair[h] => \A a \in pair'[h] : sess[a] \in {h, Nil}
<1>1. Inv /\ [Next]_vars => [\A h \in Hosts : Local(h)]_vars
  <2>. SUFFICES ASSUME Inv, Next PROVE \A h \in Hosts : Local(h)
    OBVIOUS
  <2>0. TypeOK /\ LoopInv
    BY DEF Inv
  <2>1. ASSUME \A h \in Hosts : pair'[h] \in {pair[h], {}} PROVE \A h \in Hosts : Local(h)
    BY <2>1
  <2>2. CASE EnsurePairRelay
    BY <2>0, <2>2 DEF EnsurePairRelay, LoopInv, Pairing, TypeOK
  <2>3. CASE SessionLoop
    BY <2>1, <2>2, <2>3
    DEF SessionLoop, SelectHost, CDKeyEcho, ResignPacket, PeerBroadcast, CheckCushion,
        InsertSession, FindOther
  <2>4. CASE Departure
    BY <2>0, <2>1, <2>4
    DEF Departure, ReapSession, ResignTimer, CloseSessionOf, OnSessionRemoved, PairWithout,
        RelayResignTimer, TypeOK
  <2>5. CASE PodLister
    BY <2>0, <2>1, <2>5 DEF PodLister, AddHost, RemoveHost, TypeOK
  <2>6. CASE Tick \/ \E ip \in IPs : DiscoveryQuery(ip)
    BY <2>1, <2>6 DEF Tick, DiscoveryQuery
  <2>. QED
    BY <2>3, <2>4, <2>5, <2>6 DEF Next
<1>. QED
  BY <1>1, Invariance, PTL DEF Spec, NeverPairsAcrossHosts

-----------------------------------------------------------------------------
(* Who is on a host                                                         *)

AtMostTwo(S) == \E x, y : S \subseteq {x, y}

\* On top of Inv: a matched host is closed to strangers, and while the loop looks for a
\* peer and for the relay, the client it serves and the one it finds are the only ones
\* there.  (Whoever leaves meanwhile cannot be replaced: the loop is busy.)
Company ==
    /\ StrangersStayOut
    /\ pc = "broadcast" => AtMostTwo(SessionsOn(target) \cup {cur})
    /\ pc = "matched" => SessionsOn(target) \subseteq {cur, other}

\* On top of Inv: nobody is on a host that was removed under the handler under way.
LeftBehind ==
    /\ AtMostOneLeftBehind
    /\ \A h \in Hosts : ~Listed(h) /\ pc # "idle" /\ target = h =>
          SessionsOn(h) = {} /\ pair[h] = {}

Occupancy == Company /\ LeftBehind

\* At most two sessions are those of at most two clients.
LEMMA TwoOfThem ==
    ASSUME NEW h \in Hosts, AtMostTwoPerHost, NEW a \in SessionsOn(h)
    PROVE  AtMostTwo(SessionsOn(h))
<1>. DEFINE S == SessionsOn(h)
<1>1. IsFiniteSet(S) /\ Cardinality(S) \in Nat /\ Cardinality(S) <= 2
  BY SessionsFinite DEF AtMostTwoPerHost, MaxRealClientsPerHost
<1>2. IsFiniteSet(S \ {a}) /\ Cardinality(S \ {a}) = Cardinality(S) - 1
  BY <1>1, FS_RemoveElement
<1>3. CASE Cardinality(S \ {a}) = 0
  <2>1. S \ {a} = {}
    BY <1>2, <1>3, FS_EmptySet
  <2>. QED
    BY <2>1 DEF AtMostTwo
<1>4. CASE Cardinality(S \ {a}) = 1
  <2>1. PICK x : S \ {a} = {x}
    BY <1>2, <1>4, FS_Singleton
  <2>2. S \subseteq {a, x}
    BY <2>1
  <2>. QED
    BY <2>2 DEF AtMostTwo
<1>5. Cardinality(S \ {a}) \in Nat
  BY <1>2, FS_CardinalityType
<1>. QED
  BY <1>1, <1>2, <1>3, <1>4, <1>5

\* No session, or one.
LEMMA OneOrNone ==
    Cardinality({}) <= 1 /\ \A a : Cardinality({a}) <= 1
BY FS_EmptySet, FS_Singleton

\* Deleting sessions adds none to any host.
LEMMA FewerOnEach ==
    ASSUME \A a \in Addrs : sess'[a] \in {sess[a], Nil}
    PROVE  \A h \in Hosts : SessionsOn(h)' \subseteq SessionsOn(h)
BY DistinctNil DEF SessionsOn

\* Departures: the loop stays where it is, sessions may go and relays close.
LEMMA CompanyFrame ==
    ASSUME Inv, Company, UNCHANGED loopVars,
           \A a \in Addrs : sess'[a] \in {sess[a], Nil},
           \A h \in Hosts : pair'[h] \in {pair[h], {}}
    PROVE  Company'
<1>0. \A h \in Hosts : SessionsOn(h)' \subseteq SessionsOn(h)
  BY FewerOnEach
<1>1. StrangersStayOut'
  BY <1>0 DEF Company, StrangersStayOut
<1>2. pc = "broadcast" => AtMostTwo(SessionsOn(target) \cup {cur})'
  <2>1. ASSUME pc = "broadcast" PROVE AtMostTwo(SessionsOn(target) \cup {cur})'
    <3>1. PICK x, y : SessionsOn(target) \cup {cur} \subseteq {x, y}
      BY <2>1 DEF Company, AtMostTwo
    <3>2. target \in Hosts
      BY <2>1 DEF Inv, LoopInv, Pairing
    <3>3. (SessionsOn(target) \cup {cur})' \subseteq {x, y}
      BY <1>0, <3>1, <3>2 DEF loopVars
    <3>. QED
      BY <3>3 DEF AtMostTwo
  <2>. QED
    BY <2>1
<1>3. pc = "matched" => SessionsOn(target)' \subseteq {cur, other}
  <2>1. pc = "matched" => target \in Hosts /\ target' = target
    BY DEF Inv, LoopInv, Pairing, loopVars
  <2>2. pc = "matched" => SessionsOn(target) \subseteq {cur, other}
    BY DEF Company
  <2>. QED
    BY <1>0, <2>1, <2>2
<1>. QED
  BY <1>1, <1>2, <1>3 DEF Company, loopVars

LEMMA LeftBehindFrame ==
    ASSUME LeftBehind, UNCHANGED loopVars, phase' = phase,
           \A a \in Addrs : sess'[a] \in {sess[a], Nil},
           \A h \in Hosts : pair'[h] \in {pair[h], {}}
    PROVE  LeftBehind'
<1>0. \A h \in Hosts : SessionsOn(h)' \subseteq SessionsOn(h)
  BY FewerOnEach
<1>1. \A h \in Hosts : Cardinality(SessionsOn(h)) \in Nat
  BY SessionsFinite
<1>2. \A h \in Hosts : /\ Cardinality(SessionsOn(h)') \in Nat
                       /\ Cardinality(SessionsOn(h)') <= Cardinality(SessionsOn(h))
  BY <1>0, FewerSessions
<1>3. AtMostOneLeftBehind'
  BY <1>0, <1>1, <1>2 DEF LeftBehind, AtMostOneLeftBehind, Listed
<1>. QED
  BY <1>0, <1>3 DEF LeftBehind, Listed, loopVars

\* The loop's own steps, one at a time.
LEMMA CompanyStep == Inv /\ Company /\ [Next]_vars => Company'
<1>. SUFFICES ASSUME Inv, Company, [Next]_vars PROVE Company'
  OBVIOUS
<1>0. TypeOK /\ LoopInv /\ StrangersStayOut
  BY DEF Inv, Company
<1>1. ASSUME \A a \in Addrs : sess'[a] \in {sess[a], Nil},
             \A h \in Hosts : pair'[h] \in {pair[h], {}}, UNCHANGED loopVars
      PROVE  Company'
  BY <1>1, CompanyFrame
<1>2. ASSUME UNCHANGED <<sess, pair>>, pc' \notin {"broadcast", "matched"}
      PROVE  Company'
  BY <1>0, <1>2 DEF Company, StrangersStayOut, SessionsOn
<1>3. ASSUME NEW echo \in BOOLEAN, InsertSession(echo) PROVE Company'
  <2>1. /\ target \in Hosts /\ pair[target] = {} /\ pair' = pair
        /\ pc' = "idle" /\ sess' = [sess EXCEPT ![cur] = target]
    BY <1>0, <1>3 DEF InsertSession, LoopInv, Admitting, Idle
  <2>2. \A h \in Hosts : h # target => SessionsOn(h)' \subseteq SessionsOn(h)
    BY <1>0, <2>1 DEF SessionsOn, TypeOK
  <2>. QED
    BY <1>0, <2>1, <2>2 DEF Company, StrangersStayOut
<1>4. ASSUME NEW a \in Addrs, PeerBroadcast(a) PROVE Company'
  <2>1. a \in SessionsOn(sess[a]) /\ sess[a] \in Hosts
    BY <1>0, <1>4 DEF PeerBroadcast, SessionsOn, TypeOK
  <2>2. AtMostTwo(SessionsOn(sess[a]))
    BY <2>1, TwoOfThem DEF Inv
  <2>3. /\ UNCHANGED <<sess, pair>> /\ pc' = "broadcast"
        /\ (SessionsOn(target) \cup {cur})' = SessionsOn(sess[a])
    BY <1>4, <2>1 DEF PeerBroadcast, SessionsOn
  <2>4. AtMostTwo(SessionsOn(target) \cup {cur})'
    BY <2>2, <2>3 DEF AtMostTwo
  <2>5. StrangersStayOut'
    BY <1>0, <2>3 DEF StrangersStayOut, SessionsOn
  <2>. QED
    BY <2>3, <2>4, <2>5 DEF Company
<1>5. CASE FindOther
  <2>1. ASSUME NEW b \in OtherSessions(cur, target), other' = b, pc' = "matched",
               pc = "broadcast", UNCHANGED <<cur, target, sess, pair>>
        PROVE  Company'
    <3>1. b \in SessionsOn(target) /\ b # cur
      BY <2>1 DEF OtherSessions, SessionsOn
    <3>2. SessionsOn(target) \subseteq {cur, b}
      BY <2>1, <3>1 DEF Company, AtMostTwo
    <3>3. SessionsOn(target)' = SessionsOn(target) /\ StrangersStayOut'
      BY <1>0, <2>1 DEF StrangersStayOut, SessionsOn
    <3>. QED
      BY <2>1, <3>2, <3>3 DEF Company
  <2>. QED
    BY <1>2, <1>5, <2>1 DEF FindOther, Idle
<1>6. CASE EnsurePairRelay
  <2>1. /\ target \in Hosts /\ sess' = sess /\ pc' = "idle"
        /\ pair' \in {pair, [pair EXCEPT ![target] = {cur, other}]}
    BY <1>0, <1>6 DEF EnsurePairRelay, LoopInv, Pairing, Idle, TypeOK
  <2>2. SessionsOn(target) \subseteq {cur, other}
    BY <1>6 DEF EnsurePairRelay, Company
  <2>. QED
    BY <1>0, <2>1, <2>2 DEF Company, StrangersStayOut, SessionsOn, TypeOK
<1>7. CASE \E a \in Addrs : SelectHost(a)
  <2>1. UNCHANGED <<sess, pair>> /\ pc' \in {"idle", "selected"}
    BY <1>7 DEF SelectHost, loopVars
  <2>. QED
    BY <1>2, <2>1
<1>8. CASE CheckCushion
  BY <1>2, <1>8 DEF CheckCushion, Idle
<1>9. CASE SessionLoop
  BY <1>1, <1>3, <1>4, <1>5, <1>6, <1>7, <1>8, <1>9
  DEF SessionLoop, CDKeyEcho, ResignPacket
<1>10. CASE Departure
  BY <1>0, <1>1, <1>10
  DEF Departure, ReapSession, ResignTimer, CloseSessionOf, OnSessionRemoved, PairWithout,
      RelayResignTimer, TypeOK
<1>11. CASE PodLister
  BY <1>0, <1>1, <1>11 DEF PodLister, AddHost, RemoveHost, TypeOK
<1>12. CASE Tick \/ \E ip \in IPs : DiscoveryQuery(ip)
  BY <1>1, <1>12 DEF Tick, DiscoveryQuery
<1>13. CASE UNCHANGED vars
  BY <1>1, <1>13 DEF vars
<1>. QED
  BY <1>9, <1>10, <1>11, <1>12, <1>13 DEF Next

\* A removal empties its host, and the one handler under way adds one thing at most.
LEMMA LeftBehindStep == Inv /\ LeftBehind /\ [Next]_vars => LeftBehind'
<1>. SUFFICES ASSUME Inv, LeftBehind, [Next]_vars PROVE LeftBehind'
  OBVIOUS
<1>0. TypeOK /\ LoopInv /\ AtMostOneLeftBehind
  BY DEF Inv, LeftBehind
<1>1. ASSUME \A a \in Addrs : sess'[a] \in {sess[a], Nil},
             \A h \in Hosts : pair'[h] \in {pair[h], {}}, UNCHANGED <<phase, loopVars>>
      PROVE  LeftBehind'
  BY <1>1, LeftBehindFrame
<1>2. ASSUME UNCHANGED <<phase, sess, pair>>,
             \/ pc' = "idle"
             \/ pc # "idle" /\ target' = target
             \/ target' \in Hosts /\ Listed(target')
      PROVE  LeftBehind'
  <2>1. AtMostOneLeftBehind' /\ \A h : SessionsOn(h)' = SessionsOn(h)
    BY <1>0, <1>2 DEF AtMostOneLeftBehind, SessionsOn, Listed
  <2>. QED
    BY <1>2, <2>1 DEF LeftBehind, Listed
<1>3. ASSUME NEW echo \in BOOLEAN, InsertSession(echo) PROVE LeftBehind'
  <2>1. PICK h \in Hosts, c \in Addrs : h = target /\ c = cur
    BY <1>0, <1>3 DEF InsertSession, LoopInv, Admitting
  <2>2. /\ pair[h] = {} /\ UNCHANGED <<phase, pair>> /\ pc # "idle" /\ pc' = "idle"
        /\ \A a \in Addrs : sess'[a] = IF a = c THEN h ELSE sess[a]
    BY <1>0, <1>3, <2>1 DEF InsertSession, LoopInv, Admitting, Idle, TypeOK
  <2>3. \A g \in Hosts : g # h => /\ SessionsOn(g)' \subseteq SessionsOn(g)
                                  /\ Cardinality(SessionsOn(g)) \in Nat
    BY <2>2, SessionsFinite DEF SessionsOn
  <2>4. \A g \in Hosts : g # h => /\ Cardinality(SessionsOn(g)') \in Nat
                                  /\ Cardinality(SessionsOn(g)') <= Cardinality(SessionsOn(g))
    BY <2>3, FewerSessions
  <2>5. ~Listed(h) => Cardinality(SessionsOn(h)') <= 1
    <3>1. ASSUME ~Listed(h) PROVE SessionsOn(h)' = {c}
      <4>1. SessionsOn(h) = {}
        BY <2>1, <2>2, <3>1 DEF LeftBehind
      <4>. QED
        BY <2>2, <4>1 DEF SessionsOn
    <3>. QED
      BY <3>1, OneOrNone
  <2>6. AtMostOneLeftBehind'
    <3>1. SUFFICES ASSUME NEW g \in Hosts, ~Listed(g)
                   PROVE  /\ Cardinality(SessionsOn(g)') <= 1
                          /\ SessionsOn(g)' # {} => pair[g] = {}
      BY <2>2 DEF AtMostOneLeftBehind, Listed
    <3>2. CASE g = h
      BY <2>2, <2>5, <3>1, <3>2
    <3>3. CASE g # h
      BY <1>0, <2>3, <2>4, <3>1, <3>3 DEF AtMostOneLeftBehind
    <3>. QED
      BY <3>2, <3>3
  <2>. QED
    BY <2>2, <2>6 DEF LeftBehind
<1>4. CASE EnsurePairRelay
  <2>1. /\ target \in Hosts /\ UNCHANGED <<phase, sess>> /\ pc # "idle" /\ pc' = "idle"
        /\ \A h \in Hosts : h # target => pair'[h] = pair[h]
    BY <1>0, <1>4 DEF EnsurePairRelay, LoopInv, Pairing, Idle, TypeOK
  <2>2. \A h : SessionsOn(h)' = SessionsOn(h)
    BY <2>1 DEF SessionsOn
  <2>3. ~Listed(target) => SessionsOn(target) = {}
    BY <2>1 DEF LeftBehind
  <2>4. AtMostOneLeftBehind'
    BY <1>0, <2>1, <2>2, <2>3 DEF AtMostOneLeftBehind, Listed
  <2>. QED
    BY <2>1, <2>4 DEF LeftBehind
<1>5. ASSUME NEW h \in Hosts, RemoveHost(h) PROVE LeftBehind'
  <2>1. SessionsOn(h)' = {} /\ pair'[h] = {}
    BY <1>0, <1>5, DistinctNil DEF RemoveHost, SessionsOn, TypeOK
  <2>2. \A g \in Hosts : g # h => /\ SessionsOn(g)' = SessionsOn(g) /\ pair'[g] = pair[g]
                                  /\ (Listed(g)' <=> Listed(g))
    BY <1>0, <1>5, DistinctNil DEF RemoveHost, SessionsOn, Listed, TypeOK
  <2>3. AtMostOneLeftBehind'
    BY <1>0, <2>1, <2>2, OneOrNone DEF AtMostOneLeftBehind
  <2>4. UNCHANGED loopVars
    BY <1>5 DEF RemoveHost
  <2>. QED
    BY <2>1, <2>2, <2>3, <2>4 DEF LeftBehind, loopVars
<1>6. ASSUME NEW h \in Hosts, AddHost(h) PROVE LeftBehind'
  <2>1. UNCHANGED <<sess, pair, loopVars>> /\ \A g \in Hosts : Listed(g) => Listed(g)'
    BY <1>0, <1>6 DEF AddHost, Listed, TypeOK
  <2>2. \A g : SessionsOn(g)' = SessionsOn(g)
    BY <2>1 DEF SessionsOn
  <2>. QED
    BY <1>0, <2>1, <2>2 DEF LeftBehind, AtMostOneLeftBehind, loopVars
<1>7. ASSUME NEW a \in Addrs, SelectHost(a) PROVE LeftBehind'
  <2>1. PICK h \in Hosts \cup {Nil} :
           /\ AssignForClient(IpOf[a], h)
           /\ IF h = Nil THEN UNCHANGED loopVars
              ELSE pc' = "selected" /\ cur' = a /\ target' = h /\ UNCHANGED other
    BY <1>7 DEF SelectHost
  <2>2. UNCHANGED <<phase, sess, pair>> /\ pc = "idle"
    BY <1>7 DEF SelectHost
  <2>3. h # Nil => h \in Hosts /\ Listed(h)
    BY <1>0, <2>1, IpOfType, AssignmentStep
  <2>4. pc' = "idle" \/ (target' \in Hosts /\ Listed(target'))
    BY <2>1, <2>2, <2>3 DEF loopVars
  <2>. QED
    BY <1>2, <2>2, <2>4
<1>8. CASE CheckCushion \/ FindOther
  BY <1>2, <1>8 DEF CheckCushion, FindOther, Idle
<1>9. ASSUME NEW a \in Addrs, PeerBroadcast(a) PROVE LeftBehind'
  <2>1. UNCHANGED <<phase, sess, pair>> /\ target' \in Hosts /\ Listed(target')
    BY <1>0, <1>9 DEF PeerBroadcast, TypeOK
  <2>. QED
    BY <1>2, <2>1
<1>10. CASE SessionLoop
  BY <1>1, <1>3, <1>4, <1>7, <1>8, <1>9, <1>10 DEF SessionLoop, CDKeyEcho, ResignPacket
<1>11. CASE Departure
  BY <1>0, <1>1, <1>11
  DEF Departure, ReapSession, ResignTimer, CloseSessionOf, OnSessionRemoved, PairWithout,
      RelayResignTimer, TypeOK
<1>12. CASE Tick \/ \E ip \in IPs : DiscoveryQuery(ip)
  BY <1>1, <1>12 DEF Tick, DiscoveryQuery
<1>13. CASE UNCHANGED vars
  BY <1>1, <1>13 DEF vars
<1>. QED
  BY <1>5, <1>6, <1>10, <1>11, <1>12, <1>13 DEF Next, PodLister

LEMMA OccupancyInit == Init => Occupancy
<1>. SUFFICES ASSUME Init PROVE Occupancy
  OBVIOUS
<1>1. /\ pc = "idle"
      /\ \A h \in Hosts : SessionsOn(h) = {} /\ pair[h] = {}
  BY DistinctNil DEF Init, StartWith, SessionsOn
<1>. QED
  BY <1>1, OneOrNone
  DEF Occupancy, Company, LeftBehind, StrangersStayOut, AtMostOneLeftBehind

\* Who is on a host, and who on a removed one, holds of every reachable state.
THEOREM OccupancyInvariance == Spec => []Occupancy
<1>1. Inv /\ Occupancy /\ [Next]_vars => Occupancy'
  BY CompanyStep, LeftBehindStep DEF Occupancy
<1>. QED
  BY <1>1, OccupancyInit, Invariance, PTL DEF Spec

\* On a matched host nobody but its two clients ever has a session.
THEOREM MatchesAreClosed == Spec => []StrangersStayOut
<1>1. Occupancy => StrangersStayOut
  BY DEF Occupancy, Company
<1>. QED
  BY <1>1, OccupancyInvariance, PTL

\* However many clients race with podLister, a removed pod keeps at most one session or
\* one relay.
THEOREM LittleIsLeftBehind == Spec => []AtMostOneLeftBehind
<1>1. Occupancy => AtMostOneLeftBehind
  BY DEF Occupancy, LeftBehind
<1>. QED
  BY <1>1, OccupancyInvariance, PTL

-----------------------------------------------------------------------------
(* Matchmaking implements HostSeats                                         *)

SeatsOf == [h \in Hosts |-> SessionsOn(h)]
MatchedOf == [h \in Hosts |-> pair[h] # {}]

\* A step that at most deletes sessions and closes relays is one of clients leaving.
LEMMA ClientsLeave ==
    ASSUME TypeOK, TypeOK',
           \A a \in Addrs : sess'[a] \in {sess[a], Nil},
           \A h \in Hosts : pair'[h] \subseteq pair[h]
    PROVE  Seats!Vacate
<1>1. \A h \in Hosts : SessionsOn(h)' \subseteq SessionsOn(h)
  BY DistinctNil DEF SessionsOn
<1>2. SeatsOf' \in [Hosts -> SUBSET Addrs]
  BY DEF SeatsOf, SessionsOn
<1>3. /\ MatchedOf' \in [Hosts -> BOOLEAN]
      /\ \A h \in Hosts : MatchedOf'[h] => MatchedOf[h]
  BY DEF MatchedOf
<1>4. \A h \in Hosts : SeatsOf'[h] \subseteq SeatsOf[h]
  BY <1>1 DEF SeatsOf
<1>. QED
  BY <1>2, <1>3, <1>4 DEF Seats!Vacate, SeatsOf, MatchedOf

\* An inserted session is a client sitting down on a host with a free seat.
LEMMA OneJoins ==
    ASSUME Inv, NEW echo \in BOOLEAN, InsertSession(echo)
    PROVE  \E c \in Addrs, h \in Hosts : Seats!Join(c, h)
<1>0. TypeOK /\ Admitting
  BY DEF Inv, LoopInv, InsertSession
<1>1. PICK h \in Hosts, c \in Addrs : h = target /\ c = cur
  BY <1>0 DEF Admitting
<1>2. \A a \in Addrs : sess'[a] = IF a = c THEN h ELSE sess[a]
  BY <1>0, <1>1 DEF InsertSession, TypeOK
<1>3. sess[c] = Nil /\ ~MatchedOf[h] /\ pair' = pair
  BY <1>0, <1>1 DEF Admitting, InsertSession, MatchedOf
<1>4. \A g \in Hosts : c \notin SeatsOf[g]
  BY <1>3, DistinctNil DEF SeatsOf, SessionsOn
<1>5. Cardinality(SeatsOf[h]) < MaxRealClientsPerHost
  BY <1>0, <1>1 DEF Admitting, SeatsOf, SessionsOn
<1>6. SeatsOf' = [SeatsOf EXCEPT ![h] = @ \cup {c}]
  <2>1. SessionsOn(h)' = SessionsOn(h) \cup {c}
    BY <1>2 DEF SessionsOn
  <2>2. \A g \in Hosts : g # h => SessionsOn(g)' = SessionsOn(g)
    BY <1>2, <1>3, DistinctNil DEF SessionsOn
  <2>. QED
    BY <2>1, <2>2 DEF SeatsOf
<1>7. MatchedOf' = MatchedOf
  BY <1>3 DEF MatchedOf
<1>8. Seats!Cardinality(SeatsOf[h]) < MaxRealClientsPerHost
  BY <1>5 DEF Seats!Cardinality, Cardinality
<1>. QED
  BY <1>3, <1>4, <1>6, <1>7, <1>8 DEF Seats!Join, SeatsOf, MatchedOf

\* A broadcast whose peer is found matches the host, unless it is matched already.
LEMMA OneMatches ==
    ASSUME Inv, EnsurePairRelay, pair[target] = {}
    PROVE  \E h \in Hosts : Seats!Match(h)
<1>0. TypeOK /\ Pairing
  BY DEF Inv, LoopInv, EnsurePairRelay
<1>1. PICK h \in Hosts : h = target
  BY <1>0 DEF Pairing
<1>2. pair[h] = {} /\ pair' = [pair EXCEPT ![h] = {cur, other}] /\ sess' = sess
  BY <1>0, <1>1 DEF EnsurePairRelay, Pairing, TypeOK
<1>3. ~MatchedOf[h] /\ MatchedOf' = [MatchedOf EXCEPT ![h] = TRUE]
  BY <1>0, <1>2 DEF MatchedOf, TypeOK
<1>4. SeatsOf' = SeatsOf
  BY <1>2 DEF SeatsOf, SessionsOn
<1>. QED
  BY <1>3, <1>4 DEF Seats!Match, SeatsOf, MatchedOf

\* Every step of matchmaking is a step of the contract, or invisible to it: only an
\* insertion gives a seat, only ensurePairRelay makes a match.
LEMMA SeatStep == Inv /\ [Next]_vars => [Seats!Next]_(Seats!seatVars)
<1>. SUFFICES ASSUME Inv, [Next]_vars PROVE Seats!Next
  OBVIOUS
<1>0. TypeOK /\ TypeOK'
  BY TypeStep DEF Inv
<1>1. CASE \E echo \in BOOLEAN : InsertSession(echo)
  BY <1>1, OneJoins DEF Seats!Next
<1>2. ASSUME \A a \in Addrs : sess'[a] \in {sess[a], Nil},
             \A h \in Hosts : pair'[h] \subseteq pair[h]
      PROVE  Seats!Next
  BY <1>0, <1>2, ClientsLeave DEF Seats!Next
<1>3. CASE EnsurePairRelay
  <2>1. CASE pair[target] = {}
    BY <1>3, <2>1, OneMatches DEF Seats!Next
  <2>2. CASE pair[target] # {}
    <3>1. UNCHANGED <<sess, pair>>
      BY <1>0, <1>3, <2>2 DEF EnsurePairRelay, TypeOK
    <3>. QED
      BY <1>2, <3>1
  <2>. QED
    BY <2>1, <2>2
<1>4. CASE SessionLoop
  BY <1>1, <1>2, <1>3, <1>4
  DEF SessionLoop, SelectHost, CDKeyEcho, ResignPacket, PeerBroadcast, CheckCushion, FindOther
<1>5. CASE Departure
  BY <1>0, <1>2, <1>5
  DEF Departure, ReapSession, ResignTimer, CloseSessionOf, OnSessionRemoved, PairWithout,
      RelayResignTimer, TypeOK
<1>6. CASE PodLister
  BY <1>0, <1>2, <1>6 DEF PodLister, AddHost, RemoveHost, TypeOK
<1>7. CASE Tick \/ \E ip \in IPs : DiscoveryQuery(ip)
  BY <1>2, <1>7 DEF Tick, DiscoveryQuery
<1>8. CASE UNCHANGED vars
  BY <1>2, <1>8 DEF vars
<1>. QED
  BY <1>4, <1>5, <1>6, <1>7, <1>8 DEF Next

\* Matchmaking implements the contract of HostSeats: nobody is given a second seat, or
\* a seat on a host that is full or matched.
THEOREM SeatContract == Spec => KeepsSeatContract
<1>1. Init => Seats!Init
  <2>. SUFFICES ASSUME Init PROVE Seats!Init
    OBVIOUS
  <2>1. \A h \in Hosts : SessionsOn(h) = {} /\ pair[h] = {}
    BY DistinctNil DEF Init, StartWith, SessionsOn
  <2>. QED
    BY <2>1 DEF Seats!Init
<1>. QED
  BY <1>1, SeatStep, Invariance, PTL DEF Spec, KeepsSeatContract, Seats!Spec
=============================================================================
