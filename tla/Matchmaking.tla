---------------------------- MODULE Matchmaking ----------------------------
(***************************************************************************)
(* Host selection and session admission of aom-lobby (lobby/main.go): the  *)
(* hostPool, sessionProxy's session table, the existence of each host's    *)
(* pair relay, and podLister.                                              *)
(*                                                                         *)
(* Goroutines interleave at the granularity of the locks they take.        *)
(* sessionProxy.run is ONE goroutine: its handler runs through the program *)
(* counter pc and is the only place a session is inserted.  Everything     *)
(* else (discoveryProxy.run, the reaper, the resign timers, podLister) is  *)
(* an action of its own that may fall between two of its steps.            *)
(*                                                                         *)
(* What the environment decides is chosen where the code reads it: which   *)
(* hosts' probes answered last, which sessions have been silent too long.  *)
(***************************************************************************)
EXTENDS Integers, FiniteSets

CONSTANTS
    Hosts,            \* hostCandidates: one per pod ever listed
    Addrs,            \* session-port addresses of real clients (ip:port)
    IPs,              \* real client IPs: the key of hostPool.assigned
    IpOf,             \* the IP of each address (two may share one, behind a NAT)
    Nil,              \* Go's nil / "" / absent map entry
    JoinCushion,      \* joinCushion, in ticks
    PostLandCooldown, \* postLandCooldown, in ticks
    AgeCap,           \* ages saturate here
    MaxLeaving        \* bound: departures in progress at one time (resigns and leaving)

ASSUME DistinctNil == Nil \notin Hosts \cup Addrs \cup IPs
ASSUME IpOfType == IpOf \in [Addrs -> IPs]
ASSUME Times == /\ JoinCushion \in Nat /\ PostLandCooldown \in Nat /\ AgeCap \in Nat
                /\ JoinCushion <= AgeCap /\ PostLandCooldown <= AgeCap
ASSUME Bounds == MaxLeaving \in Nat
ASSUME FiniteAddrs == IsFiniteSet(Addrs)

MaxRealClientsPerHost == 2
NotLanded == -1

VARIABLES
    phase,       \* "new" (pod not seen yet), "listed" (in hostPool.hosts), "gone"
    assigned,    \* hostPool.assigned, per client IP
    firstClient, \* hostCandidate.firstClientIP
    joinedAge,   \* ticks since firstClientJoinedAt (meaningless while firstClient is Nil)
    landedAge,   \* ticks since firstClientLandedAt, NotLanded while zero
    sess,        \* sessionProxy.sessions: the host of the session at each address
    resigns,     \* resign timers that are running, with the address and host they captured
    leaving,     \* sessions deleted from the table whose onSessionRemoved is still to run
    pair,        \* endpoints of matchState.pair, {} while nil
    pc,          \* where the session loop is in its handler
    cur,         \* ... the address it is serving
    target,      \* ... the host it selected
    other        \* ... the peer otherSessionClientAddr returned

claimVars == <<firstClient, joinedAge, landedAge>>
loopVars  == <<pc, cur, target, other>>
vars == <<phase, assigned, claimVars, sess, resigns, leaving, pair, loopVars>>

\* No relay, or the endpoints of one.
Relays == {{}} \cup {r \in SUBSET Addrs : \E a, b \in r : a # b /\ r = {a, b}}

TypeOK ==
    /\ phase \in [Hosts -> {"new", "listed", "gone"}]
    /\ assigned \in [IPs -> Hosts \cup {Nil}]
    /\ firstClient \in [Hosts -> IPs \cup {Nil}]
    /\ joinedAge \in [Hosts -> 0..AgeCap]
    /\ landedAge \in [Hosts -> {NotLanded} \cup 0..AgeCap]
    /\ sess \in [Addrs -> Hosts \cup {Nil}]
    /\ resigns \in SUBSET (Addrs \X Hosts) /\ leaving \in SUBSET (Addrs \X Hosts)
    /\ pair \in [Hosts -> Relays]
    /\ pc \in {"idle", "selected", "admitted", "broadcast", "matched"}
    /\ cur \in Addrs \cup {Nil}
    /\ target \in Hosts \cup {Nil}
    /\ other \in Addrs \cup {Nil}

\* No session, assignment or claim, and a pool of the given hosts.
StartWith(listed) ==
    /\ phase = [h \in Hosts |-> IF h \in listed THEN "listed" ELSE "new"]
    /\ assigned = [ip \in IPs |-> Nil]
    /\ firstClient = [h \in Hosts |-> Nil]
    /\ joinedAge = [h \in Hosts |-> 0]
    /\ landedAge = [h \in Hosts |-> NotLanded]
    /\ sess = [a \in Addrs |-> Nil]
    /\ resigns = {} /\ leaving = {}
    /\ pair = [h \in Hosts |-> {}]
    /\ pc = "idle" /\ cur = Nil /\ target = Nil /\ other = Nil

\* main: the pool is empty until podLister's first list.
Init == StartWith({})

-----------------------------------------------------------------------------
(* hostPool: capacity, liveness, tiers, the join cushion                    *)

Listed(h) == phase[h] = "listed"

\* sessionCountForHost counts these.
SessionsOn(h) == {a \in Addrs : sess[a] = h}

\* Sabotaged: the session count, or the relay, is forgotten.
HostFullByRelay(h) == pair[h] # {}
HostFullByCount(h) == Cardinality(SessionsOn(h)) >= MaxRealClientsPerHost

HostFull(h) == \/ pair[h] # {}
               \/ Cardinality(SessionsOn(h)) >= MaxRealClientsPerHost

\* A claim keeps its host out of the empty tier before its client's session exists.
Claimed(h) == firstClient[h] # Nil /\ joinedAge[h] < JoinCushion

\* hostLive is the last answer of the host's probe: up is the set of hosts that answered.
Eligible(up)    == {h \in up : Listed(h) /\ ~HostFull(h)}
\* Sabotaged: a claim does not keep its host out of the tier.
EmptyTierDespiteClaims(up) == {h \in Eligible(up) : SessionsOn(h) = {}}

EmptyTier(up)   == {h \in Eligible(up) : SessionsOn(h) = {} /\ ~Claimed(h)}
WaitingTier(up) == Eligible(up) \ EmptyTier(up)

HostCooling(h, ip) ==
    /\ firstClient[h] # ip
    /\ IF landedAge[h] # NotLanded
       THEN landedAge[h] < PostLandCooldown
       ELSE firstClient[h] # Nil /\ joinedAge[h] < JoinCushion

\* A cached assignment assignForClient still trusts.
Usable(ip) == /\ assigned[ip] # Nil
              /\ Listed(assigned[ip])
              /\ ~HostFull(assigned[ip])

\* selectLocked's choice among the hosts that are up: the waiting tier first, and a
\* claim stamped when the empty tier is used.  The round-robin cursors are abstracted
\* to any member of the tier.
SelectLocked(ip, up, h) ==
    \/ /\ h \in WaitingTier(up)
       /\ UNCHANGED claimVars
    \/ /\ WaitingTier(up) = {} /\ h \in EmptyTier(up)
       /\ firstClient' = [firstClient EXCEPT ![h] = ip]
       /\ joinedAge' = [joinedAge EXCEPT ![h] = 0]
       /\ landedAge' = [landedAge EXCEPT ![h] = NotLanded]
    \/ /\ Eligible(up) = {} /\ h = Nil
       /\ UNCHANGED claimVars

\* assignForClient returns h to a client at ip (Nil: no eligible host), under
\* hostPool.mu.  The session counts are read one by one under proxy.mu; here they are
\* read together, at the moment h's is.
AssignForClient(ip, h) ==
    \/ /\ Usable(ip) /\ h = assigned[ip]
       /\ UNCHANGED <<assigned, claimVars>>
    \/ /\ ~Usable(ip)
       /\ \E up \in SUBSET Hosts : SelectLocked(ip, up, h)
       /\ assigned' = [assigned EXCEPT ![ip] = h]

\* markFirstClientLanded, on the CD-key echo of the host's current first client.
MarkFirstClientLanded(h, ip) ==
    landedAge' = [landedAge EXCEPT ![h] =
                    IF firstClient[h] = ip /\ @ = NotLanded THEN 0 ELSE @]

-----------------------------------------------------------------------------
(* discoveryProxy.run: a client's first query from a fresh port is assigned *)
(* a host.  Retries on the same port and the cushion's withheld replies     *)
(* change no state here.                                                    *)

DiscoveryQuery(ip) ==
    /\ \E h \in Hosts \cup {Nil} : AssignForClient(ip, h)
    /\ UNCHANGED <<phase, sess, resigns, leaving, pair, loopVars>>

-----------------------------------------------------------------------------
(* sessionProxy.run                                                         *)

Idle == pc' = "idle" /\ cur' = Nil /\ target' = Nil /\ other' = Nil

\* forwardToBackend, no session yet: select a host, outside proxy.mu.  Without one
\* the packet goes to the simulated handshake instead.
SelectHost(a) ==
    /\ pc = "idle" /\ sess[a] = Nil
    /\ \E h \in Hosts \cup {Nil} :
         /\ AssignForClient(IpOf[a], h)
         /\ IF h = Nil THEN UNCHANGED loopVars
            ELSE pc' = "selected" /\ cur' = a /\ target' = h /\ UNCHANGED other
    /\ UNCHANGED <<phase, sess, resigns, leaving, pair>>

\* ... withhold admission while the host is cooling for somebody else.
CheckCushion ==
    /\ pc = "selected"
    /\ IF HostCooling(target, IpOf[cur]) THEN Idle
       ELSE pc' = "admitted" /\ UNCHANGED <<cur, target, other>>
    /\ UNCHANGED <<phase, assigned, claimVars, sess, resigns, leaving, pair>>

\* ... and insert the session under proxy.mu, nothing being checked again.  The packet
\* is then handled like any other of the session; echo: it is the CD-key echo.
InsertSession(echo) ==
    /\ pc = "admitted"
    /\ sess' = [sess EXCEPT ![cur] = target]
    /\ IF echo THEN MarkFirstClientLanded(target, IpOf[cur]) ELSE UNCHANGED landedAge
    /\ Idle
    /\ UNCHANGED <<phase, assigned, firstClient, joinedAge, resigns, leaving, pair>>

\* forwardToBackend for the CD-key echo of an existing session.
CDKeyEcho(a) ==
    /\ pc = "idle" /\ sess[a] # Nil
    /\ MarkFirstClientLanded(sess[a], IpOf[a])
    /\ UNCHANGED <<phase, assigned, firstClient, joinedAge, sess, resigns, leaving, pair, loopVars>>

\* relayBackendInitiated and rewriteToClient: a peer broadcast of a listed host,
\* attributed to a's session.  A host with a relay may send one that is acted on: its
\* client is not notified yet (who is, is PairMatch's subject).
PeerBroadcast(a) ==
    /\ pc = "idle" /\ sess[a] # Nil
    /\ Listed(sess[a])
    /\ pc' = "broadcast" /\ cur' = a /\ target' = sess[a] /\ UNCHANGED other
    /\ UNCHANGED <<phase, assigned, claimVars, sess, resigns, leaving, pair>>

\* Sabotaged: no host filter.
OtherSessionsAnywhere(a, h) == {b \in Addrs : b # a /\ sess[b] # Nil}

\* Candidates of otherSessionClientAddr.
OtherSessions(a, h) == {b \in Addrs : b # a /\ sess[b] = h}

\* pollOtherSessionClientAddr: no session can be inserted while this loop polls, so
\* it finds the peer at once or gives up.
FindOther ==
    /\ pc = "broadcast"
    /\ \/ /\ OtherSessions(cur, target) = {} /\ Idle
       \/ /\ \E b \in OtherSessions(cur, target) : other' = b
          /\ pc' = "matched" /\ UNCHANGED <<cur, target>>
    /\ UNCHANGED <<phase, assigned, claimVars, sess, resigns, leaving, pair>>

\* ensurePairRelay: reuse the relay or create it for the two addresses in hand.
EnsurePairRelay ==
    /\ pc = "matched"
    /\ pair' = [pair EXCEPT ![target] = IF @ = {} THEN {cur, other} ELSE @]
    /\ Idle
    /\ UNCHANGED <<phase, assigned, claimVars, sess, resigns, leaving>>

-----------------------------------------------------------------------------
(* Departures: the reaper, resign timers, onClientGone                      *)

\* Sabotaged: the relay outlives one of its endpoints.
PairWithoutHalf(a, h) == pair[h] \ {a}

\* onClientGone(a): the pair relay of h without a.
PairWithout(a, h) == IF a \in pair[h] THEN {} ELSE pair[h]

\* Sessions being torn down, or about to be.
InProgress == Cardinality(resigns) + Cardinality(leaving)

\* reapIdleSessions: delete under proxy.mu, call onSessionRemoved after it.  Which
\* sessions are idle (on both channels) is PairMatch's subject; here any may be.
ReapSession(a) ==
    /\ sess[a] # Nil /\ InProgress < MaxLeaving
    /\ sess' = [sess EXCEPT ![a] = Nil]
    /\ leaving' = leaving \cup {<<a, sess[a]>>}
    /\ UNCHANGED <<phase, assigned, claimVars, resigns, pair, loopVars>>

\* A resign burst that is acted on starts a timer for this client on this host.  Which
\* bursts are is PairMatch's subject.
ResignPacket(a) ==
    /\ pc = "idle" /\ sess[a] # Nil /\ InProgress < MaxLeaving
    /\ resigns' = resigns \cup {<<a, sess[a]>>}
    /\ UNCHANGED <<phase, assigned, claimVars, sess, leaving, pair, loopVars>>

\* onClientGone for the session of a that was on h, then doCloseSession, which deletes
\* whatever session the address has by now.
CloseSessionOf(a, h) ==
    /\ pair' = [pair EXCEPT ![h] = PairWithout(a, h)]
    /\ sess' = [sess EXCEPT ![a] = Nil]
    /\ leaving' = IF sess[a] = Nil THEN leaving ELSE leaving \cup {<<a, h>>}

\* The timer fires (resignBurstDrain).
ResignTimer(a, h) ==
    /\ <<a, h>> \in resigns
    /\ resigns' = resigns \ {<<a, h>>}
    /\ CloseSessionOf(a, h)
    /\ UNCHANGED <<phase, assigned, claimVars, loopVars>>

\* The relay's own resign timer (ensurePairRelay's onResign), for a burst one of its
\* endpoints sent over it: onClientGone only, the sessions stay.
RelayResignTimer(h) ==
    /\ pair[h] # {}
    /\ pair' = [pair EXCEPT ![h] = {}]
    /\ UNCHANGED <<phase, assigned, claimVars, sess, resigns, leaving, loopVars>>

\* onSessionRemoved, after the deletion: matchState.onClientGone.
OnSessionRemoved(a, h) ==
    /\ <<a, h>> \in leaving
    /\ leaving' = leaving \ {<<a, h>>}
    /\ pair' = [pair EXCEPT ![h] = PairWithout(a, h)]
    /\ UNCHANGED <<phase, assigned, claimVars, sess, resigns, loopVars>>

-----------------------------------------------------------------------------
(* podLister and time                                                       *)

AddHost(h) ==
    /\ phase[h] = "new"
    /\ phase' = [phase EXCEPT ![h] = "listed"]
    /\ UNCHANGED <<assigned, claimVars, sess, resigns, leaving, pair, loopVars>>

\* Sabotaged: the assignments survive the host.
RemoveHostOnly(h) ==
    /\ Listed(h)
    /\ phase' = [phase EXCEPT ![h] = "gone"]
    /\ sess' = [a \in Addrs |-> IF sess[a] = h THEN Nil ELSE sess[a]]
    /\ pair' = [pair EXCEPT ![h] = {}]
    /\ UNCHANGED <<assigned, claimVars, resigns, leaving, loopVars>>

\* Sabotaged: the sessions are left to the reaper (the code before Phase 3).
RemoveHostLeavesSessions(h) ==
    /\ Listed(h)
    /\ phase' = [phase EXCEPT ![h] = "gone"]
    /\ assigned' = [ip \in IPs |-> IF assigned[ip] = h THEN Nil ELSE assigned[ip]]
    /\ pair' = [pair EXCEPT ![h] = {}]
    /\ UNCHANGED <<claimVars, sess, resigns, leaving, loopVars>>

\* removeHost, in one hostPool.mu section: pool, assignments, match and sessions.
RemoveHost(h) ==
    /\ Listed(h)
    /\ phase' = [phase EXCEPT ![h] = "gone"]
    /\ assigned' = [ip \in IPs |-> IF assigned[ip] = h THEN Nil ELSE assigned[ip]]
    /\ sess' = [a \in Addrs |-> IF sess[a] = h THEN Nil ELSE sess[a]]
    /\ pair' = [pair EXCEPT ![h] = {}]
    /\ UNCHANGED <<claimVars, resigns, leaving, loopVars>>

Older(age) == IF age < AgeCap THEN age + 1 ELSE AgeCap

Tick ==
    /\ joinedAge' = [h \in Hosts |-> IF firstClient[h] = Nil THEN joinedAge[h]
                                     ELSE Older(joinedAge[h])]
    /\ landedAge' = [h \in Hosts |-> IF landedAge[h] = NotLanded THEN NotLanded
                                     ELSE Older(landedAge[h])]
    /\ UNCHANGED <<phase, assigned, firstClient, sess, resigns, leaving, pair, loopVars>>

-----------------------------------------------------------------------------
SessionLoop ==
    \/ \E a \in Addrs : \/ SelectHost(a) \/ CDKeyEcho(a)
                       \/ ResignPacket(a) \/ PeerBroadcast(a)
    \/ CheckCushion
    \/ \E echo \in BOOLEAN : InsertSession(echo)
    \/ FindOther
    \/ EnsurePairRelay

Departure ==
    \/ \E a \in Addrs : \/ ReapSession(a)
                        \/ \E h \in Hosts : ResignTimer(a, h) \/ OnSessionRemoved(a, h)
    \/ \E h \in Hosts : RelayResignTimer(h)

PodLister == \E h \in Hosts : AddHost(h) \/ RemoveHost(h)

Next ==
    \/ \E ip \in IPs : DiscoveryQuery(ip)
    \/ SessionLoop
    \/ Departure
    \/ PodLister
    \/ Tick

Spec == Init /\ [][Next]_vars

-----------------------------------------------------------------------------
(* Properties                                                               *)

\* A host never has more than two sessions, although the capacity check
\* (assignForClient, under hostPool.mu) and the insertion (under proxy.mu) are
\* separate steps with every other goroutine running in between.
AtMostTwoPerHost ==
    \A h \in Hosts : Cardinality(SessionsOn(h)) <= MaxRealClientsPerHost

\* removeHost leaves no sticky assignment behind: a client is never sent back to a
\* pod that is gone (the bug session-cleanup-design.md calls Gap 1).
AssignedIsListed ==
    \A ip \in IPs : assigned[ip] # Nil => Listed(assigned[ip])

\* A first client's claim is not taken over by another client while its cushion
\* runs, nor while anybody is counted as having a session there (selectLocked's
\* "claimed" guard).
ClaimStands ==
    [][\A h \in Hosts :
          firstClient'[h] # firstClient[h] /\ firstClient[h] # Nil =>
             joinedAge[h] >= JoinCushion /\ SessionsOn(h) = {}]_vars

\* A relay is only ever created between two clients neither of which is, at that
\* moment, playing on another host (otherSessionClientAddr's host filter).
NeverPairsAcrossHosts ==
    [][\A h \in Hosts : pair'[h] # pair[h] =>
          \A a \in pair'[h] : sess[a] \in {h, Nil}]_vars

\* The seats and pairings of the hosts obey the contract of HostSeats: no client is
\* seated twice, or at a host that is full or already matched.
Seats == INSTANCE HostSeats WITH
            Clients <- Addrs, Capacity <- MaxRealClientsPerHost,
            seats <- [h \in Hosts |-> SessionsOn(h)],
            matched <- [h \in Hosts |-> pair[h] # {}]
KeepsSeatContract == Seats!Spec

\* On a host whose clients have been paired nobody else has a session, whoever leaves,
\* however late its callback comes and whatever the loop was doing meanwhile: the relay
\* is what tells hostFull that a freed seat is not free.
StrangersStayOut ==
    \A h \in Hosts : pair[h] # {} => SessionsOn(h) \subseteq pair[h]

\* Of a pod that is removed at most one thing can be left: the session, or the relay,
\* that the one handler under way in sessionProxy.run goes on to create.  There is no
\* second one, as nobody is ever sent there again.
AtMostOneLeftBehind ==
    \A h \in Hosts : ~Listed(h) =>
       /\ Cardinality(SessionsOn(h)) <= 1
       /\ SessionsOn(h) # {} => pair[h] = {}

\* removeHost closes a removed host's sessions "immediately": no session is left on
\* a host that is not in the pool (session-cleanup-design.md, Phase 3).
SessionsOnListedHosts ==
    \A a \in Addrs : sess[a] # Nil => Listed(sess[a])
=============================================================================
