----------------------------- MODULE PairMatch -----------------------------
(***************************************************************************)
(* One host's match in aom-lobby (lobby/main.go): matchState, the pairRelay*)
(* between its two clients, ready toggles and the match start, and the ways*)
(* a session ends: a resign burst before the match, the idle reaper, which *)
(* listens to both channels of a client, the kick of a client that waits   *)
(* alone, and the removal of the host.                                     *)
(*                                                                         *)
(* Which clients come to the host is Matchmaking's subject: here selection *)
(* and insertion are one step, Join, that respects the seat contract       *)
(* Matchmaking is shown to keep.                                           *)
(***************************************************************************)
EXTENDS Integers, FiniteSets

CONSTANTS
    Clients,    \* session-port addresses
    Nil,
    MaxTimers   \* bound: teardowns under way at one time (resign timers, a kick)

ASSUME ClientsType == Nil \notin Clients /\ IsFiniteSet(Clients)
ASSUME TimersBound == MaxTimers \in Nat

MaxRealClientsPerHost == 2

VARIABLES
    listed,         \* whether the host is in the pool
    sess,           \* each client's session: "none", "open", "landed" (connIDKnown)
    resigning,      \* sessions whose resignCheckPending is set
    hostIdle,       \* clients whose lastSeen is older than idleTimeout
    pair,           \* endpoints of matchState.pair, {} while nil
    notified,       \* pairRelay.notified
    relayIdle,      \* endpoints silent on the relay for longer than idleTimeout
    relayResigning, \* resignCheckPendingA/B
    ready,          \* matchState.ready: "absent", "yes", "no"
    started,        \* matchState.started
    timers,         \* sessions' resign timers (resignBurstDrain) that are running
    relayTimers,    \* the relay's resign timers that are running
    kicked,         \* the client a lonely kick is posting its clicks for, or Nil
    leaving,        \* sessions deleted whose onSessionRemoved is still to run
    pc, cur, other  \* the session loop

sessVars  == <<listed, sess, resigning, hostIdle>>
relayVars == <<pair, notified, relayIdle, relayResigning>>
readyVars == <<ready, started>>
waitVars  == <<timers, relayTimers, kicked, leaving>>
loopVars  == <<pc, cur, other>>
vars == <<sessVars, relayVars, readyVars, waitVars, loopVars>>

\* No relay, or the endpoints of one.
Relays == {{}} \cup {r \in SUBSET Clients : \E a, b \in r : a # b /\ r = {a, b}}

PairTypeOK ==
    /\ listed \in BOOLEAN
    /\ sess \in [Clients -> {"none", "open", "landed"}]
    /\ pair \in Relays
    /\ notified \subseteq pair /\ relayIdle \subseteq pair /\ relayResigning \subseteq pair
    /\ ready \in [Clients -> {"absent", "yes", "no"}]
    /\ started \in BOOLEAN
    /\ \A s \in {resigning, hostIdle, timers, relayTimers, leaving} : s \subseteq Clients
    /\ pc \in {"idle", "packet", "broadcast", "matched"}
    /\ \A c \in {kicked, cur, other} : c \in Clients \cup {Nil}

Init ==
    /\ listed = TRUE
    /\ sess = [a \in Clients |-> "none"]
    /\ pair = {} /\ notified = {} /\ relayIdle = {} /\ relayResigning = {}
    /\ ready = [a \in Clients |-> "absent"] /\ started = FALSE
    /\ resigning = {} /\ hostIdle = {}
    /\ timers = {} /\ relayTimers = {} /\ kicked = Nil /\ leaving = {}
    /\ pc = "idle" /\ cur = Nil /\ other = Nil

Seated == {a \in Clients : sess[a] # "none"}
TimerFree == kicked = Nil /\ Cardinality(timers) + Cardinality(relayTimers) < MaxTimers

Idle == pc' = "idle" /\ cur' = Nil /\ other' = Nil
At(step, a) == pc' = step /\ cur' = a /\ UNCHANGED other

-----------------------------------------------------------------------------
(* onClientGone                                                             *)

\* Sabotaged: the relay's records outlive it.
CloseConnection == pair' = {} /\ UNCHANGED <<notified, relayIdle, relayResigning>>

CloseRelay == pair' = {} /\ notified' = {} /\ relayIdle' = {} /\ relayResigning' = {}

\* Sabotaged: whoever goes, the relay is closed.
AnyoneGone(a) ==
    /\ ready' = [ready EXCEPT ![a] = "absent"]
    /\ CloseRelay

OnClientGone(a) ==
    /\ ready' = [ready EXCEPT ![a] = "absent"]
    /\ IF a \in pair THEN CloseRelay ELSE UNCHANGED relayVars

\* Deleting sessions from the table; their onSessionRemoved is still to run.
Drop(gone) ==
    /\ sess' = [a \in Clients |-> IF a \in gone THEN "none" ELSE sess[a]]
    /\ resigning' = resigning \ gone
    /\ hostIdle' = hostIdle \ gone
    /\ leaving' = leaving \cup (gone \cap Seated)

-----------------------------------------------------------------------------
(* The session loop: packets of clients                                     *)

\* Sabotaged: the relay does not count towards fullness.
JoinDespiteRelay(a) ==
    /\ pc = "idle" /\ listed /\ sess[a] = "none"
    /\ Cardinality(Seated) < MaxRealClientsPerHost
    /\ sess' = [sess EXCEPT ![a] = "open"]
    /\ At("packet", a)
    /\ UNCHANGED <<listed, resigning, hostIdle, relayVars, readyVars, waitVars>>

\* A client without a session is admitted, if the host is not full.
Join(a) ==
    /\ pc = "idle" /\ listed /\ sess[a] = "none"
    /\ Cardinality(Seated) < MaxRealClientsPerHost /\ pair = {}
    /\ sess' = [sess EXCEPT ![a] = "open"]
    /\ At("packet", a)
    /\ UNCHANGED <<listed, resigning, hostIdle, relayVars, readyVars, waitVars>>

\* forwardToBackend looks the session up under proxy.mu, and goes on without it.
LookUp(a) ==
    /\ pc = "idle" /\ sess[a] # "none"
    /\ At("packet", a)
    /\ UNCHANGED <<sessVars, relayVars, readyVars, waitVars>>

\* ... lastSeen, and a packet rewriteToBackend takes no notice of.
PlainPacket ==
    /\ pc = "packet" /\ Idle
    /\ hostIdle' = hostIdle \ {cur}
    /\ UNCHANGED <<listed, sess, resigning, relayVars, readyVars, waitVars>>

\* A resign burst is acted on before the match, from a client that has landed, once
\* per session.  Of a session deleted meanwhile the flags may have been either.
ResignPacket ==
    /\ pc = "packet" /\ Idle
    /\ ~started /\ sess[cur] # "open" /\ cur \notin resigning /\ TimerFree
    /\ resigning' = resigning \cup ({cur} \cap Seated)
    /\ hostIdle' = hostIdle \ {cur}
    /\ timers' = timers \cup {cur}
    /\ UNCHANGED <<listed, sess, relayVars, readyVars, relayTimers, kicked, leaving>>

\* setReady: exactly the two clients of the map are ready.
Entered(m) == {a \in Clients : m[a] # "absent"}
BothReady(m) == /\ Cardinality(Entered(m)) >= 2
                /\ \A a \in Entered(m) : m[a] = "yes"

\* A ready toggle: setReady, and markStarted when both are.
ReadyPacket(r) ==
    /\ pc = "packet" /\ Idle
    /\ ready' = [ready EXCEPT ![cur] = r]
    /\ started' = (started \/ BothReady(ready'))
    /\ hostIdle' = hostIdle \ {cur}
    /\ UNCHANGED <<listed, sess, resigning, relayVars, waitVars>>

-----------------------------------------------------------------------------
(* The session loop: packets of the host                                    *)

\* relayBackendInitiated, attributed to a: it counts as a's activity, and may carry the
\* conn-ID that marks a as landed.  A peer broadcast that a has not had yet is
\* rewritten (rewriteToClient).
HostPacket(a) ==
    /\ pc = "idle" /\ sess[a] # "none"
    /\ hostIdle' = hostIdle \ {a}
    /\ \E s \in {sess[a], "landed"} : sess' = [sess EXCEPT ![a] = s]
    /\ \/ Idle
       \/ listed /\ (pair = {} \/ a \notin notified) /\ At("broadcast", a)
    /\ UNCHANGED <<listed, resigning, relayVars, readyVars, waitVars>>

\* pollOtherSessionClientAddr: found at once or, this loop being the only one that
\* inserts sessions, never.
FindOther ==
    /\ pc = "broadcast"
    /\ \/ Seated \ {cur} = {} /\ Idle
       \/ \E b \in Seated \ {cur} : other' = b /\ pc' = "matched" /\ UNCHANGED cur
    /\ UNCHANGED <<sessVars, relayVars, readyVars, waitVars>>

\* ensurePairRelay and markNotified.
EnsurePairRelay ==
    /\ pc = "matched" /\ Idle
    /\ IF pair = {}
       THEN pair' = {cur, other} /\ notified' = {cur} /\ relayIdle' = {} /\ relayResigning' = {}
       ELSE notified' = notified \cup {cur} /\ UNCHANGED <<pair, relayIdle, relayResigning>>
    /\ UNCHANGED <<sessVars, readyVars, waitVars>>

-----------------------------------------------------------------------------
(* pairRelay.run                                                            *)

RelayPacket(a) ==
    /\ a \in pair
    /\ relayIdle' = relayIdle \ {a}
    /\ UNCHANGED <<sessVars, pair, notified, relayResigning, readyVars, waitVars, loopVars>>

\* A resign burst over the relay: onResign once per endpoint, a timer before the match.
RelayResign(a) ==
    /\ a \in pair \ relayResigning /\ TimerFree
    /\ relayIdle' = relayIdle \ {a}
    /\ relayResigning' = relayResigning \cup {a}
    /\ relayTimers' = IF started THEN relayTimers ELSE relayTimers \cup {a}
    /\ UNCHANGED <<sessVars, pair, notified, readyVars, timers, kicked, leaving, loopVars>>

-----------------------------------------------------------------------------
(* Departures                                                               *)

\* A session's resign timer: onClientGone, then doCloseSession.
ResignTimer(a) ==
    /\ a \in timers
    /\ timers' = timers \ {a}
    /\ OnClientGone(a) /\ Drop({a})
    /\ UNCHANGED <<listed, started, relayTimers, kicked, loopVars>>

\* The relay's: onClientGone only; the session stays.
RelayResignTimer(a) ==
    /\ a \in relayTimers
    /\ relayTimers' = relayTimers \ {a}
    /\ OnClientGone(a)
    /\ UNCHANGED <<sessVars, started, timers, kicked, leaving, loopVars>>

\* warnAndKickLonelyPlayer's re-check finds a, whom it has warned, alone on the host ...
KickRecheck(a) ==
    /\ TimerFree /\ Seated = {a}
    /\ kicked' = a
    /\ UNCHANGED <<sessVars, relayVars, readyVars, timers, relayTimers, leaving, loopVars>>

\* ... and, once its two clicks are posted, tears a down by address: onClientGone, then
\* doCloseSession.  A POST may hang, and others may come meanwhile.
KickClose ==
    /\ kicked # Nil /\ kicked' = Nil
    /\ OnClientGone(kicked) /\ Drop({kicked})
    /\ UNCHANGED <<listed, started, timers, relayTimers, loopVars>>

\* idleTimeout passes on a channel.  It is far longer than resignBurstDrain and than the
\* handling of a packet: no timer of the session is running and the loop is elsewhere.
HostSilence(a) ==
    /\ sess[a] # "none" /\ a \notin hostIdle \cup timers \cup {cur}
    /\ hostIdle' = hostIdle \cup {a}
    /\ UNCHANGED <<listed, sess, resigning, relayVars, readyVars, waitVars, loopVars>>

RelaySilence(a) ==
    /\ a \in pair \ relayIdle
    /\ relayIdle' = relayIdle \cup {a}
    /\ UNCHANGED <<sessVars, pair, notified, relayResigning, readyVars, waitVars, loopVars>>

\* Sabotaged: only the host's channel counts.
HostChannelIdle(a) == a \in hostIdle

\* reapIdleSessions spares a client its relay has heard from.
BothChannelsIdle(a) == a \in hostIdle /\ (a \in pair => a \in relayIdle)

Reap(a) ==
    /\ sess[a] # "none" /\ BothChannelsIdle(a)
    /\ Drop({a})
    /\ UNCHANGED <<listed, relayVars, readyVars, timers, relayTimers, kicked, loopVars>>

\* Sabotaged: the callback is not wired to the match.
SessionRemovedUnheard(a) ==
    /\ a \in leaving
    /\ leaving' = leaving \ {a}
    /\ UNCHANGED <<sessVars, relayVars, readyVars, timers, relayTimers, kicked, loopVars>>

\* onSessionRemoved.
SessionRemoved(a) ==
    /\ a \in leaving
    /\ leaving' = leaving \ {a}
    /\ OnClientGone(a)
    /\ UNCHANGED <<sessVars, started, timers, relayTimers, kicked, loopVars>>

\* removeHost: teardownForRemovedHost, then closeSessionsForHost.
RemoveHost ==
    /\ listed /\ listed' = FALSE
    /\ CloseRelay
    /\ ready' = [a \in Clients |-> "absent"]
    /\ Drop(Clients)
    /\ UNCHANGED <<started, timers, relayTimers, kicked, loopVars>>

-----------------------------------------------------------------------------
SessionLoop ==
    \/ \E a \in Clients : Join(a) \/ LookUp(a) \/ HostPacket(a)
    \/ PlainPacket \/ ResignPacket
    \/ \E r \in {"yes", "no"} : ReadyPacket(r)
    \/ FindOther \/ EnsurePairRelay

Next ==
    \/ SessionLoop
    \/ \E a \in Clients :
          \/ RelayPacket(a) \/ RelayResign(a)
          \/ ResignTimer(a) \/ RelayResignTimer(a) \/ SessionRemoved(a)
          \/ HostSilence(a) \/ RelaySilence(a) \/ Reap(a)
          \/ KickRecheck(a)
    \/ KickClose
    \/ RemoveHost

\* The goroutines that notice departures are scheduled: the reaper's ticker, the
\* callback after it, and the timers.  A kick may hang in its POSTs.
Fairness == \A a \in Clients : /\ WF_vars(Reap(a)) /\ WF_vars(SessionRemoved(a))
                               /\ WF_vars(ResignTimer(a)) /\ WF_vars(RelayResignTimer(a))

Spec == Init /\ [][Next]_vars
FairSpec == Spec /\ Fairness

-----------------------------------------------------------------------------
(* Properties                                                               *)

\* A client whose broadcast is rewritten is pointed at a relay that serves exactly it
\* and the peer that was found for it, although departures and other clients' packets
\* come between (ensurePairRelay returns an existing relay without looking at its
\* endpoints).
PeersShareTheirRelay ==
    pc = "matched" /\ pair # {} => pair = {cur, other}

\* Both clients of a relay are there, and nothing under way is about either of them.
Settled == /\ pair # {} /\ pair \subseteq Seated
           /\ pair \cap (timers \cup relayTimers \cup {kicked} \cup leaving) = {}

\* Two clients that have been paired, and have not resigned since, are left to each other:
\* whoever was on the host before them, what is still to come of it - timers, the
\* reaper's callback, a kick that takes long, a broadcast in hand - neither closes nor
\* replaces their relay, ends a session of theirs or lets a third one in.  Only the end
\* of the host parts them, or silence of one of them on both of its channels (the
\* regression reapIdleSessions documents: a client busy on its relay was reaped for its
\* silence towards the host).
SettledPairsStay ==
    [][Settled /\ listed' = listed =>
          /\ pair' = pair /\ Seated' \subseteq pair
          /\ \A a \in pair \ Seated' : a \in hostIdle \cap relayIdle]_vars

\* Freeing a host back up when a client leaves: a paired client either goes on talking,
\* on one of its channels, or the relay that keeps its host full is closed.
SilenceFreesTheHost ==
    \A a \in Clients :
       a \in pair /\ sess[a] # "none" ~>
          a \notin pair \/ (sess[a] # "none" /\ ~BothChannelsIdle(a))

\* A match is started only when "both real clients are now ready" (setReady): each of
\* the clients counted has a session, or is just being removed.
StartsWithBothPresent ==
    [][~started /\ started' =>
          \A a \in Entered(ready') : sess[a] # "none" \/ a \in leaving]_vars
=============================================================================
