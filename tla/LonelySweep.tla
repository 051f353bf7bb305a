---------------------------- MODULE LonelySweep ----------------------------
(***************************************************************************)
(* The lonely-player sweep of aom-lobby (sweepLonelyHosts and              *)
(* warnAndKickLonelyPlayer in lobby/main.go) running against matchmaking:  *)
(* when two hosts have each had a single client for a minute, the client   *)
(* of the younger one is warned, and kicked fifteen seconds later.         *)
(*                                                                         *)
(* The pool starts with every host listed.  Pair relays, CD-key echoes and *)
(* resign timers play no part in the sweep and are left to Matchmaking.    *)
(***************************************************************************)
EXTENDS Matchmaking

CONSTANT LonelyThreshold  \* lonelyPlayerWaitThreshold, in ticks

ASSUME LonelyTime == LonelyThreshold \in Nat /\ LonelyThreshold <= AgeCap

VARIABLES
    kick,    \* where warnAndKickLonelyPlayer is for the host; "none": not in progress
    victim   \* the client it warned

lonelyVars == <<kick, victim>>
allVars    == <<vars, lonelyVars>>

LonelyTypeOK ==
    /\ TypeOK
    /\ kick \in [Hosts -> {"none", "started", "warned", "clicking", "closed"}]
    /\ victim \in [Hosts -> Addrs \cup {Nil}]
    /\ \A h \in Hosts : victim[h] = Nil <=> kick[h] \in {"none", "started"}

LonelyInit ==
    /\ StartWith(Hosts)
    /\ kick = [h \in Hosts |-> "none"]
    /\ victim = [h \in Hosts |-> Nil]

-----------------------------------------------------------------------------
(* sweepLonelyHosts                                                         *)

Sole(h) == Cardinality(SessionsOn(h)) = 1

Lonely == {h \in Hosts : /\ Listed(h)
                         /\ kick[h] = "none"
                         /\ firstClient[h] # Nil /\ joinedAge[h] >= LonelyThreshold
                         /\ Sole(h)}

\* Sabotaged: one lonely host is enough.
SweepAny(h) ==
    /\ h \in Lonely /\ \A g \in Lonely : joinedAge[h] <= joinedAge[g]
    /\ kick' = [kick EXCEPT ![h] = "started"]
    /\ UNCHANGED <<vars, victim>>

\* One tick of the sweep that finds two lonely hosts: the youngest is taken.
Sweep(h) ==
    /\ Cardinality(Lonely) >= 2
    /\ h \in Lonely /\ \A g \in Lonely : joinedAge[h] <= joinedAge[g]
    /\ kick' = [kick EXCEPT ![h] = "started"]
    /\ UNCHANGED <<vars, victim>>

-----------------------------------------------------------------------------
(* warnAndKickLonelyPlayer                                                  *)

\* The deferred reset of lonelyKickInProgress.
Finish(h) == /\ kick' = [kick EXCEPT ![h] = "none"]
             /\ victim' = [victim EXCEPT ![h] = Nil]

\* Sabotaged: the result of singleSessionForHost is used unchecked.
WarnUnchecked(h) ==
    /\ kick[h] = "started"
    /\ kick' = [kick EXCEPT ![h] = "warned"]
    /\ \E a \in IF Sole(h) THEN SessionsOn(h) ELSE {Nil} : victim' = [victim EXCEPT ![h] = a]
    /\ UNCHANGED vars

\* singleSessionForHost, then the chat warning.  It gives up unless there is exactly
\* one session, whose connID is known, and the write succeeds (both chosen here).
Warn(h) ==
    /\ kick[h] = "started"
    /\ \/ /\ Sole(h)
          /\ kick' = [kick EXCEPT ![h] = "warned"]
          /\ \E a \in SessionsOn(h) : victim' = [victim EXCEPT ![h] = a]
       \/ Finish(h)
    /\ UNCHANGED vars

\* Sabotaged: an early return that forgets lonelyKickInProgress.
RecheckOnly(h) ==
    /\ kick[h] = "warned" /\ SessionsOn(h) = {victim[h]}
    /\ kick' = [kick EXCEPT ![h] = "clicking"]
    /\ UNCHANGED <<vars, victim>>

\* After lonelyKickWarning: is the warned client still the only one?
Recheck(h) ==
    /\ kick[h] = "warned"
    /\ IF SessionsOn(h) = {victim[h]}
       THEN kick' = [kick EXCEPT ![h] = "clicking"] /\ UNCHANGED victim
       ELSE Finish(h)
    /\ UNCHANGED vars

\* Both clicks have been posted (or failed): the session is torn down, by its address.
CloseKicked(h) ==
    /\ kick[h] = "clicking"
    /\ kick' = [kick EXCEPT ![h] = "closed"]
    /\ CloseSessionOf(victim[h], h)
    /\ UNCHANGED <<phase, assigned, claimVars, resigns, loopVars, victim>>

\* clearAssignment.
ClearAssignment(h) ==
    /\ kick[h] = "closed"
    /\ assigned' = [assigned EXCEPT ![IpOf[victim[h]]] = Nil]
    /\ Finish(h)
    /\ UNCHANGED <<phase, claimVars, sess, resigns, leaving, pair, loopVars>>

\* The steps of the goroutine that wait for nothing but a timer or a lock.
OwnStep(h) == Warn(h) \/ Recheck(h) \/ ClearAssignment(h)

-----------------------------------------------------------------------------
Matchmake ==
    \/ \E ip \in IPs : DiscoveryQuery(ip)
    \/ \E a \in Addrs : SelectHost(a) \/ ReapSession(a)
    \/ \E a \in Addrs, h \in Hosts : OnSessionRemoved(a, h)
    \/ CheckCushion
    \/ InsertSession(FALSE)
    \/ \E h \in Hosts : RemoveHost(h)
    \/ Tick

LonelyNext ==
    \/ Matchmake /\ UNCHANGED lonelyVars
    \/ \E h \in Hosts : Sweep(h) \/ OwnStep(h) \/ CloseKicked(h)

\* A kick goroutine is scheduled.  Nothing makes its two POSTs return: http.Post has
\* no timeout, so CloseKicked may never come.
LonelySpec ==
    /\ LonelyInit /\ [][LonelyNext]_allVars
    /\ \A h \in Hosts : WF_allVars(OwnStep(h))

-----------------------------------------------------------------------------
(* Properties                                                               *)

\* The hosts of the pool that are not being emptied: where a kicked client can go.
Spared == {h \in Hosts : Listed(h) /\ kick[h] = "none"}

\* The sweep always leaves a host of the pool for the kicked clients to go to, however
\* many kicks are still waiting: that no host is spared any more can only come from
\* the pod of the last spared one going away, never from a sweep or a kick (the "two
\* lonely hosts, neither of them in progress" condition).
SweepSparesAHost ==
    [][Spared # {} /\ Spared' = {} => \E h \in Spared : ~Listed(h)']_allVars

\* lonelyKickInProgress is always cleared again, kicked or not, so that the host can be
\* swept once more - unless a click's POST hangs.
KickFinishes == \A h \in Hosts : kick[h] # "none" ~> kick[h] \in {"none", "clicking"}

\* doCloseSession is "a harmless no-op" on "an already-gone session": the kick leaves
\* every other host's sessions alone.
KickIsLocal ==
    [][\A h \in Hosts : kick[h] = "clicking" /\ kick'[h] = "closed" =>
          \A g \in Hosts \ {h} : SessionsOn(g)' = SessionsOn(g)]_allVars
=============================================================================
