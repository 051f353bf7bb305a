------------------------- MODULE LonelySweepProofs -------------------------
(***************************************************************************)
(* Proofs about LonelySweep, for every number of hosts and clients.        *)
(*                                                                         *)
(* The argument.  A matchmaking step of the composition is a step of       *)
(* Matchmaking and keeps its invariant.  Of the sweep's own steps, only    *)
(* the last two of a kick touch matchmaking's state, and they only delete: *)
(* a session, a relay and an assignment.  The sweep's flags are a matter   *)
(* of their own: a host of the pool is taken only while another is left.   *)
(*                                                                         *)
(* Since a step of the sweep either is matchmaking's or only deletes, what *)
(* is proved of Matchmaking carries over: its seat contract (deleting is   *)
(* leaving), its claims, and what is left on matched and on removed hosts. *)
(***************************************************************************)
EXTENDS LonelySweep, MatchmakingProofs

\* The inductive invariant: matchmaking's, and the kick's bookkeeping.
KickTypeOK ==
    /\ kick \in [Hosts -> {"none", "started", "warned", "clicking", "closed"}]
    /\ victim \in [Hosts -> Addrs \cup {Nil}]
    /\ \A h \in Hosts : victim[h] = Nil <=> kick[h] \in {"none", "started"}

LonelyInv == Inv /\ KickTypeOK

-----------------------------------------------------------------------------
(* Matchmaking's invariant under the sweep                                  *)

\* What matchmaking does here, it does in Matchmaking too.
LEMMA MatchmakeIsNext == Matchmake => Next
BY DEF Matchmake, Next, SessionLoop, Departure, PodLister

\* The teardown of a kick deletes at most the victim's session, wherever it is, and the
\* relay of the host.
LEMMA CloseKeepsInv ==
    ASSUME Inv, KickTypeOK, NEW h \in Hosts, CloseKicked(h)
    PROVE  Inv'
<1>0. TypeOK /\ AssignedIsListed
  BY DEF Inv
<1>1. victim[h] \in Addrs
  BY DEF KickTypeOK, CloseKicked
<1>2. /\ \A a \in Addrs : sess'[a] \in {sess[a], Nil}
      /\ \A g \in Hosts : pair'[g] \subseteq pair[g]
  BY <1>0, <1>1 DEF TypeOK, CloseKicked, CloseSessionOf, PairWithout
<1>3. LoopInv' /\ AtMostTwoPerHost'
  BY <1>2, LoopFrame DEF CloseKicked
<1>4. AssignedIsListed'
  BY <1>0 DEF AssignedIsListed, Listed, CloseKicked
<1>5. TypeOK'
  <2>1. pair' \in [Hosts -> Relays]
    BY <1>0, RelayCloses DEF TypeOK, CloseKicked, CloseSessionOf
  <2>2. sess' \in [Addrs -> Hosts \cup {Nil}] /\ leaving' \in SUBSET (Addrs \X Hosts)
    BY <1>0, <1>1 DEF TypeOK, CloseKicked, CloseSessionOf
  <2>. QED
    BY <1>0, <2>1, <2>2 DEF TypeOK, CloseKicked, claimVars, loopVars
<1>. QED
  BY <1>3, <1>4, <1>5 DEF Inv

\* Forgetting an assignment leaves the others as they are.
LEMMA ClearKeepsInv ==
    ASSUME Inv, KickTypeOK, NEW h \in Hosts, ClearAssignment(h)
    PROVE  Inv'
<1>0. TypeOK /\ AssignedIsListed
  BY DEF Inv
<1>1. LoopInv' /\ AtMostTwoPerHost'
  BY LoopFrame DEF ClearAssignment
<1>2. IpOf[victim[h]] \in IPs
  BY IpOfType DEF KickTypeOK, ClearAssignment
<1>3. assigned' \in [IPs -> Hosts \cup {Nil}] /\ AssignedIsListed'
  BY <1>0, <1>2 DEF TypeOK, AssignedIsListed, Listed, ClearAssignment
<1>4. TypeOK'
  BY <1>0, <1>3 DEF TypeOK, ClearAssignment, claimVars, loopVars
<1>. QED
  BY <1>1, <1>3, <1>4 DEF Inv

LEMMA LonelyKeepsInv == LonelyInv /\ [LonelyNext]_allVars => Inv'
<1>. SUFFICES ASSUME LonelyInv, [LonelyNext]_allVars PROVE Inv'
  OBVIOUS
<1>0. Inv /\ KickTypeOK
  BY DEF LonelyInv
<1>1. Inv /\ [Next]_vars => Inv'
  BY TypeStep, CapacityStep, AssignedStep DEF Inv
<1>2. CASE Matchmake
  BY <1>0, <1>1, <1>2, MatchmakeIsNext
<1>3. ASSUME NEW h \in Hosts, Sweep(h) \/ Warn(h) \/ Recheck(h) PROVE Inv'
  BY <1>0, <1>1, <1>3 DEF Sweep, Warn, Recheck
<1>4. ASSUME NEW h \in Hosts, CloseKicked(h) PROVE Inv'
  BY <1>0, <1>4, CloseKeepsInv
<1>5. ASSUME NEW h \in Hosts, ClearAssignment(h) PROVE Inv'
  BY <1>0, <1>5, ClearKeepsInv
<1>6. CASE UNCHANGED allVars
  BY <1>0, <1>1, <1>6 DEF allVars
<1>. QED
  BY <1>2, <1>3, <1>4, <1>5, <1>6 DEF LonelyNext, OwnStep

-----------------------------------------------------------------------------
(* The sweep's own state                                                    *)

LEMMA LonelyInitInv == LonelyInit => LonelyInv
<1>. SUFFICES ASSUME LonelyInit PROVE LonelyInv
  OBVIOUS
<1>1. TypeOK
  <2>1. 0 \in 0..AgeCap
    BY Times
  <2>. QED
    BY <2>1 DEF LonelyInit, StartWith, TypeOK, Relays
<1>2. LoopInv /\ AssignedIsListed
  BY DEF LonelyInit, StartWith, LoopInv, AssignedIsListed
<1>3. \A h \in Hosts : SessionsOn(h) = {}
  BY DistinctNil DEF LonelyInit, StartWith, SessionsOn
<1>4. AtMostTwoPerHost
  BY <1>3, FS_EmptySet DEF AtMostTwoPerHost, MaxRealClientsPerHost
<1>5. KickTypeOK
  BY DEF LonelyInit, KickTypeOK
<1>. QED
  BY <1>1, <1>2, <1>4, <1>5 DEF Inv, LonelyInv

LEMMA KickTypeStep == LonelyInv /\ [LonelyNext]_allVars => KickTypeOK'
<1>. SUFFICES ASSUME LonelyInv, [LonelyNext]_allVars PROVE KickTypeOK'
  OBVIOUS
<1>0. KickTypeOK
  BY DEF LonelyInv
<1>1. ASSUME UNCHANGED lonelyVars PROVE KickTypeOK'
  BY <1>0, <1>1 DEF KickTypeOK, lonelyVars
<1>2. ASSUME NEW h \in Hosts, Finish(h) PROVE KickTypeOK'
  BY <1>0, <1>2 DEF Finish, KickTypeOK
<1>3. ASSUME NEW h \in Hosts, Sweep(h) PROVE KickTypeOK'
  BY <1>0, <1>3 DEF Sweep, Lonely, KickTypeOK
<1>4. ASSUME NEW h \in Hosts, Warn(h) PROVE KickTypeOK'
  <2>1. ASSUME NEW a \in SessionsOn(h), kick' = [kick EXCEPT ![h] = "warned"],
               victim' = [victim EXCEPT ![h] = a]
        PROVE  KickTypeOK'
    <3>1. a \in Addrs /\ a # Nil
      BY DistinctNil DEF SessionsOn
    <3>. QED
      BY <1>0, <2>1, <3>1 DEF KickTypeOK
  <2>. QED
    BY <1>2, <1>4, <2>1 DEF Warn
<1>5. ASSUME NEW h \in Hosts, Recheck(h) PROVE KickTypeOK'
  BY <1>0, <1>2, <1>5 DEF Recheck, KickTypeOK
<1>6. ASSUME NEW h \in Hosts, CloseKicked(h) PROVE KickTypeOK'
  BY <1>0, <1>6 DEF CloseKicked, KickTypeOK
<1>7. ASSUME NEW h \in Hosts, ClearAssignment(h) PROVE KickTypeOK'
  BY <1>2, <1>7 DEF ClearAssignment
<1>. QED
  BY <1>1, <1>3, <1>4, <1>5, <1>6, <1>7 DEF LonelyNext, OwnStep, allVars, lonelyVars

\* A sweep that takes one lonely host of the pool leaves another; every other step of the
\* sweep can only end a kick or go on with it; and matchmaking touches no kick.
LEMMA SparedStep ==
    LonelyInv /\ [LonelyNext]_allVars =>
        (Spared # {} /\ Spared' = {} => \E h \in Spared : ~Listed(h)')
<1>. SUFFICES ASSUME LonelyInv, [LonelyNext]_allVars, NEW g \in Spared,
                     \A h \in Spared : Listed(h)'
              PROVE  Spared' # {}
  OBVIOUS
<1>0. KickTypeOK /\ g \in Hosts /\ Listed(g)' /\ kick[g] = "none"
  BY DEF LonelyInv, Spared
<1>1. ASSUME NEW h \in Hosts, Sweep(h) PROVE Spared' # {}
  <2>1. PICK spare \in Lonely : spare # h
    <3>1. Cardinality({}) = 0 /\ Cardinality({h}) = 1
      BY FS_EmptySet, FS_Singleton
    <3>2. Cardinality(Lonely) >= 2
      BY <1>1 DEF Sweep
    <3>3. Lonely # {} /\ Lonely # {h}
      BY <3>1, <3>2
    <3>. QED
      BY <3>3
  <2>2. spare \in Hosts /\ Listed(spare)' /\ kick'[spare] = "none"
    BY <1>0, <1>1, <2>1 DEF Sweep, Lonely, Listed, KickTypeOK, vars
  <2>. QED
    BY <2>2 DEF Spared
<1>2. ASSUME NEW h \in Hosts, kick[h] # "none", NEW k, kick' = [kick EXCEPT ![h] = k]
      PROVE  Spared' # {}
  BY <1>0, <1>2 DEF Spared, KickTypeOK
<1>3. ASSUME kick' = kick PROVE Spared' # {}
  BY <1>0, <1>3 DEF Spared
<1>4. ASSUME NEW h \in Hosts, OwnStep(h) \/ CloseKicked(h) PROVE Spared' # {}
  BY <1>2, <1>4 DEF OwnStep, Warn, Recheck, ClearAssignment, CloseKicked, Finish
<1>. QED
  BY <1>1, <1>3, <1>4 DEF LonelyNext, allVars, lonelyVars

-----------------------------------------------------------------------------
(* The theorems                                                             *)

\* The invariant holds of every reachable state.
THEOREM LonelyInvariance == LonelySpec => []LonelyInv
<1>1. LonelyInv /\ [LonelyNext]_allVars => LonelyInv'
  BY LonelyKeepsInv, KickTypeStep DEF LonelyInv
<1>. QED
  BY <1>1, LonelyInitInv, PTL DEF LonelySpec

\* Every variable keeps its type, and a kick has a victim exactly from its warning to its
\* end: warnAndKickLonelyPlayer never goes on without the session it looked up.
THEOREM LonelyTypeCorrect == LonelySpec => []LonelyTypeOK
<1>1. LonelyInv => LonelyTypeOK
  BY DEF LonelyInv, Inv, KickTypeOK, LonelyTypeOK
<1>. QED
  BY <1>1, LonelyInvariance, PTL

\* However many hosts are lonely, however the sweep's ticks fall and whatever pods go,
\* only the end of a pod leaves every host of the pool being emptied.
THEOREM SweepSpares == LonelySpec => SweepSparesAHost
<1>1. LonelyInv /\ [LonelyNext]_allVars =>
         [Spared # {} /\ Spared' = {} => \E h \in Spared : ~Listed(h)']_allVars
  BY SparedStep
<1>. QED
  BY <1>1, LonelyInvariance, PTL DEF LonelySpec, SweepSparesAHost

\* Kicks do not disturb matchmaking: still at most two sessions per host, and no
\* assignment to a removed pod.
THEOREM CapacityUnderKicks == LonelySpec => [](AtMostTwoPerHost /\ AssignedIsListed)
<1>1. LonelyInv => AtMostTwoPerHost /\ AssignedIsListed
  BY DEF LonelyInv, Inv
<1>. QED
  BY <1>1, LonelyInvariance, PTL

-----------------------------------------------------------------------------
(* Who is on a host, and its seats, under the sweep                         *)

\* A kick's teardown, like every departure, only deletes: at most a session and a relay.
LEMMA CloseOnlyDeletes ==
    ASSUME Inv, KickTypeOK, NEW h \in Hosts, CloseKicked(h)
    PROVE  /\ \A a \in Addrs : sess'[a] \in {sess[a], Nil}
           /\ \A g \in Hosts : pair'[g] \in {pair[g], {}}
           /\ UNCHANGED <<phase, firstClient, loopVars>>
BY DEF Inv, TypeOK, KickTypeOK, CloseKicked, CloseSessionOf, PairWithout, claimVars

\* The steps of the composition: one of matchmaking's, or one that at most deletes.
LEMMA LonelySteps ==
    ASSUME LonelyInv, [LonelyNext]_allVars
    PROVE  \/ [Next]_vars
           \/ /\ \A a \in Addrs : sess'[a] \in {sess[a], Nil}
              /\ \A g \in Hosts : pair'[g] \in {pair[g], {}}
              /\ UNCHANGED <<phase, firstClient, loopVars>>
<1>0. Inv /\ KickTypeOK
  BY DEF LonelyInv
<1>1. CASE Matchmake
  BY <1>1, MatchmakeIsNext
<1>2. ASSUME NEW h \in Hosts, Sweep(h) \/ Warn(h) \/ Recheck(h) PROVE [Next]_vars
  BY <1>2 DEF Sweep, Warn, Recheck
<1>3. ASSUME NEW h \in Hosts, CloseKicked(h)
      PROVE  /\ \A a \in Addrs : sess'[a] \in {sess[a], Nil}
             /\ \A g \in Hosts : pair'[g] \in {pair[g], {}}
             /\ UNCHANGED <<phase, firstClient, loopVars>>
  BY <1>0, <1>3, CloseOnlyDeletes
<1>4. ASSUME NEW h \in Hosts, ClearAssignment(h)
      PROVE  UNCHANGED <<phase, firstClient, sess, pair, loopVars>>
  BY <1>4 DEF ClearAssignment, claimVars
<1>5. CASE UNCHANGED allVars
  BY <1>5 DEF allVars
<1>. QED
  BY <1>1, <1>2, <1>3, <1>4, <1>5 DEF LonelyNext, OwnStep

LEMMA LonelyOccupancyInit == LonelyInit => Occupancy
<1>. SUFFICES ASSUME LonelyInit PROVE Occupancy
  OBVIOUS
<1>1. pc = "idle" /\ \A h \in Hosts : SessionsOn(h) = {} /\ pair[h] = {}
  BY DistinctNil DEF LonelyInit, StartWith, SessionsOn
<1>. QED
  BY <1>1, OneOrNone
  DEF Occupancy, Company, LeftBehind, StrangersStayOut, AtMostOneLeftBehind

\* Also while kicks are under way, a matched host is closed to strangers, and a removed
\* one keeps at most one session or relay.
THEOREM OccupancyUnderKicks == LonelySpec => [](StrangersStayOut /\ AtMostOneLeftBehind)
<1>1. LonelyInv /\ Occupancy /\ [LonelyNext]_allVars => Occupancy'
  <2>. SUFFICES ASSUME LonelyInv, Occupancy, [LonelyNext]_allVars PROVE Occupancy'
    OBVIOUS
  <2>1. Inv
    BY DEF LonelyInv
  <2>2. CASE [Next]_vars
    BY <2>1, <2>2, CompanyStep, LeftBehindStep DEF Occupancy
  <2>3. CASE /\ \A a \in Addrs : sess'[a] \in {sess[a], Nil}
             /\ \A g \in Hosts : pair'[g] \in {pair[g], {}}
             /\ UNCHANGED <<phase, firstClient, loopVars>>
    BY <2>1, <2>3, CompanyFrame, LeftBehindFrame DEF Occupancy
  <2>. QED
    BY <2>2, <2>3, LonelySteps
<1>2. Occupancy => StrangersStayOut /\ AtMostOneLeftBehind
  BY DEF Occupancy, Company, LeftBehind
<1>. QED
  BY <1>1, <1>2, LonelyOccupancyInit, LonelyInvariance, PTL DEF LonelySpec

\* The composition still implements HostSeats: a kick takes seats, it gives none.
THEOREM SeatContractUnderKicks == LonelySpec => KeepsSeatContract
<1>1. LonelyInit => Seats!Init
  <2>. SUFFICES ASSUME LonelyInit PROVE Seats!Init
    OBVIOUS
  <2>1. \A h \in Hosts : SessionsOn(h) = {} /\ pair[h] = {}
    BY DistinctNil DEF LonelyInit, StartWith, SessionsOn
  <2>. QED
    BY <2>1 DEF Seats!Init
<1>2. LonelyInv /\ [LonelyNext]_allVars => [Seats!Next]_(Seats!seatVars)
  <2>. SUFFICES ASSUME LonelyInv, [LonelyNext]_allVars PROVE [Seats!Next]_(Seats!seatVars)
    OBVIOUS
  <2>1. Inv /\ Inv'
    BY LonelyKeepsInv DEF LonelyInv
  <2>2. CASE [Next]_vars
    BY <2>1, <2>2, SeatStep
  <2>3. CASE /\ \A a \in Addrs : sess'[a] \in {sess[a], Nil}
             /\ \A g \in Hosts : pair'[g] \in {pair[g], {}}
             /\ UNCHANGED <<phase, firstClient, loopVars>>
    <3>1. Seats!Vacate
      BY <2>1, <2>3, ClientsLeave DEF Inv
    <3>. QED
      BY <3>1 DEF Seats!Next
  <2>. QED
    BY <2>2, <2>3, LonelySteps
<1>. QED
  BY <1>1, <1>2, LonelyInvariance, PTL DEF LonelySpec, KeepsSeatContract, Seats!Spec

\* Nor does the sweep touch a claim: it passes to another client only once its cushion has
\* run out and nobody has a session there.
THEOREM ClaimsStandUnderKicks == LonelySpec => ClaimStands
<1>. DEFINE Stands(h) == firstClient'[h] # firstClient[h] /\ firstClient[h] # Nil =>
                            joinedAge[h] >= JoinCushion /\ SessionsOn(h) = {}
<1>1. LonelyInv /\ [LonelyNext]_allVars => [\A h \in Hosts : Stands(h)]_vars
  <2>. SUFFICES ASSUME LonelyInv, [LonelyNext]_allVars PROVE \A h \in Hosts : Stands(h)
    OBVIOUS
  <2>1. Inv
    BY DEF LonelyInv
  <2>2. CASE [Next]_vars
    BY <2>1, <2>2, ClaimStep
  <2>3. CASE firstClient' = firstClient
    BY <2>3
  <2>. QED
    BY <2>2, <2>3, LonelySteps
<1>. QED
  BY <1>1, LonelyInvariance, PTL DEF LonelySpec, ClaimStands
=============================================================================
