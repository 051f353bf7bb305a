--------------------------- MODULE PodWatchProofs ---------------------------
(***************************************************************************)
(* Proofs about PodWatch, for every set of pods, threshold and number of   *)
(* rotations.  The argument: a pod that has hosted through one poll was in *)
(* the list of the cycle that follows, is probed while it hosts, and is    *)
(* "open" when that cycle ends; only a cycle without a list, or a pod that *)
(* stops hosting, breaks this.  For the pool of aom-lobby: a list that is  *)
(* in hand is old, but pods do not come back, so that a host it lacks is   *)
(* gone by the time it is removed.                                         *)
(***************************************************************************)
EXTENDS PodWatch, TLAPS

\* What a poll has counted still hosts.
HostedStillHosts == \A n \in Pods : hostedFor[n] > 0 => n \in hosting

\* In a cycle, such a pod is listed, and probed with success or to be probed.
ListedAndProbed ==
    probing => \A n \in Pods : hostedFor[n] > 0 =>
                  n \in present /\ (n \in todo \/ registry[n] = "open")

\* No "closed" result for a pod that has hosted for several polls.
NotThoughtClosed ==
    ~listFailed => \A n \in Pods : hostedFor[n] = Several => registry[n] # "closed"

PodsInv == WatchTypeOK /\ HostedStillHosts /\ ListedAndProbed /\ NotThoughtClosed

LEMMA PodsInit == Init => PodsInv
<1> SUFFICES ASSUME Init PROVE PodsInv
  OBVIOUS
<1>1. fails \in [Pods -> 0..(FailureThreshold - 1)] /\ hostedFor \in [Pods -> 0..Several]
  BY Threshold DEF Init, Several
<1>2. token \in 0..MaxRotations /\ oldest \in 0..token /\ agentToken \in 0..token
  BY Rotations DEF Init
<1>3. WatchTypeOK
  BY <1>1, <1>2 DEF Init, WatchTypeOK, Running
<1>4. HostedStillHosts /\ ListedAndProbed /\ NotThoughtClosed
  BY DEF Init, HostedStillHosts, ListedAndProbed, NotThoughtClosed, Several
<1>5. QED BY <1>3, <1>4 DEF PodsInv

-----------------------------------------------------------------------------
(* The cluster                                                              *)

LEMMA OffKeeps ==
  ASSUME PodsInv, NEW n \in Pods, Off(n),
         UNCHANGED <<registry, probing, present, todo, listFailed>>
  PROVE  /\ hostedFor' \in [Pods -> 0..Several] /\ hosting' = hosting \ {n}
         /\ HostedStillHosts' /\ ListedAndProbed' /\ NotThoughtClosed'
<1>1. /\ hostedFor' \in [Pods -> 0..Several] /\ hosting' = hosting \ {n}
      /\ hostedFor'[n] = 0 /\ \A m \in Pods \ {n} : hostedFor'[m] = hostedFor[m]
  BY DEF PodsInv, WatchTypeOK, Off, Several
<1>2. QED
  BY <1>1 DEF PodsInv, HostedStillHosts, ListedAndProbed, NotThoughtClosed, Several

LEMMA ClusterKeepsInv ==
  ASSUME PodsInv, NEW n \in Pods,
         PodRuns(n) \/ PodGoes(n) \/ StartsHosting(n) \/ StopsHosting(n)
  PROVE  PodsInv'
<1>1. CASE PodRuns(n)
  BY <1>1, Threshold DEF PodRuns, PodsInv, WatchTypeOK, HostedStillHosts, ListedAndProbed,
     NotThoughtClosed, Running, apiVars, agentVars, cycleVars, lobbyVars
<1>2. CASE PodGoes(n)
  <2>1. /\ hostedFor' \in [Pods -> 0..Several] /\ hosting' = hosting \ {n}
        /\ HostedStillHosts' /\ ListedAndProbed' /\ NotThoughtClosed'
    BY <1>2, OffKeeps DEF PodGoes
  <2>2. Running' = Running \ {n}
    BY <1>2 DEF PodGoes, PodsInv, WatchTypeOK, Running
  <2>3. /\ phase' \in [Pods -> {"pending", "running", "gone"}]
        /\ fails' \in [Pods -> 0..(FailureThreshold - 1)]
    BY <1>2, Threshold DEF PodGoes, PodsInv, WatchTypeOK
  <2>4. hosting' \subseteq Running' /\ delayed' \subseteq Running' /\ due' \subseteq Pods
    BY <1>2, <2>1, <2>2 DEF PodGoes, PodsInv, WatchTypeOK
  <2>5. WatchTypeOK'
    BY <1>2, <2>1, <2>3, <2>4 DEF PodGoes, PodsInv, WatchTypeOK, apiVars, lobbyVars
  <2>6. QED BY <2>1, <2>5 DEF PodsInv
<1>3. CASE StartsHosting(n)
  BY <1>3 DEF StartsHosting, PodsInv, WatchTypeOK, HostedStillHosts, ListedAndProbed,
     NotThoughtClosed, Running, apiVars, agentVars, cycleVars, lobbyVars
<1>4. CASE StopsHosting(n)
  <2>1. /\ hostedFor' \in [Pods -> 0..Several] /\ hosting' = hosting \ {n}
        /\ HostedStillHosts' /\ ListedAndProbed' /\ NotThoughtClosed'
    BY <1>4, OffKeeps DEF StopsHosting
  <2>2. WatchTypeOK'
    BY <1>4, <2>1 DEF StopsHosting, PodsInv, WatchTypeOK, Running, apiVars, lobbyVars
  <2>3. QED BY <2>1, <2>2 DEF PodsInv
<1>5. QED BY <1>1, <1>2, <1>3, <1>4

LEMMA KubeletKeepsInv ==
  ASSUME PodsInv, NEW n \in Pods,
         DelayEnds(n) \/ CheckPasses(n) \/ CheckFails(n) \/ Restart(n)
  PROVE  PodsInv'
<1>1. CASE DelayEnds(n)
  BY <1>1 DEF DelayEnds, Timely, PodsInv, WatchTypeOK, HostedStillHosts, ListedAndProbed,
     NotThoughtClosed, Running, apiVars, agentVars, cycleVars, lobbyVars
<1>2. CASE CheckPasses(n)
  BY <1>2, Threshold DEF CheckPasses, Checked, Timely, PodsInv, WatchTypeOK,
     HostedStillHosts, ListedAndProbed, NotThoughtClosed, Running, apiVars, agentVars,
     cycleVars, lobbyVars
<1>3. CASE CheckFails(n)
  <2>1. fails' \in [Pods -> 0..(FailureThreshold - 1)]
    BY <1>3, Threshold DEF CheckFails, PodsInv, WatchTypeOK
  <2>2. QED
    BY <1>3, <2>1 DEF CheckFails, Checked, Timely, PodsInv, WatchTypeOK, HostedStillHosts,
       ListedAndProbed, NotThoughtClosed, Running, apiVars, agentVars, cycleVars, lobbyVars
<1>4. CASE Restart(n)
  <2>1. /\ hostedFor' \in [Pods -> 0..Several] /\ hosting' = hosting \ {n}
        /\ HostedStillHosts' /\ ListedAndProbed' /\ NotThoughtClosed'
    BY <1>4, OffKeeps DEF Restart
  <2>2. Running' = Running /\ n \in Running
    BY <1>4 DEF Restart, Checked, Running
  <2>3. fails' \in [Pods -> 0..(FailureThreshold - 1)]
    BY <1>4, Threshold DEF Restart, PodsInv, WatchTypeOK
  <2>4. hosting' \subseteq Running' /\ delayed' \subseteq Running' /\ due' \subseteq Pods
    BY <1>4, <2>1, <2>2 DEF Restart, Checked, Timely, PodsInv, WatchTypeOK
  <2>5. WatchTypeOK'
    BY <1>4, <2>1, <2>3, <2>4 DEF Restart, PodsInv, WatchTypeOK, apiVars, lobbyVars
  <2>6. QED BY <2>1, <2>5 DEF PodsInv
<1>5. QED BY <1>1, <1>2, <1>3, <1>4

LEMMA ApiKeepsInv ==
  ASSUME PodsInv, ApiChanges \/ RotateToken \/ TokenExpires
  PROVE  PodsInv'
<1>1. /\ apiUp' \in BOOLEAN /\ token' \in 0..MaxRotations /\ oldest' \in 0..token'
      /\ agentToken' \in 0..token'
  <2>1. /\ apiUp \in BOOLEAN /\ token \in 0..MaxRotations /\ oldest \in 0..token
        /\ agentToken \in 0..token /\ agentToken' = agentToken
    BY DEF PodsInv, WatchTypeOK, ApiChanges, RotateToken, TokenExpires, agentVars
  <2>2. CASE ApiChanges BY <2>1, <2>2 DEF ApiChanges
  <2>3. CASE RotateToken BY <2>1, <2>3, Rotations DEF RotateToken
  <2>4. CASE TokenExpires BY <2>1, <2>4, Rotations DEF TokenExpires
  <2>5. QED BY <2>2, <2>3, <2>4
<1>2. UNCHANGED <<clusterVars, agentVars, lobbyVars>>
  BY DEF ApiChanges, RotateToken, TokenExpires
<1>3. QED
  BY <1>1, <1>2 DEF PodsInv, WatchTypeOK, HostedStillHosts, ListedAndProbed,
     NotThoughtClosed, Running, clusterVars, agentVars, cycleVars, lobbyVars

-----------------------------------------------------------------------------
(* The agent and the lobby                                                  *)

\* A poll counts only pods that host, once each.
LEMMA PollCounts ==
  ASSUME PodsInv, PollEnds
  PROVE  /\ hostedFor' \in [Pods -> 0..Several] /\ due' = Running
         /\ \A n \in Pods : hostedFor'[n] > 0 => n \in hosting
         /\ \A n \in Pods : hostedFor'[n] = Several => hostedFor[n] > 0
  BY DEF PodsInv, WatchTypeOK, HostedStillHosts, PollEnds, Several

LEMMA AgentKeepsInv ==
  ASSUME PodsInv, AgentLists \/ AgentListFails \/ AgentPrunes \/ AgentRestarts
  PROVE  PodsInv'
<1>1. CASE AgentLists
  BY <1>1 DEF AgentLists, PodsInv, WatchTypeOK, HostedStillHosts, ListedAndProbed,
     NotThoughtClosed, Running, clusterVars, apiVars, lobbyVars
<1>2. CASE AgentListFails
  BY <1>2, PollCounts DEF AgentListFails, PodsInv, WatchTypeOK, HostedStillHosts,
     ListedAndProbed, NotThoughtClosed, Running, apiVars, lobbyVars
<1>3. CASE AgentPrunes
  <2>1. /\ hostedFor' \in [Pods -> 0..Several] /\ due' = Running
        /\ \A n \in Pods : hostedFor'[n] > 0 => n \in hosting
        /\ \A n \in Pods : hostedFor'[n] = Several => hostedFor[n] > 0
    BY <1>3, PollCounts DEF AgentPrunes, EndCycle
  <2>2. registry' = Pruned /\ Pruned \in [Pods -> {"unknown", "open", "closed"}]
    BY <1>3 DEF AgentPrunes, EndCycle, Pruned, PodsInv, WatchTypeOK
  <2>3. WatchTypeOK' /\ HostedStillHosts' /\ ListedAndProbed'
    BY <1>3, <2>1, <2>2 DEF AgentPrunes, EndCycle, PodsInv, WatchTypeOK, HostedStillHosts,
       ListedAndProbed, Running, apiVars, lobbyVars
  <2>4. NotThoughtClosed'
    <3>1. SUFFICES ASSUME NEW n \in Pods, hostedFor'[n] = Several PROVE registry'[n] # "closed"
      BY DEF NotThoughtClosed, Several
    <3>2. n \in present /\ registry[n] = "open"
      BY <1>3, <2>1, <3>1 DEF AgentPrunes, PodsInv, ListedAndProbed
    <3>3. QED BY <2>2, <3>2 DEF Pruned
  <2>5. QED BY <2>3, <2>4 DEF PodsInv
<1>4. CASE AgentRestarts
  <2>1. agentToken' \in 0..token' /\ Running' = Running
    BY <1>4 DEF AgentRestarts, PodsInv, WatchTypeOK, Running, clusterVars, apiVars
  <2>2. WatchTypeOK'
    BY <1>4, <2>1 DEF AgentRestarts, PodsInv, WatchTypeOK, clusterVars, apiVars, lobbyVars
  <2>3. HostedStillHosts' /\ ListedAndProbed' /\ NotThoughtClosed'
    BY <1>4 DEF AgentRestarts, PodsInv, WatchTypeOK, HostedStillHosts, ListedAndProbed,
       NotThoughtClosed, clusterVars
  <2>4. QED BY <2>2, <2>3 DEF PodsInv
<1>5. QED BY <1>1, <1>2, <1>3, <1>4

LEMMA ProbeKeepsInv ==
  ASSUME PodsInv, NEW n \in Pods, AgentProbes(n)
  PROVE  PodsInv'
<1>1. /\ registry' \in [Pods -> {"unknown", "open", "closed"}]
      /\ registry'[n] = (IF n \in hosting THEN "open" ELSE "closed")
      /\ \A m \in Pods \ {n} : registry'[m] = registry[m]
  BY DEF AgentProbes, PodsInv, WatchTypeOK
<1>2. WatchTypeOK'
  BY <1>1 DEF AgentProbes, PodsInv, WatchTypeOK, Running, clusterVars, apiVars, lobbyVars
<1>3. HostedStillHosts' /\ ListedAndProbed'
  BY <1>1 DEF AgentProbes, PodsInv, HostedStillHosts, ListedAndProbed, clusterVars
<1>4. NotThoughtClosed'
  <2>1. hostedFor[n] = Several => n \in hosting
    BY DEF PodsInv, HostedStillHosts, Several
  <2>2. QED
    BY <1>1, <2>1 DEF AgentProbes, PodsInv, NotThoughtClosed, Several
<1>5. QED BY <1>2, <1>3, <1>4 DEF PodsInv

LEMMA LobbyKeepsInv ==
  ASSUME PodsInv, LobbyLists \/ LobbyReconciles
  PROVE  PodsInv'
<1>1. pool' \subseteq Pods /\ reconciling' \in BOOLEAN /\ listing' \subseteq Pods
  BY DEF LobbyLists, LobbyReconciles, PodsInv, WatchTypeOK, Running
<1>2. UNCHANGED <<clusterVars, apiVars, agentVars>>
  BY DEF LobbyLists, LobbyReconciles
<1>3. WatchTypeOK'
  BY <1>1, <1>2 DEF PodsInv, WatchTypeOK, Running, clusterVars, apiVars, agentVars, cycleVars
<1>4. HostedStillHosts' /\ ListedAndProbed' /\ NotThoughtClosed'
  BY <1>2 DEF PodsInv, HostedStillHosts, ListedAndProbed, NotThoughtClosed, clusterVars,
     agentVars, cycleVars
<1>5. QED BY <1>3, <1>4 DEF PodsInv

LEMMA PodsNext == PodsInv /\ [Next]_vars => PodsInv'
<1> SUFFICES ASSUME PodsInv, [Next]_vars PROVE PodsInv'
  OBVIOUS
<1>1. CASE UNCHANGED vars
  BY <1>1 DEF vars, clusterVars, apiVars, agentVars, cycleVars, lobbyVars, PodsInv,
     WatchTypeOK, HostedStillHosts, ListedAndProbed, NotThoughtClosed, Running
<1>2. QED
  BY <1>1, ClusterKeepsInv, KubeletKeepsInv, ApiKeepsInv, AgentKeepsInv, ProbeKeepsInv,
     LobbyKeepsInv DEF Next

-----------------------------------------------------------------------------

\* The inductive invariant holds throughout.
THEOREM AlwaysPodsInv == Spec => []PodsInv
  BY PodsInit, PodsNext, PTL DEF Spec

\* Every variable keeps its type; a cycle probes only what it listed.
THEOREM WatchTyping == Spec => []WatchTypeOK
<1>1. PodsInv => WatchTypeOK BY DEF PodsInv
<1>2. QED BY <1>1, AlwaysPodsInv, PTL

\* Only the kubelet's last failed check restarts the container of a running pod.
LEMMA OnlyRestartsDelay ==
  ASSUME PodsInv, [Next]_vars, NEW n \in Pods, n \in delayed' \ delayed, phase[n] = "running"
  PROVE  Restart(n)
<1>1. ASSUME NEW m \in Pods, m # n PROVE ~PodRuns(m) /\ ~Restart(m)
  BY <1>1 DEF PodRuns, Restart
<1>2. ~PodRuns(n)
  BY DEF PodRuns
<1>3. ~UNCHANGED vars
  BY DEF vars, clusterVars
<1>4. ASSUME NEW m \in Pods PROVE ~PodGoes(m) /\ ~StartsHosting(m) /\ ~StopsHosting(m)
  BY DEF PodGoes, StartsHosting, StopsHosting
<1>5. ~ApiChanges /\ ~RotateToken /\ ~TokenExpires
  BY DEF ApiChanges, RotateToken, TokenExpires, clusterVars
<1>6. ASSUME NEW m \in Pods
      PROVE  ~DelayEnds(m) /\ ~CheckPasses(m) /\ ~CheckFails(m) /\ ~AgentProbes(m)
  BY DEF DelayEnds, CheckPasses, CheckFails, AgentProbes, clusterVars
<1>7. ~AgentLists /\ ~AgentListFails /\ ~AgentPrunes /\ ~AgentRestarts
  BY DEF AgentLists, AgentListFails, AgentPrunes, EndCycle, AgentRestarts, clusterVars
<1>8. ~LobbyLists /\ ~LobbyReconciles
  BY DEF LobbyLists, LobbyReconciles, clusterVars
<1>9. QED
  BY <1>1, <1>2, <1>3, <1>4, <1>5, <1>6, <1>7, <1>8 DEF Next

\* While the agent's lists succeed, no container is restarted whose game has been
\* hosting for several polls: for every set of pods, although the agent restarts,
\* prunes and probes one pod after the other.
THEOREM HostingPodsAreLeftAlone == Spec => HostingPodsStay
<1>1. PodsInv /\ [Next]_vars =>
        [\A n \in Pods : n \in delayed' \ delayed /\ phase[n] = "running" =>
            hostedFor[n] < Several \/ listFailed]_vars
  <2>1. SUFFICES ASSUME PodsInv, [Next]_vars, NEW n \in Pods, n \in delayed' \ delayed,
                        phase[n] = "running", ~listFailed
                 PROVE  hostedFor[n] < Several
    OBVIOUS
  <2>2. registry[n] = "closed"
    BY <2>1, OnlyRestartsDelay DEF Restart, NotHosting
  <2>3. hostedFor[n] # Several /\ hostedFor[n] \in 0..Several
    BY <2>1, <2>2 DEF PodsInv, WatchTypeOK, NotThoughtClosed
  <2>4. QED BY <2>3 DEF Several
<1>2. QED BY <1>1, AlwaysPodsInv, PTL DEF Spec, HostingPodsStay

-----------------------------------------------------------------------------
(* The pool                                                                 *)

\* Only pods that were running were ever listed, and the list in hand is compared with a
\* pool from which nothing that still runs is missing in it.
PoolInv ==
    /\ \A n \in pool \cup listing : phase[n] # "pending"
    /\ reconciling => \A n \in pool \ listing : phase[n] = "gone"

\* A pod does not come back.
LEMMA PodsOnlyAge ==
  ASSUME PodsInv, [Next]_vars, ~LobbyLists, ~LobbyReconciles
  PROVE  /\ UNCHANGED lobbyVars
         /\ \A n \in Pods : /\ phase[n] # "pending" => phase'[n] # "pending"
                            /\ phase[n] = "gone" => phase'[n] = "gone"
<1>1. CASE phase' = phase /\ UNCHANGED lobbyVars
  BY <1>1
<1>2. ASSUME NEW m \in Pods, PodRuns(m) \/ PodGoes(m)
      PROVE  /\ UNCHANGED lobbyVars
             /\ \A n \in Pods : /\ phase[n] # "pending" => phase'[n] # "pending"
                                /\ phase[n] = "gone" => phase'[n] = "gone"
  BY <1>2 DEF PodRuns, PodGoes, PodsInv, WatchTypeOK
<1>3. ASSUME NEW m \in Pods,
             \/ StartsHosting(m) \/ StopsHosting(m) \/ DelayEnds(m) \/ CheckPasses(m)
             \/ CheckFails(m) \/ Restart(m) \/ AgentProbes(m)
      PROVE  phase' = phase /\ UNCHANGED lobbyVars
  BY <1>3 DEF StartsHosting, StopsHosting, DelayEnds, CheckPasses, CheckFails, Restart,
     AgentProbes, clusterVars
<1>4. CASE ApiChanges \/ RotateToken \/ TokenExpires
  BY <1>1, <1>4 DEF ApiChanges, RotateToken, TokenExpires, clusterVars
<1>5. CASE AgentLists \/ AgentListFails \/ AgentPrunes \/ AgentRestarts
  BY <1>1, <1>5 DEF AgentLists, AgentListFails, AgentPrunes, EndCycle, AgentRestarts,
     clusterVars
<1>6. CASE UNCHANGED vars
  BY <1>1, <1>6 DEF vars, clusterVars
<1>7. QED BY <1>1, <1>2, <1>3, <1>4, <1>5, <1>6 DEF Next

LEMMA PoolStep == PodsInv /\ PoolInv /\ [Next]_vars => PoolInv'
<1> SUFFICES ASSUME PodsInv, PoolInv, [Next]_vars PROVE PoolInv'
  OBVIOUS
<1>0. pool \subseteq Pods /\ listing \subseteq Pods
  BY DEF PodsInv, WatchTypeOK
<1>1. CASE LobbyLists
  <2>1. \A n \in pool \ Running : phase[n] = "gone"
    BY <1>0 DEF PodsInv, PoolInv, WatchTypeOK, Running
  <2>2. QED BY <1>1, <2>1 DEF LobbyLists, PoolInv, Running, clusterVars
<1>2. CASE LobbyReconciles
  BY <1>2 DEF LobbyReconciles, PoolInv, clusterVars
<1>3. CASE ~LobbyLists /\ ~LobbyReconciles
  BY <1>0, <1>3, PodsOnlyAge DEF PoolInv, lobbyVars
<1>4. QED BY <1>1, <1>2, <1>3

\* The pool loses nothing but pods that are gone, whenever the API server fails, tokens
\* expire, and pods come and go while a list is in hand.
THEOREM PoolKeepsRunningPods == Spec => OnlyGonePodsLeave
<1>1. Init => PoolInv
  BY DEF Init, PoolInv
<1>2. PodsInv /\ PoolInv /\ [Next]_vars => [\A n \in pool \ pool' : phase[n] = "gone"]_vars
  <2>1. SUFFICES ASSUME PodsInv, PoolInv, [Next]_vars, NEW n \in pool \ pool'
                 PROVE  phase[n] = "gone"
    OBVIOUS
  <2>2. LobbyReconciles
    BY <2>1, PodsOnlyAge DEF LobbyLists, lobbyVars
  <2>3. QED BY <2>1, <2>2 DEF LobbyReconciles, PoolInv
<1>3. QED BY <1>1, <1>2, PoolStep, AlwaysPodsInv, PTL DEF Spec, OnlyGonePodsLeave
=============================================================================
