------------------------------ MODULE PodWatch ------------------------------
(***************************************************************************)
(* Who knows which pods exist and which of them host a game:               *)
(*   - podLister of aom-lobby (lobby/main.go), which keeps the pool;       *)
(*   - host-health-agent (host-health-agent/main.go), which probes the     *)
(*     pods of its node and answers for them;                              *)
(*   - the kubelet, which asks it through healthcheck.sh and restarts the  *)
(*     containers of pods it says are not hosting.                         *)
(* Both programs list pods with the token of their ServiceAccount, which   *)
(* the kubelet rotates.                                                    *)
(***************************************************************************)
EXTENDS Integers

CONSTANTS
    Pods,             \* names of aom-headless pods; a name is used once
    FailureThreshold, \* failed liveness checks in a row that restart a container
    MaxRotations      \* bound: how often the token is rotated

ASSUME Threshold == FailureThreshold \in Nat \ {0}
ASSUME Rotations == MaxRotations \in Nat

VARIABLES
    phase,      \* of each pod: "pending", "running" (with an IP), "gone"
    hosting,    \* pods whose game answers the discovery query
    delayed,    \* pods whose container is younger than initialDelaySeconds
    fails,      \* liveness checks failed in a row
    due,        \* pods the agent has polled for since their last check
    apiUp,      \* whether the API server answers
    token,      \* the token that is mounted
    oldest,     \* the oldest token still accepted
    agentToken, \* podLister.token of the agent, read when it started
    registry,   \* registry.state: "open", "closed", or "unknown" without an entry
    probing,    \* whether a cycle of the agent is under way
    present,    \* ... the pods it listed
    todo,       \* ... those it has still to probe
    listFailed, \* whether its last list failed
    hostedFor,  \* polls of the agent a pod has hosted through, up to Several (history)
    pool,       \* names of the hosts in aom-lobby's hostPool
    reconciling, \* whether aom-lobby's podLister has a list in hand
    listing     \* ... the list

clusterVars == <<phase, hosting, delayed, fails, due>>
apiVars     == <<apiUp, token, oldest>>
cycleVars   == <<probing, present, todo, listFailed, hostedFor>>
agentVars   == <<agentToken, registry, cycleVars>>
lobbyVars   == <<pool, reconciling, listing>>
vars == <<clusterVars, apiVars, agentVars, lobbyVars>>

Running == {n \in Pods : phase[n] = "running"}
Several == 2

WatchTypeOK ==
    /\ phase \in [Pods -> {"pending", "running", "gone"}]
    /\ hosting \subseteq Running /\ delayed \subseteq Running /\ due \subseteq Pods
    /\ fails \in [Pods -> 0..(FailureThreshold - 1)]
    /\ apiUp \in BOOLEAN
    /\ token \in 0..MaxRotations /\ oldest \in 0..token /\ agentToken \in 0..token
    /\ registry \in [Pods -> {"unknown", "open", "closed"}]
    /\ probing \in BOOLEAN /\ listFailed \in BOOLEAN
    /\ present \subseteq Pods /\ todo \subseteq present
    /\ hostedFor \in [Pods -> 0..Several]
    /\ pool \subseteq Pods /\ reconciling \in BOOLEAN /\ listing \subseteq Pods

Init ==
    /\ phase = [n \in Pods |-> "pending"]
    /\ hosting = {} /\ delayed = {} /\ due = {}
    /\ fails = [n \in Pods |-> 0]
    /\ apiUp = TRUE /\ token = 0 /\ oldest = 0 /\ agentToken = 0
    /\ registry = [n \in Pods |-> "unknown"]
    /\ probing = FALSE /\ present = {} /\ todo = {} /\ listFailed = FALSE
    /\ hostedFor = [n \in Pods |-> 0]
    /\ pool = {} /\ reconciling = FALSE /\ listing = {}

-----------------------------------------------------------------------------
(* The cluster                                                              *)

Off(n) == /\ hosting' = hosting \ {n}
          /\ hostedFor' = [hostedFor EXCEPT ![n] = 0]

PodRuns(n) ==
    /\ phase[n] = "pending" /\ phase' = [phase EXCEPT ![n] = "running"]
    /\ delayed' = delayed \cup {n}
    /\ UNCHANGED <<hosting, fails, due, apiVars, agentVars, lobbyVars>>

PodGoes(n) ==
    /\ phase[n] = "running" /\ phase' = [phase EXCEPT ![n] = "gone"]
    /\ Off(n) /\ delayed' = delayed \ {n} /\ due' = due \ {n}
    /\ fails' = [fails EXCEPT ![n] = 0]
    /\ UNCHANGED <<apiVars, agentToken, registry, probing, present, todo, listFailed, lobbyVars>>

\* auto-host.sh brings the game to its lobby, or the game leaves it.
StartsHosting(n) ==
    /\ n \in Running \ hosting /\ hosting' = hosting \cup {n}
    /\ UNCHANGED <<phase, delayed, fails, due, apiVars, agentVars, lobbyVars>>

StopsHosting(n) ==
    /\ n \in hosting /\ Off(n)
    /\ UNCHANGED <<phase, delayed, fails, due, apiVars,
                   agentToken, registry, probing, present, todo, listFailed, lobbyVars>>

ApiChanges ==
    /\ apiUp' = ~apiUp
    /\ UNCHANGED <<clusterVars, token, oldest, agentVars, lobbyVars>>

RotateToken ==
    /\ token < MaxRotations /\ token' = token + 1
    /\ UNCHANGED <<clusterVars, apiUp, oldest, agentVars, lobbyVars>>

TokenExpires ==
    /\ oldest < token /\ oldest' = oldest + 1
    /\ UNCHANGED <<clusterVars, apiUp, token, agentVars, lobbyVars>>

\* Whether a list call with token t is answered.
Answered(t) == apiUp /\ t >= oldest

-----------------------------------------------------------------------------
(* The kubelet: healthcheck.sh                                              *)

\* The agent polls several times between two checks, and during the initial delay.
Timely(n) == n \in due /\ due' = due \ {n}

DelayEnds(n) ==
    /\ n \in delayed /\ Timely(n)
    /\ delayed' = delayed \ {n}
    /\ UNCHANGED <<phase, hosting, fails, apiVars, agentVars, lobbyVars>>

\* Sabotaged: what is not known to host is not hosting.
FailsClosed(n) == registry[n] # "open"

\* Only an explicit 503 fails the check; 404 does not.
NotHosting(n) == registry[n] = "closed"

Checked(n) == n \in Running \ delayed /\ Timely(n)

\* The answer is anything else, or does not come: exit 0.
CheckPasses(n) ==
    /\ Checked(n)
    /\ fails' = [fails EXCEPT ![n] = 0]
    /\ UNCHANGED <<phase, hosting, delayed, apiVars, agentVars, lobbyVars>>

CheckFails(n) ==
    /\ Checked(n) /\ NotHosting(n) /\ fails[n] + 1 < FailureThreshold
    /\ fails' = [fails EXCEPT ![n] = @ + 1]
    /\ UNCHANGED <<phase, hosting, delayed, apiVars, agentVars, lobbyVars>>

\* One failure too many: the container is restarted, in the same pod.
Restart(n) ==
    /\ Checked(n) /\ NotHosting(n) /\ fails[n] + 1 = FailureThreshold
    /\ fails' = [fails EXCEPT ![n] = 0]
    /\ Off(n) /\ delayed' = delayed \cup {n}
    /\ UNCHANGED <<phase, apiVars, agentToken, registry, probing, present, todo, listFailed,
                   lobbyVars>>

-----------------------------------------------------------------------------
(* host-health-agent                                                        *)

\* reconcileOnce: the list succeeds ...
AgentLists ==
    /\ ~probing /\ Answered(agentToken)
    /\ probing' = TRUE /\ present' = Running /\ todo' = Running
    /\ UNCHANGED <<clusterVars, apiVars, agentToken, registry, listFailed, hostedFor, lobbyVars>>

\* A poll is over, done or given up.
PollEnds ==
    /\ due' = Running
    /\ hostedFor' = [n \in Pods |-> IF n \in hosting /\ hostedFor[n] < Several
                                   THEN hostedFor[n] + 1 ELSE hostedFor[n]]

\* ... or fails, and the cycle is over.
AgentListFails ==
    /\ ~probing /\ ~Answered(agentToken)
    /\ listFailed' = TRUE /\ PollEnds
    /\ UNCHANGED <<phase, hosting, delayed, fails, apiVars,
                   agentToken, registry, probing, present, todo, lobbyVars>>

\* probeOnce and registry.set, pod after pod.  Query and answer stay on the node.
AgentProbes(n) ==
    /\ probing /\ n \in todo
    /\ todo' = todo \ {n}
    /\ registry' = [registry EXCEPT ![n] = IF n \in hosting THEN "open" ELSE "closed"]
    /\ UNCHANGED <<clusterVars, apiVars, agentToken, probing, present, listFailed, hostedFor,
                   lobbyVars>>

EndCycle(reg) ==
    /\ registry' = reg
    /\ probing' = FALSE /\ present' = {} /\ listFailed' = FALSE /\ PollEnds
    /\ UNCHANGED <<phase, hosting, delayed, fails, apiVars, agentToken, todo, lobbyVars>>

Pruned == [n \in Pods |-> IF n \in present THEN registry[n] ELSE "unknown"]

\* Sabotaged: results are only ever added.
NoPrune == probing /\ todo = {} /\ EndCycle(registry)

\* Sabotaged: the cycle ends before every pod is probed.
PruneEarly == probing /\ EndCycle(Pruned)

\* registry.prune.
AgentPrunes == probing /\ todo = {} /\ EndCycle(Pruned)

\* The agent itself is restarted: it reads the token again and knows nothing.
AgentRestarts ==
    /\ agentToken' = token
    /\ registry' = [n \in Pods |-> "unknown"]
    /\ probing' = FALSE /\ present' = {} /\ todo' = {} /\ listFailed' = FALSE
    /\ UNCHANGED <<clusterVars, apiVars, hostedFor, lobbyVars>>

-----------------------------------------------------------------------------
(* podLister of aom-lobby                                                   *)

\* Sabotaged: the token is read once, at the start.
CachedToken == 0

\* readToken, on every list.
LobbyToken == token

\* Sabotaged: a list that fails is taken for an empty one.
ListsAnyway ==
    /\ ~reconciling
    /\ reconciling' = TRUE /\ listing' = IF Answered(LobbyToken) THEN Running ELSE {}
    /\ UNCHANGED <<clusterVars, apiVars, agentVars, pool>>

\* reconcileOnce: a failed list changes nothing; a successful one ...
LobbyLists ==
    /\ ~reconciling /\ Answered(LobbyToken)
    /\ reconciling' = TRUE /\ listing' = Running
    /\ UNCHANGED <<clusterVars, apiVars, agentVars, pool>>

\* ... is compared with the pool by pod name: addHost, then removeHost.
LobbyReconciles ==
    /\ reconciling
    /\ pool' = (pool \cup listing) \ (pool \ listing)
    /\ reconciling' = FALSE /\ listing' = {}
    /\ UNCHANGED <<clusterVars, apiVars, agentVars>>

-----------------------------------------------------------------------------
Next ==
    \/ \E n \in Pods : PodRuns(n) \/ PodGoes(n) \/ StartsHosting(n) \/ StopsHosting(n)
    \/ ApiChanges \/ RotateToken \/ TokenExpires
    \/ \E n \in Pods : DelayEnds(n) \/ CheckPasses(n) \/ CheckFails(n) \/ Restart(n)
    \/ AgentLists \/ AgentListFails \/ AgentPrunes \/ AgentRestarts
    \/ \E n \in Pods : AgentProbes(n)
    \/ LobbyLists \/ LobbyReconciles

Spec == Init /\ [][Next]_vars

\* Both programs keep polling on their tickers, and the API server is back again and
\* again.
FairSpec ==
    /\ Spec
    /\ SF_vars(LobbyLists) /\ WF_vars(LobbyReconciles)
    /\ SF_vars(AgentLists) /\ WF_vars(AgentPrunes)
    /\ \A n \in Pods : WF_vars(AgentProbes(n))
    /\ WF_vars(ApiChanges)

-----------------------------------------------------------------------------
(* Properties                                                               *)

\* The pool follows the pods: one that runs is offered to clients, one that is gone is
\* not for long (the bug of 2026-08-25 that readToken describes froze the pool for good
\* when the first token expired).
PoolFollowsPods ==
    \A n \in Pods : /\ phase[n] = "running" ~> n \in pool \/ phase[n] = "gone"
                   /\ phase[n] = "gone" ~> n \notin pool

\* registry.prune: a deleted pod's result does not outlive it - as long as the agent's
\* own token, which it never reads again, is accepted.
ResultsGoWithTheirPods ==
    \A n \in Pods : phase[n] = "gone" ~> registry[n] = "unknown" \/ agentToken < oldest

\* While the agent's lists succeed, a pod that hosts is not restarted, whatever the
\* agent has just forgotten, is about to probe, or thinks of an earlier container of
\* the same pod (healthcheck.sh fails open).
HostingPodsStay ==
    [][\A n \in Pods : n \in delayed' \ delayed /\ phase[n] = "running" =>
          hostedFor[n] < Several \/ listFailed]_vars

\* A pod that runs is never taken out of the pool, which would end its match: neither
\* because the API server does not answer or refuses the token, nor because the list in
\* hand is old when it is compared with the pool.
OnlyGonePodsLeave ==
    [][\A n \in pool \ pool' : phase[n] = "gone"]_vars
=============================================================================
