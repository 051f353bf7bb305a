# TLA+ models of aom-lobby and host-health-agent

`lobby/main.go` is a UDP front end for a pool of headless game servers
("hosts"): it answers the players' discovery queries, assigns each player a
host, relays its session traffic, pairs the two players of a host over a relay
of its own, notices departures, and consolidates players who wait alone. All
of its state is in memory, shared by about ten kinds of goroutine under two
levels of locks. `host-health-agent/main.go` watches the game servers of a node
and tells the kubelet which of them to restart. This directory models that logic
in TLA+, model-checks it with TLC and proves its central safety properties with
TLAPS.

## 1. Inventory

### Components

| Component | State it keeps | Operations | Correct means |
|---|---|---|---|
| `hostPool` (matchmaking) | `hosts`, `assigned` (client IP to host), per host `firstClientIP`, `firstClientJoinedAt`, `firstClientLandedAt`, `lonelyKickInProgress` | `assignForClient`, `selectLocked`, `hostFull`, `hostCooling`, `markFirstClientLanded`, `addHost`, `removeHost`, `clearAssignment` | at most two players per host; no assignment to a removed pod; a first player's claim is respected |
| `sessionProxy` | `sessions` (client address to `session`: host, `lastSeen`, `connID`, `resignCheckPending`) | `run`, `forwardToBackend`, `relayBackendInitiated`, `rewriteToBackend`, `rewriteToClient`, `doCloseSession`, `closeSessionsForHost` | sessions live on listed hosts, end for a reason, and a teardown touches only its own session |
| `matchState` / `pairRelay` | the relay (two endpoints, their `lastSeen`, `notified`, resign flags), `ready`, `started` | `ensurePairRelay`, `pairRelay.run`, `onClientGone`, `teardownForRemovedHost`, `setReady`, `markStarted` | a relay joins the two players of one host; it goes when one of them does; a match starts with both present |
| idle reaper | - | `reapIdleSessions` | reaps only what is silent on both channels, and does reap it |
| lonely sweep | `lonelyKickInProgress` | `sweepLonelyHosts`, `warnAndKickLonelyPlayer` | consolidates, leaves a host of the pool to go to, kicks only who is alone |
| `podLister`, `hostProbe` | the pool; the last probe answer | `readToken`, `list`, `reconcileOnce`, `probeOnce` | the pool follows the pods, whatever fails meanwhile |
| `discoveryProxy` | its own short-lived sessions, `clientTracker` | `forwardToBackend`, `backendToClient` | one player's two ports reach one host; no reply from a cooling host |
| attribution | `tracker`, `session.connID` | `relayBackendInitiated`'s four fallbacks | a host's packet reaches the player it is for |
| simulated host | `simulatedClients` | `simulateSessionPacket`, `beginSimulatedHostOpen`, its loops | a full pool ends in a rejection the game understands |
| packet classifiers and rewrites | - | pure functions | layout of the game's protocol |
| status endpoint | - | `/hosts`, `/waiting`, `/full` | reads only |
| `host-health-agent`, `healthcheck.sh` | registry of probe results, its token | `reconcileOnce`, `prune`, `/host-health` | a pod that hosts is not restarted; results go with their pods |
| `input-agent`, manifests, scripts | - | clicks, deployment | - |

### How they interact

* Two receive loops (`discoveryProxy.run`, `sessionProxy.run`), each ONE
  goroutine that handles a packet to the end before it reads the next. Host
  packets arrive on the session loop as well. Only the session loop inserts
  sessions and creates relays.
* Both loops call `hostPool.assignForClient`, under `hostPool.mu`;
  `sessionCountForHost` takes `proxy.mu` inside it. The lock order is
  `hostPool.mu`, then `proxy.mu`, then `session.mu`; `matchState.mu` is taken
  alone or innermost.
* Departures come from five places: the reaper, resign timers of sessions,
  resign timers of the relay, the lonely kick, and `removeHost`. All but one
  end in `onSessionRemoved`, which runs after the session has left the table
  and calls `matchState.onClientGone`.
* `aom-lobby` and `host-health-agent` never talk to each other. Both list the same
  pods, and the kubelet acts on the agent's answers by restarting containers,
  which `aom-lobby` sees as hosts that stop answering its probe.
* A client that finds no host is handed to the simulated one from both ports: a
  ping starts an opener, a session packet is answered.

### What is hard

The hard part is not any one function but what happens between two of their
critical sections: a host selected and used later; a session looked up and used
after its deletion; a peer found and paired after it has gone; a timer or a kick
that deletes by address what it once looked at by identity; a callback that
comes after the next session of the same client. PROJECT.json lists each such
hazard at its line (`hazards`) with the properties that cover it.

## 2. Modules

| Module | Models | Role |
|---|---|---|
| `Matchmaking` | hostPool, admission, peer lookup, relay creation, departures, podLister | the core |
| `HostSeats` | what matchmaking promises about seats | abstract specification, implemented by `Matchmaking` (`KeepsSeatContract`), by `LonelySweep` and, for its one host, by `PairMatch` |
| `LonelySweep` | the sweep and the kick, EXTENDS `Matchmaking` | composition |
| `PairMatch` | one host: matchState, pairRelay, ready, resign timers, reaper | detail of a host's match |
| `Attribution` | whose session a host's packet belongs to, and how conn-IDs are learned | detail of `relayBackendInitiated` |
| `PodWatch` | podLister, host-health-agent, healthcheck.sh, the token they list with | who knows which pods exist and host |
| `SimulatedHost` | the host played to a client when every real one is full | one client's address |
| `MatchmakingProofs` | - | TLAPS proofs about `Matchmaking` |
| `LonelySweepProofs` | - | TLAPS proofs about `LonelySweep`, on top of `MatchmakingProofs` |
| `PairMatchProofs` | - | TLAPS proofs about `PairMatch`, one of them that it implements `HostSeats` |
| `HostSeatsProofs` | - | what the contract of `HostSeats` implies for whatever implements it |
| `AttributionProofs`, `PodWatchProofs`, `SimulatedHostProofs` | - | TLAPS proofs about the module of that name |
| `MC...` | - | instances for TLC |

### Matchmaking

A critical section of the code is one action; a handler of the session loop
that takes several locks is several actions joined by the program counter
`pc`:

    SelectHost      forwardToBackend: assignForClient          (hostPool.mu)
    CheckCushion    ... hostCooling, else drop the packet      (hostPool.mu)
    InsertSession   ... sessions[key] = sess, CD-key echo      (proxy.mu)

    PeerBroadcast   relayBackendInitiated, rewriteToClient
    FindOther       ... pollOtherSessionClientAddr             (proxy.mu)
    EnsurePairRelay ... ensurePairRelay                        (matchState.mu)

`DiscoveryQuery` (the discovery loop), `ReapSession`, `ResignTimer`,
`RelayResignTimer`, `OnSessionRemoved`, `AddHost`, `RemoveHost` and `Tick` fall between any two of
them. `leaving` holds sessions deleted from the table whose callback has not
run; `resigns` holds the timers with the address and host they captured.

Decisions a reader of the code will ask about:

* `removeHost` is one action. It holds `hostPool.mu` throughout, so nothing
  that selects or lists hosts runs inside it. A session inserted or a relay
  created while it runs is the same as one inserted or created right after it,
  which the model allows.
* `assignForClient` reads the session counts one at a time; the model reads
  them together. The stamps it makes are visible only under `hostPool.mu`, so
  the call can be placed at the moment the chosen host's sessions are counted.
  A mixed view of the other hosts could only send a client to another tier.
* `PeerBroadcast` is rewritten whether or not the host has a relay: whom the relay
  has notified is `PairMatch`'s subject, and `EnsurePairRelay` reuses a relay.
  A relay's resign timer may fire whenever there is a relay.
* The round-robin cursors are abstracted to any member of the tier: every
  property holds whatever the cursor says.
* `hostLive` is an arbitrary set of hosts, chosen at each selection.
* Time is ages in ticks that saturate at `AgeCap`; `JoinCushion` and
  `PostLandCooldown` are compared with them as in the code.
* A pod has one incarnation: a pod that comes back is another member of
  `Hosts`.

### LonelySweep

`kick[h]` is where `warnAndKickLonelyPlayer` is for host `h`: started, warned
(sleeping `lonelyKickWarning`), clicking (the POSTs), closed. `CloseKicked` uses
the same `CloseSessionOf` as the resign timer, because both end in
`doCloseSession` with an address looked at earlier. `Sweep` counts the sessions
of all hosts together; the code does so one by one while it holds
`hostPool.mu`. `Warn` may give up for the reasons that depend on state left out
here (conn-ID not known, write error).

### PairMatch

One host, with selection and insertion taken as one step, `Join`. That this view
of a host promises no less than `Matchmaking` does is not left to the eye: the
module is proved to implement the same contract (`PairKeepsSeats`). The handler of a client packet is
two steps (look-up under `proxy.mu`, then the packet), so that a session may be
deleted between them; the handler of a host's broadcast is three. Silence is a
flag per channel (`hostIdle`, `relayIdle`): older than `idleTimeout`. Two facts
about time are built in: `idleTimeout` (30 s) is longer than `resignBurstDrain`
(100 ms) and than the handling of one packet, so a session does not become idle
while its own resign timer runs or while the loop handles its packet.
A lonely kick is two steps, `KickRecheck` and `KickClose` (`kicked` is whom it has
in hand between them, while its POSTs are under way): the warning before them
changes nothing, and that a kick is only begun when there are two lonely hosts is
`LonelySweep`'s subject, so here any lone client may be kicked.
A host packet may be attributed to any session and may carry a conn-ID; which
session the code would choose is the subject of `Attribution`.

### Attribution

Since sessions have no socket of their own, every packet of every host arrives
on the session port, and `relayBackendInitiated` looks for its client in up to
four ways. Each look takes `proxy.mu` or the tracker's lock and is an action:

    HostPacket   run: the source is a host of the pool   (hostPool.mu)
    ByConnID     sessionClientAddrForConnID              (proxy.mu)
    ReadTracker  clientTracker.get                       (clientTracker.mu)
    ByIP         sessionClientAddrForIP                  (proxy.mu)
    AnySession   anySessionClientAddr, the raw address   (proxy.mu)
    Relay        the session's bookkeeping, the send     (session.mu)

`TrackerSet` (the discovery loop), `CloseSession` and `RemoveHost` fall between
them. A join (`Admit`) does not: the same goroutine inserts sessions and
attributes packets.

* `Admit` stands for selection and insertion, which are `Matchmaking`'s subject;
  it keeps the two-seat contract.
* `owner` is what only the host knows: whose connection a conn-ID stands for. A
  host numbers connections by a counter of its own, so two hosts may use the
  same conn-ID and one host never reuses one.
* A packet without a wrapper has the conn-ID `Nil`. A host sends only once it has
  accepted somebody, and may go on sending to clients that have left.
* `StrayPacket`: a pod that is no longer in the pool, or not yet, is not
  recognised by its IP. `run` then handles its packet like a client's, so a pod
  may get a session on another pod. The keys of the session table are therefore
  clients and hosts.
* The fourth look sends to a discovery port, where nobody has a session: in the
  model the packet is gone.

### PodWatch

A list of pods is taken and used later, so each `reconcileOnce` is several
steps: `LobbyLists`, `LobbyReconciles` for the lobby; `AgentLists`, one
`AgentProbes` per pod, `AgentPrunes` for the agent. The two programs read the
same token differently: `readToken` on every list (`LobbyToken`), once at the
start (`agentToken`). The token is rotated, and old ones expire, at any time.

* The kubelet's check asks the registry. Only "closed" fails it (`NotHosting`);
  `FailureThreshold` failures in a row restart the container, and the initial
  delay starts again.
* Timing: the agent polls every 3 s, the kubelet checks every 10 s. `due` lets a
  pod be checked only if the agent has finished, or given up, a poll since its
  last check. `hostedFor` counts the polls a pod has hosted through, up to
  `Several`; it is history that only the properties read.
* A failed list is a step for the agent, because its results then go stale; for
  the lobby it changes nothing and is no step.
* A pod's name is used once, as a Deployment uses it; `Restart` restarts the
  container in the same pod. Queries and answers of the agent stay on the node
  and are not lost.

### SimulatedHost

All state is kept per address of a client and nothing is shared between
addresses, so the module is about one. An entry is a `simulatedClientState`; an
evicted one stays in use by the opener, the loops and the packet handler that
hold it (`opens`, `names`, `held`). `FindEntry` and what follows are two steps,
because the code drops `simulatedClientsMu` between them. `StrayPacket` is every
packet that is not of the handshake, heartbeats among them: it makes or refreshes
the table's entry and nothing more. A client that is pinging sends none; it
opens its session port when it connects.

* The checks of a loop and its send are one step: the code sends after it has
  dropped the lock, which is no different from a packet that is under way for
  longer, and packets arrive in any order here.
* A packet is a kind and a conn-ID. The counter of sequence numbers is left out:
  no decision reads it. So are the answers to heartbeats.
* An opener and a name loop send `Opens` and `Broadcasts` times, 20 in the code.
* `GoesStale` is three minutes without activity. A client waits for two at
  most, so an entry does not go stale while its client is waiting for an answer
  to what it has said, nor while a loop is running.
* Attempts are seconds apart: what was under way for the last one has arrived
  or is lost when the next one starts, and at most one of its loops is still
  running. A client gives each attempt a new conn-ID, different from the one the
  table remembers.
* The client is external, and modelled by what its captured exchanges show: it
  pings, waits for the host's open or opens itself, acknowledges, waits for the
  ack of its own conn-ID, answers a name with its own, repeats itself, and may
  give up at any moment.

## 3. Runs

| Run | Question | Instance | Distinct states |
|---|---|---|---|
| `mm_pool` | assignments, claims and pairings while pods come and go, and what removed pods leave behind | 2 hosts, 2 clients, cushion 1, 1 departure in progress | 169 k |
| `mm_crowd` | capacity, matched hosts closed to others, and the seat contract | 1 host, 4 clients of which 2 share an IP, 2 departures in progress | 247 k |
| `lonely` | the sweep against matchmaking, with liveness | 2 hosts, 2 clients | 423 k |
| `pair` | one match in every order | 3 clients, 1 resign timer or kick at a time | 2.57 M |
| `pair_live` | a silent client's relay goes away | 2 clients, no resign timers or kicks | 68 k |
| `attrib` | isolation of hosts, conn-IDs | 2 hosts, 3 clients, 2 conn-IDs per host | 528 k |
| `pods` | pool, registry and restarts follow the pods, running pods stay, with liveness | 1 pod, 3 failures, 2 rotations | 58 k |
| `full` | a client and the simulated host: the handshake never stalls, with liveness | 2 entries, 3 conn-IDs, loops of one send | 341 k |
| `mm_orphan`, `lonely_kick`, `pair_ready`, `attrib_guess` | what a comment or a design document says and the code does not do (section 6) | 1 or 2 hosts, 2 or 3 clients | stop at the counterexample |

Why these bounds are enough to be worth checking:

* `mm_pool`: every conflict about assignments, claims and pairings is between
  two clients, or between two hosts. Both hosts start unlisted (`Init` is
  `main`'s empty pool) and may be removed in every state.
* `mm_crowd`: a third and a fourth client compete for two seats, so the guard
  is exercised, not just approached; the shared IP gives two addresses one
  assignment.
* `lonely`: two lonely hosts are what a sweep needs; the threshold and the
  cushion are one tick, so "before" and "after" both occur.
* `pair`: the third client is the one that takes the seat of a client that
  has left, while callbacks, timers and the loop still hold the old address.
* `pair_live` has no resign timers and no kicks, so silence is the only way out.
* `attrib`: two clients can share a host while the third plays on the other
  one; the two hosts use the same two conn-IDs, so that a search that forgets
  the host finds the wrong session.
* `pods`: pods do not influence each other except by sharing the cycle, whose
  length is arbitrary anyway; two rotations are needed for the token in use,
  the one mounted, and one that has expired to be three different ones. The
  proofs cover any number of pods.
* `full`: two entries are the one in the table and the one evicted under a
  loop or a handler that still holds it; three conn-IDs are the current one, the
  one remembered, and one more. Loops of one send already overlap; the proofs
  cover any number of sends.

Symmetry is used only in runs without liveness (`mm_pool`, `mm_crowd`,
`pair`, `attrib`), over values that are interchangeable in Init, Next and the properties.
CHECK_DEADLOCK is off everywhere: these are servers without input, and a state
with nothing to do is legitimate (all pods gone, nobody connected).

Operators marked "Sabotaged" are not used by the specifications. Each is a
plausible bug in the operator after it (a dropped guard, a forgotten reset, an
off-by-one); PROJECT.json names the property that catches it.

### Fairness

Safety runs use none. `LonelySpec` assumes weak fairness of the kick
goroutine's own steps, which wait for a sleep or a lock only. The two
POSTs are not fair: `http.Post` uses a client without a timeout, so
`CloseKicked` may never come, and `KickFinishes` says just that: a kick ends,
or hangs in its clicks. `FairSpec` assumes that the reaper's ticker, its
callback and running timers are scheduled; `KickClose` is not fair, for the same
reason. Nothing is assumed about clients,
hosts, pods, or which packets come.

`FairSpec` of `PodWatch`: both programs poll on tickers, so their lists are
strongly fair (the API server is up again and again, `WF(ApiChanges)`, but may
be down at any moment), and the rest of a cycle is weakly fair. Pods, the
kubelet and the token are not fair. `FairSpec` of `SimulatedHost`: the
goroutines are scheduled, time passes, packets arrive, and a client repeats
itself and its pings. What a client repeats is not always overtaken by its own
name broadcasts (the SF conjunct). It need not give up, nor start, nor speak
first.

## 4. Properties

Matchmaking: `AtMostTwoPerHost`, `AssignedIsListed`, `ClaimStands`,
`NeverPairsAcrossHosts`, `StrangersStayOut` (beside a pair nobody else has a
session), `AtMostOneLeftBehind` (the bound on what `mm_orphan` shows: of a removed
pod one session or one relay, never more), `KeepsSeatContract`. LonelySweep:
`SweepSparesAHost` (that no host of the pool is left to go to can only come from a
pod going away), `KickFinishes`. PairMatch: `PeersShareTheirRelay` (the relay
returned without a look at its endpoints is nevertheless the right one),
`SettledPairsStay` (two paired clients are not parted by the timers, kicks and
callbacks of those who were there before them), `SilenceFreesTheHost`. Attribution: `AttributedToTheirHost`, `ConnIdsAreApart`,
`LearnedIdDecides`. PodWatch: `PoolFollowsPods`, `ResultsGoWithTheirPods`,
`HostingPodsStay`, `OnlyGonePodsLeave`. SimulatedHost: `AckIsCurrent`, `OneOpener`,
`RejectionIsCurrent`, `NobodyIsForgotten` (a client that has its ack is still going
to be sent what it waits for), `AttemptEnds`. One
type invariant per module. Each is stated in words above its definition.

Five of them name what they leave open. `SettledPairsStay` is about pairs with
nothing of their own pending: a late callback, timer or kick of an endpoint's
EARLIER session closes its newer relay, since `onClientGone` and `doCloseSession`
go by address. `SweepSparesAHost` does not forbid that the last spared host goes
away with its pod while the others are being emptied. `ResultsGoWithTheirPods` ends with the
life of the token the agent has read. `HostingPodsStay` is about times when the
agent's lists succeed: while they fail the registry repeats its last results, and
a pod it last saw closed is restarted although it hosts by now. `AttemptEnds`
lets a client be `Refused`: rejected before, it opens again on the session port
and no ping of its new attempt was answered. `simulateSessionPacket` returns for
a rejected entry before it looks at the conn-ID, so the reset of `rejected` in
`resetIfStaleConnID` never runs.

## 5. Proofs

From the ASSUMEs of each module only: for `Matchmaking` any hosts, a finite set
of clients, any sharing of IPs and any cushions; for `LonelySweep` also any
threshold; for `PairMatch` any finite set of clients; for
`Attribution` any hosts, clients and conn-IDs; for `PodWatch` any pods, threshold
and number of rotations; for `SimulatedHost` any number of entries and of sends.

| Theorem | Statement |
|---|---|
| `Invariance` | `Spec => []Inv` |
| `TypeCorrect` | `Spec => []TypeOK` |
| `Capacity` | `Spec => []AtMostTwoPerHost` |
| `NoDeadAssignment` | `Spec => []AssignedIsListed` |
| `ClaimsStand` | `Spec => ClaimStands` |
| `PairsStayOnOneHost` | `Spec => NeverPairsAcrossHosts` |
| `SeatContract` | `Spec => KeepsSeatContract` (refinement of `HostSeats`) |
| `OccupancyInvariance` | `Spec => []Occupancy` |
| `MatchesAreClosed` | `Spec => []StrangersStayOut` |
| `LittleIsLeftBehind` | `Spec => []AtMostOneLeftBehind` |
| `SeatsAreNotShared` | `HostSeats`: seats bound every host, a client is on one host |
| `MatchedHostsAreClosed` | `HostSeats`: a matched host only loses clients |
| `LonelyTypeCorrect` | `LonelySpec => []LonelyTypeOK` |
| `SweepSpares` | `LonelySpec => SweepSparesAHost` |
| `CapacityUnderKicks` | `LonelySpec => [](AtMostTwoPerHost /\ AssignedIsListed)` |
| `OccupancyUnderKicks` | `LonelySpec => [](StrangersStayOut /\ AtMostOneLeftBehind)` |
| `SeatContractUnderKicks` | `LonelySpec => KeepsSeatContract` |
| `ClaimsStandUnderKicks` | `LonelySpec => ClaimStands` |
| `PairTypeCorrect` | `Spec => []PairTypeOK` |
| `PeersShare` | `Spec => []PeersShareTheirRelay` |
| `PairsStayTogether` | `Spec => SettledPairsStay` |
| `PairKeepsSeats` | `Spec => Seats!Spec` (refinement of `HostSeats`) |
| `AttributionTyping` | `Spec => []AttributionTypeOK` |
| `HostsAreIsolated` | `Spec => []AttributedToTheirHost` |
| `ConnIdsStayApart` | `Spec => []ConnIdsAreApart` |
| `LearnedIdsDecide` | `Spec => []LearnedIdDecides` |
| `WatchTyping` | `Spec => []WatchTypeOK` |
| `HostingPodsAreLeftAlone` | `Spec => HostingPodsStay` |
| `PoolKeepsRunningPods` | `Spec => OnlyGonePodsLeave` |
| `SimulatedTyping` | `Spec => []SimulatedTypeOK` |
| `AcksAreCurrent` | `Spec => []AckIsCurrent` |
| `OneOpenerCalls` | `Spec => []OneOpener` |
| `AlwaysAttemptInv` | `Spec => []AttemptInv` |
| `NobodyIsLeftWaiting` | `Spec => []NobodyIsForgotten` |
| `RejectionsAreCurrent` | `Spec => RejectionIsCurrent` |

### Matchmaking

"At most two" is not inductive: the state in which the loop is about to insert
into a host that has become full satisfies it. `LoopInv` says what the session
loop may rely on between its steps. While it is `selected` or `admitted`, its
client has no session, the host has no relay and fewer than two sessions; while
it is pairing, both clients are on the host or have no session. It holds because nobody but the loop inserts sessions or
creates relays: every other step only deletes sessions and closes relays
(lemma `LoopFrame`, which settles all those steps at once). The refinement
reuses this: only `InsertSession` gives a seat (`OneJoins`, from `Admitting`),
only `EnsurePairRelay` matches a host, when it has no relay (`OneMatches`, from
`Pairing`), and
everything else is clients leaving (`ClientsLeave`).

Note what is not in `Inv`: that the host is still listed. That is the gap
`mm_orphan` shows, and `AtMostOneLeftBehind` is how far it goes. `Occupancy` is
inductive on top of `Inv`. `Company`: whoever has a session on a paired host is
one of the pair, also while the pair is being made (from the broadcast on, the
host's sessions and the loop's client are at most two; once a peer is found
nobody but the two is left). `LeftBehind`: while the loop has a removed host in
hand, that host has neither a session nor a relay, so the handler leaves there
the one thing it creates; afterwards the host is not selected again, and with
one session there is no second to pair it with.

`SeatsAreNotShared` and `MatchedHostsAreClosed` are about `HostSeats` alone, for
finitely many clients and any number of seats: what keeping the contract gives
to whatever module implements it.

### LonelySweep

`LonelyInv` joins `Inv` with the kick's bookkeeping. What matchmaking does here
is a step of `Matchmaking` (`MatchmakeIsNext`), so `Inv` survives it; a kick's
teardown is one more departure in the sense of `LoopFrame`, even when it deletes
a session on another host (`CloseKeepsInv`). `SweepSparesAHost` goes step by step: a sweep needs two lonely hosts
that are listed and spared, and takes one of them; no other step starts a kick, and
only `RemoveHost` unlists a host. What was proved of `Matchmaking` carries over along one observation:
each step of the composition either is a step of `Matchmaking` or only deletes
a session, a relay or an assignment. Deleting is leaving in the sense of
`HostSeats`, disturbs neither part of `Occupancy`, and touches no claim.

### PairMatch

`PeersShareTheirRelay` is about an instant; why it holds goes back to the
last join. `Company` records it: there are at most two clients; while there is a
relay, whoever has a session is one of its endpoints, because a relay keeps
newcomers out; from the broadcast on, the loop's client together with those
still on the host are at most two, because the loop is the one that inserts
sessions; so once a peer is found, nobody but the two can be left, and an
existing relay that serves a client with a session serves exactly them.

`PairsStayTogether` rests on the same `Company`: with both endpoints seated nobody
else is on the host, so every timer, callback and kick under way is about somebody
who has left or will be found absent, and `onClientGone` and `Drop` for a stranger
do nothing to the pair (`StrangerGone`, `DropOnly`). A relay keeps a newcomer out,
and a broadcast in hand reuses it. What is left is the reaper, which takes an
endpoint only when both its channels are idle.

`PairKeepsSeats` maps the host's one seat set to the open sessions and `matched`
to "there is a relay". `Join` asks the contract's questions (`SeatTaken`), only
`EnsurePairRelay` matches (`MatchMade`), and every other step lets clients leave
or a relay end (`SeatsLeave`). It is stated by proof only: as a property of the
run `pair` TLC agrees, but takes three minutes for what the proof says in general.

### Attribution

The three properties and the types are inductive together with `Unlearned`: once
the loop has gone on from `ByConnID`, no session of the packet's host has learned
the packet's conn-ID, and none can learn it, because only this loop learns, at
the end of its handler. So a guess is made only for conn-IDs nobody has, which
keeps them apart and lets a learned one decide. What is not in the invariant,
and cannot be, is that the session that learns a conn-ID is the one it belongs to:
that is the gap `attrib_guess` shows.

### PodWatch

`HostingPodsStay` looks at one moment, a restart; why it holds goes back two
polls. A pod that hosted when one poll ended (`HostedStillHosts`) is in the list
of the next cycle and is probed in it with success, or will be
(`ListedAndProbed`); so when the next poll ends without a failed list, the
registry does not call it closed (`NotThoughtClosed`), and nothing but another
container or a failed list changes that.

`OnlyGonePodsLeave` is about a list that is old when it is used. `PoolInv` says
why that does no harm: pods do not come back, only running ones were ever
listed, and nothing joins the pool between a list and its use, so what the pool
has and the list in hand lacks is gone by then.

### SimulatedHost

Everything a client has under way is of its current attempt (`OneConnID`), so a
loop started beside an older one is the only one of its attempt (`RoomForOne`),
and only the current conn-ID is acknowledged. An opener that is still calling
belongs to the entry in the table and keeps it fresh (`CallerInTable`): such an
entry is neither stale nor rejected, which is what evicting it would take.

`NobodyIsForgotten` is the safety core of `AttemptEnds`: fairness can deliver only
what somebody is going to send. `AttemptInv` follows one attempt through the
handshake. Before its ack no entry in use knows its conn-ID (`Unconnected`); from
the ack until the host's name arrives a loop of that conn-ID has sends left
(`LoopWaits`); an entry that replaces the one a packet is being handled with is
new, and its opener is calling (`Replaced`); so the client's name, which comes
last (`NameIsLast`), meets an entry that has no conn-ID or the current one
(`Current`) and is answered (`Answered`). The same parts give `RejectionIsCurrent`.

### Only model-checked

`KickFinishes`, `SilenceFreesTheHost`, `PoolFollowsPods`,
`ResultsGoWithTheirPods` and `AttemptEnds`, which depend on fairness and are
beyond the prover. Every invariant and every action property of the passing runs
is proved, and so is `KeepsSeatContract`.

## 6. Where code and documents disagree

| Run | Violated | In short |
|---|---|---|
| `mm_orphan` | `SessionsOnListedHosts` | `removeHost` between selection and insertion leaves a session on a removed pod |
| `lonely_kick` | `KickIsLocal` | "harmless no-op on an already-gone session" - it deletes the address's newer session |
| `pair_ready` | `StartsWithBothPresent` | "both real clients are now ready" - a departed client's late toggle counts |
| `attrib_guess` | `ConnIdIsTheirs` | "sess is already known for certain, unlike relayBackendInitiated's guesswork" - since the sessions lost their sockets, the guesswork is what learns |

PROJECT.json quotes the lines. Three more disagreements were met while modelling
and are recorded among its hazards without a run: an assignment called sticky
"for the life of that client's connection" is dropped when the client's own
session makes its host full (main.go:1396); a relay may be created for a client
that has just gone, and keeps its host full, if both have gone until the host is
removed (4648); the lonely clock of the
survivor of a pair is the departed client's (3729).

## 7. Not modelled

* Payload layouts, rewriting of addresses, synthesized messages, the welcome
  chat: pure functions whose results the modelled logic does not read.
* Discovery sessions: the sockets `discoveryProxy` dials, `backendToClient`, and
  the queries it withholds while a host cools down. What discovery decides about
  hosts is in `Matchmaking` (`DiscoveryQuery`).
* The welcome message and `hostSeq`, which it numbers itself by: sent a second
  after landing from a timer, read by nobody.
* A pod that keeps its name and changes its IP. `reconcileOnce` compares names
  only and would keep the old address; a Deployment's pods do not do this.
* The clicks of `triggerMatchStart` after `markStarted`.
* `input-agent`, manifests, images, scripts, recordings: no state.
* The five-second stall of `pollOtherSessionClientAddr`. It sleeps in the only
  goroutine that could insert the session it waits for, so it finds a peer
  at its first look or not at all; the model has it decide at once.

## 8. Plan

1. `Discovery`: its sessions and their reader goroutines (`backendToClient`
   deletes by key whatever session is there), withheld queries, admission of a
   waiting client when others come and go.
2. Match start: the click that may fail after `markStarted`, and a host reused
   for a second pair.
3. Proofs: `StartsWithBothPresent` with the check that the code lacks, as a
   statement of what would repair it; that a kick whose clicks return before its
   victim moves on is local (`KickIsLocal`).
