--------------------------- MODULE SimulatedHost ---------------------------
(***************************************************************************)
(* A client that finds no eligible host is played a host by aom-lobby      *)
(* (lobby/main.go), only to be told in the game's own protocol that the    *)
(* lobby is full.  Everything is kept per address of a client, an entry of *)
(* simulatedClients: this module is about one address.                     *)
(*                                                                         *)
(* The discovery loop (a ping opens), the session loop (a packet is        *)
(* answered), one opener per opening and one name-broadcast loop per       *)
(* connection run beside each other; the client may give up and come back  *)
(* with a new conn-ID at any time.                                         *)
(***************************************************************************)
EXTENDS Integers

CONSTANTS
    Entries,    \* bound: simulatedClientStates in use at a time
    ConnIds,    \* bound: conn-IDs of the client, a new one for each attempt
    Opens,      \* sends of an opener (20 in the code)
    Broadcasts, \* sends of a name-broadcast loop (20 in the code)
    Nil

ASSUME Sends == Opens \in Nat \ {0} /\ Broadcasts \in Nat \ {0}
ASSUME NilIsApart == Nil \notin Entries \cup ConnIds
ASSUME EnoughConnIds == \A a, b \in ConnIds \cup {Nil} : ConnIds \ {a, b} # {}

VARIABLES
    table,    \* simulatedClients[key]
    conn,     \* of each entry: clientConnID, Nil until known
    started,  \* ... nameBroadcastStarted
    rejected, \* ... rejected
    fresh,    \* entries with activity within simulatedClientIdleExpiry
    opens,    \* of each entry: what its opener has still to send
    names,    \* ... and its name-broadcast loops
    held,     \* the entry simulateSessionPacket has found for a packet
    packet,   \* ... the packet
    toLobby, toClient, \* packets under way, in any order
    stage,    \* of the client's attempt
    mine      \* the client's conn-ID in it

entryVars  == <<conn, started, rejected>>
loopVars   == <<opens, names>>
heldVars   == <<held, packet>>
clientVars == <<stage, mine>>
vars == <<table, entryVars, fresh, loopVars, heldVars, toLobby, toClient, clientVars>>

Msg(kind, c) == [kind |-> kind, conn |-> c]
ClientMsgs == {Msg(k, c) : k \in {"open", "ack", "name"}, c \in ConnIds}
LobbyMsgs  == {Msg("ack", c) : c \in ConnIds} \cup {Msg(k, Nil) : k \in {"open", "name", "full"}}

SimulatedTypeOK ==
    /\ table \in Entries \cup {Nil} /\ held \in Entries \cup {Nil}
    /\ conn \in [Entries -> ConnIds \cup {Nil}]
    /\ started \in [Entries -> BOOLEAN] /\ rejected \in [Entries -> BOOLEAN]
    /\ fresh \subseteq Entries
    /\ opens \in [Entries -> 0..Opens] /\ names \in [Entries -> 0..(2 * Broadcasts)]
    /\ packet \in ClientMsgs \cup {Nil} /\ (held # Nil => packet \in ClientMsgs)
    /\ toLobby \subseteq ClientMsgs /\ toClient \subseteq LobbyMsgs
    /\ stage \in {"idle", "pinging", "open", "connected", "named"}
    /\ mine \in ConnIds \cup {Nil}
    /\ \A e \in Entries : (started[e] <=> conn[e] # Nil) /\ (rejected[e] => started[e])

Init ==
    /\ table = Nil /\ held = Nil /\ packet = Nil /\ fresh = {}
    /\ conn = [e \in Entries |-> Nil]
    /\ started = [e \in Entries |-> FALSE] /\ rejected = [e \in Entries |-> FALSE]
    /\ opens = [e \in Entries |-> 0] /\ names = [e \in Entries |-> 0]
    /\ toLobby = {} /\ toClient = {}
    /\ stage = "idle" /\ mine = Nil

-----------------------------------------------------------------------------
(* The client (external)                                                    *)

\* A new attempt has a new conn-ID, and comes long after the packets of the last one.
StartAttempt ==
    /\ stage = "idle" /\ held = Nil
    /\ \A e \in Entries : names[e] <= Broadcasts
    /\ mine' = CHOOSE c \in ConnIds : c # mine /\ (table # Nil => c # conn[table])
    /\ stage' = "pinging" /\ toLobby' = {} /\ toClient' = {}
    /\ UNCHANGED <<table, entryVars, fresh, loopVars, heldVars>>

GiveUp ==
    /\ stage # "idle" /\ stage' = "idle"
    /\ UNCHANGED <<table, entryVars, fresh, loopVars, heldVars, toLobby, toClient, mine>>

Says(kinds) == toLobby' = toLobby \cup {Msg(k, mine) : k \in kinds}

\* It opens on its own, having waited in vain, or having found a host that is full now.
ClientOpens ==
    /\ stage = "pinging" /\ stage' = "open" /\ Says({"open"})
    /\ UNCHANGED <<table, entryVars, fresh, loopVars, heldVars, toClient, mine>>

\* Every packet is repeated until there is an answer.
ClientRepeats ==
    /\ \/ stage = "open" /\ Says({"open"})
       \/ stage = "named" /\ Says({"name"})
    /\ UNCHANGED <<table, entryVars, fresh, loopVars, heldVars, toClient, clientVars>>

\* Where a packet takes the client, and what it answers; "idle" ignores everything.
NextStage(m) ==
    CASE m.kind = "open" /\ stage = "pinging"              -> "open"
      [] m = Msg("ack", mine) /\ stage = "open"            -> "connected"
      [] m.kind = "name" /\ stage = "connected"            -> "named"
      [] m.kind = "full" /\ stage = "named"                -> "idle"
      [] OTHER                                             -> stage

Answer(m) ==
    CASE m.kind = "open" /\ stage # "idle"                 -> {"ack", "open"}
      [] m.kind = "name" /\ stage \in {"connected", "named"} -> {"name"}
      [] OTHER                                             -> {}

ClientHears(m) ==
    /\ m \in toClient /\ toClient' = toClient \ {m}
    /\ stage' = NextStage(m) /\ Says(Answer(m))
    /\ UNCHANGED <<table, entryVars, fresh, loopVars, heldVars, mine>>

-----------------------------------------------------------------------------
(* beginSimulatedHostOpen and its goroutine                                 *)

\* Entries nothing refers to: a new simulatedClientState takes one of them.
Unused == {e \in Entries \ {table, held} : opens[e] = 0 /\ names[e] = 0}

\* A new state at the client's address, with an opener that has n packets to send.
NewEntry(e, n) ==
    /\ e \in Unused /\ table' = e
    /\ conn' = [conn EXCEPT ![e] = Nil]
    /\ started' = [started EXCEPT ![e] = FALSE]
    /\ rejected' = [rejected EXCEPT ![e] = FALSE]
    /\ opens' = [opens EXCEPT ![e] = n]
    /\ fresh' = fresh \cup {e}

\* Sabotaged: an entry blocks new attempts for ever (the code before 2026-08-18).
BlockedForEver == table # Nil /\ ~rejected[table]

\* Sabotaged: every ping starts a new opening.
NeverBlocked == FALSE

\* "already kicked off (or already talking) for this client, still active".
Blocked == table # Nil /\ ~rejected[table] /\ table \in fresh

\* On a ping; the client pings again and again, and a ping may come late.
BeginOpen ==
    /\ stage \in {"pinging", "open"} /\ ~Blocked
    /\ \E e \in Entries : NewEntry(e, Opens)
    /\ UNCHANGED <<names, heldVars, toLobby, toClient, clientVars>>

OpenerStops(e) ==
    /\ opens[e] > 0 /\ (conn[e] # Nil \/ rejected[e])
    /\ opens' = [opens EXCEPT ![e] = 0]
    /\ UNCHANGED <<table, entryVars, fresh, names, heldVars, toLobby, toClient, clientVars>>

OpenerSends(e) ==
    /\ opens[e] > 0 /\ conn[e] = Nil /\ ~rejected[e]
    /\ opens' = [opens EXCEPT ![e] = @ - 1]
    /\ fresh' = fresh \cup {e} /\ toClient' = toClient \cup {Msg("open", Nil)}
    /\ UNCHANGED <<table, entryVars, names, heldVars, toLobby, clientVars>>

\* Three minutes without activity: longer than a client waits for an answer.
GoesStale(e) ==
    /\ e \in fresh /\ opens[e] = 0 /\ names[e] = 0
    /\ held = Nil /\ toLobby = {} /\ stage \in {"idle", "pinging"}
    /\ fresh' = fresh \ {e}
    /\ UNCHANGED <<table, entryVars, loopVars, heldVars, toLobby, toClient, clientVars>>

-----------------------------------------------------------------------------
(* simulateSessionPacket                                                    *)

\* The state is looked up under simulatedClientsMu ...
FindEntry(m) ==
    /\ held = Nil /\ m \in toLobby
    /\ toLobby' = toLobby \ {m} /\ packet' = m
    /\ IF table # Nil
       THEN held' = table /\ UNCHANGED <<table, entryVars, opens, fresh>>
       ELSE \E e \in Entries : NewEntry(e, 0) /\ held' = e
    /\ UNCHANGED <<names, toClient, clientVars>>

\* ... and used under its own lock, when it may not be in the table any more.
Handled ==
    /\ held' = Nil /\ packet' = Nil /\ fresh' = fresh \cup {held}
    /\ UNCHANGED <<table, opens, toLobby, clientVars>>

\* Before the connection is known a name is dropped; after the rejection everything is.
Ignored ==
    /\ held # Nil
    /\ rejected[held] \/ (packet.kind = "name" /\ conn[held] = Nil)
    /\ Handled /\ UNCHANGED <<entryVars, names, toClient>>

\* Sabotaged: the first conn-ID learned is kept.
KeepConnID(e, c) ==
    /\ conn' = [conn EXCEPT ![e] = IF @ = Nil THEN c ELSE @]
    /\ started' = [started EXCEPT ![e] = TRUE]
    /\ names' = IF started[e] THEN names ELSE [names EXCEPT ![e] = @ + Broadcasts]

\* Sabotaged: a new connection does not get a name-broadcast loop of its own.
KeepNameLoop(e, c) ==
    /\ conn' = [conn EXCEPT ![e] = c]
    /\ started' = [started EXCEPT ![e] = TRUE]
    /\ names' = IF started[e] THEN names ELSE [names EXCEPT ![e] = @ + Broadcasts]

\* resetIfStaleConnID, and beginSimulatedNameBroadcast unless the loop of this
\* connection is already there.  The loop of an earlier connection runs on.
ResetIfStaleConnID(e, c) ==
    /\ conn' = [conn EXCEPT ![e] = c]
    /\ started' = [started EXCEPT ![e] = TRUE]
    /\ names' = IF started[e] /\ conn[e] = c THEN names
                ELSE [names EXCEPT ![e] = @ + Broadcasts]

\* Sabotaged: whatever conn-ID comes is acknowledged, the first one is remembered.
ConnectAnew ==
    /\ held # Nil /\ ~rejected[held] /\ packet.kind \in {"open", "ack"}
    /\ KeepConnID(held, packet.conn)
    /\ toClient' = toClient \cup {Msg("ack", packet.conn)}
    /\ Handled /\ UNCHANGED rejected

\* The client's own open and its ack of the host's are handled alike.
Connect ==
    /\ held # Nil /\ ~rejected[held] /\ packet.kind \in {"open", "ack"}
    /\ ResetIfStaleConnID(held, packet.conn)
    /\ toClient' = toClient \cup {Msg("ack", conn'[held])}
    /\ Handled /\ UNCHANGED rejected

\* Sabotaged: the name is taken before the connection is known.
RejectAnyName ==
    /\ held # Nil /\ ~rejected[held] /\ packet.kind = "name"
    /\ rejected' = [rejected EXCEPT ![held] = TRUE]
    /\ toClient' = toClient \cup {Msg("name", Nil), Msg("full", Nil)}
    /\ Handled /\ UNCHANGED <<conn, started, names>>

\* The client has told its name: it is told the lobby's, and that it is full.
Reject ==
    /\ held # Nil /\ ~rejected[held] /\ packet.kind = "name" /\ conn[held] # Nil
    /\ rejected' = [rejected EXCEPT ![held] = TRUE]
    /\ toClient' = toClient \cup {Msg("name", Nil), Msg("full", Nil)}
    /\ Handled /\ UNCHANGED <<conn, started, names>>

\* runSimulatedNameBroadcastLoop.
BroadcastStops(e) ==
    /\ names[e] > 0 /\ rejected[e]
    /\ names' = [names EXCEPT ![e] = 0]
    /\ UNCHANGED <<table, entryVars, fresh, opens, heldVars, toLobby, toClient, clientVars>>

\* It waits before it sends: the ack has arrived by then.
BroadcastName(e) ==
    /\ names[e] > 0 /\ ~rejected[e]
    /\ \A m \in toClient : m.kind # "ack"
    /\ names' = [names EXCEPT ![e] = @ - 1]
    /\ fresh' = fresh \cup {e} /\ toClient' = toClient \cup {Msg("name", Nil)}
    /\ UNCHANGED <<table, entryVars, opens, heldVars, toLobby, clientVars>>

\* Any other session packet, heartbeats among them, only makes or refreshes the entry;
\* a client that is pinging has no session to send one in.
StrayPacket ==
    /\ held = Nil /\ stage # "pinging"
    /\ IF table # Nil
       THEN fresh' = fresh \cup {table} /\ UNCHANGED <<table, entryVars, opens>>
       ELSE \E e \in Entries : NewEntry(e, 0)
    /\ UNCHANGED <<names, heldVars, toLobby, toClient, clientVars>>

-----------------------------------------------------------------------------
SessionLoop == (\E m \in ClientMsgs : FindEntry(m)) \/ Ignored \/ Connect \/ Reject

Senders == \E e \in Entries :
    OpenerStops(e) \/ OpenerSends(e) \/ BroadcastStops(e) \/ BroadcastName(e)

TimePasses == \E e \in Entries : GoesStale(e)

Hears == \E m \in LobbyMsgs : ClientHears(m)

Next ==
    \/ StartAttempt \/ GiveUp \/ ClientOpens \/ ClientRepeats \/ Hears
    \/ BeginOpen \/ SessionLoop \/ StrayPacket \/ Senders \/ TimePasses

Spec == Init /\ [][Next]_vars

\* The goroutines are scheduled, time passes, packets arrive, and the client repeats
\* itself; it neither has to give up nor to speak first.
FairSpec ==
    /\ Spec
    /\ WF_vars(stage = "pinging" /\ BeginOpen)
    /\ WF_vars(SessionLoop) /\ WF_vars(Senders) /\ WF_vars(TimePasses)
    /\ SF_vars(\E m \in ClientMsgs : m.kind # "name" /\ FindEntry(m))
    /\ WF_vars(Hears) /\ WF_vars(ClientRepeats)

-----------------------------------------------------------------------------
(* Properties                                                               *)

\* A client that has been rejected, and then speaks on the session port without a ping
\* that reached the discovery port's own reply, is not answered.
Refused == /\ table # Nil /\ rejected[table] /\ conn[table] # mine
           /\ stage = "open"

\* A patient client gets its rejection, whatever earlier attempts left behind: entries,
\* openers, loops, conn-IDs (both 2026-08-18 corrections and the one of 2026-08-17).
AttemptEnds == stage # "idle" ~> stage = "idle" \/ Refused

\* What is acknowledged is the connection the client is opening now.
AckIsCurrent == \A c \in ConnIds : Msg("ack", c) \in toClient => c = mine

\* However often the client pings, one opener at most is calling it.
OneOpener ==
    \A e, f \in Entries :
       opens[e] > 0 /\ opens[f] > 0 /\ conn[e] = Nil /\ conn[f] = Nil => e = f

\* The lobby's name comes: it is on its way, or a loop is going to send it.
NameComes ==
    \/ Msg("name", Nil) \in toClient
    \/ \E e \in Entries : conn[e] = mine /\ names[e] > 0 /\ ~rejected[e]

\* The table's entry, should it not know the client yet, will hear from it.
CallUnderWay ==
    \/ opens[table] > 0 \/ Msg("open", Nil) \in toClient
    \/ \E m \in toLobby : m.kind # "name"
    \/ held = table /\ packet.kind # "name"

\* The table's entry will answer the client's name.
WillReject == table # Nil /\ ~rejected[table] /\ (conn[table] # Nil \/ CallUnderWay)

\* Once a client has its ack, it and the lobby never wait for each other: such a client
\* is going to be told the lobby's name (the correction of resetIfStaleConnID:
\* an earlier connection's entry is used, but its loop may be over), and one that has
\* told its own is going to be rejected, also if a ping put a new entry in the table
\* while a packet was handled with the old one.
NobodyIsForgotten ==
    /\ stage = "connected" => NameComes
    /\ stage = "named" => Msg("full", Nil) \in toClient \/ WillReject

\* Only the connection of the current attempt is rejected, although a client's name is
\* taken without a look at its conn-ID and the entry may be an earlier attempt's.
RejectionIsCurrent ==
    [][\A e \in Entries : ~rejected[e] /\ rejected'[e] => conn[e] = mine]_vars
=============================================================================
