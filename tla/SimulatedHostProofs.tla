------------------------ MODULE SimulatedHostProofs ------------------------
(***************************************************************************)
(* Proofs about SimulatedHost, for any number of entries, conn-IDs and     *)
(* repetitions.  The argument: everything under way carries the conn-ID of *)
(* the current attempt, so an entry starts one loop per attempt and        *)
(* acknowledges nothing else; and an entry leaves the table only when its  *)
(* opener has stopped, being known to the client or long silent.           *)
(*                                                                         *)
(* On top of it, AttemptInv follows an attempt through the handshake: what *)
(* the client has been sent tells what the lobby is still going to do.  An *)
(* entry may be replaced while a packet is handled with it, the table's    *)
(* lock being released in between; the one that replaces it has an opener, *)
(* and the client answers an opener at every stage.                        *)
(***************************************************************************)
EXTENDS SimulatedHost, TLAPS

\* Whatever the client has sent and the lobby not yet handled is of this attempt.
OneConnID ==
    /\ stage # "idle" => mine # Nil
    /\ \A m \in toLobby : m.conn = mine
    /\ held # Nil => packet.conn = mine

\* A second loop beside an old one is started at most once in an attempt.
RoomForOne ==
    \A e \in Entries : conn[e] # mine => names[e] <= Broadcasts

\* A calling opener belongs to the entry in the table, and keeps it fresh.
CallerInTable ==
    \A e \in Entries : opens[e] > 0 /\ conn[e] = Nil => e = table /\ e \in fresh

SimulatedInv ==
    SimulatedTypeOK /\ OneConnID /\ RoomForOne /\ CallerInTable /\ AckIsCurrent

LEMMA SimulatedInit == Init => SimulatedInv
  BY Sends, NilIsApart DEF Init, SimulatedInv, SimulatedTypeOK, OneConnID, RoomForOne,
     CallerInTable, AckIsCurrent, Msg

\* The parts of a client's packet.
LEMMA ClientMsgParts ==
  ASSUME NEW m \in ClientMsgs
  PROVE  m.kind \in {"open", "ack", "name"} /\ m.conn \in ConnIds
  BY DEF ClientMsgs, Msg

\* What the client says is of its attempt.
LEMMA SaysMine ==
  ASSUME SimulatedInv, NEW kinds \in SUBSET {"open", "ack", "name"}, Says(kinds),
         kinds = {} \/ mine # Nil
  PROVE  toLobby' \subseteq ClientMsgs /\ \A m \in toLobby' : m.conn = mine
<1>1. mine # Nil => {Msg(k, mine) : k \in kinds} \subseteq ClientMsgs
  BY DEF ClientMsgs, SimulatedInv, SimulatedTypeOK
<1>2. \A m \in {Msg(k, mine) : k \in kinds} : m.conn = mine
  BY DEF Msg
<1>3. QED
  BY <1>1, <1>2 DEF Says, SimulatedInv, SimulatedTypeOK, OneConnID

-----------------------------------------------------------------------------
(* The client                                                               *)

LEMMA StartKeepsInv ==
  ASSUME SimulatedInv, StartAttempt
  PROVE  SimulatedInv'
<1>1. mine' \in ConnIds
  <2>1. \E c \in ConnIds : c # mine /\ (table # Nil => c # conn[table])
    BY EnoughConnIds DEF SimulatedInv, SimulatedTypeOK
  <2>2. QED BY <2>1 DEF StartAttempt
<1>2. QED
  BY <1>1, NilIsApart DEF StartAttempt, SimulatedInv, SimulatedTypeOK, OneConnID,
     RoomForOne, CallerInTable, AckIsCurrent, entryVars, loopVars, heldVars

LEMMA ClientKeepsInv ==
  ASSUME SimulatedInv, stage' \in {"idle", "pinging", "open", "connected", "named"},
         stage # "idle" \/ stage' = "idle",
         toClient' \subseteq toClient,
         toLobby' \subseteq ClientMsgs /\ \A m \in toLobby' : m.conn = mine,
         UNCHANGED <<table, entryVars, fresh, loopVars, heldVars, mine>>
  PROVE  SimulatedInv'
  BY DEF SimulatedInv, SimulatedTypeOK, OneConnID, RoomForOne, CallerInTable, AckIsCurrent,
     entryVars, loopVars, heldVars

LEMMA ClientStepsKeepInv ==
  ASSUME SimulatedInv, GiveUp \/ ClientOpens \/ ClientRepeats \/ Hears
  PROVE  SimulatedInv'
<1>1. CASE GiveUp
  BY <1>1, ClientKeepsInv DEF GiveUp, SimulatedInv, SimulatedTypeOK, OneConnID
<1>2. CASE ClientOpens
  <2>1. mine # Nil
    BY <1>2 DEF ClientOpens, SimulatedInv, OneConnID
  <2>2. QED BY <1>2, <2>1, SaysMine, ClientKeepsInv DEF ClientOpens
<1>3. CASE ClientRepeats
  <2>1. mine # Nil /\ stage' = stage /\ mine' = mine /\ stage # "idle"
    BY <1>3 DEF ClientRepeats, SimulatedInv, OneConnID, clientVars
  <2>2. toLobby' \subseteq ClientMsgs /\ \A m \in toLobby' : m.conn = mine
    BY <1>3, <2>1, SaysMine DEF ClientRepeats
  <2>3. QED
    BY <1>3, <2>1, <2>2, ClientKeepsInv DEF ClientRepeats, SimulatedInv, SimulatedTypeOK
<1>4. ASSUME NEW m \in LobbyMsgs, ClientHears(m) PROVE SimulatedInv'
  <2>1. /\ NextStage(m) \in {"idle", "pinging", "open", "connected", "named"}
        /\ stage = "idle" => NextStage(m) = "idle"
    BY DEF NextStage, SimulatedInv, SimulatedTypeOK
  <2>2. /\ Answer(m) \in SUBSET {"open", "ack", "name"}
        /\ stage = "idle" => Answer(m) = {}
    BY DEF Answer
  <2>3. toLobby' \subseteq ClientMsgs /\ \A k \in toLobby' : k.conn = mine
    BY <1>4, <2>2, SaysMine DEF ClientHears, SimulatedInv, OneConnID
  <2>4. QED BY <1>4, <2>1, <2>3, ClientKeepsInv DEF ClientHears
<1>5. QED BY <1>1, <1>2, <1>3, <1>4 DEF Hears

-----------------------------------------------------------------------------
(* The lobby                                                                *)

\* A new entry, when no other opener is calling.
LEMMA NewEntryKeeps ==
  ASSUME SimulatedInv, NEW e \in Entries, NEW n \in 0..Opens, NewEntry(e, n),
         \A f \in Entries : ~(opens[f] > 0 /\ conn[f] = Nil), names' = names, mine' = mine
  PROVE  /\ table' \in Entries
         /\ conn' \in [Entries -> ConnIds \cup {Nil}]
         /\ started' \in [Entries -> BOOLEAN] /\ rejected' \in [Entries -> BOOLEAN]
         /\ fresh' \subseteq Entries /\ opens' \in [Entries -> 0..Opens]
         /\ \A f \in Entries : (started'[f] <=> conn'[f] # Nil) /\ (rejected'[f] => started'[f])
         /\ RoomForOne' /\ CallerInTable'
<1>1. /\ table' = e /\ fresh' = fresh \cup {e} /\ e \in Unused
      /\ conn' \in [Entries -> ConnIds \cup {Nil}] /\ conn'[e] = Nil
      /\ started' \in [Entries -> BOOLEAN] /\ ~started'[e]
      /\ rejected' \in [Entries -> BOOLEAN] /\ ~rejected'[e]
      /\ opens' \in [Entries -> 0..Opens]
      /\ \A f \in Entries \ {e} : /\ conn'[f] = conn[f] /\ started'[f] = started[f]
                                 /\ rejected'[f] = rejected[f] /\ opens'[f] = opens[f]
  BY DEF NewEntry, SimulatedInv, SimulatedTypeOK
<1>2. RoomForOne'
  BY <1>1, Sends DEF SimulatedInv, RoomForOne, Unused
<1>3. CallerInTable'
  BY <1>1 DEF SimulatedInv, CallerInTable
<1>4. QED BY <1>1, <1>2, <1>3 DEF SimulatedInv, SimulatedTypeOK

LEMMA BeginKeepsInv ==
  ASSUME SimulatedInv, BeginOpen
  PROVE  SimulatedInv'
<1>1. PICK e \in Entries : NewEntry(e, Opens)
  BY DEF BeginOpen
<1>2. \A f \in Entries : ~(opens[f] > 0 /\ conn[f] = Nil)
  <2>1. SUFFICES ASSUME NEW f \in Entries, opens[f] > 0, conn[f] = Nil PROVE FALSE
    OBVIOUS
  <2>2. f = table /\ f \in fresh /\ f # Nil
    BY <2>1, NilIsApart DEF SimulatedInv, CallerInTable
  <2>3. ~rejected[f]
    BY <2>1 DEF SimulatedInv, SimulatedTypeOK
  <2>4. QED BY <2>2, <2>3 DEF BeginOpen, Blocked
<1>3. Opens \in 0..Opens
  BY Sends
<1>4. names' = names /\ UNCHANGED <<held, packet, toLobby, toClient, stage, mine>>
  BY DEF BeginOpen, heldVars, clientVars
<1>5. /\ table' \in Entries
      /\ conn' \in [Entries -> ConnIds \cup {Nil}]
      /\ started' \in [Entries -> BOOLEAN] /\ rejected' \in [Entries -> BOOLEAN]
      /\ fresh' \subseteq Entries /\ opens' \in [Entries -> 0..Opens]
      /\ \A f \in Entries : (started'[f] <=> conn'[f] # Nil) /\ (rejected'[f] => started'[f])
      /\ RoomForOne' /\ CallerInTable'
  BY <1>1, <1>2, <1>3, <1>4, NewEntryKeeps
<1>6. SimulatedTypeOK'
  BY <1>4, <1>5 DEF SimulatedInv, SimulatedTypeOK
<1>7. OneConnID' /\ AckIsCurrent'
  BY <1>4 DEF SimulatedInv, OneConnID, AckIsCurrent
<1>8. QED BY <1>5, <1>6, <1>7 DEF SimulatedInv

LEMMA FindKeepsInv ==
  ASSUME SimulatedInv, NEW m \in ClientMsgs, FindEntry(m)
  PROVE  SimulatedInv'
<1>1. /\ held = Nil /\ m \in toLobby /\ toLobby' = toLobby \ {m} /\ packet' = m
      /\ UNCHANGED <<names, toClient, stage, mine>>
  BY DEF FindEntry, clientVars
<1>2. m.conn = mine
  BY <1>1 DEF SimulatedInv, OneConnID
<1>3. CASE table # Nil
  <2>1. held' = table /\ UNCHANGED <<table, entryVars, opens, fresh>>
    BY <1>3 DEF FindEntry
  <2>2. QED
    BY <1>1, <1>2, <1>3, <2>1 DEF SimulatedInv, SimulatedTypeOK, OneConnID, RoomForOne,
       CallerInTable, AckIsCurrent, entryVars
<1>4. CASE table = Nil
  <2>1. PICK e \in Entries : NewEntry(e, 0) /\ held' = e
    BY <1>4 DEF FindEntry
  <2>2. \A f \in Entries : ~(opens[f] > 0 /\ conn[f] = Nil)
    BY <1>4, NilIsApart DEF SimulatedInv, CallerInTable
  <2>3. 0 \in 0..Opens
    BY Sends
  <2>4. /\ table' \in Entries
        /\ conn' \in [Entries -> ConnIds \cup {Nil}]
        /\ started' \in [Entries -> BOOLEAN] /\ rejected' \in [Entries -> BOOLEAN]
        /\ fresh' \subseteq Entries /\ opens' \in [Entries -> 0..Opens]
        /\ \A f \in Entries : (started'[f] <=> conn'[f] # Nil) /\ (rejected'[f] => started'[f])
        /\ RoomForOne' /\ CallerInTable'
    BY <1>1, <2>1, <2>2, <2>3, NewEntryKeeps
  <2>5. SimulatedTypeOK'
    BY <1>1, <2>1, <2>4, NilIsApart DEF SimulatedInv, SimulatedTypeOK
  <2>6. OneConnID' /\ AckIsCurrent'
    BY <1>1, <1>2 DEF SimulatedInv, OneConnID, AckIsCurrent
  <2>7. QED BY <2>4, <2>5, <2>6 DEF SimulatedInv
<1>5. QED BY <1>3, <1>4

LEMMA StrayKeepsInv ==
  ASSUME SimulatedInv, StrayPacket
  PROVE  SimulatedInv'
<1>1. UNCHANGED <<names, held, packet, toLobby, toClient, stage, mine>>
  BY DEF StrayPacket, heldVars, clientVars
<1>2. CASE table # Nil
  <2>1. /\ UNCHANGED <<table, conn, started, rejected, opens>> /\ table \in Entries
        /\ fresh' = fresh \cup {table}
    BY <1>2 DEF StrayPacket, entryVars, SimulatedInv, SimulatedTypeOK
  <2>2. QED
    BY <1>1, <2>1 DEF SimulatedInv, SimulatedTypeOK, OneConnID, RoomForOne, CallerInTable,
       AckIsCurrent
<1>3. CASE table = Nil
  <2>1. PICK e \in Entries : NewEntry(e, 0)
    BY <1>3 DEF StrayPacket
  <2>2. \A f \in Entries : ~(opens[f] > 0 /\ conn[f] = Nil)
    BY <1>3, NilIsApart DEF SimulatedInv, CallerInTable
  <2>3. 0 \in 0..Opens
    BY Sends
  <2>4. /\ table' \in Entries
        /\ conn' \in [Entries -> ConnIds \cup {Nil}]
        /\ started' \in [Entries -> BOOLEAN] /\ rejected' \in [Entries -> BOOLEAN]
        /\ fresh' \subseteq Entries /\ opens' \in [Entries -> 0..Opens]
        /\ \A f \in Entries : (started'[f] <=> conn'[f] # Nil) /\ (rejected'[f] => started'[f])
        /\ RoomForOne' /\ CallerInTable'
    BY <1>1, <2>1, <2>2, <2>3, NewEntryKeeps
  <2>5. SimulatedTypeOK'
    BY <1>1, <2>4 DEF SimulatedInv, SimulatedTypeOK
  <2>6. OneConnID' /\ AckIsCurrent'
    BY <1>1 DEF SimulatedInv, OneConnID, AckIsCurrent
  <2>7. QED BY <2>4, <2>5, <2>6 DEF SimulatedInv
<1>4. QED BY <1>2, <1>3

\* A step that hands on a packet, given what it does to the entry and the client.
LEMMA HandledKeepsInv ==
  ASSUME SimulatedInv, held # Nil, Handled,
         conn' \in [Entries -> ConnIds \cup {Nil}],
         started' \in [Entries -> BOOLEAN], rejected' \in [Entries -> BOOLEAN],
         \A e \in Entries : (started'[e] <=> conn'[e] # Nil) /\ (rejected'[e] => started'[e]),
         \A e \in Entries : conn[e] # Nil => conn'[e] # Nil,
         names' \in [Entries -> 0..(2 * Broadcasts)], RoomForOne',
         toClient' \subseteq LobbyMsgs, AckIsCurrent'
  PROVE  SimulatedInv'
<1>1. held \in Entries
  BY DEF SimulatedInv, SimulatedTypeOK
<1>2. SimulatedTypeOK'
  BY <1>1, NilIsApart DEF Handled, SimulatedInv, SimulatedTypeOK, clientVars
<1>3. OneConnID' /\ CallerInTable'
  BY <1>1 DEF Handled, SimulatedInv, SimulatedTypeOK, OneConnID, CallerInTable, clientVars
<1>4. QED BY <1>2, <1>3 DEF SimulatedInv

LEMMA ConnectKeepsInv ==
  ASSUME SimulatedInv, Connect
  PROVE  SimulatedInv'
<1>1. /\ held \in Entries /\ packet.conn = mine /\ mine \in ConnIds /\ mine # Nil
      /\ mine' = mine /\ rejected' = rejected
  BY ClientMsgParts, NilIsApart
     DEF Connect, Handled, clientVars, SimulatedInv, SimulatedTypeOK, OneConnID
<1>2. /\ conn' = [conn EXCEPT ![held] = mine]
      /\ started' = [started EXCEPT ![held] = TRUE]
      /\ names' = IF started[held] /\ conn[held] = mine THEN names
                  ELSE [names EXCEPT ![held] = @ + Broadcasts]
  BY <1>1 DEF Connect, ResetIfStaleConnID
<1>3. /\ conn' \in [Entries -> ConnIds \cup {Nil}] /\ started' \in [Entries -> BOOLEAN]
      /\ conn'[held] = mine /\ started'[held]
      /\ \A e \in Entries \ {held} : conn'[e] = conn[e] /\ started'[e] = started[e]
  BY <1>1, <1>2 DEF SimulatedInv, SimulatedTypeOK
<1>4. names' \in [Entries -> 0..(2 * Broadcasts)] /\ RoomForOne'
  <2>1. CASE conn[held] = mine
    <3>1. names' = names
      BY <1>1, <1>2, <2>1 DEF SimulatedInv, SimulatedTypeOK
    <3>2. QED BY <1>1, <1>3, <3>1 DEF SimulatedInv, SimulatedTypeOK, RoomForOne
  <2>2. CASE conn[held] # mine
    <3>1. names[held] \in 0..Broadcasts
      BY <1>1, <2>2, Sends DEF SimulatedInv, SimulatedTypeOK, RoomForOne
    <3>2. names[held] + Broadcasts \in 0..(2 * Broadcasts)
      BY <3>1, Sends
    <3>3. names' = [names EXCEPT ![held] = @ + Broadcasts]
      BY <1>2, <2>2
    <3>4. names' \in [Entries -> 0..(2 * Broadcasts)]
      BY <1>1, <3>2, <3>3 DEF SimulatedInv, SimulatedTypeOK
    <3>5. \A e \in Entries \ {held} : names'[e] = names[e]
      BY <3>3 DEF SimulatedInv, SimulatedTypeOK
    <3>6. QED BY <1>1, <1>3, <3>4, <3>5 DEF SimulatedInv, RoomForOne
  <2>3. QED BY <2>1, <2>2
<1>5. toClient' = toClient \cup {Msg("ack", mine)}
  BY <1>1, <1>3 DEF Connect
<1>6. toClient' \subseteq LobbyMsgs
  BY <1>1, <1>5 DEF LobbyMsgs, SimulatedInv, SimulatedTypeOK
<1>7. AckIsCurrent'
  BY <1>1, <1>5 DEF SimulatedInv, AckIsCurrent, Msg
<1>8. /\ rejected' \in [Entries -> BOOLEAN]
      /\ \A e \in Entries : (started'[e] <=> conn'[e] # Nil) /\ (rejected'[e] => started'[e])
      /\ \A e \in Entries : conn[e] # Nil => conn'[e] # Nil
  BY <1>1, <1>3 DEF SimulatedInv, SimulatedTypeOK
<1>9. held # Nil /\ Handled
  BY DEF Connect
<1>10. QED
  BY <1>3, <1>4, <1>6, <1>7, <1>8, <1>9, HandledKeepsInv

LEMMA RejectKeepsInv ==
  ASSUME SimulatedInv, Reject
  PROVE  SimulatedInv'
<1>1. held \in Entries /\ mine' = mine /\ held # Nil /\ Handled
  BY DEF Reject, Handled, clientVars, SimulatedInv, SimulatedTypeOK
<1>2. /\ rejected' \in [Entries -> BOOLEAN] /\ UNCHANGED <<conn, started, names>>
      /\ \A e \in Entries : rejected'[e] => started[e]
  BY <1>1 DEF Reject, SimulatedInv, SimulatedTypeOK
<1>3. toClient' \subseteq LobbyMsgs
  BY DEF Reject, LobbyMsgs, SimulatedInv, SimulatedTypeOK
<1>4. AckIsCurrent'
  BY <1>1 DEF Reject, SimulatedInv, AckIsCurrent, Msg
<1>5. RoomForOne'
  BY <1>1, <1>2 DEF SimulatedInv, RoomForOne
<1>6. QED
  BY <1>1, <1>2, <1>3, <1>4, <1>5, HandledKeepsInv DEF SimulatedInv, SimulatedTypeOK

LEMMA IgnoredKeepsInv ==
  ASSUME SimulatedInv, Ignored
  PROVE  SimulatedInv'
<1>1. held # Nil /\ Handled /\ mine' = mine /\ UNCHANGED <<entryVars, names, toClient>>
  BY DEF Ignored, Handled, clientVars
<1>2. QED
  BY <1>1, HandledKeepsInv
     DEF SimulatedInv, SimulatedTypeOK, RoomForOne, AckIsCurrent, entryVars

\* The goroutines beside the loops.
LEMMA SendersKeepInv ==
  ASSUME SimulatedInv, NEW e \in Entries,
         OpenerStops(e) \/ OpenerSends(e) \/ GoesStale(e) \/ BroadcastStops(e)
            \/ BroadcastName(e)
  PROVE  SimulatedInv'
<1>1. UNCHANGED <<table, entryVars, heldVars, toLobby, clientVars>>
  BY DEF OpenerStops, OpenerSends, GoesStale, BroadcastStops, BroadcastName
<1>2. /\ opens' \in [Entries -> 0..Opens] /\ \A f \in Entries : opens'[f] <= opens[f]
  <2>1. opens \in [Entries -> 0..Opens] /\ \A f \in Entries : opens[f] \in Nat
    BY Sends DEF SimulatedInv, SimulatedTypeOK
  <2>2. CASE opens' = opens
    BY <2>1, <2>2
  <2>3. CASE opens' = [opens EXCEPT ![e] = 0]
    BY <2>1, <2>3, Sends
  <2>4. CASE opens[e] > 0 /\ opens' = [opens EXCEPT ![e] = @ - 1]
    BY <2>1, <2>4, Sends
  <2>5. QED
    BY <2>2, <2>3, <2>4 DEF OpenerStops, OpenerSends, GoesStale, BroadcastStops,
       BroadcastName, loopVars
<1>3. /\ names' \in [Entries -> 0..(2 * Broadcasts)]
      /\ \A f \in Entries : names'[f] <= names[f]
  BY Sends DEF OpenerStops, OpenerSends, GoesStale, BroadcastStops, BroadcastName,
     SimulatedInv, SimulatedTypeOK, loopVars
<1>4. /\ fresh' \subseteq Entries
      /\ \A f \in Entries : f \in fresh /\ opens[f] > 0 => f \in fresh'
  BY DEF OpenerStops, OpenerSends, GoesStale, BroadcastStops, BroadcastName,
     SimulatedInv, SimulatedTypeOK
<1>5. toClient' \subseteq toClient \cup {Msg("open", Nil), Msg("name", Nil)}
  BY DEF OpenerStops, OpenerSends, GoesStale, BroadcastStops, BroadcastName
<1>6. SimulatedTypeOK'
  BY <1>1, <1>2, <1>3, <1>4, <1>5 DEF SimulatedInv, SimulatedTypeOK, entryVars, heldVars,
     clientVars, LobbyMsgs
<1>7. OneConnID'
  BY <1>1 DEF SimulatedInv, OneConnID, heldVars, clientVars
<1>8. RoomForOne'
  <2>1. \A f \in Entries : names[f] \in Nat /\ names'[f] \in Nat
    BY <1>3, Sends DEF SimulatedInv, SimulatedTypeOK
  <2>2. QED
    BY <1>1, <1>3, <2>1, Sends DEF SimulatedInv, RoomForOne, entryVars, clientVars
<1>9. CallerInTable'
  <2>1. \A f \in Entries : opens[f] \in Nat /\ opens'[f] \in Nat
    BY <1>2, Sends DEF SimulatedInv, SimulatedTypeOK
  <2>2. QED
    BY <1>1, <1>2, <1>4, <2>1 DEF SimulatedInv, CallerInTable, entryVars
<1>10. AckIsCurrent'
  BY <1>1, <1>5 DEF SimulatedInv, AckIsCurrent, Msg, clientVars
<1>11. QED BY <1>6, <1>7, <1>8, <1>9, <1>10 DEF SimulatedInv

LEMMA SimulatedNext == SimulatedInv /\ [Next]_vars => SimulatedInv'
<1> SUFFICES ASSUME SimulatedInv, [Next]_vars PROVE SimulatedInv'
  OBVIOUS
<1>1. CASE UNCHANGED vars
  BY <1>1 DEF vars, entryVars, loopVars, heldVars, clientVars, SimulatedInv,
     SimulatedTypeOK, OneConnID, RoomForOne, CallerInTable, AckIsCurrent
<1>2. CASE SessionLoop
  BY <1>2, FindKeepsInv, IgnoredKeepsInv, ConnectKeepsInv, RejectKeepsInv DEF SessionLoop
<1>3. CASE Senders \/ TimePasses
  BY <1>3, SendersKeepInv DEF Senders, TimePasses
<1>4. QED
  BY <1>1, <1>2, <1>3, StartKeepsInv, ClientStepsKeepInv, BeginKeepsInv, StrayKeepsInv
  DEF Next

-----------------------------------------------------------------------------
(* Where the current attempt is                                             *)

Acked     == \E m \in toClient : m.kind = "ack"
Connected == stage \in {"connected", "named"} \/ (stage = "open" /\ Acked)
NameSent  == (\E m \in toLobby : m.kind = "name") \/ (held # Nil /\ packet.kind = "name")

\* Until the attempt has its ack no entry that can still be used knows its conn-ID ...
Unconnected ==
    /\ stage = "pinging" => toLobby = {} /\ held = Nil /\ ~Acked
    /\ stage \in {"pinging", "open"} /\ ~Acked =>
          \A e \in {table, held} : e # Nil => conn[e] # mine

\* ... and when it has, a loop waits for the ack to arrive, and then for its turn.
LoopWaits ==
    /\ stage = "open" /\ Acked =>
          \E e \in Entries : conn[e] = mine /\ names[e] > 0 /\ ~rejected[e]
    /\ stage = "connected" => NameComes

\* A client tells its name last.
NameIsLast == NameSent => stage \in {"named", "idle"}

\* An entry that replaces the one a packet is being handled with is new to the client,
\* which is being called.
Replaced ==
    /\ held # Nil => table # Nil
    /\ held \notin {Nil, table} => conn[table] = Nil /\ (stage # "idle" => CallUnderWay)

Answered == Connected => WillReject \/ (stage = "named" /\ Msg("full", Nil) \in toClient)

\* The entry a name is found with knows no other connection.
Current ==
    /\ (Connected \/ NameSent) /\ table # Nil => conn[table] \in {Nil, mine}
    /\ held # Nil /\ packet.kind = "name" => conn[held] \in {Nil, mine}

AttemptInv == Unconnected /\ LoopWaits /\ NameIsLast /\ Replaced /\ Answered /\ Current

LEMMA AttemptInit == Init => AttemptInv
BY DEF Init, AttemptInv, Unconnected, LoopWaits, NameIsLast, Replaced, Answered, Current,
       Connected, NameSent, Acked

\* A new attempt finds nothing under way.
LEMMA StartKeepsAttempt ==
  ASSUME SimulatedInv, AttemptInv, StartAttempt
  PROVE  AttemptInv'
<1>1. /\ stage' = "pinging" /\ toLobby' = {} /\ toClient' = {} /\ held' = Nil
      /\ conn' = conn /\ table' = table
  BY DEF StartAttempt, heldVars, entryVars
<1>2. table # Nil => conn[table] # mine'
  <2>1. \E c \in ConnIds : c # mine /\ (table # Nil => c # conn[table])
    BY EnoughConnIds DEF SimulatedInv, SimulatedTypeOK
  <2>. QED
    BY <2>1 DEF StartAttempt
<1>. QED
  BY <1>1, <1>2
  DEF AttemptInv, Unconnected, LoopWaits, NameIsLast, Replaced, Answered, Current,
      Connected, NameSent, Acked

\* What the client says on its own says nothing new to the invariant.
LEMMA ClientKeepsAttempt ==
  ASSUME SimulatedInv, AttemptInv, GiveUp \/ ClientOpens \/ ClientRepeats
  PROVE  AttemptInv'
<1>. USE DEF entryVars, loopVars, heldVars, clientVars
<1>0. /\ UNCHANGED <<table, conn, rejected, opens, names, held, packet, toClient, mine>>
      /\ Acked' = Acked /\ (NameComes' <=> NameComes)
  BY DEF GiveUp, ClientOpens, ClientRepeats, Acked, NameComes
<1>1. CASE GiveUp
  BY <1>0, <1>1
  DEF GiveUp, AttemptInv, Unconnected, LoopWaits, NameIsLast, Replaced, Answered, Current,
      Connected, NameSent
<1>2. ASSUME toLobby \subseteq toLobby' PROVE CallUnderWay => CallUnderWay'
  BY <1>0, <1>2 DEF CallUnderWay
<1>3. CASE ClientOpens
  <2>1. /\ stage = "pinging" /\ stage' = "open" /\ toLobby \subseteq toLobby'
        /\ \A m \in toLobby' : m \in toLobby \/ m.kind = "open"
    BY <1>3 DEF ClientOpens, Says, Msg
  <2>2. NameSent' <=> NameSent
    BY <1>0, <2>1 DEF NameSent
  <2>. QED
    BY <1>0, <1>2, <2>1, <2>2
    DEF AttemptInv, Unconnected, LoopWaits, NameIsLast, Replaced, Answered, Current,
        Connected
<1>4. CASE ClientRepeats
  <2>1. /\ stage \in {"open", "named"} /\ stage' = stage /\ toLobby \subseteq toLobby'
        /\ \A m \in toLobby' : m \in toLobby \/ m.kind = "open" \/ stage = "named"
    BY <1>4 DEF ClientRepeats, Says, Msg
  <2>2. stage # "named" => (NameSent' <=> NameSent)
    BY <1>0, <2>1 DEF NameSent
  <2>3. WillReject => WillReject'
    BY <1>0, <1>2, <2>1 DEF WillReject
  <2>. QED
    BY <1>0, <1>2, <2>1, <2>2, <2>3
    DEF AttemptInv, Unconnected, LoopWaits, NameIsLast, Replaced, Answered, Current,
        Connected
<1>. QED
  BY <1>1, <1>3, <1>4

\* A packet moves the client on, or makes it answer the call.
LEMMA HearsKeepsAttempt ==
  ASSUME SimulatedInv, AttemptInv, NEW m \in LobbyMsgs, ClientHears(m)
  PROVE  AttemptInv'
<1>. USE DEF entryVars, loopVars, heldVars
<1>0. /\ UNCHANGED <<table, conn, rejected, opens, names, held, packet, mine>>
      /\ m \in toClient /\ toClient' = toClient \ {m} /\ toLobby \subseteq toLobby'
      /\ stage \in {"idle", "pinging", "open", "connected", "named"}
      /\ stage' = NextStage(m)
  BY DEF ClientHears, Says, SimulatedInv, SimulatedTypeOK
<1>1. \/ m.kind = "ack" /\ m = Msg("ack", mine)
      \/ m = Msg("open", Nil) /\ m.kind = "open"
      \/ m = Msg("name", Nil) /\ m.kind = "name"
      \/ m = Msg("full", Nil) /\ m.kind = "full"
  BY <1>0 DEF LobbyMsgs, Msg, SimulatedInv, AckIsCurrent
<1>2. stage = "idle" => AttemptInv'
  <2>1. stage = "idle" => stage' = "idle" /\ toLobby' = toLobby
    BY <1>0 DEF ClientHears, NextStage, Answer, Says
  <2>. QED
    BY <1>0, <2>1
    DEF AttemptInv, Unconnected, LoopWaits, NameIsLast, Replaced, Answered, Current,
        Connected, NameSent
<1>3. CASE stage # "idle" /\ m.kind = "ack"
  <2>1. toLobby' = toLobby /\ ~Acked' /\ Acked
    BY <1>0, <1>1, <1>3
    DEF ClientHears, Answer, Says, Acked, SimulatedInv, SimulatedTypeOK, AckIsCurrent,
        LobbyMsgs, Msg
  <2>2. stage' = IF stage = "open" THEN "connected" ELSE stage
    BY <1>0, <1>1, <1>3 DEF NextStage
  <2>3. /\ NameComes => NameComes'
        /\ CallUnderWay => CallUnderWay'
        /\ Msg("full", Nil) \in toClient => Msg("full", Nil) \in toClient'
    BY <1>0, <1>3, <2>1 DEF NameComes, CallUnderWay, Msg
  <2>4. (WillReject => WillReject') /\ (NameSent' <=> NameSent)
    BY <1>0, <2>1, <2>3 DEF WillReject, NameSent
  <2>5. LoopWaits'
    BY <1>0, <2>1, <2>2, <2>3 DEF AttemptInv, LoopWaits, NameComes
  <2>. QED
    BY <1>0, <2>1, <2>2, <2>3, <2>4, <2>5
    DEF AttemptInv, Unconnected, NameIsLast, Replaced, Answered, Current, Connected
<1>4. CASE stage # "idle" /\ m.kind # "ack"
  <2>1. (Acked' <=> Acked) /\ (stage' = "open" /\ Acked => stage = "open")
    BY <1>0, <1>1, <1>4 DEF Acked, NextStage, AttemptInv, Unconnected, Msg
  <2>2. CASE m.kind = "open"
    <3>1. /\ \E k \in toLobby' : k.kind # "name"
          /\ \A k \in toLobby' : k \in toLobby \/ k.kind # "name"
      <4>1. Answer(m) = {"ack", "open"}
        BY <1>4, <2>2 DEF Answer
      <4>2. toLobby' = toLobby \cup {Msg(k, mine) : k \in {"ack", "open"}}
        BY <4>1 DEF ClientHears, Says
      <4>3. \A k \in {"ack", "open"} : Msg(k, mine).kind # "name"
        BY DEF Msg
      <4>4. Msg("open", mine) \in toLobby'
        BY <4>2
      <4>. QED
        BY <4>2, <4>3, <4>4
    <3>2. stage' = IF stage = "pinging" THEN "open" ELSE stage
      BY <1>0, <1>1, <2>2 DEF NextStage, Msg
    <3>3. /\ CallUnderWay' /\ (NameSent' <=> NameSent)
          /\ NameComes => NameComes'
          /\ Msg("full", Nil) \in toClient => Msg("full", Nil) \in toClient'
      BY <1>0, <1>1, <2>2, <3>1 DEF CallUnderWay, NameSent, NameComes, Msg
    <3>4. WillReject => WillReject'
      BY <1>0, <3>3 DEF WillReject
    <3>. QED
      BY <1>0, <1>4, <2>1, <3>2, <3>3, <3>4
      DEF AttemptInv, Unconnected, LoopWaits, NameIsLast, Replaced, Answered, Current,
          Connected
  <2>3. CASE m.kind = "name"
    <3>1. stage' = IF stage = "connected" THEN "named" ELSE stage
      BY <1>0, <1>1, <2>3 DEF NextStage, Msg
    <3>2. stage' # "named" => toLobby' = toLobby
      BY <1>0, <1>1, <2>3, <3>1 DEF ClientHears, Answer, Says, Msg
    <3>3. /\ CallUnderWay => CallUnderWay'
          /\ stage' # "named" => (NameSent' <=> NameSent)
          /\ Msg("full", Nil) \in toClient => Msg("full", Nil) \in toClient'
      BY <1>0, <1>1, <2>3, <3>2 DEF CallUnderWay, NameSent, Msg
    <3>4. WillReject => WillReject'
      BY <1>0, <3>3 DEF WillReject
    <3>. QED
      BY <1>0, <1>4, <2>1, <3>1, <3>2, <3>3, <3>4
      DEF AttemptInv, Unconnected, LoopWaits, NameIsLast, Replaced, Answered, Current,
          Connected
  <2>4. CASE m.kind = "full"
    <3>1. /\ stage' = IF stage = "named" THEN "idle" ELSE stage
          /\ toLobby' = toLobby
      BY <1>0, <1>1, <2>4 DEF ClientHears, NextStage, Answer, Says, Msg
    <3>2. /\ CallUnderWay => CallUnderWay'
          /\ NameSent' <=> NameSent
          /\ NameComes => NameComes'
      BY <1>0, <1>1, <2>4, <3>1 DEF CallUnderWay, NameSent, NameComes, Msg
    <3>3. WillReject => WillReject'
      BY <1>0, <3>2 DEF WillReject
    <3>. QED
      BY <1>0, <1>4, <2>1, <3>1, <3>2, <3>3
      DEF AttemptInv, Unconnected, LoopWaits, NameIsLast, Replaced, Answered, Current,
          Connected
  <2>. QED
    BY <1>1, <1>4, <2>2, <2>3, <2>4
<1>. QED
  BY <1>2, <1>3, <1>4

-----------------------------------------------------------------------------
(* The lobby, under the attempt                                             *)

\* A new entry is of no use yet to whoever counts on the old one, but harms nobody: it
\* knows no connection, and nobody counted on it before.
LEMMA NewEntryIsNew ==
  ASSUME SimulatedInv, NEW e \in Entries, NEW n, NewEntry(e, n)
  PROVE  /\ table' = e /\ e # Nil /\ e \notin {table, held}
         /\ names[e] = 0
         /\ conn'[e] = Nil /\ ~rejected'[e] /\ opens'[e] = n
         /\ \A f \in Entries \ {e} : conn'[f] = conn[f] /\ rejected'[f] = rejected[f]
BY NilIsApart DEF NewEntry, Unused, SimulatedInv, SimulatedTypeOK

LEMMA BeginKeepsAttempt ==
  ASSUME SimulatedInv, AttemptInv, BeginOpen
  PROVE  AttemptInv'
<1>1. PICK e \in Entries : NewEntry(e, Opens)
  BY DEF BeginOpen
<1>2. /\ table' = e /\ e # Nil /\ e \notin {table, held}
      /\ names[e] = 0
      /\ conn'[e] = Nil /\ ~rejected'[e] /\ opens'[e] = Opens
      /\ \A f \in Entries \ {e} : conn'[f] = conn[f] /\ rejected'[f] = rejected[f]
  BY <1>1, NewEntryIsNew
<1>3. /\ stage \in {"pinging", "open"} /\ mine # Nil
      /\ UNCHANGED <<names, held, packet, toLobby, toClient, stage, mine>>
  BY DEF BeginOpen, heldVars, clientVars, SimulatedInv, OneConnID
<1>4. held \in Entries \cup {Nil}
  BY DEF SimulatedInv, SimulatedTypeOK
<1>5. CallUnderWay' /\ WillReject'
  BY <1>2, Sends DEF CallUnderWay, WillReject
<1>6. (Acked' <=> Acked) /\ (NameSent' <=> NameSent)
  BY <1>3 DEF Acked, NameSent
<1>7. Unconnected'
  BY <1>2, <1>3, <1>4, <1>6 DEF AttemptInv, Unconnected
<1>8. LoopWaits'
  <2>1. ASSUME NEW f \in Entries, conn[f] = mine, names[f] > 0, ~rejected[f]
        PROVE  conn'[f] = mine' /\ names'[f] > 0 /\ ~rejected'[f]
    BY <1>2, <1>3, <2>1
  <2>. QED
    BY <1>3, <1>6, <2>1 DEF AttemptInv, LoopWaits
<1>9. NameIsLast' /\ Replaced'
  BY <1>2, <1>3, <1>5, <1>6 DEF AttemptInv, NameIsLast, Replaced
<1>10. Answered' /\ Current'
  BY <1>2, <1>3, <1>4, <1>5, <1>6 DEF AttemptInv, Answered, Current
<1>. QED
  BY <1>7, <1>8, <1>9, <1>10 DEF AttemptInv

LEMMA FindKeepsAttempt ==
  ASSUME SimulatedInv, AttemptInv, NEW m \in ClientMsgs, FindEntry(m)
  PROVE  AttemptInv'
<1>1. /\ held = Nil /\ m \in toLobby /\ toLobby' = toLobby \ {m} /\ packet' = m
      /\ UNCHANGED <<names, toClient, stage, mine>>
  BY DEF FindEntry, clientVars
<1>2. /\ stage # "pinging" /\ (Acked' <=> Acked) /\ (NameSent' => NameSent)
      /\ m.kind = "name" => NameSent
      /\ table \in Entries \cup {Nil} /\ (stage # "idle" => mine # Nil)
  BY <1>1
  DEF Acked, NameSent, AttemptInv, Unconnected, SimulatedInv, SimulatedTypeOK, OneConnID
<1>3. CASE table # Nil
  <2>1. held' = table /\ UNCHANGED <<table, conn, rejected, opens>>
    BY <1>3 DEF FindEntry, entryVars
  <2>2. CallUnderWay => CallUnderWay'
    <3>1. ASSUME NEW k \in toLobby, k.kind # "name" PROVE CallUnderWay'
      <4>1. CASE k = m
        BY <1>1, <2>1, <3>1, <4>1 DEF CallUnderWay
      <4>2. CASE k # m
        BY <1>1, <3>1, <4>2 DEF CallUnderWay
      <4>. QED
        BY <4>1, <4>2
    <3>2. held # table
      BY <1>1, <1>3
    <3>. QED
      BY <1>1, <2>1, <3>1, <3>2 DEF CallUnderWay
  <2>4. NameComes' <=> NameComes
    BY <1>1, <2>1 DEF NameComes
  <2>3. WillReject => WillReject'
    BY <2>1, <2>2 DEF WillReject
  <2>. QED
    BY <1>1, <1>2, <1>3, <2>1, <2>3, <2>4
    DEF AttemptInv, Unconnected, LoopWaits, NameIsLast, Replaced, Answered, Current,
        Connected
<1>4. CASE table = Nil
  <2>1. PICK e \in Entries : NewEntry(e, 0) /\ held' = e
    BY <1>4 DEF FindEntry
  <2>2. /\ table' = e /\ e # Nil /\ names[e] = 0 /\ conn'[e] = Nil
        /\ \A f \in Entries \ {e} : conn'[f] = conn[f] /\ rejected'[f] = rejected[f]
    BY <2>1, NewEntryIsNew
  <2>3. Connected => stage = "named" /\ Msg("full", Nil) \in toClient
    BY <1>4 DEF AttemptInv, Answered, WillReject
  <2>4. Connected' <=> Connected
    BY <1>1, <1>2 DEF Connected
  <2>5. Unconnected'
    BY <1>1, <1>2, <2>1, <2>2 DEF Unconnected
  <2>6. LoopWaits'
    BY <1>1, <1>2, <2>3 DEF Connected, LoopWaits
  <2>7. NameIsLast' /\ Replaced'
    BY <1>1, <1>2, <2>1, <2>2 DEF AttemptInv, NameIsLast, Replaced
  <2>8. Answered' /\ Current'
    BY <1>1, <2>1, <2>2, <2>3, <2>4 DEF Answered, Current
  <2>. QED
    BY <2>5, <2>6, <2>7, <2>8 DEF AttemptInv
<1>. QED
  BY <1>3, <1>4

\* An entry that a packet makes is one nobody counts on.
LEMMA StrayKeepsAttempt ==
  ASSUME SimulatedInv, AttemptInv, StrayPacket
  PROVE  AttemptInv'
<1>1. /\ UNCHANGED <<names, held, packet, toLobby, toClient, stage, mine>>
      /\ held = Nil /\ stage # "pinging" /\ (stage # "idle" => mine # Nil)
  BY DEF StrayPacket, heldVars, clientVars, SimulatedInv, OneConnID
<1>2. CASE table # Nil
  <2>1. UNCHANGED <<table, conn, rejected, opens>>
    BY <1>2 DEF StrayPacket, entryVars
  <2>. QED
    BY <1>1, <2>1
    DEF AttemptInv, Unconnected, LoopWaits, NameIsLast, Replaced, Answered, Current,
        Connected, NameSent, Acked, WillReject, CallUnderWay, NameComes
<1>3. CASE table = Nil
  <2>1. PICK e \in Entries : NewEntry(e, 0)
    BY <1>3 DEF StrayPacket
  <2>2. /\ table' = e /\ e # Nil /\ names[e] = 0 /\ conn'[e] = Nil
        /\ \A f \in Entries \ {e} : conn'[f] = conn[f] /\ rejected'[f] = rejected[f]
    BY <2>1, NewEntryIsNew
  <2>3. (Acked' <=> Acked) /\ (NameSent' <=> NameSent) /\ (Connected' <=> Connected)
    BY <1>1 DEF Acked, NameSent, Connected
  <2>4. Connected => stage = "named" /\ Msg("full", Nil) \in toClient
    BY <1>3 DEF AttemptInv, Answered, WillReject
  <2>5. Unconnected'
    BY <1>1, <2>2, <2>3 DEF Unconnected
  <2>6. LoopWaits'
    BY <1>1, <2>3, <2>4 DEF Connected, LoopWaits
  <2>7. NameIsLast' /\ Replaced'
    BY <1>1, <2>2, <2>3 DEF AttemptInv, NameIsLast, Replaced
  <2>8. Answered' /\ Current'
    BY <1>1, <2>2, <2>3, <2>4 DEF Answered, Current
  <2>. QED
    BY <2>5, <2>6, <2>7, <2>8 DEF AttemptInv
<1>. QED
  BY <1>2, <1>3

\* Of a packet that was ignored, nobody was waiting for an answer.
LEMMA IgnoredKeepsAttempt ==
  ASSUME SimulatedInv, AttemptInv, Ignored
  PROVE  AttemptInv'
<1>1. /\ held # Nil /\ held' = Nil
      /\ UNCHANGED <<table, conn, rejected, opens, names, toLobby, toClient, stage, mine>>
      /\ rejected[held] \/ packet.kind = "name"
  BY DEF Ignored, Handled, clientVars, entryVars
<1>2. /\ (Acked' <=> Acked) /\ (NameSent' => NameSent) /\ (NameComes' <=> NameComes)
  BY <1>1 DEF Acked, NameSent, NameComes
<1>3. WillReject => WillReject'
  BY <1>1 DEF WillReject, CallUnderWay
<1>. QED
  BY <1>1, <1>2, <1>3
  DEF AttemptInv, Unconnected, LoopWaits, NameIsLast, Replaced, Answered, Current,
      Connected

\* An ack goes to a client whose connection has its loop, and whose name will be answered
\* - by this entry, or by one whose opener is calling.
LEMMA ConnectKeepsAttempt ==
  ASSUME SimulatedInv, AttemptInv, Connect
  PROVE  AttemptInv'
<1>1. /\ held \in Entries /\ held # Nil /\ ~rejected[held] /\ held' = Nil
      /\ packet.kind \in {"open", "ack"} /\ packet.conn = mine
      /\ UNCHANGED <<table, rejected, opens, toLobby, stage, mine>>
      /\ table \in Entries /\ table # Nil /\ mine # Nil /\ stage # "pinging"
  BY ClientMsgParts, NilIsApart
  DEF Connect, Handled, clientVars, SimulatedInv, SimulatedTypeOK, OneConnID,
      AttemptInv, Unconnected, Replaced
<1>2. /\ conn' = [conn EXCEPT ![held] = mine]
      /\ names' = IF started[held] /\ conn[held] = mine THEN names
                  ELSE [names EXCEPT ![held] = @ + Broadcasts]
      /\ toClient' = toClient \cup {Msg("ack", conn'[held])}
  BY <1>1 DEF Connect, ResetIfStaleConnID
<1>3. /\ conn'[held] = mine /\ \A e \in Entries \ {held} : conn'[e] = conn[e]
      /\ Acked' /\ toClient \subseteq toClient'
  <2>1. Msg("ack", conn'[held]).kind = "ack"
    BY DEF Msg
  <2>. QED
    BY <1>1, <1>2, <2>1 DEF SimulatedInv, SimulatedTypeOK, Acked
<1>4. /\ names[held] \in Nat /\ names'[held] \in Nat /\ names'[held] >= names[held]
      /\ conn[held] # mine => names'[held] > 0
      /\ \A e \in Entries \ {held} : names'[e] = names[e]
  <2>1. names[held] \in Nat /\ Broadcasts \in Nat \ {0}
    BY <1>1, Sends DEF SimulatedInv, SimulatedTypeOK
  <2>2. CASE names' = names
    BY <1>1, <1>2, <2>1, <2>2 DEF SimulatedInv, SimulatedTypeOK
  <2>3. CASE names' = [names EXCEPT ![held] = @ + Broadcasts]
    BY <1>1, <2>1, <2>3 DEF SimulatedInv, SimulatedTypeOK
  <2>. QED
    BY <1>2, <2>2, <2>3
<1>5. ASSUME NEW e \in Entries, conn[e] = mine, names[e] > 0, ~rejected[e]
      PROVE  conn'[e] = mine' /\ names'[e] > 0 /\ ~rejected'[e]
  BY <1>1, <1>3, <1>4, <1>5
<1>6. (NameSent' => NameSent) /\ (Connected' /\ ~Connected => stage = "open")
  BY <1>1 DEF NameSent, Connected
<1>7. Unconnected'
  BY <1>1, <1>3 DEF AttemptInv, Unconnected
<1>8. LoopWaits'
  <2>1. NameComes => NameComes'
    BY <1>3, <1>5 DEF NameComes
  <2>2. ASSUME stage = "open"
        PROVE  \E e \in Entries : conn'[e] = mine' /\ names'[e] > 0 /\ ~rejected'[e]
    <3>1. CASE conn[held] # mine
      BY <1>1, <1>3, <1>4, <3>1
    <3>2. CASE conn[held] = mine
      BY <1>1, <1>5, <2>2, <3>2 DEF AttemptInv, Unconnected, LoopWaits
    <3>. QED
      BY <3>1, <3>2
  <2>. QED
    BY <1>1, <2>1, <2>2 DEF AttemptInv, LoopWaits
<1>9. NameIsLast' /\ Replaced'
  BY <1>1, <1>6 DEF AttemptInv, NameIsLast, Replaced
<1>10. CASE table = held
  <2>1. WillReject' /\ conn'[table'] = mine'
    BY <1>1, <1>3, <1>10 DEF WillReject
  <2>2. Answered' /\ Current'
    BY <1>1, <2>1 DEF Answered, Current
  <2>. QED
    BY <1>7, <1>8, <1>9, <2>2 DEF AttemptInv
<1>11. CASE table # held
  <2>1. conn'[table] = Nil /\ ~rejected[table] /\ (stage # "idle" => CallUnderWay')
    BY <1>1, <1>3, <1>11
    DEF AttemptInv, Replaced, CallUnderWay, SimulatedInv, SimulatedTypeOK
  <2>2. stage # "idle" => WillReject'
    BY <1>1, <2>1 DEF WillReject
  <2>3. Answered' /\ Current'
    BY <1>1, <2>1, <2>2 DEF Answered, Current, Connected
  <2>. QED
    BY <1>7, <1>8, <1>9, <2>3 DEF AttemptInv
<1>. QED
  BY <1>10, <1>11

LEMMA RejectKeepsAttempt ==
  ASSUME SimulatedInv, AttemptInv, Reject
  PROVE  AttemptInv'
<1>1. /\ held \in Entries /\ held # Nil /\ held' = Nil /\ stage \in {"named", "idle"}
      /\ UNCHANGED <<table, conn, names, toLobby, stage, mine>>
      /\ toClient' = toClient \cup {Msg("name", Nil), Msg("full", Nil)}
  BY DEF Reject, Handled, clientVars, SimulatedInv, SimulatedTypeOK, AttemptInv,
         NameIsLast, NameSent
<1>2. Msg("full", Nil) \in toClient' /\ (NameSent' => NameSent)
  BY <1>1 DEF NameSent
<1>. QED
  BY <1>1, <1>2
  DEF AttemptInv, Unconnected, LoopWaits, NameIsLast, Replaced, Answered, Current,
      Connected

\* The goroutines: an opener stops calling only when its entry is known to the client, and
\* a loop falls silent before the client has its ack only because nobody needs it.
LEMMA SendersKeepAttempt ==
  ASSUME SimulatedInv, AttemptInv, NEW e \in Entries,
         OpenerStops(e) \/ OpenerSends(e) \/ GoesStale(e) \/ BroadcastStops(e)
            \/ BroadcastName(e)
  PROVE  AttemptInv'
<1>1. UNCHANGED <<table, conn, rejected, held, packet, toLobby, stage, mine>>
  BY DEF OpenerStops, OpenerSends, GoesStale, BroadcastStops, BroadcastName, entryVars,
         heldVars, clientVars
<1>2. /\ toClient \subseteq toClient'
      /\ toClient' \subseteq toClient \cup {Msg("open", Nil), Msg("name", Nil)}
  BY DEF OpenerStops, OpenerSends, GoesStale, BroadcastStops, BroadcastName
<1>3. (Acked' <=> Acked) /\ (NameSent' <=> NameSent)
  BY <1>1, <1>2 DEF Acked, NameSent, Msg
<1>4. CallUnderWay /\ table # Nil /\ conn[table] = Nil /\ ~rejected[table] => CallUnderWay'
  <2>. SUFFICES ASSUME CallUnderWay, table # Nil, conn[table] = Nil, ~rejected[table]
                PROVE  CallUnderWay'
    OBVIOUS
  <2>1. CASE opens[table] > 0 /\ opens'[table] # opens[table]
    <3>1. OpenerSends(e)
      BY <1>1, <2>1 DEF OpenerStops, GoesStale, BroadcastStops, BroadcastName, OpenerSends,
                        SimulatedInv, SimulatedTypeOK, loopVars
    <3>. QED
      BY <3>1 DEF OpenerSends, CallUnderWay
  <2>. QED
    BY <1>1, <1>2, <2>1 DEF CallUnderWay
<1>5. WillReject => WillReject'
  BY <1>1, <1>4 DEF WillReject
<1>6. ASSUME NEW f \in Entries, conn[f] = mine, names[f] > 0, ~rejected[f]
      PROVE  \/ Msg("name", Nil) \in toClient' /\ ~Acked
             \/ names'[f] > 0
  <2>1. CASE names' = names
    BY <1>6, <2>1
  <2>2. CASE BroadcastStops(e)
    BY <1>6, <2>2 DEF BroadcastStops, SimulatedInv, SimulatedTypeOK
  <2>3. CASE BroadcastName(e)
    BY <2>3 DEF BroadcastName, Acked
  <2>. QED
    BY <2>1, <2>2, <2>3 DEF OpenerStops, OpenerSends, GoesStale, loopVars
<1>7. LoopWaits'
  BY <1>1, <1>2, <1>3, <1>6 DEF AttemptInv, LoopWaits, NameComes
<1>8. Unconnected'
  BY <1>1, <1>3 DEF AttemptInv, Unconnected
<1>9. NameIsLast' /\ Replaced'
  BY <1>1, <1>3, <1>4 DEF AttemptInv, NameIsLast, Replaced, SimulatedInv, SimulatedTypeOK
<1>10. Answered' /\ Current'
  BY <1>1, <1>2, <1>3, <1>5 DEF AttemptInv, Answered, Current, Connected
<1>. QED
  BY <1>7, <1>8, <1>9, <1>10 DEF AttemptInv

LEMMA AttemptNext == SimulatedInv /\ AttemptInv /\ [Next]_vars => AttemptInv'
<1>. SUFFICES ASSUME SimulatedInv, AttemptInv, [Next]_vars PROVE AttemptInv'
  OBVIOUS
<1>1. CASE UNCHANGED vars
  BY <1>1 DEF vars, entryVars, loopVars, heldVars, clientVars, AttemptInv, Unconnected,
     LoopWaits, NameIsLast, Replaced, Answered, Current, Connected, NameSent, Acked,
     WillReject, CallUnderWay, NameComes
<1>2. CASE SessionLoop
  BY <1>2, FindKeepsAttempt, IgnoredKeepsAttempt, ConnectKeepsAttempt, RejectKeepsAttempt
  DEF SessionLoop
<1>3. CASE Senders \/ TimePasses
  BY <1>3, SendersKeepAttempt DEF Senders, TimePasses
<1>4. CASE Hears
  BY <1>4, HearsKeepsAttempt DEF Hears
<1>. QED
  BY <1>1, <1>2, <1>3, <1>4, StartKeepsAttempt, ClientKeepsAttempt, BeginKeepsAttempt,
     StrayKeepsAttempt
  DEF Next

-----------------------------------------------------------------------------
(* The theorems                                                             *)

\* The inductive invariant holds throughout.
THEOREM AlwaysSimulatedInv == Spec => []SimulatedInv
  BY SimulatedInit, SimulatedNext, PTL DEF Spec

\* Every variable keeps its type: among others, no entry ever has more than two
\* name-broadcast loops, and none is rejected before it is connected.
THEOREM SimulatedTyping == Spec => []SimulatedTypeOK
<1>1. SimulatedInv => SimulatedTypeOK BY DEF SimulatedInv
<1>2. QED BY <1>1, AlwaysSimulatedInv, PTL

\* No ack of an earlier attempt's conn-ID is sent to the client of this one.
THEOREM AcksAreCurrent == Spec => []AckIsCurrent
<1>1. SimulatedInv => AckIsCurrent BY DEF SimulatedInv
<1>2. QED BY <1>1, AlwaysSimulatedInv, PTL

\* Pings and abandoned attempts never leave two openers calling the same client.
THEOREM OneOpenerCalls == Spec => []OneOpener
<1>1. SimulatedInv => OneOpener BY DEF SimulatedInv, CallerInTable, OneOpener
<1>2. QED BY <1>1, AlwaysSimulatedInv, PTL

\* The attempt's invariant holds throughout.
THEOREM AlwaysAttemptInv == Spec => []AttemptInv
BY AttemptInit, AttemptNext, AlwaysSimulatedInv, PTL DEF Spec

\* Whatever earlier attempts left behind, and wherever pings and packets overtake each
\* other: once a client has its ack, somebody always has something left to send until it
\* has its rejection.
THEOREM NobodyIsLeftWaiting == Spec => []NobodyIsForgotten
<1>1. AttemptInv => NobodyIsForgotten
  BY DEF AttemptInv, LoopWaits, Answered, Connected, NobodyIsForgotten
<1>. QED
  BY <1>1, AlwaysAttemptInv, PTL

\* No rejection is one of an earlier connection.
THEOREM RejectionsAreCurrent == Spec => RejectionIsCurrent
<1>. DEFINE Own(e) == ~rejected[e] /\ rejected'[e] => conn[e] = mine
<1>1. SimulatedInv /\ AttemptInv /\ [Next]_vars => \A e \in Entries : Own(e)
  <2>. SUFFICES ASSUME SimulatedInv, AttemptInv, [Next]_vars, NEW e \in Entries PROVE Own(e)
    OBVIOUS
  <2>0. rejected \in [Entries -> BOOLEAN]
    BY DEF SimulatedInv, SimulatedTypeOK
  <2>1. CASE Reject
    <3>1. held # Nil /\ conn[held] = mine /\ rejected' = [rejected EXCEPT ![held] = TRUE]
      BY <2>1 DEF Reject, AttemptInv, Current
    <3>. QED
      BY <2>0, <3>1
  <2>2. ASSUME NEW f \in Entries, NEW n, NewEntry(f, n) PROVE Own(e)
    BY <2>0, <2>2 DEF NewEntry
  <2>3. CASE rejected' = rejected
    BY <2>3
  <2>4. CASE \/ Ignored \/ Connect \/ Senders \/ TimePasses \/ Hears
             \/ StartAttempt \/ GiveUp \/ ClientOpens \/ ClientRepeats \/ UNCHANGED vars
    BY <2>3, <2>4
    DEF Ignored, Connect, Senders, OpenerStops, OpenerSends, BroadcastStops, BroadcastName,
        TimePasses, GoesStale, Hears, ClientHears, StartAttempt, GiveUp, ClientOpens,
        ClientRepeats, vars, entryVars
  <2>5. CASE BeginOpen
    BY <2>2, <2>5 DEF BeginOpen
  <2>6. ASSUME NEW m \in ClientMsgs, FindEntry(m) PROVE Own(e)
    BY <2>2, <2>3, <2>6 DEF FindEntry, entryVars
  <2>7. CASE StrayPacket
    BY <2>2, <2>3, <2>7 DEF StrayPacket, entryVars
  <2>. QED
    BY <2>1, <2>4, <2>5, <2>6, <2>7 DEF Next, SessionLoop
<1>. QED
  BY <1>1, AlwaysSimulatedInv, AlwaysAttemptInv, PTL DEF Spec, RejectionIsCurrent
=============================================================================
