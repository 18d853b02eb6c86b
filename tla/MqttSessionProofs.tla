------------------------- MODULE MqttSessionProofs -------------------------
(***************************************************************************)
(* Proofs about the upstream for every set of states, number of            *)
(* observations and number of connections.  TypeOK and LatestIsAttempted   *)
(* are both inductive: every change of connected, latest and lastAttempted *)
(* happens in one critical section of Manager.mu.                          *)
(***************************************************************************)
EXTENDS MqttSession, TLAPS

\* A chosen publication is the snapshot itself, which then has good points.
LEMMA ChoiceType ==
    ASSUME TypeOK, NEW t \in Threads, NEW force \in BOOLEAN, NEW c \in BOOLEAN,
           NEW s \in Snapshots \cup {NoSnapshot},
           currentPublicationLocked(t, force, c, s)
    PROVE  /\ lastAttempted' \in Contents \cup {NoGood}
           /\ outbox' \in [Threads -> Publications \cup {NoPublication}]
           /\ \A u \in Threads : outbox'[u] = NoPublication => outbox[u] = NoPublication
  <1>1. CASE c /\ goodPoints(s) /\ (force \/ s.content # lastAttempted)
    <2>1. s \in Publications
      BY <1>1 DEF goodPoints, Snapshots, NoSnapshot, Publications
    <2>2. s.content \in Contents
      BY <2>1 DEF Publications
    <2>3. s # NoPublication
      BY <1>1 DEF goodPoints, NoPublication, NoSnapshot
    <2> QED
      BY <1>1, <2>1, <2>2, <2>3 DEF currentPublicationLocked, TypeOK
  <1>2. CASE ~(c /\ goodPoints(s) /\ (force \/ s.content # lastAttempted))
    BY <1>2 DEF currentPublicationLocked, TypeOK
  <1> QED
    BY <1>1, <1>2

\* Signalling keeps the loop and the channels typed.
LEMMA SignalType ==
    ASSUME TypeOK, NEW s \in {"connected", "disconnected", "tick"}, Signal(s)
    PROVE  /\ loop' \in {"running", "parked", "connected", "disconnected", "tick", "stop", "gone"}
           /\ signals' \subseteq {"connected", "disconnected", "tick"}
  BY DEF Signal, TypeOK

LEMMA InitTyped == Init => TypeOK
  <1> SUFFICES ASSUME Init PROVE TypeOK
    OBVIOUS
  <1>1. /\ outbox \in [Threads -> Publications \cup {NoPublication}]
        /\ via \in [Threads -> 0..MaxConns]
        /\ \A t \in Threads : Idle(t) => via[t] = 0
    BY UpstreamAssumption DEF Init
  <1>2. /\ observed \in 0..MaxObserved /\ received \in 0..MaxObserved
        /\ link \in 0..MaxConns /\ conns \in 0..MaxConns
    BY UpstreamAssumption DEF Init
  <1>3. /\ connected \in BOOLEAN /\ due \in BOOLEAN /\ ctxDone \in BOOLEAN
        /\ latest \in Snapshots \cup {NoSnapshot}
        /\ lastAttempted \in Contents \cup {NoGood}
        /\ broken \in BOOLEAN /\ stalled \in BOOLEAN
    BY DEF Init
  <1>4. /\ loop \in {"running", "parked", "connected", "disconnected", "tick", "stop", "gone"}
        /\ signals \subseteq {"connected", "disconnected", "tick"}
        /\ client \in {"connect", "handshake", "signal", "serve", "ping", "lost", "wait", "gone"}
    BY DEF Init
  <1> QED
    BY <1>1, <1>2, <1>3, <1>4 DEF TypeOK

\* What a step does to a goroutine that has nothing to write.
LEMMA ViaKept ==
    ASSUME TypeOK, UNCHANGED via,
           \A u \in Threads : outbox'[u] = NoPublication => outbox[u] = NoPublication
    PROVE  /\ via' \in [Threads -> 0..MaxConns]
           /\ \A t \in Threads : outbox'[t] = NoPublication => via'[t] = 0
  BY DEF TypeOK, Idle

\* TypeOK' from what a step leaves alone and what it sets.
LEMMA TypedNext ==
    ASSUME /\ connected' \in BOOLEAN /\ due' \in BOOLEAN /\ ctxDone' \in BOOLEAN
           /\ latest' \in Snapshots \cup {NoSnapshot}
           /\ lastAttempted' \in Contents \cup {NoGood}
           /\ observed' \in 0..MaxObserved,
           /\ outbox' \in [Threads -> Publications \cup {NoPublication}]
           /\ via' \in [Threads -> 0..MaxConns]
           /\ \A t \in Threads : outbox'[t] = NoPublication => via'[t] = 0,
           /\ loop' \in {"running", "parked", "connected", "disconnected", "tick", "stop", "gone"}
           /\ signals' \subseteq {"connected", "disconnected", "tick"}
           /\ client' \in {"connect", "handshake", "signal", "serve", "ping", "lost", "wait", "gone"}
           /\ link' \in 0..MaxConns /\ conns' \in 0..MaxConns
           /\ broken' \in BOOLEAN /\ stalled' \in BOOLEAN
           /\ received' \in 0..MaxObserved
    PROVE  TypeOK'
  BY DEF TypeOK, Idle

\* Clearing the connection keeps the types.
LEMMA ClearedTyped ==
    ASSUME TypeOK, clearConnection, UNCHANGED <<managerVars, threadVars, loop, signals, conns, ctxDone>>
    PROVE  TypeOK'
  <1>1. broken' \in BOOLEAN /\ stalled' \in BOOLEAN
    BY Zenon DEF clearConnection
  <1>2. link' \in 0..MaxConns /\ received' \in 0..MaxObserved
    BY UpstreamAssumption DEF clearConnection
  <1>3. client' \in {"connect", "handshake", "signal", "serve", "ping", "lost", "wait", "gone"}
    BY DEF clearConnection
  <1> QED
    BY <1>1, <1>2, <1>3, TypedNext DEF TypeOK, Idle, managerVars, threadVars

\* Every step of Next keeps the types.
LEMMA StepTyped == TypeOK /\ [Next]_vars => TypeOK'
  <1> SUFFICES ASSUME TypeOK, [Next]_vars PROVE TypeOK'
    OBVIOUS
  <1> USE UpstreamAssumption
  <1>1. ASSUME NEW content \in Contents \cup {NoGood}, ObserveSnapshot(content) PROVE TypeOK'
    <2>1. latest' \in Snapshots
      BY <1>1 DEF ObserveSnapshot, TypeOK, Snapshots
    <2>2. /\ lastAttempted' \in Contents \cup {NoGood}
          /\ outbox' \in [Threads -> Publications \cup {NoPublication}]
          /\ \A u \in Threads : outbox'[u] = NoPublication => outbox[u] = NoPublication
      BY <1>1, <2>1, ChoiceType DEF ObserveSnapshot, TypeOK, Threads
    <2>3. /\ via' \in [Threads -> 0..MaxConns]
          /\ \A t \in Threads : outbox'[t] = NoPublication => via'[t] = 0
      BY <1>1, <2>2, ViaKept DEF ObserveSnapshot
    <2> QED
      BY <1>1, <2>1, <2>2, <2>3, TypedNext DEF ObserveSnapshot, TypeOK, clientVars, networkVars
  <1>2. CASE SelectDone
    BY <1>2 DEF SelectDone, TypeOK, Idle, managerVars, threadVars, clientVars, networkVars
  <1>3. CASE Select
    BY <1>3 DEF Select, TypeOK, Idle, managerVars, threadVars, clientVars, networkVars
  <1>4. CASE Connected
    <2>1. /\ lastAttempted' \in Contents \cup {NoGood}
          /\ outbox' \in [Threads -> Publications \cup {NoPublication}]
          /\ \A u \in Threads : outbox'[u] = NoPublication => outbox[u] = NoPublication
          /\ due' \in BOOLEAN
      BY <1>4, ChoiceType DEF Connected, TypeOK, Threads
    <2>2. /\ via' \in [Threads -> 0..MaxConns]
          /\ \A t \in Threads : outbox'[t] = NoPublication => via'[t] = 0
      BY <1>4, <2>1, ViaKept DEF Connected
    <2> QED
      BY <1>4, <2>1, <2>2, TypedNext DEF Connected, TypeOK, clientVars, networkVars
  <1>5. CASE Disconnected
    BY <1>5 DEF Disconnected, TypeOK, Idle, threadVars, clientVars, networkVars
  <1>6. CASE Tick
    <2>1. /\ lastAttempted' \in Contents \cup {NoGood}
          /\ outbox' \in [Threads -> Publications \cup {NoPublication}]
          /\ \A u \in Threads : outbox'[u] = NoPublication => outbox[u] = NoPublication
          /\ due' \in BOOLEAN
      BY <1>6, ChoiceType DEF Tick, TypeOK, Threads
    <2>2. /\ via' \in [Threads -> 0..MaxConns]
          /\ \A t \in Threads : outbox'[t] = NoPublication => via'[t] = 0
      BY <1>6, <2>1, ViaKept DEF Tick
    <2> QED
      BY <1>6, <2>1, <2>2, TypedNext DEF Tick, TypeOK, clientVars, networkVars
  <1>7. CASE TickerFires
    BY <1>7, SignalType DEF TickerFires, TypeOK, Idle, managerVars, threadVars, clientVars, networkVars
  <1>8. CASE Cancel
    BY <1>8 DEF Cancel, TypeOK, Idle, managerVars, threadVars, clientVars, networkVars
  <1>9. CASE Connect
    BY <1>9 DEF Connect, TypeOK, Idle, managerVars, threadVars, networkVars
  <1>10. CASE Handshake
    BY <1>10 DEF Handshake, TypeOK, Idle, managerVars, threadVars, networkVars
  <1>11. CASE SignalConnected
    BY <1>11, SignalType DEF SignalConnected, TypeOK, Idle, managerVars, threadVars, networkVars
  <1>12. CASE ServeEnds
    BY <1>12, ClearedTyped DEF ServeEnds
  <1>13. CASE KeepAlive
    BY <1>13 DEF KeepAlive, TypeOK, Idle, managerVars, threadVars, networkVars
  <1>14. CASE Ping
    <2>1. CASE clearConnection
      BY <1>14, <2>1, ClearedTyped DEF Ping
    <2>2. CASE client' = "serve" /\ UNCHANGED <<link, networkVars, received>>
      BY <1>14, <2>2 DEF Ping, TypeOK, Idle, managerVars, threadVars, networkVars
    <2> QED
      BY <1>14, <2>1, <2>2 DEF Ping
  <1>15. CASE SignalDisconnected
    BY <1>15, SignalType DEF SignalDisconnected, TypeOK, Idle, managerVars, threadVars, networkVars
  <1>16. CASE WaitEnds
    BY <1>16 DEF WaitEnds, TypeOK, Idle, managerVars, threadVars, networkVars
  <1>17. CASE Network
    <2>1. broken' \in BOOLEAN /\ stalled' \in BOOLEAN
      BY <1>17, Zenon DEF Network, NetworkFails, PeerStalls, PeerReads, TypeOK
    <2>2. UNCHANGED <<managerVars, threadVars, loop, signals, clientVars, ctxDone, received>>
      BY <1>17, Zenon DEF Network, NetworkFails, PeerStalls, PeerReads
    <2> QED
      BY <2>1, <2>2, TypedNext DEF TypeOK, Idle, managerVars, threadVars, clientVars
  <1>18. ASSUME NEW k \in Connections, HandleInbound(k) PROVE TypeOK'
    <2>1. /\ lastAttempted' \in Contents \cup {NoGood}
          /\ outbox' \in [Threads -> Publications \cup {NoPublication}]
          /\ \A u \in Threads : outbox'[u] = NoPublication => outbox[u] = NoPublication
      BY <1>18, ChoiceType DEF HandleInbound, TypeOK, Threads
    <2>2. /\ via' \in [Threads -> 0..MaxConns]
          /\ \A t \in Threads : outbox'[t] = NoPublication => via'[t] = 0
      BY <1>18, <2>1, ViaKept DEF HandleInbound
    <2>3. broken' \in BOOLEAN
      <3>1. broken' = (latest.content \in TooLarge) \/ broken' = TRUE
        BY <1>18, Zenon DEF HandleInbound
      <3>2. (latest.content \in TooLarge) \in BOOLEAN
        OBVIOUS
      <3> QED
        BY <3>1, <3>2, Zenon
    <2> QED
      BY <1>18, <2>1, <2>2, <2>3, TypedNext DEF HandleInbound, TypeOK, clientVars
  <1>19. ASSUME NEW t \in Threads, Publish(t) PROVE TypeOK'
    <2>1. /\ outbox' \in [Threads -> Publications \cup {NoPublication}]
          /\ via' \in [Threads -> 0..MaxConns]
      BY <1>19 DEF Publish, TypeOK
    <2>2. \A u \in Threads : outbox'[u] = NoPublication => via'[u] = 0
      BY <1>19 DEF Publish, TypeOK, Idle
    <2> QED
      BY <1>19, <2>1, <2>2, TypedNext DEF Publish, TypeOK, managerVars, clientVars, networkVars
  <1>20. ASSUME NEW t \in Threads, writePacket(t) PROVE TypeOK'
    <2>1. /\ outbox' \in [Threads -> Publications \cup {NoPublication}]
          /\ via' \in [Threads -> 0..MaxConns]
      BY <1>20 DEF writePacket, TypeOK
    <2>2. \A u \in Threads : outbox'[u] = NoPublication => via'[u] = 0
      BY <1>20 DEF writePacket, TypeOK, Idle
    <2>3. received' \in 0..MaxObserved
      BY <1>20 DEF writePacket, TypeOK, Idle, Publications
    <2> QED
      BY <1>20, <2>1, <2>2, <2>3, TypedNext DEF writePacket, TypeOK, managerVars, clientVars, networkVars
  <1>21. CASE UNCHANGED vars
    BY <1>21 DEF vars, TypeOK, Idle, managerVars, threadVars, clientVars, networkVars
  <1> QED
    BY <1>1, <1>2, <1>3, <1>4, <1>5, <1>6, <1>7, <1>8, <1>9, <1>10, <1>11, <1>12, <1>13, <1>14,
       <1>15, <1>16, <1>17, <1>18, <1>19, <1>20, <1>21 DEF Next, Run, ClientRun

\* For every set of states and every bound the upstream's state keeps its type: no
\* publication without good points is ever about to be written (goodPoints), and a
\* goroutine holds a connection only while it has something to write (client.Publish).
THEOREM UpstreamTyped == Spec => []TypeOK
  BY InitTyped, StepTyped, PTL DEF Spec

-----------------------------------------------------------------------------
\* A forced choice on an open connection window leaves nothing unattempted.
LEMMA ChoiceAttempts ==
    ASSUME NEW t, NEW force, NEW s, currentPublicationLocked(t, force, TRUE, s), s.content # NoGood
    PROVE  lastAttempted' = s.content
  BY DEF currentPublicationLocked, goodPoints

LEMMA StepAttempted == LatestIsAttempted /\ [Next]_vars => LatestIsAttempted'
  <1> SUFFICES ASSUME LatestIsAttempted, [Next]_vars PROVE LatestIsAttempted'
    OBVIOUS
  <1>1. ASSUME NEW content \in Contents \cup {NoGood}, ObserveSnapshot(content) PROVE LatestIsAttempted'
    BY <1>1, ChoiceAttempts DEF ObserveSnapshot, LatestIsAttempted
  <1>2. CASE Connected
    BY <1>2, ChoiceAttempts DEF Connected, LatestIsAttempted
  <1>3. CASE Disconnected
    BY <1>3 DEF Disconnected, LatestIsAttempted
  <1>4. CASE Tick
    BY <1>4, ChoiceAttempts DEF Tick, LatestIsAttempted
  <1>5. ASSUME NEW k \in Connections, HandleInbound(k) PROVE LatestIsAttempted'
    BY <1>5, ChoiceAttempts DEF HandleInbound, LatestIsAttempted
  <1>6. CASE UNCHANGED managerVars
    BY <1>6 DEF managerVars, LatestIsAttempted
  <1>7. SelectDone \/ Select \/ TickerFires \/ Cancel \/ ClientRun \/ Handshake \/ Network
        \/ (\E t \in Threads : Publish(t) \/ writePacket(t)) \/ UNCHANGED vars
        => UNCHANGED managerVars
    BY DEF SelectDone, Select, TickerFires, Cancel, ClientRun, Connect, SignalConnected, ServeEnds,
           KeepAlive, Ping, SignalDisconnected, WaitEnds, Handshake, Network, NetworkFails, PeerStalls,
           PeerReads, Publish, writePacket, vars
  <1> QED
    BY <1>1, <1>2, <1>3, <1>4, <1>5, <1>6, <1>7 DEF Next, Run

\* For every set of states and every bound: while the Manager believes the connection
\* is up, the last fingerprint chosen for publication is the latest good state's.
THEOREM NoChangeSwallowed == Spec => []LatestIsAttempted
  <1>1. Init => LatestIsAttempted
    BY DEF Init, LatestIsAttempted
  <1> QED
    BY <1>1, StepAttempted, PTL DEF Spec
=============================================================================
