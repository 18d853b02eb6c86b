---------------------------- MODULE MqttSession ----------------------------
(***************************************************************************)
(* The optional upstream of block-agent (internal/mqttv2): the Manager,    *)
(* which decides what state is published, and the client, which dials the  *)
(* broker again and again.  Four kinds of goroutine meet in them: the PLC  *)
(* worker's (ObserveSnapshot), Session.Run's select loop                   *)
(* (Connected, Disconnected, Tick), client.Run's, and one reader for each  *)
(* connection (requests of the broker).  All but client.Run choose a       *)
(* publication under Manager.mu and write it after releasing it.           *)
(*                                                                         *)
(* Nothing in the client bounds the broker's silence but the dial's five   *)
(* seconds: the answers to CONNECT and SUBSCRIBE are read, and every       *)
(* packet is written under writeMu, with no deadline and no context.  A    *)
(* write to a connection whose peer has stopped reading ends only when     *)
(* the peer reads again or the connection fails or is closed.              *)
(***************************************************************************)
EXTENDS Naturals

CONSTANTS
    Contents,     \* fingerprints of the good points of a snapshot
    NoGood,       \* a snapshot without good points
    TooLarge,     \* the contents whose JSON exceeds maximumJSONPayload
    MaxObserved,  \* model bound on ObserveSnapshot calls
    MaxConns      \* model bound on connections

ASSUME UpstreamAssumption ==
    /\ NoGood \notin Contents
    /\ TooLarge \subseteq Contents
    /\ MaxObserved \in Nat
    /\ MaxConns \in Nat

Connections == 1..MaxConns

\* The goroutines that publish: a reader has its connection's number.
Worker == MaxConns + 1
Loop == MaxConns + 2
Threads == Connections \cup {Worker, Loop}

VARIABLES
    connected,      \* Manager.connected
    latest,         \* Manager.latest, NoSnapshot without hasLatest
    lastAttempted,  \* Manager.lastAttemptedState
    due,            \* the next tick is handled an interval after lastPeriodicPublish
    outbox,         \* what each goroutine is about to write, NoPublication when nothing
    via,            \* the connection each goroutine writes it to, 0 until it has looked
    loop,           \* where Session.Run is: parked in its select, or on its way
    signals,        \* the channels connected and disconnected and the ticker's, of capacity 1
    client,         \* where client.Run is
    link,           \* client.connection, 0 when nil
    conns,          \* number of connections made, bounded by MaxConns
    broken,         \* the current connection's reader or network has failed
    stalled,        \* the current connection's peer does not read
    ctxDone,        \* the session's context is cancelled
    observed,       \* number of snapshots observed, bounded by MaxObserved
    received        \* history: the last state the broker got on the current connection, or 0

managerVars == <<connected, latest, lastAttempted, due, observed>>
clientVars == <<client, link, conns>>
threadVars == <<outbox, via>>
networkVars == <<broken, stalled>>
vars == <<managerVars, threadVars, loop, signals, clientVars, networkVars, ctxDone, received>>

-----------------------------------------------------------------------------
(* Records, and the choice of a publication. *)

Snapshots == [seq : 1..MaxObserved, content : Contents \cup {NoGood}]
NoSnapshot == [seq |-> 0, content |-> NoGood]

\* A publication of the state.  Alarm notifications and pages of the alarm history
\* change nothing here but what a failure to answer does to the connection.
Publications == [seq : 1..MaxObserved, content : Contents]
NoPublication == NoSnapshot

Idle(t) == outbox[t] = NoPublication

\* goodPoints: there is something to publish.
goodPoints(s) == s.content # NoGood

\* currentPublicationLocked, called by t with connected c and latest snapshot s: a
\* publication that is not forced needs a new fingerprint.  One that publicationFor
\* finds too large is an error, and counts as attempted.
currentPublicationLocked(t, force, c, s) ==
    IF c /\ goodPoints(s) /\ (force \/ s.content # lastAttempted)
    THEN /\ lastAttempted' = s.content
         /\ outbox' = IF s.content \in TooLarge THEN outbox ELSE [outbox EXCEPT ![t] = s]
    ELSE UNCHANGED <<lastAttempted, outbox>>

\* A send into one of the select's channels: it wakes a parked loop, is kept for one
\* on its way, or is dropped when one is kept already.
Signal(s) ==
    IF loop = "parked" THEN loop' = s /\ UNCHANGED signals
    ELSE signals' = signals \cup {s} /\ UNCHANGED loop

-----------------------------------------------------------------------------
(* The PLC worker's goroutine. *)

ObserveSnapshot(content) ==
    /\ Idle(Worker)
    /\ observed < MaxObserved
    /\ observed' = observed + 1
    /\ latest' = [seq |-> observed + 1, content |-> content]
    /\ currentPublicationLocked(Worker, FALSE, connected, latest')
    /\ UNCHANGED <<connected, due, via, loop, signals, clientVars, networkVars, ctxDone, received>>

-----------------------------------------------------------------------------
(* Session.Run. *)

\* select: any channel that is ready, the context's among them, or wait.
SelectDone ==
    /\ loop = "running" /\ Idle(Loop)
    /\ ctxDone
    /\ loop' = "stop"
    /\ UNCHANGED <<managerVars, threadVars, signals, clientVars, networkVars, ctxDone, received>>

Select ==
    /\ loop = "running" /\ Idle(Loop)
    /\ \/ \E s \in signals : loop' = s /\ signals' = signals \ {s}
       \/ ~ctxDone /\ signals = {} /\ loop' = "parked" /\ UNCHANGED signals
    /\ UNCHANGED <<managerVars, threadVars, clientVars, networkVars, ctxDone, received>>

\* Mutant: the publication is chosen before the connection window is open.
ConnectedChoosesFirst ==
    /\ loop = "connected"
    /\ loop' = "running"
    /\ connected' = TRUE
    /\ \/ connected /\ UNCHANGED <<due, lastAttempted, outbox>>
       \/ ~connected /\ due' \in BOOLEAN /\ currentPublicationLocked(Loop, TRUE, connected, latest)
    /\ UNCHANGED <<latest, observed, via, signals, clientVars, networkVars, ctxDone, received>>

Connected ==
    /\ loop = "connected"
    /\ loop' = "running"
    /\ connected' = TRUE
    /\ \/ connected /\ UNCHANGED <<due, lastAttempted, outbox>>
       \/ ~connected /\ due' \in BOOLEAN /\ currentPublicationLocked(Loop, TRUE, TRUE, latest)
    /\ UNCHANGED <<latest, observed, via, signals, clientVars, networkVars, ctxDone, received>>

Disconnected ==
    /\ loop \in {"disconnected", "stop"}
    /\ loop' = IF loop = "stop" THEN "gone" ELSE "running"
    /\ connected' = FALSE
    /\ UNCHANGED <<latest, lastAttempted, due, observed, threadVars, signals, clientVars, networkVars, ctxDone, received>>

\* Mutant: the periodic publication is left out when nothing has changed.
TickOnChange ==
    /\ loop = "tick"
    /\ loop' = "running"
    /\ \/ ~(connected /\ due) /\ due' = TRUE /\ UNCHANGED <<lastAttempted, outbox>>
       \/ connected /\ due /\ due' \in BOOLEAN /\ currentPublicationLocked(Loop, FALSE, connected, latest)
    /\ UNCHANGED <<connected, latest, observed, via, signals, clientVars, networkVars, ctxDone, received>>

\* The ticker's period is the publish interval: a tick handled a little early, or soon
\* after a connect, is skipped, and the one after it is not.
Tick ==
    /\ loop = "tick"
    /\ loop' = "running"
    /\ \/ ~(connected /\ due) /\ due' = TRUE /\ UNCHANGED <<lastAttempted, outbox>>
       \/ connected /\ due /\ due' \in BOOLEAN /\ currentPublicationLocked(Loop, TRUE, connected, latest)
    /\ UNCHANGED <<connected, latest, observed, via, signals, clientVars, networkVars, ctxDone, received>>

TickerFires ==
    /\ loop # "gone"
    /\ Signal("tick")
    /\ UNCHANGED <<managerVars, threadVars, clientVars, networkVars, ctxDone, received>>

\* StopSession cancels the session's context.
Cancel ==
    /\ ~ctxDone
    /\ ctxDone' = TRUE
    /\ loop' = IF loop = "parked" THEN "stop" ELSE loop
    /\ UNCHANGED <<managerVars, threadVars, signals, clientVars, networkVars, received>>

-----------------------------------------------------------------------------
(* client.Run and the readers. *)

\* The context is checked, then the broker is dialled under it, within five seconds.
Connect ==
    /\ client = "connect"
    /\ \/ ctxDone /\ client' = "gone" /\ UNCHANGED conns
       \/ ~ctxDone /\ client' = "wait" /\ UNCHANGED conns
       \/ ~ctxDone /\ conns < MaxConns /\ client' = "handshake" /\ conns' = conns + 1
    /\ UNCHANGED <<managerVars, threadVars, loop, signals, link, networkVars, ctxDone, received>>

\* CONNECT and SUBSCRIBE are written and their answers read, for as long as that takes:
\* they end when the broker has answered both, cancelled or not, or something fails.
Handshake ==
    /\ client = "handshake"
    /\ \/ client' = "signal" /\ link' = conns
       \/ client' = (IF ctxDone THEN "gone" ELSE "wait") /\ UNCHANGED link
    /\ UNCHANGED <<managerVars, threadVars, loop, signals, conns, networkVars, ctxDone, received>>

SignalConnected ==
    /\ client = "signal"
    /\ client' = "serve"
    /\ Signal("connected")
    /\ UNCHANGED <<managerVars, threadVars, link, conns, networkVars, ctxDone, received>>

\* clearConnection: the connection is forgotten, then closed.
clearConnection ==
    /\ client' = "lost"
    /\ link' = 0
    /\ broken' = FALSE /\ stalled' = FALSE /\ received' = 0

\* Mutant: serve does not watch the context.
ServeEndsOnError ==
    /\ client = "serve"
    /\ broken
    /\ clearConnection
    /\ UNCHANGED <<managerVars, threadVars, loop, signals, conns, ctxDone>>

\* serve returns.
ServeEnds ==
    /\ client = "serve"
    /\ ctxDone \/ broken
    /\ clearConnection
    /\ UNCHANGED <<managerVars, threadVars, loop, signals, conns, ctxDone>>

\* serve's select takes the keep-alive ticker, whatever else is ready; until the ping
\* is written it watches nothing.
KeepAlive ==
    /\ client = "serve"
    /\ client' = "ping"
    /\ UNCHANGED <<managerVars, threadVars, loop, signals, link, conns, networkVars, ctxDone, received>>

Ping ==
    /\ client = "ping"
    /\ ~stalled
    /\ \/ client' = "serve" /\ UNCHANGED <<link, networkVars, received>>
       \/ broken /\ clearConnection
    /\ UNCHANGED <<managerVars, threadVars, loop, signals, conns, ctxDone>>

SignalDisconnected ==
    /\ client = "lost"
    /\ client' = IF ctxDone THEN "gone" ELSE "wait"
    /\ Signal("disconnected")
    /\ UNCHANGED <<managerVars, threadVars, link, conns, networkVars, ctxDone, received>>

\* The five seconds are over, or the context is.
WaitEnds ==
    /\ client = "wait"
    /\ client' \in IF ctxDone THEN {"connect", "gone"} ELSE {"connect"}
    /\ UNCHANGED <<managerVars, threadVars, loop, signals, link, conns, networkVars, ctxDone, received>>

\* HandleInbound: a state request is answered; one that comes before the Manager knows
\* of the connection or whose answer is too large, a history query that fails and
\* whatever the policy or the validation refuses end the connection.
HandleInbound(k) ==
    /\ client \in {"serve", "ping"} /\ k = link /\ ~broken /\ Idle(k)
    /\ \/ /\ connected
          /\ currentPublicationLocked(k, TRUE, connected, latest)
          /\ broken' = (latest.content \in TooLarge)
       \/ /\ broken' = TRUE
          /\ UNCHANGED <<outbox, lastAttempted>>
    /\ UNCHANGED <<connected, latest, due, observed, via, loop, signals, clientVars, stalled, ctxDone, received>>

-----------------------------------------------------------------------------
(* Writing a publication.  Its error is dropped; a reader's ends the reader,  *)
(* whose connection has failed or is closed already.                          *)

\* client.Publish looks up the current connection, under mu.
Publish(t) ==
    /\ ~Idle(t) /\ via[t] = 0
    /\ IF link = 0
       THEN /\ outbox' = [outbox EXCEPT ![t] = NoPublication]
            /\ UNCHANGED via
       ELSE via' = [via EXCEPT ![t] = link] /\ UNCHANGED outbox
    /\ UNCHANGED <<managerVars, loop, signals, clientVars, networkVars, ctxDone, received>>

\* writePacket, under writeMu: on a connection that is open it waits for the peer, on
\* one that was closed in the meantime it fails at once.
writePacket(t) ==
    /\ via[t] # 0
    /\ via[t] = link => ~stalled
    /\ outbox' = [outbox EXCEPT ![t] = NoPublication]
    /\ via' = [via EXCEPT ![t] = 0]
    /\ received' = IF via[t] = link /\ ~broken THEN outbox[t].seq ELSE received
    /\ UNCHANGED <<managerVars, loop, signals, clientVars, networkVars, ctxDone>>

-----------------------------------------------------------------------------
(* The network and the broker. *)

NetworkFails ==
    /\ link # 0 /\ ~broken
    /\ broken' = TRUE /\ stalled' = FALSE
    /\ UNCHANGED <<managerVars, threadVars, loop, signals, clientVars, ctxDone, received>>

PeerStalls ==
    /\ link # 0 /\ ~broken /\ ~stalled
    /\ stalled' = TRUE
    /\ UNCHANGED <<managerVars, threadVars, loop, signals, clientVars, broken, ctxDone, received>>

PeerReads ==
    /\ stalled
    /\ stalled' = FALSE
    /\ UNCHANGED <<managerVars, threadVars, loop, signals, clientVars, broken, ctxDone, received>>

-----------------------------------------------------------------------------
Init ==
    /\ connected = FALSE /\ latest = NoSnapshot /\ lastAttempted = NoGood /\ due = TRUE
    /\ observed = 0
    /\ outbox = [t \in Threads |-> NoPublication] /\ via = [t \in Threads |-> 0]
    /\ loop = "running" /\ signals = {}
    /\ client = "connect" /\ link = 0 /\ conns = 0
    /\ broken = FALSE /\ stalled = FALSE /\ ctxDone = FALSE
    /\ received = 0

Run == SelectDone \/ Select \/ Connected \/ Disconnected \/ Tick
ClientRun == Connect \/ SignalConnected \/ ServeEnds \/ KeepAlive \/ Ping \/ SignalDisconnected \/ WaitEnds
Network == NetworkFails \/ PeerStalls \/ PeerReads

Next ==
    \/ \E content \in Contents \cup {NoGood} : ObserveSnapshot(content)
    \/ Run \/ TickerFires \/ Cancel
    \/ ClientRun \/ Handshake \/ Network
    \/ \E k \in Connections : HandleInbound(k)
    \/ \E t \in Threads : Publish(t) \/ writePacket(t)

Spec == Init /\ [][Next]_vars

\* The goroutines run, the tickers tick, a dial ends within five seconds, select is
\* random and so does not pass over the context or an error for ever, and a write ends
\* when its peer reads.  Nothing makes the broker answer a handshake, read on, or fail.
FairSpec ==
    /\ Spec
    /\ WF_vars(Run)
    /\ SF_vars(SelectDone)
    /\ WF_vars(ClientRun)
    /\ SF_vars(ServeEnds)
    /\ WF_vars(TickerFires)
    /\ \A t \in Threads : WF_vars(Publish(t) \/ writePacket(t))

-----------------------------------------------------------------------------
(* What the upstream promises. *)

\* Every variable keeps its type; in particular no state without good points is ever
\* about to be written (goodPoints).
TypeOK ==
    /\ connected \in BOOLEAN /\ due \in BOOLEAN /\ ctxDone \in BOOLEAN
    /\ latest \in Snapshots \cup {NoSnapshot}
    /\ lastAttempted \in Contents \cup {NoGood}
    /\ observed \in 0..MaxObserved
    /\ outbox \in [Threads -> Publications \cup {NoPublication}]
    /\ via \in [Threads -> 0..MaxConns]
    /\ \A t \in Threads : Idle(t) => via[t] = 0
    /\ loop \in {"running", "parked", "connected", "disconnected", "tick", "stop", "gone"}
    /\ signals \subseteq {"connected", "disconnected", "tick"}
    /\ client \in {"connect", "handshake", "signal", "serve", "ping", "lost", "wait", "gone"}
    /\ link \in 0..MaxConns /\ conns \in 0..MaxConns
    /\ broken \in BOOLEAN /\ stalled \in BOOLEAN
    /\ received \in 0..MaxObserved

\* While the Manager believes the connection is up, the last fingerprint anyone chose
\* to publish is that of the latest good state: no change is ever swallowed between a
\* connect, a tick, a request and the worker's own observation (Manager.mu).
LatestIsAttempted ==
    connected /\ latest.content # NoGood => lastAttempted = latest.content

\* There is a state, and publicationFor can make a publication of it.
Publishable(s) == goodPoints(s) /\ s.content \notin TooLarge

\* Writes of different goroutines may overtake each other, and a reconnect may be
\* missed; but as long as the connection lasts, its peer reads and the Manager believes
\* in it, the broker ends up with the latest state and keeps it (Tick, publish).
BrokerCatchesUp ==
    <>[](connected /\ link # 0 /\ ~broken /\ ~stalled /\ Publishable(latest))
        => <>[](received = latest.seq)

\* Where the broker's silence holds client.Run: in the handshake's reads and in the
\* keep-alive's write.
Held == client = "handshake" \/ (client = "ping" /\ stalled)

\* After the session is cancelled its goroutines end and its connection is closed, in
\* whatever step the cancellation finds them (a handshake that ends after it, a write
\* the peer does not take): only a broker that holds the client for ever, where it
\* watches no context, prevents it (Session.Run, client.Run, serve).
SessionEnds ==
    <>[](ctxDone /\ ~Held) => <>[](loop = "gone" /\ client = "gone" /\ link = 0)

\* "Local sampling ... must not depend on Wi-Fi, BDM or Android Pad" (README.md): the
\* PLC worker, which publishes from its own goroutine (applyValues), always gets back to
\* its scans.
SamplingGoesOn == ~Idle(Worker) ~> Idle(Worker)

=============================================================================
