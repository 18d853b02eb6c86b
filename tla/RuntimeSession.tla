--------------------------- MODULE RuntimeSession ---------------------------
(***************************************************************************)
(* The session life cycle of block-agent (internal/agent/runtime.go and    *)
(* plc_runtime.go): which WebSocket client owns the runtime, which session *)
(* is current, which PLC worker is attached to it, and what that worker    *)
(* may still write into the shared point store (internal/pointstore).      *)
(*                                                                         *)
(* Every client has a serveWS goroutine that runs one handler at a time;   *)
(* "serve" is the goroutine that stops the session at process shutdown.    *)
(* Each handler is split where the code releases Runtime.mu, waits for a   *)
(* worker or calls the store, so handlers, workers (scan, publish, notify) *)
(* and the goroutines that finish a connect interleave at those places.    *)
(* What a worker does inside a scan is PlcWorker's subject.                *)
(***************************************************************************)
EXTENDS Naturals, FiniteSets

CONSTANTS
    Clients,      \* WebSocket connections, one per page load
    NoClient,     \* a nil owner
    MaxSessions,  \* model bound on accepted runtime.configure messages
    MaxConnects   \* model bound on connectPLC calls

ASSUME BoundAssumption ==
    /\ NoClient \notin Clients
    /\ "serve" \notin Clients
    /\ MaxSessions \in Nat
    /\ MaxConnects \in Nat

Threads == Clients \cup {"serve"}
Sessions == 1..MaxSessions
Workers == 1..MaxConnects

VARIABLES
    owner,    \* Runtime.owner
    session,  \* Runtime.session, 0 when nil
    sess,     \* the runtimeSession records
    workers,  \* the workers, with the goroutine that finishes their connect
    store,    \* pointstore: whose definitions and whose values it holds, 0 for none
    thread,   \* what each goroutine is doing, with its locals
    closed,   \* clients whose connection the runtime has closed
    accepted, \* number of sessions created, bounded by MaxSessions
    connects  \* number of connectPLC calls, bounded by MaxConnects

vars == <<owner, session, sess, workers, store, thread, closed, accepted, connects>>

-----------------------------------------------------------------------------
(* Records. *)

\* runtimeSession; deviceID is set exactly while a worker is.
SessionRecord == [worker : 0..MaxConnects,
                  plcState : {"disconnected", "connecting", "connected", "error"},
                  disconnecting : BOOLEAN, broadcasts : BOOLEAN]
Detached == [worker |-> 0, plcState |-> "disconnected", disconnecting |-> FALSE, broadcasts |-> FALSE]

\* state: where Run is; lost: Worker.disconnected; note: the handler readAll still
\* has to call; ready: what Ready() delivers; hasRead: an error-free scan happened.
WorkerRecord ==
    [state : {"none", "start", "scan", "publish", "apply", "notify", "loop", "done"},
     session : 0..MaxSessions, client : Clients \cup {NoClient},
     cancelled : BOOLEAN, lost : BOOLEAN, note : {"none", "disconnected", "reconnected"},
     err : BOOLEAN, ready : {"no", "ok", "err"}, finishing : BOOLEAN, hasRead : BOOLEAN]
NoWorker == [state |-> "none", session |-> 0, client |-> NoClient, cancelled |-> FALSE, lost |-> FALSE,
             note |-> "none", err |-> FALSE, ready |-> "no", finishing |-> FALSE, hasRead |-> FALSE]

ThreadRecord ==
    [pc : {"serving", "new", "idle", "connect", "stopOld", "attach", "stopForDisconnect", "confirm",
           "confirmApply", "confirmNotify", "detach", "stop", "clear", "gone"},
     session : 0..MaxSessions, worker : 0..MaxConnects, owner : Clients \cup {NoClient},
     attempt : 0..MaxConnects]
NoLocals(pc) == [pc |-> pc, session |-> 0, worker |-> 0, owner |-> NoClient, attempt |-> 0]

\* The point store: a new point table, no table, the table without its values.
Replace(s) == [defs |-> s, values |-> 0]
Clear == [defs |-> 0, values |-> 0]
ClearValues == [store EXCEPT !.values = 0]

live(w) == workers[w].state \notin {"none", "done"}
isDone(w) == w \notin {v \in Workers : workers[v].state # "done"}

\* The check of updateFromWorker and of the notify handlers, under mu.
attached(w, s) == owner # NoClient /\ session = s /\ sess[s].worker = w

At(t, pc) == thread[t].pc = pc
Goto(t, pc) == thread' = [thread EXCEPT ![t].pc = pc]
Return(t, pc) == thread' = [thread EXCEPT ![t] = NoLocals(pc)]

\* connectPLC is called; the worker it may build later is known by the number of the call.
CallsConnect(c) ==
    /\ connects < MaxConnects
    /\ connects' = connects + 1
    /\ thread' = [thread EXCEPT ![c] = [NoLocals("connect") EXCEPT !.attempt = connects + 1]]

\* A serveWS goroutine receives its next message.
Receives(c) == At(c, "idle") /\ c \notin closed


\* The cancel() of stopWorker, for a worker that may be nil.
Cancel(w) == [v \in Workers |-> IF v = w THEN [workers[v] EXCEPT !.cancelled = TRUE] ELSE workers[v]]

-----------------------------------------------------------------------------
(* runtime.configure, and connectPLC with its three critical sections. *)

\* configure: refused while another client owns the runtime; else the store is
\* replaced and a fresh session installed.  A saved endpoint is connected at once.
Configure(c) ==
    /\ At(c, "new") /\ c \notin closed
    /\ owner \in {NoClient, c}
    /\ accepted < MaxSessions
    /\ accepted' = accepted + 1
    /\ owner' = c
    /\ session' = accepted + 1
    /\ store' = Replace(accepted + 1)
    /\ \/ CallsConnect(c)
       \/ Goto(c, "idle") /\ UNCHANGED connects
    /\ UNCHANGED <<sess, workers, closed>>

\* plc.connect.
HandlePLCConnect(c) ==
    /\ Receives(c)
    /\ CallsConnect(c)
    /\ UNCHANGED <<owner, session, sess, workers, store, closed, accepted>>

\* Detach and cancel the previous worker, unless the client lost the session.
ConnectDetach(c) ==
    /\ At(c, "connect")
    /\ \/ /\ owner # c \/ session = 0
          /\ Return(c, "idle")
          /\ UNCHANGED <<sess, workers>>
       \/ /\ owner = c /\ session # 0
          /\ thread' = [thread EXCEPT ![c] = [@ EXCEPT !.pc = "stopOld", !.session = session,
                                                       !.worker = sess[session].worker]]
          /\ workers' = Cancel(sess[session].worker)
          /\ sess' = [sess EXCEPT ![session] = Detached]
    /\ UNCHANGED <<owner, session, store, closed, accepted, connects>>

\* Mutant: the previous worker's Done is not awaited.
ConnectClearValuesEarly(c) ==
    /\ At(c, "stopOld")
    /\ store' = ClearValues
    /\ Goto(c, "attach") \/ Return(c, "idle")
    /\ UNCHANGED <<owner, session, sess, workers, closed, accepted, connects>>

\* The previous worker is done: drop its values, build a worker (which may fail).
ConnectClearValues(c) ==
    /\ At(c, "stopOld")
    /\ isDone(thread[c].worker)
    /\ store' = ClearValues
    /\ Goto(c, "attach") \/ Return(c, "idle")
    /\ UNCHANGED <<owner, session, sess, workers, closed, accepted, connects>>

\* The worker the handler has built, started with this context.
newWorker(c) == thread[c].attempt
Started(c, cancelled) ==
    [NoWorker EXCEPT !.state = "start", !.session = thread[c].session, !.client = c,
                     !.cancelled = cancelled, !.finishing = ~cancelled]

\* Mutant: the new worker is attached without looking at the session again.
ConnectAttachUnchecked(c) ==
    /\ At(c, "attach")
    /\ LET s == thread[c].session
       IN  /\ sess' = [sess EXCEPT ![s] = [worker |-> newWorker(c), plcState |-> "connecting",
                                           disconnecting |-> FALSE, broadcasts |-> FALSE]]
           /\ workers' = [workers EXCEPT ![newWorker(c)] = Started(c, FALSE)]
    /\ Return(c, "idle")
    /\ UNCHANGED <<owner, session, store, closed, accepted, connects>>

\* Attach and start it, or start it cancelled when the session has gone meanwhile.
ConnectAttach(c) ==
    /\ At(c, "attach")
    /\ LET s == thread[c].session
           current == owner = c /\ session = s
       IN  /\ sess' = IF current
                      THEN [sess EXCEPT ![s] = [worker |-> newWorker(c), plcState |-> "connecting",
                                                disconnecting |-> FALSE, broadcasts |-> FALSE]]
                      ELSE sess
           /\ workers' = [workers EXCEPT ![newWorker(c)] = Started(c, ~current)]
    /\ Return(c, "idle")
    /\ UNCHANGED <<owner, session, store, closed, accepted, connects>>

\* Mutant: the outcome of the initial read is not looked at.
FinishPLCConnectOptimistic(w) ==
    LET s == workers[w].session
    IN  /\ workers[w].finishing
        /\ workers[w].ready # "no"
        /\ workers' = [workers EXCEPT ![w].finishing = FALSE]
        /\ sess' = IF owner # workers[w].client \/ session # s \/ sess[s].worker # w \/ sess[s].disconnecting
                   THEN sess
                   ELSE [sess EXCEPT ![s].broadcasts = TRUE, ![s].plcState = "connected"]
        /\ UNCHANGED <<owner, session, store, thread, closed, accepted, connects>>

\* finishPLCConnect: once Ready() reports, set the state and enable broadcasts,
\* unless the session, the worker or the user's mind has changed.
FinishPLCConnect(w) ==
    LET s == workers[w].session
        state == IF workers[w].ready = "ok" THEN "connected"
                 ELSE IF workers[w].lost THEN "disconnected" ELSE "error"
    IN  /\ workers[w].finishing
        /\ workers[w].ready # "no"
        /\ workers' = [workers EXCEPT ![w].finishing = FALSE]
        /\ sess' = IF owner # workers[w].client \/ session # s \/ sess[s].worker # w \/ sess[s].disconnecting
                   THEN sess
                   ELSE [sess EXCEPT ![s].broadcasts = TRUE, ![s].plcState = state]
        /\ UNCHANGED <<owner, session, store, thread, closed, accepted, connects>>

-----------------------------------------------------------------------------
(* plc.disconnect. *)

\* Mark the session and cancel its worker, which stays attached for now.
HandlePLCDisconnect(c) ==
    /\ Receives(c)
    /\ owner = c /\ session # 0
    /\ sess' = [sess EXCEPT ![session].disconnecting = TRUE]
    /\ workers' = Cancel(sess[session].worker)
    /\ thread' = [thread EXCEPT ![c] = [NoLocals("stopForDisconnect") EXCEPT !.session = session,
                                                                     !.worker = sess[session].worker]]
    /\ UNCHANGED <<owner, session, store, closed, accepted, connects>>

\* The worker is done; ConfirmDisconnected continues unless it knows already.
ConfirmDisconnected(c) ==
    /\ At(c, "stopForDisconnect")
    /\ isDone(thread[c].worker)
    /\ LET w == thread[c].worker
       IN  IF w # 0 /\ ~workers[w].lost
           THEN Goto(c, "confirm") /\ workers' = [workers EXCEPT ![w].lost = TRUE]
           ELSE Goto(c, "detach") /\ UNCHANGED workers
    /\ UNCHANGED <<owner, session, sess, store, closed, accepted, connects>>

\* The stale snapshot goes through updateFromWorker: checked under mu ...
ConfirmCheck(c) ==
    /\ At(c, "confirm")
    /\ Goto(c, IF attached(thread[c].worker, thread[c].session) THEN "confirmApply" ELSE "confirmNotify")
    /\ UNCHANGED <<owner, session, sess, workers, store, closed, accepted, connects>>

\* ... and applied outside it; without definitions Update fails and nobody is told.
ConfirmApply(c) ==
    /\ At(c, "confirmApply")
    /\ IF store.defs = 0 THEN Goto(c, "detach") /\ UNCHANGED store
       ELSE Goto(c, "confirmNotify") /\ store' = [store EXCEPT !.values = thread[c].worker]
    /\ UNCHANGED <<owner, session, sess, workers, closed, accepted, connects>>

ConfirmNotify(c) ==
    /\ At(c, "confirmNotify")
    /\ LET s == thread[c].session
       IN  sess' = IF attached(thread[c].worker, s) THEN [sess EXCEPT ![s].plcState = "disconnected"] ELSE sess
    /\ Goto(c, "detach")
    /\ UNCHANGED <<owner, session, workers, store, closed, accepted, connects>>

DisconnectDetach(c) ==
    /\ At(c, "detach")
    /\ LET s == thread[c].session
       IN  sess' = IF session = s /\ sess[s].worker = thread[c].worker THEN [sess EXCEPT ![s] = Detached] ELSE sess
    /\ Return(c, "idle")
    /\ UNCHANGED <<owner, session, workers, store, closed, accepted, connects>>

-----------------------------------------------------------------------------
(* The end of a session. *)

\* serveWS returns: disconnect stops the session if the client owns it.
Leave(c) ==
    /\ thread[c].pc \in {"new", "idle"}
    /\ Goto(c, IF owner = c THEN "stop" ELSE "gone")
    /\ UNCHANGED <<owner, session, sess, workers, store, closed, accepted, connects>>

\* The process context is done.
Shutdown ==
    /\ At("serve", "serving")
    /\ Goto("serve", "stop")
    /\ UNCHANGED <<owner, session, sess, workers, store, closed, accepted, connects>>

\* StopSession, first half: whatever owner and session are current are dropped,
\* the worker is detached and cancelled.
StopDetach(t) ==
    /\ At(t, "stop")
    /\ LET w == IF session = 0 THEN 0 ELSE sess[session].worker
       IN  /\ thread' = [thread EXCEPT ![t] = [NoLocals("clear") EXCEPT !.session = session, !.worker = w, !.owner = owner]]
           /\ workers' = Cancel(w)
           /\ sess' = IF session = 0 THEN sess ELSE [sess EXCEPT ![session] = Detached]
    /\ owner' = NoClient
    /\ session' = 0
    /\ UNCHANGED <<store, closed, accepted, connects>>

\* Mutant: the store is cleared without waiting for the worker.
StopClearEarly(t) ==
    /\ At(t, "clear")
    /\ store' = Clear
    /\ closed' = closed \cup ({thread[t].owner} \ {NoClient})
    /\ Return(t, "gone")
    /\ UNCHANGED <<owner, session, sess, workers, accepted, connects>>

\* Second half: the worker is done, the store is cleared, the owner's connection closed.
StopClear(t) ==
    /\ At(t, "clear")
    /\ isDone(thread[t].worker)
    /\ store' = Clear
    /\ closed' = closed \cup ({thread[t].owner} \ {NoClient})
    /\ Return(t, "gone")
    /\ UNCHANGED <<owner, session, sess, workers, accepted, connects>>

-----------------------------------------------------------------------------
(* A worker's goroutine, as far as the runtime sees it. *)

workerFrame == <<owner, session, thread, closed, accepted, connects>>

\* Run before its first scan and between scans: stop when cancelled.
WorkerLoop(w) ==
    /\ workers[w].state \in {"start", "loop"}
    /\ workers' = [workers EXCEPT ![w].state = IF workers[w].cancelled THEN "done" ELSE "scan",
                                  ![w].ready = IF workers[w].cancelled /\ @ = "no" THEN "err" ELSE @]
    /\ UNCHANGED <<sess, store, workerFrame>>

\* One readAll: a clean scan, a failed one, or a lost transport.
WorkerScan(w) ==
    /\ workers[w].state = "scan"
    /\ \E outcome \in {"good", "error", "lost"} :
          workers' = [workers EXCEPT ![w].state = "publish",
                                     ![w].err = (outcome # "good"),
                                     ![w].lost = (outcome = "lost" \/ (@ /\ outcome # "good")),
                                     ![w].note = IF outcome = "lost" /\ ~workers[w].lost THEN "disconnected"
                                                 ELSE IF outcome = "good" /\ workers[w].lost THEN "reconnected"
                                                 ELSE "none",
                                     ![w].hasRead = @ \/ outcome = "good"]
    /\ UNCHANGED <<sess, store, workerFrame>>

\* updateFromWorker's check under mu.
WorkerPublish(w) ==
    /\ workers[w].state = "publish"
    /\ workers' = [workers EXCEPT ![w].state = IF attached(w, workers[w].session) THEN "apply" ELSE "notify"]
    /\ UNCHANGED <<sess, store, workerFrame>>

\* store.Update, outside mu: an error when the points are not configured.
WorkerApply(w) ==
    /\ workers[w].state = "apply"
    /\ store' = IF store.defs = 0 THEN store ELSE [store EXCEPT !.values = w]
    /\ workers' = [workers EXCEPT ![w].state = "notify", ![w].err = @ \/ store.defs = 0]
    /\ UNCHANGED <<sess, workerFrame>>

\* Mutant: a reconnect is reported although the user is disconnecting.
NotifiedStateEager(w) ==
    LET s == workers[w].session
    IN  IF workers[w].note = "disconnected" /\ attached(w, s) THEN [sess EXCEPT ![s].plcState = "disconnected"]
        ELSE IF workers[w].note = "reconnected" /\ attached(w, s) THEN [sess EXCEPT ![s].plcState = "connected"]
        ELSE sess

\* notifyPLCDisconnected and notifyPLCReconnected.
NotifiedState(w) ==
    LET s == workers[w].session
    IN  IF workers[w].note = "disconnected" /\ attached(w, s) THEN [sess EXCEPT ![s].plcState = "disconnected"]
        ELSE IF workers[w].note = "reconnected" /\ attached(w, s) /\ ~sess[s].disconnecting
             THEN [sess EXCEPT ![s].plcState = "connected"]
        ELSE sess

WorkerNotify(w) ==
    /\ workers[w].state = "notify"
    /\ sess' = NotifiedState(w)
    /\ workers' = [workers EXCEPT ![w].state = "loop", ![w].note = "none", ![w].err = FALSE,
                                  ![w].ready = IF @ # "no" THEN @ ELSE IF workers[w].err THEN "err" ELSE "ok"]
    /\ UNCHANGED <<store, workerFrame>>

-----------------------------------------------------------------------------
Init ==
    /\ owner = NoClient
    /\ session = 0
    /\ sess = [s \in Sessions |-> Detached]
    /\ workers = [w \in Workers |-> NoWorker]
    /\ store = Clear
    /\ thread = [t \in Threads |-> NoLocals(IF t = "serve" THEN "serving" ELSE "new")]
    /\ closed = {}
    /\ accepted = 0
    /\ connects = 0

\* The steps a handler takes on its own once it has received its message.
Handler(t) ==
    \/ StopDetach(t)
    \/ StopClear(t)
    \/ /\ t \in Clients
       /\ \/ ConnectDetach(t) \/ ConnectClearValues(t) \/ ConnectAttach(t)
          \/ ConfirmDisconnected(t) \/ ConfirmCheck(t) \/ ConfirmApply(t) \/ ConfirmNotify(t)
          \/ DisconnectDetach(t)

Worker(w) ==
    WorkerLoop(w) \/ WorkerScan(w) \/ WorkerPublish(w) \/ WorkerApply(w) \/ WorkerNotify(w)

Message(c) == Configure(c) \/ HandlePLCConnect(c) \/ HandlePLCDisconnect(c) \/ Leave(c)

Next ==
    \/ \E c \in Clients : Message(c)
    \/ \E t \in Threads : Handler(t)
    \/ \E w \in Workers : Worker(w) \/ FinishPLCConnect(w)
    \/ Shutdown

Spec == Init /\ [][Next]_vars

\* A handler that received its message and a worker's goroutine keep running; no
\* message, no lost connection and no shutdown ever has to arrive.
FairSpec ==
    /\ Spec
    /\ \A t \in Threads : WF_vars(Handler(t))
    /\ \A w \in Workers : WF_vars(Worker(w)) /\ WF_vars(FinishPLCConnect(w))

-----------------------------------------------------------------------------
(* What the runtime promises. *)

\* Every variable keeps its type; in particular only a real client's connection is
\* ever closed, although StopSession may find no owner (StopSession, disconnect).
TypeOK ==
    /\ owner \in Clients \cup {NoClient}
    /\ session \in 0..MaxSessions
    /\ sess \in [Sessions -> SessionRecord]
    /\ workers \in [Workers -> WorkerRecord]
    /\ store \in [defs : 0..MaxSessions, values : 0..MaxConnects]
    /\ thread \in [Threads -> ThreadRecord]
    /\ closed \subseteq Clients
    /\ accepted \in 0..MaxSessions
    /\ connects \in 0..MaxConnects

\* A session never has two workers, hence two PLC connections, at once: a new one
\* starts only after stopWorker has seen the previous one's Done (connectPLC).
OneLiveWorkerPerSession ==
    \A v, w \in Workers :
        live(v) /\ live(w) /\ workers[v].session = workers[w].session => v = w

\* No worker is leaked: one whose context nobody has cancelled is attached to the
\* current session, where the next stop will find it (connectPLC, StopSession).
NoLeakedWorker ==
    \A w \in Workers : live(w) /\ ~workers[w].cancelled => session # 0 /\ sess[session].worker = w

\* "connected" is never reported for a worker that has not completed a clean scan,
\* nor for a detached one (finishPLCConnect, notifyPLCReconnected).
ConnectedMeansRead ==
    \A s \in Sessions : sess[s].plcState = "connected" => sess[s].worker # 0 /\ workers[sess[s].worker].hasRead

\* While nobody is stopping a session and the process is not shutting down, the
\* store holds nothing of another session: neither its point table nor its values.
StoreNeverForeign ==
    (session # 0 /\ At("serve", "serving") /\ \A c \in Clients : ~At(c, "clear")) =>
        /\ store.defs \in {0, session}
        /\ store.values # 0 => workers[store.values].session = session

\* Once the user has asked to disconnect, no late scan or late connect turns the
\* session back to connected (the disconnecting flag).
DisconnectingIsFinal ==
    [][\A s \in Sessions : sess[s].disconnecting /\ sess'[s].disconnecting =>
          sess'[s].plcState \in {sess[s].plcState, "disconnected"}]_vars


\* "Package pointstore holds the current session's PLC values": a running session
\* finds its own point table in the store.
StoreBelongsToSession == session # 0 => store.defs = session
=============================================================================
