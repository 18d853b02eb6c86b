------------------------ MODULE RuntimeSessionProofs ------------------------
(***************************************************************************)
(* Proofs about the session life cycle, for any number of clients,         *)
(* sessions and connects.                                                  *)
(***************************************************************************)
EXTENDS RuntimeSession, TLAPS

-----------------------------------------------------------------------------
(* The inductive invariant. *)

Connecting == {"connect", "stopOld", "attach"}
Confirming == {"confirm", "confirmApply", "confirmNotify", "detach"}

\* Handlers that keep the session they started with in a local.
Holding == {"stopOld", "attach", "stopForDisconnect"} \cup Confirming
Holds(c) == thread[c].pc \in Holding

\* The runtime has an owner exactly while it has a session, and the owner's goroutine
\* has neither ended nor still to configure.
OwnerInv ==
    /\ session <= accepted
    /\ session = 0 <=> owner = NoClient
    /\ owner # NoClient => thread[owner].pc \in {"idle", "stop", "connect"} \cup Holding

\* A worker that exists belongs to a session; one a connect may still build does not
\* exist and is nobody else's.
WorkerInv ==
    /\ \A w \in Workers : workers[w].state = "none" => workers[w] = NoWorker
    /\ \A w \in Workers : workers[w].state # "none" =>
          /\ w <= connects
          /\ workers[w].session \in 1..accepted
    /\ \A c \in Clients : thread[c].pc \in Connecting =>
          /\ thread[c].attempt \in 1..connects
          /\ workers[thread[c].attempt].state = "none"
    /\ \A c, d \in Clients : c # d /\ thread[c].pc \in Connecting /\ thread[d].pc \in Connecting =>
          thread[c].attempt # thread[d].attempt

\* What sessions, handlers and the store refer to exists and belongs to them.
RefInv ==
    /\ \A s \in Sessions : sess[s].worker # 0 =>
          workers[sess[s].worker].session = s /\ workers[sess[s].worker].state # "none"
    /\ \A c \in Clients : Holds(c) =>
          /\ thread[c].session \in 1..accepted
          /\ thread[c].worker # 0 => /\ workers[thread[c].worker].session = thread[c].session
                                     /\ workers[thread[c].worker].state # "none"
    /\ \A c \in Clients : thread[c].pc \in Confirming /\ thread[c].worker # 0 => workers[thread[c].worker].state = "done"
    /\ \A c \in Clients : thread[c].pc \in Confirming \ {"detach"} => thread[c].worker # 0
    /\ store.values # 0 => workers[store.values].state # "none"

\* A session is handled by one client only.
ClientInv ==
    /\ \A c, d \in Clients : c # d /\ Holds(c) /\ Holds(d) => thread[c].session # thread[d].session
    /\ \A c \in Clients : Holds(c) => (session = thread[c].session <=> owner = c)

\* Where the live workers of a session are: with a handler that waits for their end,
\* or attached.
LiveInv ==
    /\ \A c \in Clients, w \in Workers : live(w) /\ At(c, "stopOld") /\ workers[w].session = thread[c].session =>
          w = thread[c].worker
    /\ \A c \in Clients, w \in Workers : live(w) /\ At(c, "attach") => workers[w].session # thread[c].session
    /\ \A w \in Workers : session # 0 /\ live(w) /\ workers[w].session = session =>
          sess[session].worker = w \/ At(owner, "stopOld")

\* What a worker that reports a good read knows.
ReadInv ==
    \A w \in Workers :
        /\ workers[w].ready = "ok" => workers[w].hasRead
        /\ workers[w].state \in {"publish", "apply", "notify"} /\ ~workers[w].err => workers[w].hasRead
        /\ workers[w].note = "reconnected" => workers[w].hasRead

\* Until the process shuts down only its own client ends a session, and a worker about
\* to write into the store belongs to the current one or is waited for by StopSession.
StoreInv ==
    At("serve", "serving") =>
        /\ \A c \in Clients : At(c, "stop") => owner = c
        /\ \A c \in Clients : Holds(c) => session = thread[c].session
        /\ \A w \in Workers : workers[w].state = "apply" /\ workers[w].session # session =>
              \E c \in Clients : At(c, "clear") /\ thread[c].worker = w

IInv ==
    /\ TypeOK /\ OwnerInv /\ WorkerInv /\ RefInv /\ ClientInv /\ LiveInv /\ ReadInv /\ StoreInv
    /\ OneLiveWorkerPerSession /\ NoLeakedWorker /\ ConnectedMeansRead /\ StoreNeverForeign

-----------------------------------------------------------------------------
(* Type correctness. *)

LEMMA LocalsType ==
  ASSUME NEW pc \in {"serving", "new", "idle", "connect", "stopOld", "attach", "stopForDisconnect", "confirm",
                     "confirmApply", "confirmNotify", "detach", "stop", "clear", "gone"}
  PROVE  NoLocals(pc) \in ThreadRecord /\ NoLocals(pc).pc = pc /\ NoLocals(pc).attempt = 0
BY BoundAssumption DEF NoLocals, ThreadRecord

LEMMA GotoType ==
  ASSUME TypeOK, NEW t \in Threads, NEW pc \in {"serving", "new", "idle", "connect", "stopOld", "attach",
                     "stopForDisconnect", "confirm", "confirmApply", "confirmNotify", "detach", "stop", "clear", "gone"},
         Goto(t, pc) \/ Return(t, pc)
  PROVE  /\ thread' \in [Threads -> ThreadRecord]
         /\ thread'[t].pc = pc
         /\ \A u \in Threads : u # t => thread'[u] = thread[u]
<1>1. CASE Goto(t, pc)
  BY <1>1 DEF TypeOK, Goto, ThreadRecord
<1>2. CASE Return(t, pc)
  BY <1>2, LocalsType DEF TypeOK, Return
<1> QED
  BY <1>1, <1>2

LEMMA GotoLocals ==
  ASSUME TypeOK, NEW t \in Threads, NEW pc, Goto(t, pc)
  PROVE  /\ thread'[t].session = thread[t].session /\ thread'[t].worker = thread[t].worker
         /\ thread'[t].attempt = thread[t].attempt /\ thread'[t].owner = thread[t].owner
         /\ thread'[t].pc = pc /\ \A u \in Threads : u # t => thread'[u] = thread[u]
BY DEF TypeOK, Goto, ThreadRecord

LEMMA DetachedType == Detached \in SessionRecord /\ Detached.worker = 0 /\ Detached.plcState = "disconnected"
                      /\ Detached.disconnecting = FALSE
BY BoundAssumption DEF Detached, SessionRecord

LEMMA CancelType ==
  ASSUME TypeOK, NEW w
  PROVE  /\ Cancel(w) \in [Workers -> WorkerRecord]
         /\ \A v \in Workers : v # w => Cancel(w)[v] = workers[v]
         /\ \A v \in Workers : /\ Cancel(w)[v].state = workers[v].state /\ Cancel(w)[v].session = workers[v].session
                               /\ Cancel(w)[v].client = workers[v].client /\ Cancel(w)[v].hasRead = workers[v].hasRead
                               /\ Cancel(w)[v].ready = workers[v].ready /\ Cancel(w)[v].note = workers[v].note
                               /\ Cancel(w)[v].err = workers[v].err
                               /\ Cancel(w)[v].finishing = workers[v].finishing
                               /\ Cancel(w)[v].lost = workers[v].lost
         /\ w \in Workers => Cancel(w)[w].cancelled = TRUE
<1>1. \A r \in WorkerRecord : [r EXCEPT !.cancelled = TRUE] \in WorkerRecord
  BY DEF WorkerRecord
<1>2. \A v \in Workers : workers[v] \in WorkerRecord
  BY DEF TypeOK
<1>3. \A v \in Workers : Cancel(w)[v] = IF v = w THEN [workers[v] EXCEPT !.cancelled = TRUE] ELSE workers[v]
  BY DEF Cancel
<1>4. \A r \in WorkerRecord :
         /\ [r EXCEPT !.cancelled = TRUE].state = r.state /\ [r EXCEPT !.cancelled = TRUE].session = r.session
         /\ [r EXCEPT !.cancelled = TRUE].client = r.client /\ [r EXCEPT !.cancelled = TRUE].hasRead = r.hasRead
         /\ [r EXCEPT !.cancelled = TRUE].ready = r.ready /\ [r EXCEPT !.cancelled = TRUE].note = r.note
         /\ [r EXCEPT !.cancelled = TRUE].err = r.err /\ [r EXCEPT !.cancelled = TRUE].finishing = r.finishing
         /\ [r EXCEPT !.cancelled = TRUE].lost = r.lost /\ [r EXCEPT !.cancelled = TRUE].cancelled = TRUE
  BY DEF WorkerRecord
<1>5. Cancel(w) = [v \in Workers |-> IF v = w THEN [workers[v] EXCEPT !.cancelled = TRUE] ELSE workers[v]]
  BY DEF Cancel
<1>6. Cancel(w) \in [Workers -> WorkerRecord]
  BY <1>1, <1>2, <1>5
<1>7. \A v \in Workers : v # w => Cancel(w)[v] = workers[v]
  BY <1>3
<1>8. ASSUME NEW v \in Workers
      PROVE  /\ Cancel(w)[v].state = workers[v].state /\ Cancel(w)[v].session = workers[v].session
             /\ Cancel(w)[v].client = workers[v].client /\ Cancel(w)[v].hasRead = workers[v].hasRead
             /\ Cancel(w)[v].ready = workers[v].ready /\ Cancel(w)[v].note = workers[v].note
             /\ Cancel(w)[v].err = workers[v].err
             /\ Cancel(w)[v].finishing = workers[v].finishing
             /\ Cancel(w)[v].lost = workers[v].lost
             /\ v = w => Cancel(w)[v].cancelled = TRUE
  <2>1. CASE v = w
    <3>1. Cancel(w)[v] = [workers[v] EXCEPT !.cancelled = TRUE]
      BY <1>3, <2>1
    <3> QED
      BY <1>2, <1>4, <3>1
  <2>2. CASE v # w
    BY <1>7, <2>2
  <2> QED
    BY <2>1, <2>2
<1> QED
  BY <1>6, <1>7, <1>8

LEMMA CallsConnectType ==
  ASSUME TypeOK, NEW c \in Clients, CallsConnect(c)
  PROVE  /\ connects' \in 0..MaxConnects /\ connects' = connects + 1 /\ connects \in Nat
         /\ thread' \in [Threads -> ThreadRecord]
         /\ thread'[c].pc = "connect" /\ thread'[c].attempt = connects + 1
         /\ \A u \in Threads : u # c => thread'[u] = thread[u]
<1>1. connects + 1 \in 0..MaxConnects /\ connects \in Nat
  BY BoundAssumption DEF TypeOK, CallsConnect
<1>2. c \in Threads /\ NoLocals("connect") \in ThreadRecord
  BY LocalsType DEF Threads
<1>3. [NoLocals("connect") EXCEPT !.attempt = connects + 1] \in ThreadRecord
  BY <1>1, <1>2 DEF ThreadRecord
<1>4. [NoLocals("connect") EXCEPT !.attempt = connects + 1].pc = "connect"
      /\ [NoLocals("connect") EXCEPT !.attempt = connects + 1].attempt = connects + 1
  BY DEF NoLocals
<1> QED
  BY <1>1, <1>2, <1>3, <1>4 DEF TypeOK, CallsConnect

LEMMA Numbers ==
  ASSUME TypeOK
  PROVE  /\ Clients \subseteq Threads /\ "serve" \in Threads /\ "serve" \notin Clients
         /\ \A s \in Sessions : sess[s] \in SessionRecord /\ sess[s].worker \in Workers \cup {0}
         /\ \A t \in Threads : thread[t] \in ThreadRecord /\ thread[t].worker \in Workers \cup {0}
         /\ session # 0 => session \in Sessions
         /\ store.values # 0 => store.values \in Workers
         /\ accepted \in Nat /\ connects \in Nat /\ session \in Nat
         /\ owner # NoClient => owner \in Clients
         /\ 0 \notin Workers /\ 0 \notin Sessions
         /\ \A w \in Workers : w \in Nat /\ workers[w] \in WorkerRecord
         /\ \A s \in Sessions : s \in Nat
BY BoundAssumption DEF TypeOK, SessionRecord, ThreadRecord, Workers, Sessions, Threads

\* What a step that cancels a worker leaves alone.
LEMMA CancelStep ==
  ASSUME TypeOK, NEW w, workers' = Cancel(w)
  PROVE  /\ workers' \in [Workers -> WorkerRecord]
         /\ \A v \in Workers : v # w => workers'[v] = workers[v]
         /\ \A v \in Workers : /\ workers'[v].state = workers[v].state /\ workers'[v].session = workers[v].session
                               /\ workers'[v].hasRead = workers[v].hasRead /\ workers'[v].ready = workers[v].ready
                               /\ workers'[v].note = workers[v].note /\ workers'[v].err = workers[v].err
         /\ w \in Workers => workers'[w].cancelled = TRUE
<1> DEFINE C == Cancel(w)
<1>1. /\ C \in [Workers -> WorkerRecord]
      /\ \A v \in Workers : v # w => C[v] = workers[v]
      /\ \A v \in Workers : /\ C[v].state = workers[v].state /\ C[v].session = workers[v].session
                            /\ C[v].hasRead = workers[v].hasRead /\ C[v].ready = workers[v].ready
                            /\ C[v].note = workers[v].note /\ C[v].err = workers[v].err
      /\ w \in Workers => C[w].cancelled = TRUE
  BY CancelType
<1>2. workers' = C
  OBVIOUS
<1> HIDE DEF C
<1> QED
  BY <1>1, <1>2

-----------------------------------------------------------------------------
(* The workers' goroutines. *)

\* A step of workers that starts, cancels and reassigns none of them.
LEMMA WorkersMove ==
  ASSUME IInv, UNCHANGED <<owner, session, thread, accepted, connects>>,
         \A w \in Workers : /\ workers'[w].session = workers[w].session
                            /\ workers'[w].cancelled = workers[w].cancelled
                            /\ workers'[w].state = "none" <=> workers[w].state = "none"
                            /\ workers[w].state = "none" => workers'[w] = workers[w]
                            /\ workers[w].state = "done" => workers'[w].state = "done",
         \A s \in Sessions : sess'[s].worker = sess[s].worker,
         store'.values # 0 => workers[store'.values].state # "none" /\ store'.values \in Workers
  PROVE  OwnerInv' /\ WorkerInv' /\ RefInv' /\ ClientInv' /\ LiveInv' /\ OneLiveWorkerPerSession' /\ NoLeakedWorker'
<1>0. TypeOK /\ OwnerInv /\ WorkerInv /\ RefInv /\ ClientInv /\ LiveInv /\ OneLiveWorkerPerSession /\ NoLeakedWorker
  BY DEF IInv
<1>1. /\ \A s \in Sessions : sess[s].worker \in Workers \cup {0}
      /\ \A t \in Threads : thread[t].worker \in Workers \cup {0}
      /\ session # 0 => session \in Sessions
      /\ Clients \subseteq Threads
  BY <1>0, Numbers
<1>2. OwnerInv' /\ ClientInv'
  BY <1>0 DEF OwnerInv, ClientInv, Holds
<1>3. \A w \in Workers : live(w)' => live(w)
  BY DEF live
<1>4. WorkerInv'
  <2>1. \A c \in Clients : thread[c].pc \in Connecting => thread[c].attempt \in Workers
    BY <1>0, BoundAssumption DEF TypeOK, WorkerInv, Workers
  <2> QED
    BY <1>0, <2>1 DEF WorkerInv
<1>5. RefInv'
  BY <1>0, <1>1 DEF RefInv, Holds
<1>6. LiveInv'
  BY <1>0, <1>1, <1>3 DEF LiveInv, At
<1>7. OneLiveWorkerPerSession' /\ NoLeakedWorker'
  BY <1>0, <1>1, <1>3 DEF OneLiveWorkerPerSession, NoLeakedWorker
<1> QED
  BY <1>2, <1>4, <1>5, <1>6, <1>7

\* Such a step leaves what handlers rely on alone when it neither reports a read that
\* did not happen nor writes into the store what StopSession does not wait for.
LEMMA WorkersKeep ==
  ASSUME IInv, UNCHANGED <<owner, session, thread, accepted, connects>>,
         \A w \in Workers : /\ workers'[w].session = workers[w].session
                            /\ workers[w].hasRead => workers'[w].hasRead,
         \A s \in Sessions : /\ sess'[s].worker = sess[s].worker
                             /\ sess'[s].plcState = "connected" =>
                                   \/ sess[s].plcState = "connected"
                                   \/ sess[s].worker # 0 /\ workers'[sess[s].worker].hasRead,
         \A w \in Workers : workers'[w].state = "apply" => workers[w].state = "apply" \/ workers[w].session = session,
         store' = store \/ (store'.defs = store.defs /\ store'.values \in Workers /\ workers[store'.values].state = "apply")
  PROVE  StoreInv' /\ ConnectedMeansRead' /\ StoreNeverForeign'
<1>0. TypeOK /\ StoreInv /\ ConnectedMeansRead /\ StoreNeverForeign
  BY DEF IInv
<1>1. \A s \in Sessions : sess[s].worker \in Workers \cup {0}
  BY <1>0, BoundAssumption DEF TypeOK, SessionRecord, Workers
<1>2. StoreInv'
  BY <1>0 DEF StoreInv, At, Holds
<1>3. ConnectedMeansRead'
  BY <1>0, <1>1 DEF ConnectedMeansRead
<1>4. StoreNeverForeign'
  <2> SUFFICES ASSUME session # 0, At("serve", "serving"), \A c \in Clients : ~At(c, "clear")
               PROVE  /\ store'.defs \in {0, session}
                      /\ store'.values # 0 => workers'[store'.values].session = session
    BY DEF StoreNeverForeign, At
  <2>1. /\ store.defs \in {0, session}
        /\ store.values # 0 => workers[store.values].session = session
    BY <1>0 DEF StoreNeverForeign
  <2>2. store.values # 0 => store.values \in Workers
    BY <1>0, BoundAssumption DEF TypeOK, Workers
  <2>3. \A w \in Workers : workers[w].state = "apply" => workers[w].session = session
    BY <1>0 DEF StoreInv
  <2> QED
    BY <2>1, <2>2, <2>3
<1> QED
  BY <1>2, <1>3, <1>4

LEMMA WorkerFrame == workerFrame' = workerFrame => UNCHANGED <<owner, session, thread, closed, accepted, connects>>
BY DEF workerFrame

LEMMA WorkerLoopInv == ASSUME IInv, NEW w \in Workers, WorkerLoop(w) PROVE IInv'
<1>0. TypeOK /\ WorkerInv /\ ReadInv /\ RefInv /\ workers[w] \in WorkerRecord
  BY DEF IInv, TypeOK
<1>1. TypeOK'
  BY <1>0 DEF TypeOK, WorkerRecord, WorkerLoop, workerFrame
<1>2. UNCHANGED <<owner, session, thread, accepted, connects>>
  BY WorkerFrame DEF WorkerLoop
<1>3. /\ \A v \in Workers : v # w => workers'[v] = workers[v]
      /\ workers'[w].session = workers[w].session /\ workers'[w].cancelled = workers[w].cancelled
      /\ workers'[w].hasRead = workers[w].hasRead /\ workers'[w].note = workers[w].note
      /\ workers[w].state \in {"start", "loop"} /\ workers'[w].state \in {"done", "scan"}
      /\ workers'[w].ready \in {workers[w].ready, "err"}
      /\ UNCHANGED <<sess, store>>
  BY <1>0 DEF TypeOK, WorkerRecord, WorkerLoop
<1>4. OwnerInv' /\ WorkerInv' /\ RefInv' /\ ClientInv' /\ LiveInv' /\ OneLiveWorkerPerSession' /\ NoLeakedWorker'
  BY <1>0, <1>2, <1>3, WorkersMove DEF RefInv, TypeOK, Workers
<1>5. ReadInv'
  BY <1>0, <1>3 DEF ReadInv
<1>6. StoreInv' /\ ConnectedMeansRead' /\ StoreNeverForeign'
  BY <1>0, <1>2, <1>3, WorkersKeep
<1> QED
  BY <1>1, <1>4, <1>5, <1>6 DEF IInv

LEMMA WorkerScanInv == ASSUME IInv, NEW w \in Workers, WorkerScan(w) PROVE IInv'
<1>0. TypeOK /\ WorkerInv /\ ReadInv /\ RefInv /\ workers[w] \in WorkerRecord
  BY DEF IInv, TypeOK
<1>1. TypeOK'
  <2>1. PICK outcome \in {"good", "error", "lost"} :
          workers' = [workers EXCEPT ![w].state = "publish",
                                     ![w].err = (outcome # "good"),
                                     ![w].lost = (outcome = "lost" \/ (@ /\ outcome # "good")),
                                     ![w].note = IF outcome = "lost" /\ ~workers[w].lost THEN "disconnected"
                                                 ELSE IF outcome = "good" /\ workers[w].lost THEN "reconnected"
                                                 ELSE "none",
                                     ![w].hasRead = @ \/ outcome = "good"]
    BY DEF WorkerScan
  <2> DEFINE e == (outcome # "good")
             l == (outcome = "lost" \/ (workers[w].lost /\ outcome # "good"))
             n == IF outcome = "lost" /\ ~workers[w].lost THEN "disconnected"
                  ELSE IF outcome = "good" /\ workers[w].lost THEN "reconnected" ELSE "none"
             h == (workers[w].hasRead \/ outcome = "good")
  <2>2. e \in BOOLEAN /\ l \in BOOLEAN /\ h \in BOOLEAN /\ n \in {"none", "disconnected", "reconnected"}
    OBVIOUS
  <2>3. workers' = [workers EXCEPT ![w].state = "publish", ![w].err = e, ![w].lost = l, ![w].note = n, ![w].hasRead = h]
    BY <2>1
  <2> HIDE DEF e, l, n, h
  <2>4. workers' \in [Workers -> WorkerRecord]
    <3> DEFINE r == [workers[w] EXCEPT !.state = "publish", !.err = e, !.lost = l, !.note = n, !.hasRead = h]
    <3>1. r \in WorkerRecord
      BY <1>0, <2>2 DEF WorkerRecord
    <3>2. workers' = [workers EXCEPT ![w] = r]
      BY <2>3
    <3> HIDE DEF r
    <3> QED
      BY <1>0, <3>1, <3>2 DEF TypeOK
  <2> QED
    BY <1>0, <2>4 DEF TypeOK, WorkerScan, workerFrame
<1>2. UNCHANGED <<owner, session, thread, accepted, connects>>
  BY WorkerFrame DEF WorkerScan
<1>3. /\ \A v \in Workers : v # w => workers'[v] = workers[v]
      /\ workers'[w].session = workers[w].session /\ workers'[w].cancelled = workers[w].cancelled
      /\ workers[w].hasRead => workers'[w].hasRead
      /\ workers'[w].note = "reconnected" => workers'[w].hasRead
      /\ ~workers'[w].err => workers'[w].hasRead
      /\ workers[w].state = "scan" /\ workers'[w].state = "publish"
      /\ workers'[w].ready = workers[w].ready
      /\ UNCHANGED <<sess, store>>
  BY <1>0 DEF TypeOK, WorkerRecord, WorkerScan
<1>4. OwnerInv' /\ WorkerInv' /\ RefInv' /\ ClientInv' /\ LiveInv' /\ OneLiveWorkerPerSession' /\ NoLeakedWorker'
  BY <1>0, <1>2, <1>3, WorkersMove DEF RefInv, TypeOK, Workers
<1>5. ReadInv'
  BY <1>0, <1>3 DEF ReadInv
<1>6. StoreInv' /\ ConnectedMeansRead' /\ StoreNeverForeign'
  BY <1>0, <1>2, <1>3, WorkersKeep
<1> QED
  BY <1>1, <1>4, <1>5, <1>6 DEF IInv

LEMMA WorkerPublishInv == ASSUME IInv, NEW w \in Workers, WorkerPublish(w) PROVE IInv'
<1>0. TypeOK /\ WorkerInv /\ ReadInv /\ RefInv /\ workers[w] \in WorkerRecord
  BY DEF IInv, TypeOK
<1>1. TypeOK'
  BY <1>0 DEF TypeOK, WorkerRecord, WorkerPublish, workerFrame
<1>2. UNCHANGED <<owner, session, thread, accepted, connects>>
  BY WorkerFrame DEF WorkerPublish
<1>3. /\ \A v \in Workers : v # w => workers'[v] = workers[v]
      /\ workers'[w].session = workers[w].session /\ workers'[w].cancelled = workers[w].cancelled
      /\ workers'[w].hasRead = workers[w].hasRead /\ workers'[w].note = workers[w].note
      /\ workers'[w].err = workers[w].err
      /\ workers[w].state = "publish" /\ workers'[w].state \in {"apply", "notify"}
      /\ workers'[w].state = "apply" => workers[w].session = session
      /\ workers'[w].ready = workers[w].ready
      /\ UNCHANGED <<sess, store>>
  BY <1>0 DEF TypeOK, WorkerRecord, WorkerPublish, attached
<1>4. OwnerInv' /\ WorkerInv' /\ RefInv' /\ ClientInv' /\ LiveInv' /\ OneLiveWorkerPerSession' /\ NoLeakedWorker'
  BY <1>0, <1>2, <1>3, WorkersMove DEF RefInv, TypeOK, Workers
<1>5. ReadInv'
  BY <1>0, <1>3 DEF ReadInv
<1>6. StoreInv' /\ ConnectedMeansRead' /\ StoreNeverForeign'
  BY <1>0, <1>2, <1>3, WorkersKeep
<1> QED
  BY <1>1, <1>4, <1>5, <1>6 DEF IInv

LEMMA WorkerApplyInv == ASSUME IInv, NEW w \in Workers, WorkerApply(w) PROVE IInv'
<1>0. TypeOK /\ WorkerInv /\ ReadInv /\ RefInv /\ workers[w] \in WorkerRecord
  BY DEF IInv, TypeOK
<1>1. TypeOK'
  <2> DEFINE e == (workers[w].err \/ store.defs = 0)
  <2>1. e \in BOOLEAN
    OBVIOUS
  <2>2. workers' = [workers EXCEPT ![w].state = "notify", ![w].err = e]
    BY DEF WorkerApply
  <2> HIDE DEF e
  <2>3. workers' \in [Workers -> WorkerRecord]
    BY <1>0, <2>1, <2>2 DEF TypeOK, WorkerRecord
  <2>4. store' \in [defs : 0..MaxSessions, values : 0..MaxConnects]
    <3>1. w \in 0..MaxConnects
      BY BoundAssumption DEF Workers
    <3> QED
      BY <1>0, <3>1 DEF TypeOK, WorkerApply
  <2> QED
    BY <1>0, <2>3, <2>4 DEF TypeOK, WorkerApply, workerFrame
<1>2. UNCHANGED <<owner, session, thread, accepted, connects>>
  BY WorkerFrame DEF WorkerApply
<1>3. /\ \A v \in Workers : v # w => workers'[v] = workers[v]
      /\ workers'[w].session = workers[w].session /\ workers'[w].cancelled = workers[w].cancelled
      /\ workers'[w].hasRead = workers[w].hasRead /\ workers'[w].note = workers[w].note
      /\ workers[w].err => workers'[w].err
      /\ workers[w].state = "apply" /\ workers'[w].state = "notify"
      /\ workers'[w].ready = workers[w].ready
      /\ UNCHANGED sess
      /\ store' = store \/ (store'.defs = store.defs /\ store'.values = w)
  BY <1>0 DEF TypeOK, WorkerRecord, WorkerApply
<1>4. OwnerInv' /\ WorkerInv' /\ RefInv' /\ ClientInv' /\ LiveInv' /\ OneLiveWorkerPerSession' /\ NoLeakedWorker'
  BY <1>0, <1>2, <1>3, WorkersMove DEF RefInv, TypeOK, Workers
<1>5. ReadInv'
  BY <1>0, <1>3 DEF ReadInv
<1>6. StoreInv' /\ ConnectedMeansRead' /\ StoreNeverForeign'
  BY <1>0, <1>2, <1>3, WorkersKeep
<1> QED
  BY <1>1, <1>4, <1>5, <1>6 DEF IInv

LEMMA WorkerNotifyInv == ASSUME IInv, NEW w \in Workers, WorkerNotify(w) PROVE IInv'
<1>0. TypeOK /\ WorkerInv /\ ReadInv /\ RefInv /\ workers[w] \in WorkerRecord
  BY DEF IInv, TypeOK
<1>1. TypeOK'
  <2>1. sess' \in [Sessions -> SessionRecord]
    BY <1>0 DEF TypeOK, SessionRecord, WorkerNotify, NotifiedState
  <2> QED
    BY <1>0, <2>1 DEF TypeOK, WorkerRecord, WorkerNotify, workerFrame
<1>2. UNCHANGED <<owner, session, thread, accepted, connects>>
  BY WorkerFrame DEF WorkerNotify
<1>3. /\ \A v \in Workers : v # w => workers'[v] = workers[v]
      /\ workers'[w].session = workers[w].session /\ workers'[w].cancelled = workers[w].cancelled
      /\ workers'[w].hasRead = workers[w].hasRead /\ workers'[w].note = "none"
      /\ workers[w].state = "notify" /\ workers'[w].state = "loop"
      /\ workers'[w].ready = "ok" => workers[w].ready = "ok" \/ ~workers[w].err
      /\ UNCHANGED store
      /\ \A s \in Sessions : /\ sess'[s].worker = sess[s].worker
                             /\ sess'[s].plcState = "connected" =>
                                   \/ sess[s].plcState = "connected"
                                   \/ sess[s].worker = w /\ workers[w].note = "reconnected"
  <2>1. \A s \in Sessions : /\ sess'[s].worker = sess[s].worker
                            /\ sess'[s].plcState = "connected" =>
                                   \/ sess[s].plcState = "connected"
                                   \/ sess[s].worker = w /\ workers[w].note = "reconnected"
    BY <1>0 DEF TypeOK, SessionRecord, WorkerNotify, NotifiedState, attached
  <2> QED
    BY <1>0, <2>1 DEF TypeOK, WorkerRecord, WorkerNotify
<1>4. OwnerInv' /\ WorkerInv' /\ RefInv' /\ ClientInv' /\ LiveInv' /\ OneLiveWorkerPerSession' /\ NoLeakedWorker'
  BY <1>0, <1>2, <1>3, WorkersMove DEF RefInv, TypeOK, Workers
<1>5. ReadInv'
  BY <1>0, <1>3 DEF ReadInv
<1>6. StoreInv' /\ ConnectedMeansRead' /\ StoreNeverForeign'
  BY <1>0, <1>2, <1>3, WorkersKeep DEF ReadInv, Workers
<1> QED
  BY <1>1, <1>4, <1>5, <1>6 DEF IInv

LEMMA FinishPLCConnectInv == ASSUME IInv, NEW w \in Workers, FinishPLCConnect(w) PROVE IInv'
<1>0. TypeOK /\ WorkerInv /\ ReadInv /\ RefInv /\ workers[w] \in WorkerRecord
  BY DEF IInv, TypeOK
<1>1. TypeOK'
  <2>1. sess' \in [Sessions -> SessionRecord]
    <3> DEFINE s == workers[w].session
               p == IF workers[w].ready = "ok" THEN "connected" ELSE IF workers[w].lost THEN "disconnected" ELSE "error"
    <3>1. p \in {"disconnected", "connecting", "connected", "error"}
      OBVIOUS
    <3>2. sess' = sess \/ sess' = [sess EXCEPT ![s].broadcasts = TRUE, ![s].plcState = p]
      BY DEF FinishPLCConnect
    <3>3. s \in Sessions
      BY <1>0, BoundAssumption DEF WorkerInv, TypeOK, FinishPLCConnect, NoWorker, Sessions
    <3>4. sess[s] \in SessionRecord
      BY <1>0, <3>3 DEF TypeOK
    <3>5. [sess[s] EXCEPT !.broadcasts = TRUE, !.plcState = p] \in SessionRecord
      BY <3>1, <3>4 DEF SessionRecord
    <3> HIDE DEF s, p
    <3>6. [sess EXCEPT ![s].broadcasts = TRUE, ![s].plcState = p]
            = [sess EXCEPT ![s] = [sess[s] EXCEPT !.broadcasts = TRUE, !.plcState = p]]
      BY <1>0, <3>3, <3>4 DEF TypeOK
    <3> QED
      BY <1>0, <3>2, <3>5, <3>6 DEF TypeOK
  <2> QED
    BY <1>0, <2>1 DEF TypeOK, WorkerRecord, FinishPLCConnect
<1>2. UNCHANGED <<owner, session, thread, accepted, connects>>
  BY WorkerFrame DEF FinishPLCConnect
<1>3. /\ \A v \in Workers : v # w => workers'[v] = workers[v]
      /\ workers'[w].session = workers[w].session /\ workers'[w].cancelled = workers[w].cancelled
      /\ workers'[w].hasRead = workers[w].hasRead /\ workers'[w].note = workers[w].note
      /\ workers'[w].state = workers[w].state /\ workers'[w].ready = workers[w].ready
      /\ workers'[w].err = workers[w].err
      /\ workers[w].state # "none"
      /\ UNCHANGED store
      /\ \A s \in Sessions : /\ sess'[s].worker = sess[s].worker
                             /\ sess'[s].plcState = "connected" =>
                                   \/ sess[s].plcState = "connected"
                                   \/ sess[s].worker = w /\ workers[w].ready = "ok"
  <2>1. \A s \in Sessions : /\ sess'[s].worker = sess[s].worker
                            /\ sess'[s].plcState = "connected" =>
                                   \/ sess[s].plcState = "connected"
                                   \/ sess[s].worker = w /\ workers[w].ready = "ok"
    BY <1>0 DEF TypeOK, SessionRecord, FinishPLCConnect
  <2>2. workers[w].state # "none"
    BY <1>0 DEF WorkerInv, FinishPLCConnect, NoWorker
  <2> QED
    BY <1>0, <2>1, <2>2 DEF TypeOK, WorkerRecord, FinishPLCConnect
<1>4. OwnerInv' /\ WorkerInv' /\ RefInv' /\ ClientInv' /\ LiveInv' /\ OneLiveWorkerPerSession' /\ NoLeakedWorker'
  BY <1>0, <1>2, <1>3, WorkersMove DEF RefInv, TypeOK, Workers
<1>5. ReadInv'
  BY <1>0, <1>3 DEF ReadInv
<1>6. StoreInv' /\ ConnectedMeansRead' /\ StoreNeverForeign'
  BY <1>0, <1>2, <1>3, WorkersKeep DEF ReadInv, Workers
<1> QED
  BY <1>1, <1>4, <1>5, <1>6 DEF IInv

-----------------------------------------------------------------------------
(* The handlers. *)

Structure == OwnerInv /\ WorkerInv /\ RefInv /\ ClientInv /\ LiveInv /\ OneLiveWorkerPerSession /\ NoLeakedWorker
Promises == ReadInv /\ StoreInv /\ ConnectedMeansRead /\ StoreNeverForeign

LEMMA Parts == IInv <=> TypeOK /\ Structure /\ Promises
BY DEF IInv, Structure, Promises

\* A handler of plc.disconnect goes on, after the worker it waited for is done.
LEMMA ConfirmMoves ==
  ASSUME IInv, NEW c \in Clients,
         thread[c].pc \in {"stopForDisconnect"} \cup Confirming, thread'[c].pc \in Confirming,
         thread'[c].session = thread[c].session, thread'[c].worker = thread[c].worker,
         \A u \in Threads : u # c => thread'[u] = thread[u],
         thread[c].worker # 0 => workers[thread[c].worker].state = "done",
         thread'[c].pc # "detach" => thread[c].worker # 0,
         UNCHANGED <<owner, session, accepted, connects>>,
         \A w \in Workers : /\ workers'[w].session = workers[w].session /\ workers'[w].cancelled = workers[w].cancelled
                            /\ workers'[w].state = workers[w].state /\ workers'[w].hasRead = workers[w].hasRead
                            /\ workers'[w].ready = workers[w].ready /\ workers'[w].note = workers[w].note
                            /\ workers'[w].err = workers[w].err
                            /\ workers[w].state = "none" => workers'[w] = workers[w],
         \A s \in Sessions : /\ sess'[s].worker = sess[s].worker
                             /\ sess'[s].plcState = "connected" => sess[s].plcState = "connected",
         store' = store \/ (store'.defs = store.defs /\ store'.values = thread[c].worker /\ thread[c].worker # 0)
  PROVE  Structure' /\ Promises'
<1>0. TypeOK /\ Structure /\ Promises
  BY Parts
<1> USE Numbers
<1>1. \A w \in Workers : live(w)' <=> live(w)
  BY DEF live
<1>2. \A d \in Clients : Holds(d)' <=> Holds(d)
  BY <1>0 DEF Holds, Holding, Confirming
<1>3. OwnerInv'
  BY <1>0 DEF Structure, OwnerInv, Holding, Confirming
<1>4. WorkerInv'
  <2>1. \A d \in Clients : thread'[d].pc \in Connecting => thread'[d] = thread[d]
    BY <1>0 DEF Connecting, Confirming
  <2>2. \A d \in Clients : thread[d].pc \in Connecting => thread[d].attempt \in Workers
    BY <1>0, BoundAssumption DEF TypeOK, Structure, WorkerInv, Workers
  <2> QED
    BY <1>0, <2>1, <2>2 DEF Structure, WorkerInv
<1>5. ClientInv'
  BY <1>0, <1>2 DEF Structure, ClientInv
<1>6. RefInv'
  BY <1>0, <1>2 DEF Structure, RefInv, Holds, Holding
<1>7. LiveInv'
  <2>1. \A d \in Clients : thread[d].pc \in {"stopOld", "attach"} \/ thread'[d].pc \in {"stopOld", "attach"} =>
           thread'[d] = thread[d]
    BY <1>0 DEF Confirming
  <2>2. session # 0 => owner \in Clients
    BY <1>0 DEF Structure, OwnerInv
  <2>3. session # 0 /\ At(owner, "stopOld") => At(owner, "stopOld")'
    BY <2>1, <2>2 DEF At
  <2> QED
    BY <1>0, <1>1, <2>1, <2>3 DEF Structure, LiveInv, At
<1>8. OneLiveWorkerPerSession' /\ NoLeakedWorker'
  BY <1>0, <1>1 DEF Structure, OneLiveWorkerPerSession, NoLeakedWorker
<1>9. ReadInv' /\ ConnectedMeansRead'
  BY <1>0 DEF Promises, ReadInv, ConnectedMeansRead
<1>10. StoreInv'
  <2>1. \A d \in Clients : (At(d, "stop")' <=> At(d, "stop")) /\ (At(d, "clear")' <=> At(d, "clear"))
    BY <1>0 DEF At, Confirming
  <2> QED
    BY <1>0, <1>2, <2>1 DEF Promises, StoreInv, At
<1>11. StoreNeverForeign'
  <2>1. \A d \in Clients : At(d, "clear")' <=> At(d, "clear")
    BY <1>0 DEF At, Confirming
  <2>2. At("serve", "serving") => session = thread[c].session
    BY <1>0 DEF Promises, StoreInv, Holds, Holding
  <2>3. thread[c].worker # 0 => workers[thread[c].worker].session = thread[c].session
    BY <1>0 DEF Structure, RefInv, Holds, Holding
  <2> QED
    BY <1>0, <2>1, <2>2, <2>3 DEF Promises, StoreNeverForeign, At
<1> QED
  BY <1>3, <1>4, <1>5, <1>6, <1>7, <1>8, <1>9, <1>10, <1>11 DEF Structure, Promises

\* A handler ends, or starts to stop its own session, after the worker it waited for is
\* done; it may have detached a worker that is done.
LEMMA HandlerEnds ==
  ASSUME IInv, NEW c \in Clients, thread[c].pc # "clear", thread'[c].pc \in {"idle", "stop", "gone"},
         thread'[c].pc = "stop" => owner = c, thread'[c].pc = "gone" => owner # c,
         \A u \in Threads : u # c => thread'[u] = thread[u],
         thread[c].pc = "stopOld" /\ thread[c].worker # 0 => workers[thread[c].worker].state = "done",
         UNCHANGED <<owner, session, accepted, connects, workers>>,
         \A s \in Sessions : \/ sess'[s] = sess[s]
                             \/ /\ sess'[s].worker = 0 /\ sess'[s].plcState # "connected"
                                /\ sess[s].worker # 0 => workers[sess[s].worker].state = "done",
         store' = store \/ (store'.defs = store.defs /\ store'.values = 0)
  PROVE  Structure' /\ Promises'
<1>0. TypeOK /\ Structure /\ Promises
  BY Parts
<1> USE Numbers
<1>1. \A w \in Workers : live(w)' <=> live(w)
  BY DEF live
<1>2. ~Holds(c)' /\ thread'[c].pc \notin Connecting /\ \A d \in Clients : d # c => (Holds(d)' <=> Holds(d))
  BY <1>0 DEF Holds, Holding, Confirming, Connecting
<1>3. OwnerInv'
  BY <1>0 DEF Structure, OwnerInv, Holding, Confirming
<1>4. WorkerInv'
  BY <1>0, <1>2 DEF Structure, WorkerInv
<1>5. ClientInv'
  BY <1>0, <1>2 DEF Structure, ClientInv
<1>6. RefInv'
  BY <1>0, <1>2 DEF Structure, RefInv, Holds, Holding
<1>7. LiveInv'
  <2>1. \A w \in Workers : live(w) /\ session # 0 /\ workers[w].session = session /\ At(owner, "stopOld") /\ owner = c => FALSE
    <3> SUFFICES ASSUME NEW w \in Workers, live(w), session # 0, workers[w].session = session, At(c, "stopOld"), owner = c
                 PROVE  FALSE
      OBVIOUS
    <3>1. thread[c].session = session
      BY <1>0 DEF Structure, ClientInv, Holds, Holding, At
    <3>2. w = thread[c].worker
      BY <1>0, <3>1 DEF Structure, LiveInv
    <3> QED
      BY <1>0, <3>2 DEF At, live
  <2>2. \A w \in Workers, s \in Sessions : live(w) /\ sess[s].worker = w => sess'[s].worker = w
    BY <1>0 DEF live
  <2>3. \A w \in Workers : session # 0 /\ live(w) /\ workers[w].session = session =>
          sess'[session].worker = w \/ At(owner, "stopOld")'
    <3> SUFFICES ASSUME NEW w \in Workers, session # 0, live(w), workers[w].session = session
                 PROVE  sess'[session].worker = w \/ At(owner, "stopOld")'
      OBVIOUS
    <3>1. CASE sess[session].worker = w
      BY <1>0, <2>2, <3>1
    <3>2. CASE At(owner, "stopOld")
      BY <1>0, <2>1, <3>2 DEF At, Structure, OwnerInv
    <3> QED
      BY <1>0, <3>1, <3>2 DEF Structure, LiveInv
  <2> QED
    BY <1>0, <1>1, <2>3 DEF Structure, LiveInv, At
<1>8. OneLiveWorkerPerSession' /\ NoLeakedWorker'
  BY <1>0, <1>1 DEF Structure, OneLiveWorkerPerSession, NoLeakedWorker, live
<1>9. ReadInv' /\ ConnectedMeansRead'
  BY <1>0 DEF Promises, ReadInv, ConnectedMeansRead
<1>10. StoreInv'
  <2>1. \A d \in Clients : At(d, "clear")' <=> At(d, "clear")
    BY <1>0 DEF At
  <2> QED
    BY <1>0, <1>2, <2>1 DEF Promises, StoreInv, At, Holds
<1>11. StoreNeverForeign'
  <2>1. \A d \in Clients : At(d, "clear")' <=> At(d, "clear")
    BY <1>0 DEF At
  <2> QED
    BY <1>0, <2>1 DEF Promises, StoreNeverForeign, At
<1> QED
  BY <1>3, <1>4, <1>5, <1>6, <1>7, <1>8, <1>9, <1>10, <1>11 DEF Structure, Promises

LEMMA InvIsParts == TypeOK' /\ Structure' /\ Promises' => IInv'
BY DEF IInv, Structure, Promises

LEMMA LostType ==
  ASSUME NEW r \in WorkerRecord
  PROVE  /\ [r EXCEPT !.lost = TRUE] \in WorkerRecord
         /\ [r EXCEPT !.lost = TRUE].state = r.state /\ [r EXCEPT !.lost = TRUE].session = r.session
         /\ [r EXCEPT !.lost = TRUE].cancelled = r.cancelled /\ [r EXCEPT !.lost = TRUE].hasRead = r.hasRead
         /\ [r EXCEPT !.lost = TRUE].ready = r.ready /\ [r EXCEPT !.lost = TRUE].note = r.note
         /\ [r EXCEPT !.lost = TRUE].err = r.err
BY DEF WorkerRecord

LEMMA ConfirmDisconnectedInv == ASSUME IInv, NEW c \in Clients, ConfirmDisconnected(c) PROVE IInv'
<1>0. TypeOK /\ Structure /\ Promises
  BY Parts
<1> USE Numbers
<1>1. thread[c].worker # 0 => workers[thread[c].worker].state = "done"
  BY <1>0 DEF ConfirmDisconnected, isDone
<1>2. PICK pc \in {"confirm", "detach"} :
          Goto(c, pc) /\ (pc = "confirm" => thread[c].worker # 0)
  BY DEF ConfirmDisconnected
<1>3. /\ workers' \in [Workers -> WorkerRecord]
      /\ \A w \in Workers : /\ workers'[w].session = workers[w].session /\ workers'[w].cancelled = workers[w].cancelled
                            /\ workers'[w].state = workers[w].state /\ workers'[w].hasRead = workers[w].hasRead
                            /\ workers'[w].ready = workers[w].ready /\ workers'[w].note = workers[w].note
                            /\ workers'[w].err = workers[w].err
                            /\ workers[w].state = "none" => workers'[w] = workers[w]
  <2>1. CASE UNCHANGED workers
    BY <1>0, <2>1 DEF TypeOK
  <2>2. CASE thread[c].worker # 0 /\ workers' = [workers EXCEPT ![thread[c].worker].lost = TRUE]
    <3> DEFINE w == thread[c].worker
    <3>1. w \in Workers /\ workers[w] \in WorkerRecord /\ workers[w].state = "done"
      BY <1>0, <1>1, <2>2
    <3>2. /\ workers' = [workers EXCEPT ![w] = [workers[w] EXCEPT !.lost = TRUE]]
          /\ workers \in [Workers -> WorkerRecord]
      BY <1>0, <2>2 DEF TypeOK
    <3> HIDE DEF w
    <3>3. /\ workers' \in [Workers -> WorkerRecord]
          /\ workers'[w] = [workers[w] EXCEPT !.lost = TRUE]
          /\ \A v \in Workers : v # w => workers'[v] = workers[v]
      BY <3>1, <3>2, LostType
    <3>4. ASSUME NEW v \in Workers
          PROVE  /\ workers'[v].session = workers[v].session /\ workers'[v].cancelled = workers[v].cancelled
                 /\ workers'[v].state = workers[v].state /\ workers'[v].hasRead = workers[v].hasRead
                 /\ workers'[v].ready = workers[v].ready /\ workers'[v].note = workers[v].note
                 /\ workers'[v].err = workers[v].err
                 /\ workers[v].state = "none" => workers'[v] = workers[v]
      <4>1. CASE v = w
        BY <3>1, <3>3, <4>1, LostType
      <4>2. CASE v # w
        BY <3>3, <4>2
      <4> QED
        BY <4>1, <4>2
    <3> QED
      BY <3>3, <3>4
  <2> QED
    BY <2>1, <2>2 DEF ConfirmDisconnected
<1>8. TypeOK'
  BY <1>0, <1>2, <1>3, GotoType DEF TypeOK, ConfirmDisconnected
<1>9. Structure' /\ Promises'
  BY <1>0, <1>1, <1>2, <1>3, GotoLocals, ConfirmMoves DEF ConfirmDisconnected, At, Confirming
<1> QED
  BY <1>8, <1>9, InvIsParts

LEMMA ConfirmCheckInv == ASSUME IInv, NEW c \in Clients, ConfirmCheck(c) PROVE IInv'
<1>0. TypeOK /\ Structure /\ Promises
  BY Parts
<1> USE Numbers
<1>1. thread[c].worker # 0 => workers[thread[c].worker].state = "done"
  BY <1>0 DEF Structure, RefInv, ConfirmCheck, At, Confirming
<1>2. thread[c].worker # 0
  BY <1>0 DEF Structure, RefInv, ConfirmCheck, At, Confirming
<1>3. PICK pc \in {"confirmApply", "confirmNotify"} : Goto(c, pc)
  BY DEF ConfirmCheck
<1>8. TypeOK'
  BY <1>0, <1>3, GotoType DEF TypeOK, ConfirmCheck
<1>9. Structure' /\ Promises'
  BY <1>0, <1>1, <1>2, <1>3, GotoLocals, ConfirmMoves DEF ConfirmCheck, At, Confirming
<1> QED
  BY <1>8, <1>9, InvIsParts

LEMMA ConfirmApplyInv == ASSUME IInv, NEW c \in Clients, ConfirmApply(c) PROVE IInv'
<1>0. TypeOK /\ Structure /\ Promises
  BY Parts
<1> USE Numbers
<1>1. thread[c].worker # 0 => workers[thread[c].worker].state = "done"
  BY <1>0 DEF Structure, RefInv, ConfirmApply, At, Confirming
<1>2. thread[c].worker # 0
  BY <1>0 DEF Structure, RefInv, ConfirmApply, At, Confirming
<1>3. PICK pc \in {"detach", "confirmNotify"} : Goto(c, pc)
  BY DEF ConfirmApply
<1>4. /\ store' = store \/ (store'.defs = store.defs /\ store'.values = thread[c].worker)
      /\ store' \in [defs : 0..MaxSessions, values : 0..MaxConnects]
  BY <1>0 DEF TypeOK, ThreadRecord, ConfirmApply
<1>8. TypeOK'
  BY <1>0, <1>3, <1>4, GotoType DEF TypeOK, ConfirmApply
<1>9. Structure' /\ Promises'
  BY <1>0, <1>1, <1>2, <1>3, <1>4, GotoLocals, ConfirmMoves DEF ConfirmApply, At, Confirming
<1> QED
  BY <1>8, <1>9, InvIsParts

LEMMA ConfirmNotifyInv == ASSUME IInv, NEW c \in Clients, ConfirmNotify(c) PROVE IInv'
<1>0. TypeOK /\ Structure /\ Promises
  BY Parts
<1> USE Numbers
<1>1. thread[c].worker # 0 => workers[thread[c].worker].state = "done"
  BY <1>0 DEF Structure, RefInv, ConfirmNotify, At, Confirming
<1>2. thread[c].worker # 0
  BY <1>0 DEF Structure, RefInv, ConfirmNotify, At, Confirming
<1>3. Goto(c, "detach")
  BY DEF ConfirmNotify
<1>4. /\ sess' \in [Sessions -> SessionRecord]
      /\ \A s \in Sessions : /\ sess'[s].worker = sess[s].worker
                             /\ sess'[s].plcState = "connected" => sess[s].plcState = "connected"
  BY <1>0 DEF TypeOK, SessionRecord, ConfirmNotify
<1>8. TypeOK'
  BY <1>0, <1>3, <1>4, GotoType DEF TypeOK, ConfirmNotify
<1>9. Structure' /\ Promises'
  BY <1>0, <1>1, <1>2, <1>3, <1>4, GotoLocals, ConfirmMoves DEF ConfirmNotify, At, Confirming
<1> QED
  BY <1>8, <1>9, InvIsParts

LEMMA DisconnectDetachInv == ASSUME IInv, NEW c \in Clients, DisconnectDetach(c) PROVE IInv'
<1>0. TypeOK /\ Structure /\ Promises
  BY Parts
<1> USE Numbers
<1>1. thread[c].worker # 0 => workers[thread[c].worker].state = "done"
  BY <1>0 DEF Structure, RefInv, DisconnectDetach, At, Confirming
<1>2. Return(c, "idle")
  BY DEF DisconnectDetach
<1>3. /\ sess' \in [Sessions -> SessionRecord]
      /\ \A s \in Sessions : \/ sess'[s] = sess[s]
                             \/ /\ sess'[s].worker = 0 /\ sess'[s].plcState # "connected"
                                /\ sess[s].worker # 0 => workers[sess[s].worker].state = "done"
  BY <1>0, <1>1, DetachedType DEF TypeOK, DisconnectDetach
<1>8. TypeOK'
  BY <1>0, <1>2, <1>3, GotoType DEF TypeOK, DisconnectDetach
<1>9. Structure' /\ Promises'
  BY <1>0, <1>2, <1>3, GotoType, HandlerEnds DEF DisconnectDetach, At
<1> QED
  BY <1>8, <1>9, InvIsParts

LEMMA LeaveInv == ASSUME IInv, NEW c \in Clients, Leave(c) PROVE IInv'
<1>0. TypeOK /\ Structure /\ Promises
  BY Parts
<1> USE Numbers
<1>1. PICK pc \in {"stop", "gone"} : Goto(c, pc) /\ (pc = "stop" <=> owner = c)
  BY DEF Leave
<1>8. TypeOK'
  BY <1>0, <1>1, GotoType DEF TypeOK, Leave
<1>9. Structure' /\ Promises'
  BY <1>0, <1>1, GotoType, HandlerEnds DEF Leave
<1> QED
  BY <1>8, <1>9, InvIsParts


\* connectPLC is called: its worker has a number of its own.
LEMMA ConnectCalled ==
  ASSUME TypeOK, WorkerInv, NEW c \in Clients, CallsConnect(c), workers' = workers,
         accepted' \in Nat, accepted <= accepted'
  PROVE  WorkerInv'
<1> USE Numbers, CallsConnectType
<1>1. \A w \in Workers : workers[w].state # "none" => w <= connects' /\ workers[w].session \in 1..accepted'
  BY DEF WorkerInv
<1>2. connects + 1 \in Workers /\ workers[connects + 1].state = "none" /\ connects + 1 \in 1..connects'
  <2>1. connects + 1 \in Workers
    BY BoundAssumption DEF CallsConnect, Workers
  <2> QED
    BY <2>1 DEF WorkerInv
<1>3. ASSUME NEW d \in Clients, d # c, thread'[d].pc \in Connecting
      PROVE  thread'[d] = thread[d] /\ thread[d].attempt \in 1..connects /\ workers[thread[d].attempt].state = "none"
  BY <1>3 DEF WorkerInv
<1>4. \A d \in Clients : thread'[d].pc \in Connecting =>
          thread'[d].attempt \in 1..connects' /\ workers'[thread'[d].attempt].state = "none"
  BY <1>2, <1>3
<1>5. \A d, e \in Clients : d # e /\ thread'[d].pc \in Connecting /\ thread'[e].pc \in Connecting =>
          thread'[d].attempt # thread'[e].attempt
  BY <1>2, <1>3 DEF WorkerInv
<1> QED
  BY <1>1, <1>4, <1>5 DEF WorkerInv

LEMMA ConfigureInv == ASSUME IInv, NEW c \in Clients, Configure(c) PROVE IInv'
<1>0. TypeOK /\ Structure /\ Promises
  BY Parts
<1> USE Numbers
<1>1. owner = NoClient /\ session = 0
  BY <1>0 DEF Structure, OwnerInv, Configure, At, Holding, Confirming
<1>2. /\ owner' = c /\ session' = accepted + 1 /\ accepted' = accepted + 1 /\ accepted + 1 \in 1..MaxSessions
      /\ store' = Replace(accepted + 1) /\ UNCHANGED <<sess, workers, closed>>
      /\ thread[c].pc = "new"
  BY <1>0, BoundAssumption DEF Configure, At, TypeOK
<1>3. /\ thread' \in [Threads -> ThreadRecord] /\ connects' \in 0..MaxConnects
      /\ thread'[c].pc \in {"connect", "idle"}
      /\ \A u \in Threads : u # c => thread'[u] = thread[u]
  <2>1. CASE CallsConnect(c)
    BY <1>0, <2>1, CallsConnectType
  <2>2. CASE Goto(c, "idle") /\ UNCHANGED connects
    BY <1>0, <2>2, GotoType DEF TypeOK
  <2> QED
    BY <2>1, <2>2 DEF Configure
<1>4. WorkerInv'
  <2>1. CASE CallsConnect(c)
    BY <1>0, <1>2, <2>1, ConnectCalled DEF Structure
  <2>2. CASE Goto(c, "idle") /\ UNCHANGED connects
    <3>1. thread'[c].pc \notin Connecting /\ \A u \in Threads : u # c => thread'[u] = thread[u]
      BY <1>0, <2>2, GotoType DEF Connecting
    <3> QED
      BY <1>0, <1>2, <2>2, <3>1 DEF Structure, WorkerInv
  <2> QED
    BY <2>1, <2>2 DEF Configure
<1>5. store'.defs = accepted + 1 /\ store'.values = 0 /\ store' \in [defs : 0..MaxSessions, values : 0..MaxConnects]
  BY <1>2, BoundAssumption DEF Replace
<1>6. TypeOK'
  <2>1. accepted' \in 0..MaxSessions /\ session' \in 0..MaxSessions /\ owner' \in Clients \cup {NoClient}
    BY <1>2, BoundAssumption
  <2> QED
    BY <1>0, <1>2, <1>3, <1>5, <2>1 DEF TypeOK
<1>7. ~Holds(c)' /\ \A d \in Clients : d # c => (Holds(d)' <=> Holds(d))
  BY <1>0, <1>3 DEF Holds, Holding, Confirming
<1>8. \A d \in Clients : Holds(d) => thread[d].session \in 1..accepted
  BY <1>0 DEF Structure, RefInv
<1>9. OwnerInv'
  BY <1>0, <1>2, <1>3, BoundAssumption DEF OwnerInv
<1>10. RefInv'
  <2>1. \A d \in Clients : thread'[d].pc \in Confirming => thread'[d] = thread[d]
    BY <1>0, <1>3 DEF Confirming
  <2> QED
    BY <1>0, <1>2, <1>3, <1>5, <1>7, <2>1 DEF Structure, RefInv
<1>11. ClientInv'
  BY <1>0, <1>2, <1>3, <1>7, <1>8 DEF Structure, ClientInv
<1>12. LiveInv'
  <2>1. \A d \in Clients : thread'[d].pc \in {"stopOld", "attach"} => thread'[d] = thread[d]
    BY <1>0, <1>3
  <2>2. \A w \in Workers : live(w)' => live(w) /\ workers[w].session # session'
    BY <1>0, <1>2 DEF live, Structure, WorkerInv
  <2> QED
    BY <1>0, <1>2, <2>1, <2>2 DEF Structure, LiveInv, At
<1>13. OneLiveWorkerPerSession' /\ NoLeakedWorker'
  BY <1>0, <1>1, <1>2 DEF Structure, OneLiveWorkerPerSession, NoLeakedWorker, live
<1>14. ReadInv' /\ ConnectedMeansRead'
  BY <1>0, <1>2 DEF Promises, ReadInv, ConnectedMeansRead
<1>15. StoreInv'
  <2> SUFFICES ASSUME At("serve", "serving")
               PROVE  /\ \A d \in Clients : At(d, "stop")' => owner' = d
                      /\ \A d \in Clients : Holds(d)' => session' = thread'[d].session
                      /\ \A w \in Workers : workers'[w].state = "apply" /\ workers'[w].session # session' =>
                            \E d \in Clients : At(d, "clear")' /\ thread'[d].worker = w
    BY <1>0, <1>3 DEF StoreInv, At
  <2>1. \A d \in Clients : ~At(d, "stop") /\ ~Holds(d)
    BY <1>0, <1>1, <1>8, BoundAssumption DEF Promises, StoreInv
  <2>2. \A d \in Clients : At(d, "clear") => At(d, "clear")' /\ thread'[d].worker = thread[d].worker
    BY <1>0, <1>2, <1>3 DEF At
  <2>3. \A w \in Workers : workers[w].state = "apply" => workers[w].session # session
    BY <1>0, <1>1 DEF Structure, WorkerInv
  <2>4. \A w \in Workers : workers[w].state = "apply" => \E d \in Clients : At(d, "clear") /\ thread[d].worker = w
    BY <1>0, <2>3 DEF Promises, StoreInv
  <2>5. \A d \in Clients : ~At(d, "stop")'
    BY <1>0, <1>3, <2>1 DEF At
  <2> QED
    BY <1>2, <1>7, <2>1, <2>2, <2>4, <2>5
<1>16. StoreNeverForeign'
  BY <1>2, <1>5 DEF StoreNeverForeign
<1>17. Structure' /\ Promises'
  BY <1>4, <1>9, <1>10, <1>11, <1>12, <1>13, <1>14, <1>15, <1>16 DEF Structure, Promises
<1> QED
  BY <1>6, <1>17, InvIsParts

LEMMA HandlePLCConnectInv == ASSUME IInv, NEW c \in Clients, HandlePLCConnect(c) PROVE IInv'
<1>0. TypeOK /\ Structure /\ Promises
  BY Parts
<1> USE Numbers
<1>1. /\ CallsConnect(c) /\ UNCHANGED <<owner, session, sess, workers, store, closed, accepted>>
      /\ thread[c].pc = "idle"
  BY DEF HandlePLCConnect, Receives, At
<1>2. /\ thread' \in [Threads -> ThreadRecord] /\ connects' \in 0..MaxConnects
      /\ thread'[c].pc = "connect"
      /\ \A u \in Threads : u # c => thread'[u] = thread[u]
  BY <1>0, <1>1, CallsConnectType
<1>3. WorkerInv'
  BY <1>0, <1>1, ConnectCalled DEF Structure
<1>4. TypeOK'
  BY <1>0, <1>1, <1>2 DEF TypeOK
<1>5. ~Holds(c)' /\ \A d \in Clients : d # c => (Holds(d)' <=> Holds(d))
  BY <1>0, <1>2 DEF Holds, Holding, Confirming
<1>6. OwnerInv'
  BY <1>0, <1>1, <1>2 DEF Structure, OwnerInv
<1>7. RefInv' /\ ClientInv'
  <2>1. \A d \in Clients : thread'[d].pc \in Confirming => thread'[d] = thread[d]
    BY <1>0, <1>2 DEF Confirming
  <2> QED
    BY <1>0, <1>1, <1>2, <1>5, <2>1 DEF Structure, RefInv, ClientInv
<1>8. LiveInv'
  <2>1. \A d \in Clients : thread'[d].pc \in {"stopOld", "attach"} => thread'[d] = thread[d]
    BY <1>0, <1>2
  <2>2. session # 0 /\ At(owner, "stopOld") => At(owner, "stopOld")'
    BY <1>0, <1>1, <1>2 DEF Structure, OwnerInv, At
  <2>3. \A w \in Workers : live(w)' <=> live(w)
    BY <1>1 DEF live
  <2> QED
    BY <1>0, <1>1, <2>1, <2>2, <2>3 DEF Structure, LiveInv, At
<1>9. OneLiveWorkerPerSession' /\ NoLeakedWorker'
  BY <1>0, <1>1 DEF Structure, OneLiveWorkerPerSession, NoLeakedWorker, live
<1>10. ReadInv' /\ ConnectedMeansRead'
  BY <1>0, <1>1 DEF Promises, ReadInv, ConnectedMeansRead
<1>11. StoreInv' /\ StoreNeverForeign'
  <2>1. /\ \A d \in Clients : (At(d, "stop")' => At(d, "stop")) /\ (At(d, "clear")' <=> At(d, "clear"))
        /\ \A d \in Clients : At(d, "clear") => thread'[d].worker = thread[d].worker
        /\ At("serve", "serving")' <=> At("serve", "serving")
    BY <1>0, <1>1, <1>2 DEF At
  <2> QED
    BY <1>0, <1>1, <1>2, <1>5, <2>1 DEF Promises, StoreInv, StoreNeverForeign
<1>12. Structure' /\ Promises'
  BY <1>3, <1>6, <1>7, <1>8, <1>9, <1>10, <1>11 DEF Structure, Promises
<1> QED
  BY <1>4, <1>12, InvIsParts

\* The owner's handler takes hold of the current session and cancels its worker, which it
\* detaches at once (connectPLC) or not yet (plc.disconnect).
LEMMA TakesHold ==
  ASSUME IInv, NEW c \in Clients, owner = c, session # 0,
         \/ thread[c].pc = "connect" /\ thread'[c].pc = "stopOld" /\ thread'[c].attempt = thread[c].attempt
         \/ thread[c].pc = "idle" /\ thread'[c].pc = "stopForDisconnect" /\ sess'[session].worker = sess[session].worker,
         thread'[c].session = session, thread'[c].worker = sess[session].worker,
         \A u \in Threads : u # c => thread'[u] = thread[u],
         workers' = Cancel(sess[session].worker),
         \A s \in Sessions : s # session => sess'[s] = sess[s],
         \/ sess'[session].worker = 0 /\ sess'[session].plcState # "connected"
         \/ sess'[session].worker = sess[session].worker /\ sess'[session].plcState = sess[session].plcState,
         UNCHANGED <<owner, session, store, accepted, connects>>
  PROVE  Structure' /\ Promises'
<1>0. TypeOK /\ Structure /\ Promises
  BY Parts
<1> USE Numbers
<1> DEFINE w0 == sess[session].worker
<1>1. session \in Sessions /\ session \in 1..accepted /\ w0 \in Workers \cup {0}
  BY <1>0 DEF Structure, OwnerInv
<1>2. w0 # 0 => workers[w0].session = session /\ workers[w0].state # "none"
  BY <1>0, <1>1 DEF Structure, RefInv
<1>3. /\ \A v \in Workers : v # w0 => workers'[v] = workers[v]
      /\ \A v \in Workers : /\ workers'[v].state = workers[v].state /\ workers'[v].session = workers[v].session
                            /\ workers'[v].hasRead = workers[v].hasRead /\ workers'[v].ready = workers[v].ready
                            /\ workers'[v].note = workers[v].note /\ workers'[v].err = workers[v].err
      /\ w0 \in Workers => workers'[w0].cancelled = TRUE
  <2>1. TypeOK /\ workers' = Cancel(w0)
    BY <1>0
  <2> HIDE DEF w0
  <2>a. \A v \in Workers : v # w0 => workers'[v] = workers[v]
    BY <2>1 DEF Cancel
  <2>2. w0 \in Workers => workers'[w0].cancelled = TRUE
    BY <2>1, CancelStep
  <2>3. \A v \in Workers : /\ workers'[v].state = workers[v].state /\ workers'[v].session = workers[v].session
                           /\ workers'[v].hasRead = workers[v].hasRead /\ workers'[v].ready = workers[v].ready
                           /\ workers'[v].note = workers[v].note /\ workers'[v].err = workers[v].err
    BY <2>1, CancelStep
  <2> QED
    BY <2>a, <2>2, <2>3
<1>4. thread'[c].session = session /\ thread'[c].worker = w0
  OBVIOUS
<1>5. sess'[session].worker \in {0, w0}
  OBVIOUS
<1> HIDE DEF w0
<1>6. \A w \in Workers : live(w)' <=> live(w)
  BY <1>3 DEF live
<1>7. /\ Holds(c)' /\ ~Holds(c) /\ thread'[c].pc \notin Confirming /\ thread'[c].pc \notin {"attach", "stop", "clear"}
      /\ thread[c].pc \notin {"stopOld", "attach", "stop", "clear"}
      /\ \A d \in Clients : d # c => (Holds(d)' <=> Holds(d)) /\ thread'[d] = thread[d]
  BY <1>0 DEF Holds, Holding, Confirming
<1>8. \A d \in Clients : d # c /\ Holds(d) => thread[d].session # session
  BY <1>0 DEF Structure, ClientInv
<1>9. OwnerInv'
  BY <1>0, <1>7 DEF Structure, OwnerInv, Holds
<1>10. WorkerInv'
  <2>1. \A d \in Clients : thread'[d].pc \in Connecting => thread[d].pc \in Connecting /\ thread'[d].attempt = thread[d].attempt
    BY <1>7 DEF Connecting
  <2>2. \A d \in Clients : thread[d].pc \in Connecting => thread[d].attempt \in Workers
    BY <1>0, BoundAssumption DEF TypeOK, Structure, WorkerInv, Workers
  <2>3. \A w \in Workers : workers[w].state = "none" => workers'[w] = workers[w]
    BY <1>0, <1>1, <1>2, <1>3
  <2> QED
    BY <1>0, <1>3, <2>1, <2>2, <2>3 DEF Structure, WorkerInv
<1>11. RefInv'
  <2>1. \A s \in Sessions : sess'[s].worker # 0 => sess'[s].worker = sess[s].worker
    BY <1>1, <1>5 DEF w0
  <2> QED
    BY <1>0, <1>1, <1>2, <1>3, <1>4, <1>7, <2>1 DEF Structure, RefInv
<1>12. ClientInv'
  BY <1>0, <1>4, <1>7, <1>8 DEF Structure, ClientInv
<1>13. LiveInv'
  <2>1. \A w \in Workers : live(w) /\ workers[w].session = session => w = w0
    BY <1>0, <1>7 DEF Structure, LiveInv, At, w0
  <2>2. \A w \in Workers : live(w) /\ workers[w].session = session => sess'[session].worker = w \/ At(owner, "stopOld")'
    BY <2>1 DEF At, w0
  <2> QED
    BY <1>0, <1>3, <1>4, <1>6, <1>7, <2>1, <2>2 DEF Structure, LiveInv, At
<1>14. OneLiveWorkerPerSession'
  BY <1>0, <1>3, <1>6 DEF Structure, OneLiveWorkerPerSession
<1>15. NoLeakedWorker'
  <2>1. \A w \in Workers : live(w) /\ ~workers[w].cancelled => w = w0
    BY <1>0 DEF Structure, NoLeakedWorker, w0
  <2> QED
    BY <1>3, <1>6, <2>1 DEF NoLeakedWorker
<1>16. ReadInv' /\ ConnectedMeansRead'
  <2>1. \A s \in Sessions : sess'[s].plcState = "connected" => sess[s].plcState = "connected" /\ sess'[s].worker = sess[s].worker
    BY <1>1
  <2> QED
    BY <1>0, <1>3, <2>1 DEF Promises, ReadInv, ConnectedMeansRead
<1>17. StoreInv' /\ StoreNeverForeign'
  <2>1. /\ \A d \in Clients : (At(d, "stop")' <=> At(d, "stop")) /\ (At(d, "clear")' <=> At(d, "clear"))
        /\ \A d \in Clients : At(d, "clear") => thread'[d].worker = thread[d].worker
        /\ At("serve", "serving")' <=> At("serve", "serving")
    BY <1>0, <1>7 DEF At
  <2>2. StoreInv'
    BY <1>0, <1>3, <1>4, <1>7, <2>1 DEF Promises, StoreInv
  <2>3. StoreNeverForeign'
    BY <1>0, <1>3, <2>1 DEF Promises, StoreNeverForeign
  <2> QED
    BY <2>2, <2>3
<1> QED
  BY <1>9, <1>10, <1>11, <1>12, <1>13, <1>14, <1>15, <1>16, <1>17 DEF Structure, Promises

LEMMA HandlePLCDisconnectInv == ASSUME IInv, NEW c \in Clients, HandlePLCDisconnect(c) PROVE IInv'
<1>0. TypeOK /\ Structure /\ Promises
  BY Parts
<1> USE Numbers
<1>1. /\ thread[c].pc = "idle" /\ owner = c /\ session # 0 /\ session \in Sessions
      /\ UNCHANGED <<owner, session, store, closed, accepted, connects>>
      /\ workers' = Cancel(sess[session].worker)
  BY <1>0 DEF HandlePLCDisconnect, Receives, At
<1>2. /\ sess' \in [Sessions -> SessionRecord]
      /\ \A s \in Sessions : s # session => sess'[s] = sess[s]
      /\ sess'[session].worker = sess[session].worker /\ sess'[session].plcState = sess[session].plcState
  BY <1>0, <1>1 DEF HandlePLCDisconnect, TypeOK, SessionRecord
<1> DEFINE new == [NoLocals("stopForDisconnect") EXCEPT !.session = session, !.worker = sess[session].worker]
<1>3. new \in ThreadRecord /\ new.pc = "stopForDisconnect" /\ new.session = session /\ new.worker = sess[session].worker
  <2>1. session \in 0..MaxSessions /\ sess[session].worker \in 0..MaxConnects
    BY <1>0, <1>1 DEF TypeOK, SessionRecord
  <2>2. NoLocals("stopForDisconnect") \in ThreadRecord /\ NoLocals("stopForDisconnect").pc = "stopForDisconnect"
    BY LocalsType
  <2> QED
    BY <2>1, <2>2 DEF ThreadRecord
<1>4. thread' = [thread EXCEPT ![c] = new]
  BY DEF HandlePLCDisconnect
<1> HIDE DEF new
<1>5. /\ thread' \in [Threads -> ThreadRecord] /\ thread'[c] = new
      /\ \A u \in Threads : u # c => thread'[u] = thread[u]
  BY <1>0, <1>3, <1>4 DEF TypeOK
<1>6. TypeOK'
  BY <1>0, <1>1, <1>2, <1>5, CancelType DEF TypeOK
<1>7. Structure' /\ Promises'
  BY <1>1, <1>2, <1>3, <1>5, TakesHold
<1> QED
  BY <1>6, <1>7, InvIsParts

LEMMA ConnectDetachInv == ASSUME IInv, NEW c \in Clients, ConnectDetach(c) PROVE IInv'
<1>0. TypeOK /\ Structure /\ Promises
  BY Parts
<1> USE Numbers
<1>1. thread[c].pc = "connect" /\ UNCHANGED <<owner, session, store, closed, accepted, connects>>
  BY DEF ConnectDetach, At
<1>2. CASE Return(c, "idle") /\ UNCHANGED <<sess, workers>>
  <2>1. TypeOK'
    BY <1>0, <1>1, <1>2, GotoType DEF TypeOK
  <2>2. Structure' /\ Promises'
    BY <1>0, <1>1, <1>2, GotoType, HandlerEnds
  <2> QED
    BY <2>1, <2>2, InvIsParts
<1>3. CASE /\ owner = c /\ session # 0
           /\ thread' = [thread EXCEPT ![c] = [@ EXCEPT !.pc = "stopOld", !.session = session,
                                                        !.worker = sess[session].worker]]
           /\ workers' = Cancel(sess[session].worker)
           /\ sess' = [sess EXCEPT ![session] = Detached]
  <2> DEFINE new == [thread[c] EXCEPT !.pc = "stopOld", !.session = session, !.worker = sess[session].worker]
  <2>1. session \in Sessions /\ session \in 0..MaxSessions /\ sess[session].worker \in 0..MaxConnects
        /\ thread[c] \in ThreadRecord
    BY <1>0, <1>3 DEF TypeOK, SessionRecord
  <2>2. new \in ThreadRecord /\ new.pc = "stopOld" /\ new.session = session /\ new.worker = sess[session].worker
        /\ new.attempt = thread[c].attempt
    BY <2>1 DEF ThreadRecord
  <2>3. thread' = [thread EXCEPT ![c] = new]
    BY <1>3
  <2> HIDE DEF new
  <2>4. /\ thread' \in [Threads -> ThreadRecord] /\ thread'[c] = new
        /\ \A u \in Threads : u # c => thread'[u] = thread[u]
    BY <1>0, <2>2, <2>3 DEF TypeOK
  <2>5. /\ sess' \in [Sessions -> SessionRecord]
        /\ \A s \in Sessions : s # session => sess'[s] = sess[s]
        /\ sess'[session].worker = 0 /\ sess'[session].plcState # "connected"
    BY <1>0, <1>3, <2>1, DetachedType DEF TypeOK
  <2>6. TypeOK'
    BY <1>0, <1>1, <1>3, <2>4, <2>5, CancelType DEF TypeOK
  <2>7. Structure' /\ Promises'
    BY <1>1, <1>3, <2>2, <2>4, <2>5, TakesHold
  <2> QED
    BY <2>6, <2>7, InvIsParts
<1> QED
  BY <1>2, <1>3 DEF ConnectDetach

LEMMA ConnectClearValuesInv == ASSUME IInv, NEW c \in Clients, ConnectClearValues(c) PROVE IInv'
<1>0. TypeOK /\ Structure /\ Promises
  BY Parts
<1> USE Numbers
<1>1. /\ thread[c].pc = "stopOld" /\ UNCHANGED <<owner, session, sess, workers, closed, accepted, connects>>
      /\ thread[c].worker # 0 => workers[thread[c].worker].state = "done"
  BY <1>0 DEF ConnectClearValues, At, isDone
<1>2. store'.defs = store.defs /\ store'.values = 0 /\ store' \in [defs : 0..MaxSessions, values : 0..MaxConnects]
  BY <1>0, BoundAssumption DEF TypeOK, ConnectClearValues, ClearValues
<1>3. CASE Return(c, "idle")
  <2>1. TypeOK'
    BY <1>0, <1>1, <1>2, <1>3, GotoType DEF TypeOK
  <2>2. Structure' /\ Promises'
    BY <1>0, <1>1, <1>2, <1>3, GotoType, HandlerEnds
  <2> QED
    BY <2>1, <2>2, InvIsParts
<1>4. CASE Goto(c, "attach")
  <2>1. TypeOK'
    BY <1>0, <1>1, <1>2, <1>4, GotoType DEF TypeOK
  <2>2. /\ thread'[c].pc = "attach" /\ thread'[c].attempt = thread[c].attempt
        /\ thread'[c].session = thread[c].session /\ thread'[c].worker = thread[c].worker
        /\ \A u \in Threads : u # c => thread'[u] = thread[u]
    BY <1>0, <1>4, GotoLocals
  <2>3. /\ \A d \in Clients : Holds(d)' <=> Holds(d)
        /\ \A d \in Clients : thread'[d].pc \in Connecting <=> thread[d].pc \in Connecting
        /\ \A d \in Clients : thread'[d].pc \in Confirming => d # c
        /\ \A d \in Clients : thread'[d].attempt = thread[d].attempt /\ thread'[d].session = thread[d].session
                              /\ thread'[d].worker = thread[d].worker
    BY <1>0, <1>1, <2>2 DEF Holds, Holding, Confirming, Connecting
  <2>4. \A w \in Workers : live(w)' <=> live(w)
    BY <1>1 DEF live
  <2>5. \A w \in Workers : live(w) => workers[w].session # thread[c].session
    BY <1>0, <1>1 DEF Structure, LiveInv, At, live
  <2>6. OwnerInv'
    BY <1>0, <1>1, <2>2 DEF Structure, OwnerInv, Holding
  <2>7. WorkerInv' /\ ClientInv'
    BY <1>0, <1>1, <2>3 DEF Structure, WorkerInv, ClientInv
  <2>8. RefInv'
    BY <1>0, <1>1, <1>2, <2>2, <2>3 DEF Structure, RefInv
  <2>9. LiveInv'
    <3>1. session # 0 /\ owner = c => session = thread[c].session
      BY <1>0, <1>1 DEF Structure, ClientInv, Holds, Holding
    <3>2. \A w \in Workers : session # 0 /\ live(w) /\ workers[w].session = session =>
            sess[session].worker = w \/ (owner # c /\ At(owner, "stopOld"))
      BY <1>0, <2>5, <3>1 DEF Structure, LiveInv
    <3>3. session # 0 /\ owner # c /\ At(owner, "stopOld") => At(owner, "stopOld")'
      BY <1>0, <1>1, <2>2 DEF Structure, OwnerInv, At
    <3>4. \A d \in Clients : At(d, "stopOld")' => At(d, "stopOld")
      BY <1>0, <2>2 DEF At
    <3>5. \A d \in Clients : At(d, "attach")' => d = c \/ At(d, "attach")
      BY <1>0, <2>2 DEF At
    <3> QED
      BY <1>0, <1>1, <2>3, <2>4, <2>5, <3>2, <3>3, <3>4, <3>5 DEF Structure, LiveInv
  <2>10. OneLiveWorkerPerSession' /\ NoLeakedWorker'
    BY <1>0, <1>1, <2>4 DEF Structure, OneLiveWorkerPerSession, NoLeakedWorker
  <2>11. ReadInv' /\ ConnectedMeansRead'
    BY <1>0, <1>1 DEF Promises, ReadInv, ConnectedMeansRead
  <2>12. StoreInv' /\ StoreNeverForeign'
    <3>1. /\ \A d \in Clients : (At(d, "stop")' <=> At(d, "stop")) /\ (At(d, "clear")' <=> At(d, "clear"))
          /\ At("serve", "serving")' <=> At("serve", "serving")
      BY <1>0, <1>1, <2>2 DEF At
    <3>2. StoreInv'
      BY <1>0, <1>1, <2>3, <3>1 DEF Promises, StoreInv
    <3>3. StoreNeverForeign'
      BY <1>0, <1>1, <1>2, <3>1 DEF Promises, StoreNeverForeign
    <3> QED
      BY <3>2, <3>3
  <2>13. Structure' /\ Promises'
    BY <2>6, <2>7, <2>8, <2>9, <2>10, <2>11, <2>12 DEF Structure, Promises
  <2> QED
    BY <2>1, <2>13, InvIsParts
<1> QED
  BY <1>3, <1>4 DEF ConnectClearValues

LEMMA StartedType ==
  ASSUME TypeOK, NEW c \in Clients, NEW b \in BOOLEAN
  PROVE  /\ Started(c, b) \in WorkerRecord
         /\ Started(c, b).state = "start" /\ Started(c, b).session = thread[c].session
         /\ Started(c, b).cancelled = b /\ Started(c, b).ready = "no" /\ Started(c, b).note = "none"
<1>1. thread[c].session \in 0..MaxSessions
  BY Numbers DEF ThreadRecord
<1> QED
  BY <1>1, BoundAssumption DEF Started, NoWorker, WorkerRecord

LEMMA ConnectAttachInv == ASSUME IInv, NEW c \in Clients, ConnectAttach(c) PROVE IInv'
<1>0. TypeOK /\ Structure /\ Promises
  BY Parts
<1> USE Numbers
<1> DEFINE s == thread[c].session
           a == thread[c].attempt
           current == owner = c /\ session = s
           new == Started(c, ~current)
           attachment == [worker |-> a, plcState |-> "connecting", disconnecting |-> FALSE, broadcasts |-> FALSE]
<1>1. /\ thread[c].pc = "attach" /\ Return(c, "idle") /\ UNCHANGED <<owner, session, store, closed, accepted, connects>>
      /\ workers' = [workers EXCEPT ![a] = new]
      /\ sess' = IF current THEN [sess EXCEPT ![s] = attachment] ELSE sess
  BY DEF ConnectAttach, newWorker, At
<1>2. /\ a \in Workers /\ a \in 1..connects /\ workers[a].state = "none"
      /\ s \in 1..accepted /\ s \in Sessions /\ attachment \in SessionRecord
      /\ attachment.worker = a /\ attachment.plcState = "connecting"
  <2>1. /\ a \in Workers /\ a \in 1..connects /\ workers[a].state = "none"
        /\ s \in 1..accepted /\ s \in Sessions
    BY <1>0, <1>1, BoundAssumption DEF TypeOK, Structure, WorkerInv, RefInv, Connecting, Holds, Holding, Workers, Sessions
  <2> QED
    BY <2>1 DEF Workers, SessionRecord
<1>3. /\ new \in WorkerRecord /\ new.state = "start" /\ new.session = s /\ new.ready = "no" /\ new.note = "none"
      /\ ~current => new.cancelled
  BY <1>0, StartedType
<1>4. (session = s <=> owner = c) /\ (current <=> session = s)
  BY <1>0, <1>1 DEF Structure, ClientInv, Holds, Holding
<1>5. ~live(a) /\ \A w \in Workers : live(w) => workers[w].session # s
  BY <1>0, <1>1, <1>2 DEF Structure, LiveInv, At, live
<1>6. \A d \in Clients : d # c /\ Holds(d) => thread[d].session # s
  BY <1>0, <1>1 DEF Structure, ClientInv, Holds, Holding
<1>7. /\ thread' \in [Threads -> ThreadRecord] /\ thread'[c].pc = "idle"
      /\ \A u \in Threads : u # c => thread'[u] = thread[u]
  BY <1>0, <1>1, GotoType
<1> HIDE DEF s, a, current, new, attachment
<1>8. /\ workers' \in [Workers -> WorkerRecord] /\ workers'[a] = new
      /\ \A w \in Workers : w # a => workers'[w] = workers[w]
  BY <1>0, <1>1, <1>2, <1>3 DEF TypeOK
<1>9. /\ sess' \in [Sessions -> SessionRecord]
      /\ current => sess'[s] = attachment
      /\ \A x \in Sessions : x # s \/ ~current => sess'[x] = sess[x]
  BY <1>0, <1>1, <1>2 DEF TypeOK
<1>10. TypeOK'
  BY <1>0, <1>1, <1>7, <1>8, <1>9 DEF TypeOK
<1>11. /\ \A x \in Sessions : sess[x].worker # a
       /\ \A d \in Clients : Holds(d) => thread[d].worker # a
       /\ store.values # a
  BY <1>0, <1>2 DEF Structure, RefInv
<1>12. /\ ~Holds(c)' /\ thread'[c].pc \notin Connecting /\ thread'[c].pc \notin Confirming
       /\ \A d \in Clients : d # c => (Holds(d)' <=> Holds(d))
  BY <1>0, <1>7 DEF Holds, Holding, Confirming, Connecting
<1>13. \A w \in Workers : live(w)' <=> w = a \/ live(w)
  BY <1>2, <1>3, <1>8 DEF live
<1>14. OwnerInv'
  BY <1>0, <1>1, <1>7 DEF Structure, OwnerInv
<1>15. WorkerInv'
  <2>1. \A d \in Clients : thread'[d].pc \in Connecting =>
           /\ d # c /\ thread'[d] = thread[d] /\ thread[d].attempt # a
           /\ thread[d].attempt \in 1..connects /\ thread[d].attempt \in Workers
           /\ workers[thread[d].attempt].state = "none"
    BY <1>0, <1>1, <1>7, <1>12, BoundAssumption DEF TypeOK, Structure, WorkerInv, Connecting, Workers, a
  <2>2. \A d \in Clients : thread'[d].pc \in Connecting =>
           thread'[d].attempt \in 1..connects' /\ workers'[thread'[d].attempt].state = "none"
    BY <1>1, <1>8, <2>1
  <2>3. \A d, e \in Clients : d # e /\ thread'[d].pc \in Connecting /\ thread'[e].pc \in Connecting =>
           thread'[d].attempt # thread'[e].attempt
    BY <1>0, <2>1 DEF Structure, WorkerInv
  <2>4. \A w \in Workers : workers'[w].state # "none" => w <= connects' /\ workers'[w].session \in 1..accepted'
    BY <1>0, <1>1, <1>2, <1>3, <1>8 DEF Structure, WorkerInv
  <2>5. \A w \in Workers : workers'[w].state = "none" => workers'[w] = NoWorker
    BY <1>0, <1>3, <1>8 DEF Structure, WorkerInv
  <2> QED
    BY <2>2, <2>3, <2>4, <2>5 DEF WorkerInv
<1>16. RefInv'
  <2>1. \A x \in Sessions : sess'[x].worker # 0 =>
           workers'[sess'[x].worker].session = x /\ workers'[sess'[x].worker].state # "none"
    <3> SUFFICES ASSUME NEW x \in Sessions, sess'[x].worker # 0
                 PROVE  workers'[sess'[x].worker].session = x /\ workers'[sess'[x].worker].state # "none"
      OBVIOUS
    <3>1. CASE x = s /\ current
      BY <1>2, <1>3, <1>8, <1>9, <3>1
    <3>2. CASE x # s \/ ~current
      BY <1>0, <1>8, <1>9, <1>11, <3>2 DEF Structure, RefInv
    <3> QED
      BY <3>1, <3>2
  <2>2. \A d \in Clients : Holds(d)' =>
          /\ thread'[d].session \in 1..accepted'
          /\ thread'[d].worker # 0 => /\ workers'[thread'[d].worker].session = thread'[d].session
                                      /\ workers'[thread'[d].worker].state # "none"
    BY <1>0, <1>1, <1>7, <1>8, <1>11, <1>12 DEF Structure, RefInv
  <2>3. \A d \in Clients : thread'[d].pc \in Confirming /\ thread'[d].worker # 0 => workers'[thread'[d].worker].state = "done"
    BY <1>0, <1>7, <1>8, <1>11, <1>12 DEF Structure, RefInv, Holds, Holding
  <2>4. \A d \in Clients : thread'[d].pc \in Confirming \ {"detach"} => thread'[d].worker # 0
    BY <1>0, <1>7, <1>12 DEF Structure, RefInv
  <2>5. store'.values # 0 => workers'[store'.values].state # "none"
    BY <1>0, <1>1, <1>8, <1>11 DEF Structure, RefInv
  <2> QED
    BY <2>1, <2>2, <2>3, <2>4, <2>5 DEF RefInv
<1>17. ClientInv'
  BY <1>0, <1>1, <1>7, <1>12 DEF Structure, ClientInv
<1>18. LiveInv'
  <2>1. \A d \in Clients : thread'[d].pc \in {"stopOld", "attach"} => d # c /\ thread'[d] = thread[d] /\ Holds(d)
    BY <1>0, <1>7 DEF Holds, Holding
  <2>2. \A d \in Clients, w \in Workers : live(w)' /\ At(d, "stopOld")' /\ workers'[w].session = thread'[d].session =>
          w = thread'[d].worker
    BY <1>0, <1>3, <1>6, <1>8, <1>13, <2>1 DEF Structure, LiveInv, At
  <2>3. \A d \in Clients, w \in Workers : live(w)' /\ At(d, "attach")' => workers'[w].session # thread'[d].session
    BY <1>0, <1>3, <1>6, <1>8, <1>13, <2>1 DEF Structure, LiveInv, At
  <2>4. ASSUME NEW w \in Workers, session # 0, live(w)', workers'[w].session = session
        PROVE  sess'[session].worker = w \/ At(owner, "stopOld")'
    <3>1. CASE w = a
      BY <1>2, <1>3, <1>4, <1>8, <1>9, <2>4, <3>1
    <3>2. CASE w # a
      <4>1. live(w) /\ workers[w].session = session /\ session # s /\ owner # c
        BY <1>4, <1>5, <1>8, <1>13, <2>4, <3>2
      <4>2. sess[session].worker = w \/ At(owner, "stopOld")
        BY <1>0, <2>4, <4>1 DEF Structure, LiveInv
      <4>3. owner \in Threads /\ thread'[owner] = thread[owner]
        BY <1>0, <1>7, <2>4, <4>1 DEF Structure, OwnerInv
      <4> QED
        BY <1>0, <1>1, <1>9, <2>4, <4>1, <4>2, <4>3 DEF At
    <3> QED
      BY <3>1, <3>2
  <2> QED
    BY <1>1, <2>2, <2>3, <2>4 DEF LiveInv
<1>19. OneLiveWorkerPerSession'
  BY <1>0, <1>3, <1>5, <1>8, <1>13 DEF Structure, OneLiveWorkerPerSession
<1>20. NoLeakedWorker'
  <2> SUFFICES ASSUME NEW w \in Workers, live(w)', ~workers'[w].cancelled
               PROVE  session # 0 /\ sess'[session].worker = w
    BY <1>1 DEF NoLeakedWorker
  <2>1. CASE w = a
    BY <1>0, <1>2, <1>3, <1>4, <1>8, <1>9, <2>1
  <2>2. CASE w # a
    <3>1. live(w) /\ session # 0 /\ sess[session].worker = w
      BY <1>0, <1>8, <1>13, <2>2 DEF Structure, NoLeakedWorker
    <3>2. workers[w].session = session
      BY <1>0, <3>1 DEF Structure, RefInv
    <3>3. session # s
      BY <1>5, <3>1, <3>2
    <3> QED
      BY <1>0, <1>9, <3>1, <3>3
  <2> QED
    BY <2>1, <2>2
<1>21. ReadInv'
  BY <1>0, <1>3, <1>8 DEF Promises, ReadInv
<1>22. ConnectedMeansRead'
  <2> SUFFICES ASSUME NEW x \in Sessions, sess'[x].plcState = "connected"
               PROVE  sess'[x].worker # 0 /\ workers'[sess'[x].worker].hasRead
    BY DEF ConnectedMeansRead
  <2>1. sess'[x] = sess[x]
    BY <1>2, <1>9
  <2>2. sess[x].worker # 0 /\ workers[sess[x].worker].hasRead
    BY <1>0, <2>1 DEF Promises, ConnectedMeansRead
  <2>3. sess[x].worker \in Workers /\ sess[x].worker # a
    BY <1>0, <1>11, <2>2
  <2> QED
    BY <1>8, <2>1, <2>2, <2>3
<1>23. /\ \A d \in Clients : (At(d, "stop")' <=> At(d, "stop")) /\ (At(d, "clear")' <=> At(d, "clear"))
       /\ \A d \in Clients : At(d, "clear") => thread'[d].worker = thread[d].worker
       /\ At("serve", "serving")' <=> At("serve", "serving")
  BY <1>0, <1>1, <1>7 DEF At
<1>24. StoreInv'
  BY <1>0, <1>1, <1>3, <1>7, <1>8, <1>12, <1>23 DEF Promises, StoreInv
<1>25. StoreNeverForeign'
  BY <1>0, <1>1, <1>8, <1>11, <1>23 DEF Promises, StoreNeverForeign
<1>26. Structure' /\ Promises'
  BY <1>14, <1>15, <1>16, <1>17, <1>18, <1>19, <1>20, <1>21, <1>22, <1>24, <1>25 DEF Structure, Promises
<1> QED
  BY <1>10, <1>26, InvIsParts

LEMMA ShutdownInv == ASSUME IInv, Shutdown PROVE IInv'
<1>0. TypeOK /\ Structure /\ Promises
  BY Parts
<1> USE Numbers
<1>1. /\ Goto("serve", "stop") /\ UNCHANGED <<owner, session, sess, workers, store, closed, accepted, connects>>
  BY DEF Shutdown
<1>2. TypeOK'
  BY <1>0, <1>1, GotoType DEF TypeOK
<1>3. ~At("serve", "serving")' /\ \A d \in Clients : thread'[d] = thread[d]
  BY <1>0, <1>1, GotoType DEF At
<1>4. (\A d \in Clients : Holds(d)' <=> Holds(d)) /\ (\A w \in Workers : live(w)' <=> live(w))
  BY <1>1, <1>3 DEF Holds, live
<1>5. OwnerInv' /\ WorkerInv' /\ RefInv' /\ ClientInv'
  BY <1>0, <1>1, <1>3, <1>4 DEF Structure, OwnerInv, WorkerInv, RefInv, ClientInv
<1>6. LiveInv'
  <2>1. session # 0 => thread'[owner] = thread[owner]
    BY <1>0, <1>3 DEF Structure, OwnerInv
  <2> QED
    BY <1>0, <1>1, <1>3, <1>4, <2>1 DEF Structure, LiveInv, At
<1>7. OneLiveWorkerPerSession' /\ NoLeakedWorker' /\ ReadInv' /\ ConnectedMeansRead'
  BY <1>0, <1>1, <1>4 DEF Structure, Promises, OneLiveWorkerPerSession, NoLeakedWorker, ReadInv, ConnectedMeansRead
<1>8. StoreInv' /\ StoreNeverForeign'
  BY <1>3 DEF StoreInv, StoreNeverForeign
<1>9. Structure' /\ Promises'
  BY <1>5, <1>6, <1>7, <1>8 DEF Structure, Promises
<1> QED
  BY <1>2, <1>9, InvIsParts

LEMMA StopDetachInv == ASSUME IInv, NEW t \in Threads, StopDetach(t) PROVE IInv'
<1>0. TypeOK /\ Structure /\ Promises
  BY Parts
<1> USE Numbers
<1> DEFINE w0 == IF session = 0 THEN 0 ELSE sess[session].worker
           new == [NoLocals("clear") EXCEPT !.session = session, !.worker = w0, !.owner = owner]
<1>1. /\ thread[t].pc = "stop" /\ thread' = [thread EXCEPT ![t] = new] /\ workers' = Cancel(w0)
      /\ sess' = IF session = 0 THEN sess ELSE [sess EXCEPT ![session] = Detached]
      /\ owner' = NoClient /\ session' = 0 /\ UNCHANGED <<store, closed, accepted, connects>>
  BY DEF StopDetach, At
<1>2. /\ w0 \in Workers \cup {0}
      /\ w0 # 0 => session # 0 /\ sess[session].worker = w0
      /\ session # 0 => sess[session].worker = w0
  BY <1>0
<1>3. new \in ThreadRecord /\ new.pc = "clear" /\ new.worker = w0
  <2>1. session \in 0..MaxSessions /\ w0 \in 0..MaxConnects /\ owner \in Clients \cup {NoClient}
    BY <1>0, <1>2, BoundAssumption DEF TypeOK, Workers
  <2>2. NoLocals("clear") \in ThreadRecord /\ NoLocals("clear").pc = "clear"
    BY LocalsType
  <2> HIDE DEF w0
  <2> QED
    BY <2>1, <2>2 DEF ThreadRecord
<1> HIDE DEF w0, new
<1>4. /\ thread' \in [Threads -> ThreadRecord] /\ thread'[t] = new
      /\ \A u \in Threads : u # t => thread'[u] = thread[u]
  BY <1>0, <1>1, <1>3 DEF TypeOK
<1>5. /\ sess' \in [Sessions -> SessionRecord]
      /\ \A x \in Sessions : sess'[x] = sess[x] \/ (sess'[x].worker = 0 /\ sess'[x].plcState # "connected")
  BY <1>0, <1>1, DetachedType DEF TypeOK
<1>6. /\ workers' \in [Workers -> WorkerRecord]
      /\ \A v \in Workers : v # w0 => workers'[v] = workers[v]
      /\ \A v \in Workers : /\ workers'[v].state = workers[v].state /\ workers'[v].session = workers[v].session
                            /\ workers'[v].hasRead = workers[v].hasRead /\ workers'[v].ready = workers[v].ready
                            /\ workers'[v].note = workers[v].note /\ workers'[v].err = workers[v].err
      /\ w0 \in Workers => workers'[w0].cancelled = TRUE
  <2>1. workers' = Cancel(w0)
    BY <1>1
  <2> QED
    BY <1>0, <2>1, CancelStep
<1>7. TypeOK'
  <2>1. owner' \in Clients \cup {NoClient} /\ session' \in 0..MaxSessions
    BY <1>1, BoundAssumption
  <2> QED
    BY <1>0, <1>1, <1>4, <1>5, <1>6, <2>1 DEF TypeOK
<1>8. \A d \in Clients : Holds(d)' \/ thread'[d].pc \in Connecting \/ thread'[d].pc \in Confirming =>
          d # t /\ thread'[d] = thread[d] /\ (Holds(d)' <=> Holds(d))
  BY <1>0, <1>3, <1>4 DEF Holds, Holding, Confirming, Connecting
<1>9. \A w \in Workers : live(w)' <=> live(w)
  BY <1>6 DEF live
<1>10. OwnerInv'
  BY <1>0, <1>1 DEF OwnerInv
<1>11. WorkerInv'
  <2>1. \A w \in Workers : workers[w].state = "none" => workers'[w] = workers[w]
    BY <1>0, <1>2, <1>6 DEF Structure, RefInv
  <2>2. \A d \in Clients : thread[d].pc \in Connecting => thread[d].attempt \in Workers
    BY <1>0, BoundAssumption DEF TypeOK, Structure, WorkerInv, Workers
  <2> QED
    BY <1>0, <1>1, <1>6, <1>8, <2>1, <2>2 DEF Structure, WorkerInv
<1>12. RefInv'
  BY <1>0, <1>1, <1>5, <1>6, <1>8 DEF Structure, RefInv
<1>13. ClientInv'
  <2>1. \A d \in Clients : Holds(d)' => thread'[d].session # 0
    BY <1>0, <1>8 DEF Structure, RefInv
  <2> QED
    BY <1>0, <1>1, <1>8, <2>1, BoundAssumption DEF Structure, ClientInv
<1>14. LiveInv'
  <2>1. \A d \in Clients : thread'[d].pc \in {"stopOld", "attach"} => thread'[d] = thread[d]
    BY <1>8 DEF Holds, Holding
  <2> QED
    BY <1>0, <1>1, <1>6, <1>9, <2>1 DEF Structure, LiveInv, At
<1>15. OneLiveWorkerPerSession'
  BY <1>0, <1>6, <1>9 DEF Structure, OneLiveWorkerPerSession
<1>16. NoLeakedWorker'
  <2>1. \A w \in Workers : live(w) /\ ~workers[w].cancelled => w = w0
    BY <1>0, <1>2 DEF Structure, NoLeakedWorker
  <2> QED
    BY <1>6, <1>9, <2>1 DEF NoLeakedWorker
<1>17. ReadInv' /\ ConnectedMeansRead'
  BY <1>0, <1>5, <1>6 DEF Promises, ReadInv, ConnectedMeansRead
<1>18. StoreInv'
  <2> SUFFICES ASSUME At("serve", "serving")'
               PROVE  /\ \A d \in Clients : ~At(d, "stop")' /\ ~Holds(d)'
                      /\ \A w \in Workers : workers'[w].state = "apply" =>
                            \E d \in Clients : At(d, "clear")' /\ thread'[d].worker = w
    BY DEF StoreInv
  <2>1. t # "serve" /\ At("serve", "serving") /\ t \in Clients
    BY <1>0, <1>1, <1>3, <1>4 DEF At, Threads
  <2>2. owner = t
    BY <1>0, <1>1, <2>1 DEF Promises, StoreInv, At
  <2>3. \A d \in Clients : ~At(d, "stop")'
    BY <1>0, <1>3, <1>4, <2>1, <2>2 DEF Promises, StoreInv, At
  <2>4. \A d \in Clients : ~Holds(d)'
    <3> SUFFICES ASSUME NEW d \in Clients, Holds(d), d # t
                 PROVE  FALSE
      BY <1>8
    <3>1. session = thread[d].session
      BY <1>0, <2>1 DEF Promises, StoreInv
    <3> QED
      BY <1>0, <2>2, <3>1 DEF Structure, ClientInv
  <2>5. ASSUME NEW w \in Workers, workers'[w].state = "apply"
        PROVE  \E d \in Clients : At(d, "clear")' /\ thread'[d].worker = w
    <3>1. workers[w].state = "apply"
      BY <1>6, <2>5
    <3>2. CASE workers[w].session = session
      <4>1. session # 0 /\ live(w)
        BY <1>0, <3>1, <3>2 DEF Structure, WorkerInv, live
      <4>2. w = w0
        BY <1>0, <1>1, <1>2, <2>2, <3>2, <4>1 DEF Structure, LiveInv, At
      <4> QED
        BY <1>3, <1>4, <2>1, <4>2 DEF At
    <3>3. CASE workers[w].session # session
      <4>1. PICK d \in Clients : At(d, "clear") /\ thread[d].worker = w
        BY <1>0, <2>1, <3>1, <3>3 DEF Promises, StoreInv
      <4>2. d # t /\ d \in Threads
        BY <1>0, <1>1, <4>1 DEF At
      <4> QED
        BY <1>4, <4>1, <4>2 DEF At
    <3> QED
      BY <3>2, <3>3
  <2> QED
    BY <2>3, <2>4, <2>5
<1>19. StoreNeverForeign'
  BY <1>1 DEF StoreNeverForeign
<1>20. Structure' /\ Promises'
  BY <1>10, <1>11, <1>12, <1>13, <1>14, <1>15, <1>16, <1>17, <1>18, <1>19 DEF Structure, Promises
<1> QED
  BY <1>7, <1>20, InvIsParts

LEMMA StopClearInv == ASSUME IInv, NEW t \in Threads, StopClear(t) PROVE IInv'
<1>0. TypeOK /\ Structure /\ Promises
  BY Parts
<1> USE Numbers
<1>1. /\ thread[t].pc = "clear" /\ Return(t, "gone") /\ UNCHANGED <<owner, session, sess, workers, accepted, connects>>
      /\ closed' = closed \cup ({thread[t].owner} \ {NoClient}) /\ store' = Clear
  BY DEF StopClear, At
<1>2. thread[t].worker # 0 => workers[thread[t].worker].state = "done"
  BY <1>0 DEF StopClear, isDone
<1>3. /\ thread' \in [Threads -> ThreadRecord] /\ thread'[t].pc = "gone"
      /\ \A u \in Threads : u # t => thread'[u] = thread[u]
  BY <1>0, <1>1, GotoType
<1>4. store'.defs = 0 /\ store'.values = 0 /\ store' \in [defs : 0..MaxSessions, values : 0..MaxConnects]
  BY <1>1, BoundAssumption DEF Clear
<1>5. TypeOK'
  <2>1. closed' \subseteq Clients
    BY <1>0, <1>1 DEF TypeOK, ThreadRecord
  <2> QED
    BY <1>0, <1>1, <1>3, <1>4, <2>1 DEF TypeOK
<1>6. \A d \in Clients : Holds(d)' \/ thread'[d].pc \in Connecting \/ thread'[d].pc \in Confirming =>
          d # t /\ thread'[d] = thread[d] /\ (Holds(d)' <=> Holds(d))
  BY <1>0, <1>3 DEF Holds, Holding, Confirming, Connecting
<1>7. \A w \in Workers : live(w)' <=> live(w)
  BY <1>1 DEF live
<1>8. owner # NoClient => owner \in Threads /\ owner # t /\ thread'[owner] = thread[owner]
  BY <1>0, <1>1, <1>3 DEF Structure, OwnerInv, Holding, Confirming
<1>9. OwnerInv' /\ WorkerInv'
  BY <1>0, <1>1, <1>6, <1>8 DEF Structure, OwnerInv, WorkerInv
<1>10. RefInv' /\ ClientInv'
  BY <1>0, <1>1, <1>4, <1>6 DEF Structure, RefInv, ClientInv
<1>11. LiveInv'
  <2>1. \A d \in Clients : thread'[d].pc \in {"stopOld", "attach"} => thread'[d] = thread[d]
    BY <1>6 DEF Holds, Holding
  <2>2. session # 0 => thread'[owner] = thread[owner]
    BY <1>0, <1>8 DEF Structure, OwnerInv
  <2> QED
    BY <1>0, <1>1, <1>7, <2>1, <2>2 DEF Structure, LiveInv, At
<1>12. OneLiveWorkerPerSession' /\ NoLeakedWorker' /\ ReadInv' /\ ConnectedMeansRead'
  BY <1>0, <1>1, <1>7 DEF Structure, Promises, OneLiveWorkerPerSession, NoLeakedWorker, ReadInv, ConnectedMeansRead
<1>13. StoreInv'
  <2> SUFFICES ASSUME At("serve", "serving")'
               PROVE  /\ \A d \in Clients : At(d, "stop")' => owner' = d
                      /\ \A d \in Clients : Holds(d)' => session' = thread'[d].session
                      /\ \A w \in Workers : workers'[w].state = "apply" /\ workers'[w].session # session' =>
                            \E d \in Clients : At(d, "clear")' /\ thread'[d].worker = w
    BY DEF StoreInv
  <2>1. t # "serve" /\ At("serve", "serving")
    BY <1>0, <1>3 DEF At
  <2>2. \A d \in Clients : At(d, "stop")' => At(d, "stop")
    BY <1>0, <1>3 DEF At
  <2>3. ASSUME NEW w \in Workers, workers[w].state = "apply", workers[w].session # session
        PROVE  \E d \in Clients : At(d, "clear")' /\ thread'[d].worker = w
    <3>1. PICK d \in Clients : At(d, "clear") /\ thread[d].worker = w
      BY <1>0, <2>1, <2>3 DEF Promises, StoreInv
    <3>2. d # t /\ d \in Threads
      BY <1>0, <1>2, <2>3, <3>1
    <3> QED
      BY <1>3, <3>1, <3>2 DEF At
  <2> QED
    BY <1>0, <1>1, <1>6, <2>1, <2>2, <2>3 DEF Promises, StoreInv
<1>14. StoreNeverForeign'
  BY <1>4 DEF StoreNeverForeign
<1>15. Structure' /\ Promises'
  BY <1>9, <1>10, <1>11, <1>12, <1>13, <1>14 DEF Structure, Promises
<1> QED
  BY <1>5, <1>15, InvIsParts

-----------------------------------------------------------------------------
(* The invariant, and what follows from it. *)

LEMMA InvInit == Init => IInv
<1> SUFFICES ASSUME Init PROVE IInv
  OBVIOUS
<1>1. /\ NoWorker \in WorkerRecord /\ NoWorker.state = "none" /\ NoWorker.ready = "no" /\ NoWorker.note = "none"
      /\ Detached \in SessionRecord /\ Detached.worker = 0 /\ Detached.plcState = "disconnected"
      /\ \A pc \in {"serving", "new"} : NoLocals(pc) \in ThreadRecord /\ NoLocals(pc).pc = pc
  BY BoundAssumption, DetachedType, LocalsType DEF NoWorker, WorkerRecord
<1>2. /\ owner = NoClient /\ session = 0 /\ closed = {} /\ accepted = 0 /\ connects = 0
      /\ \A x \in Sessions : sess[x] = Detached
      /\ \A w \in Workers : workers[w] = NoWorker
      /\ \A c \in Clients : thread[c].pc = "new"
  BY <1>1, BoundAssumption DEF Init, Threads
<1>3. store \in [defs : 0..MaxSessions, values : 0..MaxConnects] /\ store.values = 0
  BY BoundAssumption DEF Init, Clear
<1>4. TypeOK
  <2>1. sess \in [Sessions -> SessionRecord] /\ workers \in [Workers -> WorkerRecord]
    BY <1>1 DEF Init
  <2>2. thread \in [Threads -> ThreadRecord]
    BY <1>1 DEF Init
  <2> QED
    BY <1>2, <1>3, <2>1, <2>2, BoundAssumption DEF TypeOK
<1>5. \A c \in Clients : ~Holds(c) /\ thread[c].pc \notin Connecting /\ thread[c].pc \notin Confirming
  BY <1>2 DEF Holds, Holding, Confirming, Connecting
<1>6. OwnerInv /\ WorkerInv /\ RefInv /\ ClientInv
  BY <1>1, <1>2, <1>3, <1>5 DEF OwnerInv, WorkerInv, RefInv, ClientInv
<1>7. LiveInv /\ OneLiveWorkerPerSession /\ NoLeakedWorker
  BY <1>1, <1>2 DEF LiveInv, OneLiveWorkerPerSession, NoLeakedWorker, live
<1>8. ReadInv /\ ConnectedMeansRead /\ StoreNeverForeign
  BY <1>1, <1>2 DEF ReadInv, ConnectedMeansRead, StoreNeverForeign
<1>9. StoreInv
  BY <1>1, <1>2, <1>5 DEF StoreInv, At
<1> QED
  BY <1>4, <1>6, <1>7, <1>8, <1>9 DEF IInv

LEMMA InvStep == IInv /\ [Next]_vars => IInv'
<1> SUFFICES ASSUME IInv, [Next]_vars PROVE IInv'
  OBVIOUS
<1>1. ASSUME NEW c \in Clients, Message(c) PROVE IInv'
  BY <1>1, ConfigureInv, HandlePLCConnectInv, HandlePLCDisconnectInv, LeaveInv DEF Message
<1>2. ASSUME NEW t \in Threads, Handler(t) PROVE IInv'
  BY <1>2, StopDetachInv, StopClearInv, ConnectDetachInv, ConnectClearValuesInv, ConnectAttachInv,
     ConfirmDisconnectedInv, ConfirmCheckInv, ConfirmApplyInv, ConfirmNotifyInv, DisconnectDetachInv DEF Handler
<1>3. ASSUME NEW w \in Workers, Worker(w) \/ FinishPLCConnect(w) PROVE IInv'
  BY <1>3, WorkerLoopInv, WorkerScanInv, WorkerPublishInv, WorkerApplyInv, WorkerNotifyInv, FinishPLCConnectInv DEF Worker
<1>4. CASE Shutdown
  BY <1>4, ShutdownInv
<1>5. CASE UNCHANGED vars
  BY <1>5 DEF vars, IInv, TypeOK, OwnerInv, WorkerInv, RefInv, ClientInv, LiveInv, ReadInv, StoreInv,
     OneLiveWorkerPerSession, NoLeakedWorker, ConnectedMeansRead, StoreNeverForeign, Holds, At, live
<1> QED
  BY <1>1, <1>2, <1>3, <1>4, <1>5 DEF Next

LEMMA InvAlways == Spec => []IInv
BY InvInit, InvStep, PTL DEF Spec

\* Every variable keeps its type; only a real client's connection is ever closed
\* (StopSession, disconnect).
THEOREM SessionTyped == Spec => []TypeOK
<1>1. IInv => TypeOK
  BY DEF IInv
<1> QED
  BY <1>1, InvAlways, PTL

\* However connects, disconnects, departures and shutdown interleave, a session never
\* has two workers running: connectPLC starts one only after the previous one's Done.
THEOREM SessionOneLiveWorker == Spec => []OneLiveWorkerPerSession
<1>1. IInv => OneLiveWorkerPerSession
  BY DEF IInv
<1> QED
  BY <1>1, InvAlways, PTL

\* A worker nobody has cancelled is attached to the current session, where the next
\* connect, disconnect or stop finds it (connectPLC, StopSession).
THEOREM SessionNoLeakedWorker == Spec => []NoLeakedWorker
<1>1. IInv => NoLeakedWorker
  BY DEF IInv
<1> QED
  BY <1>1, InvAlways, PTL

\* A session reported connected has a worker that completed a clean scan
\* (finishPLCConnect, notifyPLCReconnected).
THEOREM SessionConnectedMeansRead == Spec => []ConnectedMeansRead
<1>1. IInv => ConnectedMeansRead
  BY DEF IInv
<1> QED
  BY <1>1, InvAlways, PTL

\* Unless a stop is under way or the process is shutting down, the store holds neither
\* the point table nor the values of another session, although updateFromWorker checks
\* the session before it writes and not while it does.
THEOREM SessionStoreNeverForeign == Spec => []StoreNeverForeign
<1>1. IInv => StoreNeverForeign
  BY DEF IInv
<1> QED
  BY <1>1, InvAlways, PTL

-----------------------------------------------------------------------------
(* A disconnect is final. *)

Final ==
    \A s \in Sessions : sess[s].disconnecting /\ sess'[s].disconnecting =>
        sess'[s].plcState \in {sess[s].plcState, "disconnected"}

\* A step that changes no session, or sets one to what is no longer disconnecting or is
\* disconnected.
LEMMA FinalByValue ==
  ASSUME \A s \in Sessions : \/ sess'[s] = sess[s]
                             \/ sess'[s].disconnecting = FALSE
                             \/ sess'[s].plcState \in {sess[s].plcState, "disconnected"}
  PROVE  Final
BY DEF Final

LEMMA FinalStep == IInv /\ [Next]_vars => [Final]_vars
<1> SUFFICES ASSUME IInv, Next PROVE Final
  OBVIOUS
<1>0. TypeOK /\ Structure
  BY Parts
<1> USE Numbers
<1>1. ASSUME UNCHANGED sess PROVE Final
  BY <1>1, FinalByValue
<1>2. ASSUME NEW c \in Clients, Message(c) PROVE Final
  <2>1. CASE Configure(c) \/ HandlePLCConnect(c) \/ Leave(c)
    BY <1>1, <2>1 DEF Configure, HandlePLCConnect, Leave
  <2>2. CASE HandlePLCDisconnect(c)
    BY <1>0, <2>2, FinalByValue DEF HandlePLCDisconnect, TypeOK, SessionRecord
  <2> QED
    BY <1>2, <2>1, <2>2 DEF Message
<1>3. ASSUME NEW t \in Threads, Handler(t) PROVE Final
  <2>1. CASE StopDetach(t)
    BY <1>0, <2>1, DetachedType, FinalByValue DEF StopDetach, TypeOK
  <2>2. CASE StopClear(t) \/ ConnectClearValues(t) \/ ConfirmDisconnected(t) \/ ConfirmCheck(t) \/ ConfirmApply(t)
    BY <1>1, <2>2 DEF StopClear, ConnectClearValues, ConfirmDisconnected, ConfirmCheck, ConfirmApply
  <2>3. CASE ConnectDetach(t)
    BY <1>0, <2>3, DetachedType, FinalByValue DEF ConnectDetach, TypeOK
  <2>4. CASE ConnectAttach(t)
    BY <1>0, <2>4, FinalByValue DEF ConnectAttach, TypeOK
  <2>5. CASE ConfirmNotify(t)
    BY <1>0, <2>5, FinalByValue DEF ConfirmNotify, TypeOK, SessionRecord
  <2>6. CASE DisconnectDetach(t)
    BY <1>0, <2>6, DetachedType, FinalByValue DEF DisconnectDetach, TypeOK
  <2> QED
    BY <1>3, <2>1, <2>2, <2>3, <2>4, <2>5, <2>6 DEF Handler
<1>4. ASSUME NEW w \in Workers, Worker(w) \/ FinishPLCConnect(w) PROVE Final
  <2>1. CASE WorkerLoop(w) \/ WorkerScan(w) \/ WorkerPublish(w) \/ WorkerApply(w)
    BY <1>1, <2>1 DEF WorkerLoop, WorkerScan, WorkerPublish, WorkerApply
  <2>2. CASE WorkerNotify(w)
    BY <1>0, <2>2 DEF WorkerNotify, NotifiedState, Final, TypeOK, SessionRecord
  <2>3. CASE FinishPLCConnect(w)
    BY <1>0, <2>3 DEF FinishPLCConnect, Final, TypeOK, SessionRecord
  <2> QED
    BY <1>4, <2>1, <2>2, <2>3 DEF Worker
<1>5. CASE Shutdown
  BY <1>1, <1>5 DEF Shutdown
<1> QED
  BY <1>2, <1>3, <1>4, <1>5 DEF Next

\* Once plc.disconnect has marked the session, no late scan, late connect or late
\* reconnect turns it back to connected (the disconnecting flag).
THEOREM SessionDisconnectingIsFinal == Spec => DisconnectingIsFinal
BY InvAlways, FinalStep, PTL DEF Spec, DisconnectingIsFinal, Final

============================================================
