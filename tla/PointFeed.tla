----------------------------- MODULE PointFeed -----------------------------
(***************************************************************************)
(* The way of a point value from a scan of the PLC worker to the HMI page  *)
(* and to the alarm history: updateFromWorker and applyValues              *)
(* (internal/agent/runtime.go), the point store (internal/pointstore),     *)
(* recordAlarmChanges (internal/agent/mqtt_runtime.go) with the alarm      *)
(* history service, finishPLCConnect and plc.connect                       *)
(* (internal/agent/plc_runtime.go), point commands and their replies, the  *)
(* bounded send queue of the WebSocket client, and the page's own copy of  *)
(* the values with its one pending command (apps/block-hmi/assets/hmi.mts).*)
(*                                                                         *)
(* One session of one client.  A scan publishes everything good or, after  *)
(* a lost transport, everything stale; what else a scan can do is          *)
(* PlcWorker's subject, who owns the session RuntimeSession's.  Steps are  *)
(* split where the code holds no lock, so the worker, the goroutine that   *)
(* serves the client, the reply goroutines, the one that finishes a        *)
(* connect, and the write loop interleave there.                           *)
(***************************************************************************)
EXTENDS Naturals, Sequences, FiniteSets

CONSTANTS
    Points,      \* readable points
    Written,     \* the point the commands set, fed back by itself
    Alarms,      \* the points with an alarm definition
    Values,      \* values a point may hold
    AlarmValue,  \* the value that means an active alarm
    Invalid,     \* a register pattern ValidateValue refuses (a NaN float32)
    Initial,     \* the registers the PLC may start with
    Moves,       \* the <<point, value>> changes its program may make
    CommandValues, \* what a set command may ask for
    QueueSize,   \* wsQueueSize, 128 in the code
    MaxCommands, \* model bound on the page's commands
    MaxEvents    \* model bound on moves, losses, connects and snapshot requests together

ASSUME FeedAssumption ==
    /\ IsFiniteSet(Points) /\ Written \in Points
    /\ Alarms \subseteq Points
    /\ {AlarmValue, Invalid} \cup CommandValues \subseteq Values
    /\ Initial \subseteq [Points -> Values]
    /\ Moves \subseteq Points \X Values
    /\ "nil" \notin Values
    /\ QueueSize \in Nat \ {0}
    /\ {MaxCommands, MaxEvents} \subseteq Nat

VARIABLES
    plc,     \* the PLC's registers (external)
    worker,  \* the worker's goroutine: where it is in scan, publish and reply
    store,   \* pointstore: the current value of every point
    sess,    \* the runtimeSession: attached worker, plcState, broadcasts, alarms
    finish,  \* the goroutine of finishPLCConnect
    handler, \* the goroutine of serveWS
    replies, \* results whose goroutine has not enqueued them yet
    queue,   \* wsClient.send
    closed,  \* wsClient.done
    page,    \* the page's values and its pending command
    history, \* the alarm records stored, oldest first
    used,    \* model bounds used up
    ghost    \* history: what is known to have gone amiss, and who was answered

vars == <<plc, worker, store, sess, finish, handler, replies, queue, closed, page, history, used, ghost>>

-----------------------------------------------------------------------------
(* Records. *)

\* A PointValue; AlarmActive is a function of the value for an alarm point.
Absent == [value |-> "nil", quality |-> "none"]
NoValues == [p \in Points |-> Absent]
alarmActive(v) == v.value = AlarmValue

NoWorker == [pc |-> "none", why |-> "poll", last |-> NoValues, lost |-> FALSE, note |-> "none",
             flag |-> FALSE, changed |-> {}, err |-> FALSE, cmd |-> 0, commands |-> <<>>]

\* The worker waits in its select; only there does a cancelled Run return.
Resting == worker.pc \in {"none", "idle"}

Message(type, values, id, ok) == [type |-> type, values |-> values, id |-> id, ok |-> ok]
State == Message("state", NoValues, 0, TRUE)
Snapshot(values) == Message("snapshot", values, 0, TRUE)
Result(id, ok, values) == Message("result", values, id, ok)

\* Mutant: messages that do not fit are dropped.
enqueueDrops(messages) ==
    IF closed \/ Len(queue \o messages) > QueueSize THEN UNCHANGED <<queue, closed>>
    ELSE queue' = queue \o messages /\ UNCHANGED closed

\* Messages offered to the queue one after another: nothing goes to a closed
\* client, and a full queue closes it, which abandons what was not sent.
enqueue(messages) ==
    IF closed THEN UNCHANGED <<queue, closed>>
    ELSE IF Len(queue \o messages) > QueueSize THEN queue' = <<>> /\ closed' = TRUE
    ELSE queue' = queue \o messages /\ UNCHANGED closed

CountEvent == used.events < MaxEvents /\ used' = [used EXCEPT !.events = @ + 1]

-----------------------------------------------------------------------------
(* The worker: a scan, then publish with its locks taken one after another. *)

\* (The PLC stands still once the client is gone: nobody looks any more.)
PlcMoves(p, v) ==
    /\ ~closed
    /\ CountEvent
    /\ plc[p] # v
    /\ plc' = [plc EXCEPT ![p] = v]
    /\ UNCHANGED <<worker, store, sess, finish, handler, replies, queue, closed, page, history, ghost>>

\* A poll yields to a queued command.
ReadyToScan == worker.pc = "scan" \/ (worker.pc = "idle" /\ worker.commands = <<>>)

\* The end of readAll and the check of updateFromWorker: under mu, is this still
\* the session's worker, and are its changes broadcast?  The values are applied
\* after mu is released.
Scanned(values, lost) ==
    /\ worker' = [worker EXCEPT !.pc = IF sess.attached THEN "update" ELSE "scanned",
                                !.flag = sess.broadcasts, !.last = values, !.lost = lost,
                                !.note = IF lost = worker.lost THEN "none" ELSE IF lost THEN "lost" ELSE "recovered"]
    /\ ghost' = [ghost EXCEPT !.missed = @ \/ ~sess.attached]

ScanOk ==
    /\ ReadyToScan
    /\ Scanned([p \in Points |-> [value |-> plc[p], quality |-> "good"]], FALSE)
    /\ UNCHANGED <<plc, store, sess, finish, handler, replies, queue, closed, page, history, used>>

\* A lost transport: every point as it was, and stale.
ScanLost ==
    /\ ReadyToScan
    /\ ~closed
    /\ CountEvent
    /\ Scanned([p \in Points |-> [worker.last[p] EXCEPT !.quality = "stale"]], TRUE)
    /\ UNCHANGED <<plc, store, sess, finish, handler, replies, queue, closed, page, history>>

\* Mutant: a change of quality alone is not a change.
sameDisplayStateByValue(left, right) == left.value = right.value

sameDisplayState(left, right) == left.value = right.value /\ left.quality = right.quality

\* The page is behind on these points; whether it was on the written one at any time
\* since it sent its pending command.
Unsent(points) == [ghost EXCEPT !.unsent = points, !.missed = @ \/ Written \in points]

\* Store.Update goes through the values in any order; a refused value ends it,
\* and the changes already stored are not returned.
StoreUpdate ==
    /\ worker.pc = "update"
    /\ LET refused == {p \in Points : worker.last[p].value = Invalid}
           Differs(p) == ~sameDisplayState(store[p], worker.last[p])
           Stored(S) == [p \in Points |-> IF p \in S THEN worker.last[p] ELSE store[p]]
       IN  \/ /\ refused = {}
              /\ store' = Stored(Points)
              /\ LET changed == {p \in Points : Differs(p)}
                 IN  /\ worker' = [worker EXCEPT !.pc = IF changed = {} THEN "scanned" ELSE "send",
                                                 !.changed = changed]
                     /\ ghost' = IF worker.flag THEN ghost ELSE Unsent(ghost.unsent \cup changed)
           \/ /\ refused # {}
              /\ \E S \in SUBSET (Points \ refused) :
                    /\ store' = Stored(S)
                    /\ LET swallowed == {p \in S : Differs(p)}
                       IN  ghost' = [Unsent(ghost.unsent \cup swallowed) EXCEPT !.swallowed = @ \cup swallowed]
              /\ worker' = [worker EXCEPT !.pc = "scanned", !.err = TRUE]
    /\ UNCHANGED <<plc, sess, finish, handler, replies, queue, closed, page, history, used>>

\* Mutant: the transition is taken from the value alone.
TransitionsRepeated ==
    {[point |-> p, kind |-> IF alarmActive(store[p]) THEN "RAISED" ELSE "CLEARED"] :
     p \in {q \in worker.changed \cap Alarms :
            store[q].quality = "good" /\ (alarmActive(store[q]) \/ sess.alarms[q] # "unknown")}}

\* The alarm transitions among the changed points, by what the session knows.
Transitions ==
    {[point |-> p, kind |-> IF alarmActive(store[p]) THEN "RAISED" ELSE "CLEARED"] :
     p \in {q \in worker.changed \cap Alarms :
            store[q].quality = "good" /\ (alarmActive(store[q]) # (sess.alarms[q] = "active"))}}

\* Service.Append for one record after another, in any order; the first failure
\* ends that.  (The notification that follows each one is best effort.)
AppendRecords(records) ==
    \E kept \in SUBSET records :
        /\ \E order \in {o \in [1 .. Cardinality(kept) -> kept] : {o[i] : i \in DOMAIN o} = kept} :
              history' = history \o order
        /\ ghost' = [ghost EXCEPT !.unsent = IF worker.flag THEN @ \ worker.changed ELSE @,
                                  !.swallowed = @ \ worker.changed,
                                  !.dropped = @ \/ kept # records]

\* recordAlarmChanges: nothing once the session has ended; else every good state
\* is remembered first, then the transitions are stored.
RecordAlarmChanges ==
    /\ sess.current
    /\ sess' = [sess EXCEPT !.alarms = [p \in Alarms |->
                   IF p \notin worker.changed \/ store[p].quality # "good" THEN @[p]
                   ELSE IF alarmActive(store[p]) THEN "active" ELSE "normal"]]
    /\ AppendRecords(Transitions)

\* applyValues after Update: points.changed, if the changes of this publish are
\* broadcast, then the alarm history.  (The MQTT session it also hands the
\* snapshot to is MqttSession's subject.)
ApplyValues ==
    /\ worker.pc = "send"
    /\ IF worker.flag
       THEN enqueue(<<Message("changed", [p \in worker.changed |-> store[p]], 0, TRUE)>>)
       ELSE UNCHANGED <<queue, closed>>
    /\ RecordAlarmChanges \/ (~sess.current /\ UNCHANGED <<sess, history, ghost>>)
    /\ worker' = [worker EXCEPT !.pc = "scanned"]
    /\ UNCHANGED <<plc, store, finish, handler, replies, page, used>>

\* The rest of readAll and of its caller: report a lost or regained transport,
\* then signal Ready, decide the command, or go back to the select.
AfterScan ==
    /\ worker.pc = "scanned"
    /\ LET failed == worker.err \/ worker.lost
       IN  /\ IF worker.note # "none" /\ sess.attached
              THEN /\ enqueue(<<State>>)
                   /\ sess' = [sess EXCEPT !.plcState = IF worker.note = "lost" THEN "disconnected" ELSE "connected"]
              ELSE UNCHANGED <<queue, closed, sess>>
           /\ finish' = IF worker.why # "initial" THEN finish ELSE IF failed THEN "readyErr" ELSE "readyOk"
           /\ replies' = IF worker.why # "confirm" THEN replies
                         ELSE replies \cup {Result(worker.cmd, ~failed, worker.last)}
           /\ ghost' = IF worker.why = "confirm" /\ ~failed
                       THEN [ghost EXCEPT !.succeeded = @ \cup {worker.cmd}] ELSE ghost
    /\ worker' = [worker EXCEPT !.pc = "idle", !.why = "poll", !.note = "none", !.cmd = 0,
                                !.changed = {}, !.err = FALSE, !.flag = FALSE]
    /\ UNCHANGED <<plc, store, handler, page, history, used>>

\* Mutant: the command is answered before the scan that shows its effect.
ExecuteUnconfirmed ==
    /\ worker.pc = "idle"
    /\ worker.commands # <<>>
    /\ plc' = [plc EXCEPT ![Written] = Head(worker.commands).value]
    /\ worker' = [worker EXCEPT !.pc = "scan", !.commands = Tail(@)]
    /\ LET fed == [worker.last EXCEPT ![Written] = [value |-> plc'[Written], quality |-> "good"]]
       IN  replies' = replies \cup {Result(Head(worker.commands).id, TRUE, fed)}
    /\ ghost' = [ghost EXCEPT !.succeeded = @ \cup {Head(worker.commands).id}]
    /\ UNCHANGED <<store, sess, finish, handler, queue, closed, page, history, used>>

\* execute: write the level, then the confirming scan.
Execute ==
    /\ worker.pc = "idle"
    /\ worker.commands # <<>>
    /\ plc' = [plc EXCEPT ![Written] = Head(worker.commands).value]
    /\ worker' = [worker EXCEPT !.pc = "scan", !.why = "confirm",
                                !.cmd = Head(worker.commands).id, !.commands = Tail(@)]
    /\ UNCHANGED <<store, sess, finish, handler, replies, queue, closed, page, history, used, ghost>>

-----------------------------------------------------------------------------
(* The client's serveWS goroutine and the goroutines it starts. *)

\* Mutant: a stopping worker forgets the commands it still holds.
RejectedNone == {}

\* rejectQueued: what a stopping worker answers to the commands it still holds.
Rejected == {Result(worker.commands[i].id, FALSE, NoValues) : i \in DOMAIN worker.commands}

\* connectPLC up to the wait for the previous worker.
ConnectDetach ==
    /\ handler.pc = "idle" /\ ~closed
    /\ CountEvent
    /\ handler' = [handler EXCEPT !.pc = "connecting"]
    /\ sess' = [sess EXCEPT !.attached = FALSE, !.plcState = "disconnected", !.broadcasts = FALSE]
    /\ UNCHANGED <<plc, worker, store, finish, replies, queue, closed, page, history, ghost>>

\* The previous worker is done; ClearValues, and the new worker runs its first scan.
ConnectAttach ==
    /\ handler.pc = "connecting"
    /\ Resting
    /\ handler' = [handler EXCEPT !.pc = "idle"]
    /\ replies' = replies \cup Rejected
    /\ store' = NoValues
    /\ worker' = [NoWorker EXCEPT !.pc = "scan", !.why = "initial"]
    /\ sess' = [sess EXCEPT !.attached = TRUE, !.plcState = "connecting", !.broadcasts = FALSE]
    /\ finish' = "waiting"
    /\ enqueue(<<State>>)
    /\ UNCHANGED <<plc, page, history, used, ghost>>

\* finishPLCConnect, under mu: state, connect result, snapshot; broadcasts begin.
FinishPLCConnect ==
    /\ finish \in {"readyOk", "readyErr"}
    /\ finish' = "none"
    /\ IF sess.attached
       THEN LET state == IF finish = "readyOk" THEN "connected"
                         ELSE IF worker.lost THEN "disconnected" ELSE "error"
            IN  /\ sess' = [sess EXCEPT !.plcState = state, !.broadcasts = TRUE]
                /\ enqueue((IF state = "disconnected" THEN <<>> ELSE <<State>>) \o <<State, Snapshot(store)>>)
                /\ ghost' = [ghost EXCEPT !.unsent = {}]
       ELSE UNCHANGED <<sess, queue, closed, ghost>>
    /\ UNCHANGED <<plc, worker, store, handler, replies, page, history, used>>

\* points.snapshot.get: the store is read first, the message enqueued later.
SnapshotGet ==
    /\ handler.pc = "idle" /\ ~closed
    /\ CountEvent
    /\ handler' = [pc |-> "snapshot", values |-> store]
    /\ UNCHANGED <<plc, worker, store, sess, finish, replies, queue, closed, page, history, ghost>>

SnapshotSend ==
    /\ handler.pc = "snapshot"
    /\ enqueue(<<Snapshot(handler.values)>>)
    /\ handler' = [pc |-> "idle", values |-> NoValues]
    /\ ghost' = Unsent({p \in Points : handler.values[p] # store[p]}
                       \ IF worker.pc = "send" /\ worker.flag THEN worker.changed ELSE {})
    /\ UNCHANGED <<plc, worker, store, sess, finish, replies, page, history, used>>

\* valueFromRaw, allowsAction and ValidateValue: a value the point takes.
acceptable(v) == v # Invalid

\* The page sends its one command; handlePointCommand admits it to the worker's
\* FIFO or answers at once, also when the value does not fit the point's type.
PointCommand(v) ==
    /\ handler.pc = "idle" /\ ~closed
    /\ page.pending = 0
    /\ used.commands < MaxCommands
    /\ used' = [used EXCEPT !.commands = @ + 1]
    /\ page' = [page EXCEPT !.pending = used.commands + 1, !.shown = {page.values[Written]}]
    /\ IF acceptable(v) /\ sess.attached /\ sess.plcState = "connected" /\ ~worker.lost
       THEN /\ worker' = [worker EXCEPT !.commands = Append(@, [id |-> used.commands + 1, value |-> v])]
            /\ UNCHANGED <<queue, closed>>
       ELSE enqueue(<<Result(used.commands + 1, FALSE, NoValues)>>) /\ UNCHANGED worker
    /\ ghost' = [ghost EXCEPT !.missed = Written \in ghost.unsent]
    /\ UNCHANGED <<plc, store, sess, finish, handler, replies, history>>

\* The goroutine that waits for a command's reply.
SendReply(r) ==
    /\ replies' = replies \ {r}
    /\ enqueue(<<r>>)
    /\ UNCHANGED <<plc, worker, store, sess, finish, handler, page, history, used, ghost>>

\* serveWS ends once the client is closed: StopSession gives the session up and
\* cancels the worker ...
StopDetach ==
    /\ closed
    /\ sess.current
    /\ handler.pc = "idle"
    /\ handler' = [handler EXCEPT !.pc = "stopping"]
    /\ sess' = [sess EXCEPT !.current = FALSE, !.attached = FALSE, !.plcState = "disconnected", !.broadcasts = FALSE]
    /\ UNCHANGED <<plc, worker, store, finish, replies, queue, closed, page, history, used, ghost>>

\* ... and once that is done clears the store.
StopClear ==
    /\ handler.pc = "stopping"
    /\ Resting
    /\ handler' = [handler EXCEPT !.pc = "gone"]
    /\ replies' = replies \cup Rejected
    /\ worker' = NoWorker
    /\ store' = NoValues
    /\ UNCHANGED <<plc, sess, finish, queue, closed, page, history, used, ghost>>

-----------------------------------------------------------------------------
(* The connection and the page. *)

\* The connection breaks, or a send fails.
ConnectionBreaks ==
    /\ ~closed
    /\ closed' = TRUE
    /\ queue' = <<>>
    /\ UNCHANGED <<plc, worker, store, sess, finish, handler, replies, page, history, used, ghost>>

\* Mutant: any result settles the pending command.
receiveAny(m) ==
    IF page.pending = 0 THEN page
    ELSE [page EXCEPT !.pending = 0, !.confirmed = IF m.ok THEN @ \cup {page.pending} ELSE @]

\* PointCommandReceipt.receive: only the result of the pending command counts.
receive(m) ==
    IF page.pending # m.id THEN page
    ELSE [page EXCEPT !.pending = 0, !.confirmed = IF m.ok THEN @ \cup {m.id} ELSE @]

\* What the page makes of a message: a snapshot replaces its values, a change
\* overrides them, a result settles the pending command.
Received(m) ==
    LET values == IF m.type = "snapshot" THEN m.values
                  ELSE [p \in Points |-> IF p \in DOMAIN m.values THEN m.values[p] ELSE page.values[p]]
    IN  CASE m.type \in {"snapshot", "changed"} ->
                [page EXCEPT !.values = values,
                             !.shown = IF page.pending = 0 THEN @ ELSE @ \cup {values[Written]}]
          [] m.type = "result" -> receive(m)
          [] OTHER -> page

\* writeLoop sends the next message and the page handles it.
Deliver ==
    /\ ~closed
    /\ queue # <<>>
    /\ queue' = Tail(queue)
    /\ page' = Received(Head(queue))
    /\ ghost' = LET m == Head(queue)
                IN  IF m.type = "result" THEN [ghost EXCEPT !.answered = @ \cup {m.id}] ELSE ghost
    /\ UNCHANGED <<plc, worker, store, sess, finish, handler, replies, closed, history, used>>

\* The page gives up waiting: the result is unknown.
CommandTimesOut ==
    /\ ~closed
    /\ page.pending # 0
    /\ page' = [page EXCEPT !.pending = 0, !.shown = {}]
    /\ UNCHANGED <<plc, worker, store, sess, finish, handler, replies, queue, closed, history, used, ghost>>

\* The close event of the socket: the page gives up its command and forgets the
\* values.
PageCloses ==
    /\ closed
    /\ page.pending # 0 \/ page.values # NoValues
    /\ page' = [page EXCEPT !.pending = 0, !.shown = {}, !.values = NoValues]
    /\ UNCHANGED <<plc, worker, store, sess, finish, handler, replies, queue, closed, history, used, ghost>>

-----------------------------------------------------------------------------

\* A configured session whose page is connected, before any plc.connect.
Init ==
    /\ plc \in Initial
    /\ worker = NoWorker
    /\ store = NoValues
    /\ sess = [current |-> TRUE, attached |-> FALSE, plcState |-> "disconnected", broadcasts |-> FALSE,
               alarms |-> [p \in Alarms |-> "unknown"]]
    /\ finish = "none"
    /\ handler = [pc |-> "idle", values |-> NoValues]
    /\ replies = {}
    /\ queue = <<>>
    /\ closed = FALSE
    /\ page = [values |-> NoValues, pending |-> 0, shown |-> {}, confirmed |-> {}]
    /\ history = <<>>
    /\ used = [commands |-> 0, events |-> 0]
    /\ ghost = [unsent |-> {}, missed |-> FALSE, swallowed |-> {}, dropped |-> FALSE, succeeded |-> {}, answered |-> {}]

Next ==
    \/ \E m \in Moves : PlcMoves(m[1], m[2])
    \/ ScanOk \/ ScanLost \/ StoreUpdate \/ ApplyValues \/ AfterScan \/ Execute
    \/ ConnectDetach \/ ConnectAttach \/ FinishPLCConnect
    \/ SnapshotGet \/ SnapshotSend
    \/ \E v \in CommandValues : PointCommand(v)
    \/ \E r \in replies : SendReply(r)
    \/ StopDetach \/ StopClear
    \/ ConnectionBreaks \/ Deliver \/ CommandTimesOut \/ PageCloses

Spec == Init /\ [][Next]_vars

-----------------------------------------------------------------------------
(* Properties. *)

Quiet == ~closed /\ queue = <<>> /\ handler.pc = "idle" /\ worker.pc # "send"

\* Once everything sent has arrived, the page shows what the point store holds:
\* between the snapshot that begins a connection and the changes that follow no
\* update is lost, duplicated or reordered, and a page that cannot keep up is
\* disconnected rather than left behind (applyValues, finishPLCConnect,
\* wsClient.enqueue).  Excepted are the points in ghost.unsent: the code has
\* three ways to store a change the page is not told of, see StoreUpdate (a
\* publish that read broadcasts before the connect was finished, and an update
\* refused half way) and SnapshotSend (a snapshot overtaken by a change).
PageFollowsStore ==
    Quiet /\ sess.broadcasts => \A p \in Points \ ghost.unsent : page.values[p] = store[p]

\* When the worker has reported a lost PLC, the page no longer shows a value as
\* good (staleValues, Update, sameDisplayState) unless it missed the update as
\* above or a register last held something Update refuses: then every later
\* update, the stale one included, is refused too.
LossIsShown ==
    /\ Quiet /\ sess.broadcasts
    /\ worker.pc = "idle" /\ worker.lost
    /\ \A p \in Points : worker.last[p].value # Invalid
    => \A p \in Points \ ghost.unsent : page.values[p].quality # "good"

\* Store.List and Service.List: at most limit records behind a cursor, which is a
\* record's place in the history, and the cursor of the next page.
List(after, limit) ==
    LET found == SubSeq(history, after + 1, IF after + limit < Len(history) THEN after + limit + 1 ELSE Len(history))
        hasMore == Len(found) > limit
    IN  [records |-> IF hasMore THEN SubSeq(found, 1, limit) ELSE found,
         hasMore |-> hasMore, nextCursor |-> after + limit]

\* Everything a reader gets who follows the cursors.
ReadInPages(limit) ==
    LET from[after \in 0..Len(history)] ==
            LET p == List(after, limit)
            IN  p.records \o IF p.hasMore THEN from[p.nextCursor] ELSE <<>>
    IN  from[0]

\* The places of a point's records, and whether the latest before place i is a raise.
PlacesOf(p) == {i \in DOMAIN history : history[i].point = p}
RaisedBefore(p, i) ==
    \E j \in PlacesOf(p) : /\ j < i /\ history[j].kind = "RAISED"
                           /\ \A k \in PlacesOf(p) : k < i => k <= j
LastIsRaised(p) == RaisedBefore(p, Len(history) + 1)

\* As long as no record failed to be stored, the alarm history of a session
\* alternates between raised and cleared, whatever scans were lost and however
\* often the PLC was reconnected, and between two scans it ends with the alarm
\* state the store holds (recordAlarmChanges), except for a change swallowed by
\* an update that was refused half way.  Read in pages of any size it is complete
\* and in order (List).
HistoryAgreesWithStore ==
    /\ \A limit \in 1..2 : ReadInPages(limit) = history
    /\ ~ghost.dropped =>
        \A p \in Alarms :
            /\ \A i \in PlacesOf(p) : history[i].kind = IF RaisedBefore(p, i) THEN "CLEARED" ELSE "RAISED"
            /\ sess.current /\ worker.pc = "idle" /\ p \notin ghost.swallowed /\ store[p].quality = "good"
               => LastIsRaised(p) = alarmActive(store[p])

\* A command the page takes as done was confirmed by the worker, although the
\* page stops waiting after a while and late results of earlier commands arrive
\* during later ones (PointCommandReceipt).
ConfirmedByWorker == page.confirmed \subseteq ghost.succeeded

\* When the page takes a command as done, the feedback that confirmed it has
\* been shown meanwhile: results never overtake the change they report
\* (handleCommand, handlePointCommand's reply goroutine).
ConfirmedWasShown ==
    [][\A id \in page'.confirmed \ page.confirmed :
          ghost.missed \/ Head(queue).values[Written] \in page.shown]_vars

\* While the connection lasts every command the page has sent is in exactly one
\* place on the way to its answer: none is lost or answered twice, also when the
\* worker that holds it is replaced (TrySubmit, reply, rejectQueued, the reply
\* goroutines).
EveryCommandAnsweredOnce ==
    ~closed =>
        \A id \in 1..used.commands :
            Cardinality({i \in DOMAIN worker.commands : worker.commands[i].id = id})
            + Cardinality({m \in replies : m.id = id})
            + Cardinality({i \in DOMAIN queue : queue[i].id = id})
            + (IF worker.cmd = id THEN 1 ELSE 0)
            + (IF id \in ghost.answered THEN 1 ELSE 0) = 1
=============================================================================
