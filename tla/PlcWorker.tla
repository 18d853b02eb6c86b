----------------------------- MODULE PlcWorker -----------------------------
(***************************************************************************)
(* The PLC worker of block-agent (internal/plcworker/worker.go): the one   *)
(* goroutine of an HMI session that owns the PLC connection.  It scans all *)
(* readable points batch by batch, publishes every scan as one complete    *)
(* snapshot, executes queued point commands between scans, and on          *)
(* cancellation drains its queue before it reports Done.                   *)
(*                                                                         *)
(* The environment is everything that runs beside that goroutine: the HMI  *)
(* submitting commands (TrySubmit), the runtime cancelling the context,    *)
(* the poll timer elapsing, the PLC program changing a point on its own,   *)
(* and every outcome of an adapter call.                                   *)
(***************************************************************************)
EXTENDS Naturals, Sequences

CONSTANTS
    Points,               \* configured pointIds
    Readable,             \* points with access # "write"
    Numeric,              \* points whose type is not bool
    Mode,                 \* write.mode of a point, "none" for access "read"
    WritePoint,           \* writePoint of a writable point
    ReadPoint,            \* readPoint of a point, NoPoint when empty
    Active, Default,      \* write.activeValue and write.defaultValue
    Batches,              \* number of FC03 batches of the scan plan
    BatchOf,              \* the batch a readable point's words are in
    Moving,               \* readable points the PLC program changes on its own
    Values,               \* point values
    NoValue,              \* Go nil: no factual value yet
    NoPoint,              \* the empty readPoint
    Commands,             \* the [point, action, value] the HMI may submit
    CommandQueueCapacity, \* 64 in the code
    MaxSubmits            \* model bound on TrySubmit calls

ASSUME ConfigAssumption ==
    /\ Readable \subseteq Points
    /\ Numeric \subseteq Points
    /\ Moving \subseteq Readable
    /\ NoPoint \notin Points
    /\ NoValue \notin Values
    /\ Mode \in [Points -> {"none", "set", "pulse", "momentary", "toggle"}]
    /\ WritePoint \in [Points -> Points]
    \* Validate: a readPoint that names a point names a readable one; that of a
    \* write-only point is empty or blanks, which name none.
    /\ DOMAIN ReadPoint = Points
    /\ \A p \in Points : ReadPoint[p] \in Points => ReadPoint[p] \in Readable
    /\ Active \in [Points -> Values]
    /\ Default \in [Points -> Values]
    /\ Batches \in Nat
    /\ BatchOf \in [Readable -> 1..Batches]
    /\ CommandQueueCapacity \in Nat \ {0}
    /\ MaxSubmits \in Nat

\* The HMI's commands: any point, any action, a value only for "set".
ASSUME CommandAssumption ==
    Commands \subseteq [point : Points \cup {NoPoint},
                        action : {"set", "pulse", "press", "release", "toggle"},
                        value : Values \cup {NoValue}]

VARIABLES
    cancelled,    \* the worker's context is done
    stopping,     \* Worker.stopping, guarded by lifeMu
    queue,        \* Worker.commands
    pc,           \* where the goroutine is in Run
    cur,          \* the request being handled
    result,       \* the Result execute has decided on
    target,       \* execute's local target of a toggle
    scan,         \* locals of the running readAll
    disconnected, \* Worker.disconnected
    last,         \* Worker.last
    published,    \* the last snapshot handed to publish
    notified,     \* the connection state last reported through onDisconnect/onReconnect
    ready,        \* Ready() has been signalled (RuntimeSession models with which result)
    timer,        \* pollTimer: stopped or drained, running, or elapsed
    plc,          \* the PLC's own memory (external)
    replies,      \* ids of the requests answered on their reply channel, in order
    submits,      \* number of TrySubmit calls, bounded by MaxSubmits
    admitted,     \* history: number of admitted commands
    seen,         \* history: the last value really read from each point
    drifted,      \* history: the PLC moved since the write of the command in hand
    pulseHigh,    \* history: an acknowledged pulse level nobody tried to clear yet
    lateStarts,   \* history: commands started after cancellation
    tickFresh     \* history: the timer elapsed after the last complete scan

hmiVars == <<queue, submits, admitted>>
cmdVars == <<cur, result, target, replies>>
readVars == <<scan, disconnected, last, published, notified, seen>>
lifeVars == <<cancelled, stopping, ready>>
pulseVars == <<plc, drifted, pulseHigh>>
timeVars == <<timer, tickFresh>>
vars == <<hmiVars, cmdVars, readVars, lifeVars, pulseVars, timeVars, pc, lateStarts>>

-----------------------------------------------------------------------------
(* Values and records. *)

\* pointstore.PointValue; quality "none" marks a point absent from a map.
PointValue == [value : Values \cup {NoValue}, quality : {"none", "good", "error", "stale"}]
Absent == [value |-> NoValue, quality |-> "none"]
NoSnapshot == [p \in Readable |-> Absent]

Request == [id : Nat, point : Points \cup {NoPoint},
            action : {"none", "set", "pulse", "press", "release", "toggle"},
            value : Values \cup {NoValue}]
NoRequest == [id |-> 0, point |-> NoPoint, action |-> "none", value |-> NoValue]

Codes == {"OK", "POINT_NOT_FOUND", "POINT_NOT_WRITABLE", "INVALID_REQUEST",
          "PLC_WRITE_FAILED", "PLC_READ_FAILED", "POINT_STATE_UNEXPECTED"}
Result == [code : Codes, actual : Values \cup {NoValue}]
failure(code) == [code |-> code, actual |-> NoValue]

Reasons == {"initial", "poll", "toggle", "confirm", "writeFailed"}
Scan == [why : Reasons, batch : Nat, values : [Readable -> PointValue], err : BOOLEAN, newly : BOOLEAN]
NoScan == [why |-> "poll", batch |-> 0, values |-> NoSnapshot, err |-> FALSE, newly |-> FALSE]

\* The value with its quality replaced, as failureValues and staleValues do:
\* a value that was read once is kept, one that never was stays nil.
Degraded(pv, quality) == [pv EXCEPT !.quality = quality]

\* Can a write of the adapter report success, fail with the PLC untouched, or
\* fail although the PLC took it (a lost or late answer)?  All three (external).
WriteOutcomes == {[ack |-> TRUE, applied |-> TRUE], [ack |-> FALSE, applied |-> TRUE],
                  [ack |-> FALSE, applied |-> FALSE]}

-----------------------------------------------------------------------------
(* Local validation in execute, before any adapter call. *)

allowsAction(point, action) ==
    \/ Mode[point] = "set" /\ action = "set"
    \/ Mode[point] = "pulse" /\ action = "pulse"
    \/ Mode[point] = "momentary" /\ action \in {"press", "release"}
    \/ Mode[point] = "toggle" /\ action = "toggle"

\* The code of the early return execute takes, "OK" when it goes on to the PLC.
LocalCheck(c) ==
    IF c.point \notin Points THEN "POINT_NOT_FOUND"
    ELSE IF ~allowsAction(c.point, c.action) THEN "POINT_NOT_WRITABLE"
    ELSE IF \/ ReadPoint[c.point] \notin Points \cup {NoPoint}
            \/ c.point \in Numeric /\ c.action # "set"
            \/ c.action = "set" /\ c.value = NoValue
            \/ c.action = "toggle" /\ ReadPoint[c.point] = NoPoint
         THEN "INVALID_REQUEST"
    ELSE "OK"

\* The level the first write of a command carries (a toggle decides later).
FirstLevel(c) ==
    IF c.action = "set" THEN c.value
    ELSE IF c.action = "release" THEN Default[c.point]
    ELSE Active[c.point]

\* The opposite of the fed-back level; NoValue when it is neither level.
ToggleTarget(c, current) ==
    IF current = Active[c.point] THEN Default[c.point]
    ELSE IF current = Default[c.point] THEN Active[c.point]
    ELSE NoValue

-----------------------------------------------------------------------------
(* The HMI, the runtime, the clock and the PLC. *)

\* Mutant: the FIFO's capacity is not checked.
TrySubmitUnbounded(c) ==
    /\ submits < MaxSubmits
    /\ submits' = submits + 1
    /\ ~stopping
    /\ admitted' = admitted + 1
    /\ queue' = Append(queue, [id |-> admitted + 1, point |-> c.point,
                               action |-> c.action, value |-> c.value])
    /\ UNCHANGED <<cmdVars, readVars, lifeVars, pulseVars, timeVars, pc, lateStarts>>

\* TrySubmit: refused when stopping, refused when the FIFO is full, else queued.
TrySubmit(c) ==
    /\ submits < MaxSubmits
    /\ submits' = submits + 1
    /\ \/ /\ ~stopping
          /\ Len(queue) < CommandQueueCapacity
          /\ admitted' = admitted + 1
          /\ queue' = Append(queue, [id |-> admitted + 1, point |-> c.point,
                                     action |-> c.action, value |-> c.value])
       \/ /\ stopping \/ Len(queue) = CommandQueueCapacity
          /\ UNCHANGED <<queue, admitted>>
    /\ UNCHANGED <<cmdVars, readVars, lifeVars, pulseVars, timeVars, pc, lateStarts>>

\* The runtime cancels the worker's context.
Cancel ==
    /\ ~cancelled
    /\ cancelled' = TRUE
    /\ UNCHANGED <<hmiVars, cmdVars, readVars, stopping, ready, pulseVars, timeVars, pc, lateStarts>>

TimerElapses ==
    /\ timer = "running"
    /\ timer' = "elapsed"
    /\ tickFresh' = TRUE
    /\ UNCHANGED <<hmiVars, cmdVars, readVars, lifeVars, pulseVars, pc, lateStarts>>

\* The PLC program changes one of its points.
PlcMoves(p, v) ==
    /\ plc[p] # v
    /\ plc' = [plc EXCEPT ![p] = v]
    /\ drifted' = (cur # NoRequest)
    /\ UNCHANGED <<hmiVars, cmdVars, readVars, lifeVars, pulseHigh, timeVars, pc, lateStarts>>

-----------------------------------------------------------------------------
(* readAll. *)

BeginScan(why) ==
    /\ pc' = "scan"
    /\ scan' = [why |-> why, batch |-> 1, values |-> NoSnapshot, err |-> FALSE, newly |-> FALSE]

InBatch(p) == BatchOf[p] = scan.batch

\* goodValues: what this FC03 answered, also remembered in last.
ReadBatchOk ==
    /\ pc = "scan"
    /\ scan.batch <= Batches
    /\ LET good(p) == [value |-> plc[p], quality |-> "good"]
       IN  /\ scan' = [scan EXCEPT !.batch = @ + 1,
                                   !.values = [p \in Readable |-> IF InBatch(p) THEN good(p) ELSE @[p]]]
           /\ last' = [p \in Readable |-> IF InBatch(p) THEN good(p) ELSE last[p]]
    /\ seen' = [p \in Readable |-> IF InBatch(p) THEN plc[p] ELSE seen[p]]
    /\ UNCHANGED <<hmiVars, cmdVars, disconnected, published, notified, lifeVars, pulseVars, timeVars, pc, lateStarts>>

\* Mutant: a transport failure is not remembered as a new disconnect.
FailBatchUnnoticed(nowDisconnected, nextBatch) ==
    LET quality == IF nowDisconnected THEN "stale" ELSE "error"
        failed(p) == Degraded(last[p], quality)
    IN  /\ scan' = [scan EXCEPT !.batch = nextBatch, !.err = TRUE,
                                !.values = [p \in Readable |-> IF InBatch(p) THEN failed(p) ELSE @[p]]]
        /\ last' = [p \in Readable |-> IF InBatch(p) THEN failed(p) ELSE last[p]]
        /\ disconnected' = nowDisconnected

\* failureValues: the batch keeps its old values with a degraded quality.
FailBatch(nowDisconnected, nextBatch) ==
    LET quality == IF nowDisconnected THEN "stale" ELSE "error"
        failed(p) == Degraded(last[p], quality)
    IN  /\ scan' = [scan EXCEPT !.batch = nextBatch,
                                !.values = [p \in Readable |-> IF InBatch(p) THEN failed(p) ELSE @[p]],
                                !.err = TRUE,
                                !.newly = @ \/ (nowDisconnected /\ ~disconnected)]
        /\ last' = [p \in Readable |-> IF InBatch(p) THEN failed(p) ELSE last[p]]
        /\ disconnected' = nowDisconnected

\* An FC03 exception, a timeout on a live connection or a short answer.
ReadBatchError ==
    /\ pc = "scan"
    /\ scan.batch <= Batches
    /\ FailBatch(disconnected, scan.batch + 1)
    /\ UNCHANGED <<hmiVars, cmdVars, published, notified, seen, lifeVars, pulseVars, timeVars, pc, lateStarts>>

\* ErrTransportDisconnected: mark it and do not redial for the other batches.
ReadBatchDisconnected ==
    /\ pc = "scan"
    /\ scan.batch <= Batches
    /\ FailBatch(TRUE, Batches + 1)
    /\ UNCHANGED <<hmiVars, cmdVars, published, notified, seen, lifeVars, pulseVars, timeVars, pc, lateStarts>>

\* Mutant: only the batches that were tried are published.
FinalValuesPartial == scan.values

\* The snapshot readAll publishes: after a failed scan of a disconnected worker
\* every readable point, not only the batches tried, is published as stale.
FinalValues ==
    IF scan.err /\ disconnected THEN [p \in Readable |-> Degraded(last[p], "stale")]
    ELSE scan.values

FinalLast ==
    IF scan.err /\ disconnected THEN [p \in Readable |-> Degraded(last[p], "stale")]
    ELSE last

\* What the caller of readAll does with (values, err).
AfterScan(values, err) ==
    LET read == ReadPoint[cur.point]
        flipped == ToggleTarget(cur, values[read].value)
        Decide(r) == result' = r /\ pc' = "reply" /\ UNCHANGED <<ready, timer, target>>
    IN  \/ /\ scan.why = "initial"
           /\ ready' = TRUE
           /\ timer' = "running"
           /\ pc' = "loop"
           /\ UNCHANGED <<result, target>>
        \/ /\ scan.why = "poll"
           /\ timer' = "running"
           /\ pc' = "loop"
           /\ UNCHANGED <<result, ready, target>>
        \/ /\ scan.why = "writeFailed"
           /\ pc' = "reply"
           /\ UNCHANGED <<result, ready, timer, target>>
        \/ /\ scan.why = "confirm"
           /\ Decide(IF err \/ read \notin Readable \cup {NoPoint} THEN failure("PLC_READ_FAILED")
                     ELSE [code |-> "OK", actual |-> IF read = NoPoint THEN NoValue ELSE values[read].value])
        \/ /\ scan.why = "toggle"
           /\ err \/ read \notin Readable \/ flipped = NoValue
           /\ Decide(failure(IF err \/ read \notin Readable THEN "PLC_READ_FAILED" ELSE "POINT_STATE_UNEXPECTED"))
        \/ /\ scan.why = "toggle"
           /\ ~err /\ read \in Readable /\ flipped # NoValue
           /\ target' = flipped
           /\ pc' = "flip"
           /\ UNCHANGED <<result, ready, timer>>

\* End of readAll: markConnected after a clean scan, publish (which may itself
\* fail), notify, return.
FinishScan ==
    /\ pc = "scan"
    /\ scan.batch > Batches
    /\ disconnected' = (disconnected /\ scan.err)
    /\ last' = FinalLast
    /\ published' = FinalValues
    /\ notified' = IF scan.newly THEN "disconnected"
                   ELSE IF disconnected /\ ~scan.err THEN "connected"
                   ELSE notified
    /\ \E publishFails \in BOOLEAN : AfterScan(FinalValues, scan.err \/ publishFails)
    /\ scan' = NoScan
    /\ tickFresh' = FALSE
    /\ UNCHANGED <<hmiVars, cur, replies, cancelled, stopping, seen, pulseVars, lateStarts>>

-----------------------------------------------------------------------------
(* Run's loop. *)

Start ==
    /\ pc = "start"
    /\ \/ cancelled /\ pc' = "exit" /\ UNCHANGED scan
       \/ ~cancelled /\ BeginScan("initial")
    /\ UNCHANGED <<hmiVars, cmdVars, disconnected, last, published, notified, seen,
                   lifeVars, pulseVars, timeVars, lateStarts>>

\* Mutant: the loop does not look at the context.
CheckContextSkipped ==
    /\ pc = "loop"
    /\ pc' = "prefer"
    /\ UNCHANGED <<hmiVars, cmdVars, readVars, lifeVars, pulseVars, timeVars, lateStarts>>

CheckContext ==
    /\ pc = "loop"
    /\ pc' = IF cancelled THEN "exit" ELSE "prefer"
    /\ UNCHANGED <<hmiVars, cmdVars, readVars, lifeVars, pulseVars, timeVars, lateStarts>>

Dequeue ==
    /\ queue # <<>>
    /\ cur' = Head(queue)
    /\ queue' = Tail(queue)
    /\ pc' = "exec"
    /\ lateStarts' = IF cancelled THEN lateStarts + 1 ELSE lateStarts
    /\ UNCHANGED <<submits, admitted, result, target, replies>>

\* The first, non-blocking select: a queued command goes first.
PreferCommand ==
    /\ pc = "prefer"
    /\ \/ Dequeue
       \/ queue = <<>> /\ pc' = "wait" /\ UNCHANGED <<hmiVars, cmdVars, lateStarts>>
    /\ UNCHANGED <<readVars, lifeVars, pulseVars, timeVars>>

\* The blocking select; Go picks any ready case.
Select ==
    /\ pc = "wait"
    /\ \/ cancelled /\ pc' = "exit" /\ UNCHANGED <<hmiVars, cmdVars, lateStarts, timer>>
       \/ Dequeue /\ UNCHANGED timer
       \/ timer = "elapsed" /\ timer' = "off" /\ pc' = "tick" /\ UNCHANGED <<hmiVars, cmdVars, lateStarts>>
    /\ UNCHANGED <<readVars, lifeVars, pulseVars, tickFresh>>

\* A tick still yields to a command that became ready with it.
Tick ==
    /\ pc = "tick"
    /\ \/ Dequeue /\ UNCHANGED scan
       \/ queue = <<>> /\ BeginScan("poll") /\ UNCHANGED <<hmiVars, cmdVars, lateStarts>>
    /\ UNCHANGED <<disconnected, last, published, notified, seen, lifeVars, pulseVars, timeVars>>

-----------------------------------------------------------------------------
(* execute. *)

RejectLocally ==
    /\ pc = "exec"
    /\ LocalCheck(cur) # "OK"
    /\ result' = failure(LocalCheck(cur))
    /\ pc' = "reply"
    /\ UNCHANGED <<hmiVars, cur, target, replies, readVars, lifeVars, pulseVars, timeVars, lateStarts>>

\* One write of the adapter, then what execute and handleCommand do with it: a
\* failure publishes a fresh scan before it is reported, success goes on.
Write(level, w, continue) ==
    /\ plc' = IF w.applied THEN [plc EXCEPT ![WritePoint[cur.point]] = level] ELSE plc
    /\ drifted' = IF w.ack THEN FALSE ELSE drifted
    /\ \/ w.ack /\ continue /\ UNCHANGED result
       \/ ~w.ack /\ result' = failure("PLC_WRITE_FAILED") /\ BeginScan("writeFailed")
    /\ UNCHANGED <<hmiVars, cur, replies, disconnected, last, published, notified, seen, lifeVars, timeVars, lateStarts>>

WriteFirst(w) ==
    /\ pc = "exec"
    /\ LocalCheck(cur) = "OK"
    /\ cur.action # "toggle"
    /\ Write(FirstLevel(cur), w,
             IF cur.action = "pulse" THEN pc' = "hold" /\ UNCHANGED scan ELSE BeginScan("confirm"))
    /\ pulseHigh' = (cur.action = "pulse" /\ w.ack)
    /\ UNCHANGED target

\* Mutant: the clear carries the active level again.
ClearPulseWrongLevel(w) ==
    /\ pc = "hold"
    /\ Write(Active[cur.point], w, BeginScan("confirm"))
    /\ pulseHigh' = FALSE
    /\ UNCHANGED target

\* Mutant: a cancelled session skips the clear.
ClearPulseUnlessCancelled(w) ==
    /\ pc = "hold"
    /\ IF cancelled
       THEN /\ BeginScan("confirm")
            /\ UNCHANGED <<hmiVars, cmdVars, disconnected, last, published, notified, seen,
                           lifeVars, pulseVars, timeVars, lateStarts>>
       ELSE Write(Default[cur.point], w, BeginScan("confirm")) /\ pulseHigh' = FALSE /\ UNCHANGED target

\* The pulse's hold time ends and the default level is written, whatever
\* happened to the session meanwhile.
ClearPulse(w) ==
    /\ pc = "hold"
    /\ Write(Default[cur.point], w, BeginScan("confirm"))
    /\ pulseHigh' = FALSE
    /\ UNCHANGED target

ReadToggle ==
    /\ pc = "exec"
    /\ LocalCheck(cur) = "OK"
    /\ cur.action = "toggle"
    /\ BeginScan("toggle")
    /\ UNCHANGED <<hmiVars, cmdVars, disconnected, last, published, notified, seen,
                   lifeVars, pulseVars, timeVars, lateStarts>>

WriteToggle(w) ==
    /\ pc = "flip"
    /\ Write(target, w, BeginScan("confirm"))
    /\ UNCHANGED <<pulseHigh, target>>

\* Mutant: an elapsed tick survives the command's own read.
ReplyKeepsTick ==
    /\ pc = "reply"
    /\ timer' = IF timer = "elapsed" THEN timer ELSE "running"
    /\ replies' = Append(replies, cur.id)
    /\ cur' = NoRequest
    /\ result' = failure("OK")
    /\ target' = NoValue
    /\ pulseHigh' = FALSE
    /\ drifted' = FALSE
    /\ pc' = "loop"
    /\ UNCHANGED <<hmiVars, readVars, lifeVars, plc, tickFresh, lateStarts>>


\* handleCommand's last two lines: rearm the timer, dropping an elapsed tick,
\* and answer.
Reply ==
    /\ pc = "reply"
    /\ timer' = "running"
    /\ replies' = Append(replies, cur.id)
    /\ cur' = NoRequest
    /\ result' = failure("OK")
    /\ target' = NoValue
    /\ pulseHigh' = FALSE
    /\ drifted' = FALSE
    /\ pc' = "loop"
    /\ UNCHANGED <<hmiVars, readVars, lifeVars, plc, tickFresh, lateStarts>>

-----------------------------------------------------------------------------
(* Run's deferred calls, in the order they run. *)

\* pollTimer.Stop, the late ready signal and stopAdmitting.
StopAdmitting ==
    /\ pc = "exit"
    /\ timer' = "off"
    /\ ready' = TRUE
    /\ stopping' = TRUE
    /\ pc' = "drain"
    /\ UNCHANGED <<hmiVars, cmdVars, readVars, cancelled, pulseVars, tickFresh, lateStarts>>

\* rejectQueued answers SERVICE_STOPPING, one request at a time.
RejectQueued ==
    /\ pc = "drain"
    /\ queue # <<>>
    /\ replies' = Append(replies, Head(queue).id)
    /\ queue' = Tail(queue)
    /\ UNCHANGED <<submits, admitted, cur, result, target, readVars, lifeVars, pulseVars, timeVars,
                   pc, lateStarts>>

\* Mutant: Done is closed without draining the queue.
CloseUndrained ==
    /\ pc = "drain"
    /\ pc' = "done"
    /\ UNCHANGED <<hmiVars, cmdVars, readVars, lifeVars, pulseVars, timeVars, lateStarts>>

\* Close done and the adapter.
Close ==
    /\ pc = "drain"
    /\ queue = <<>>
    /\ pc' = "done"
    /\ UNCHANGED <<hmiVars, cmdVars, readVars, lifeVars, pulseVars, timeVars, lateStarts>>

\* Called by handlePLCDisconnect once Done is closed: a complete stale snapshot,
\* unless the worker already knew it was disconnected, and the handler unless
\* publish fails.
ConfirmDisconnected ==
    /\ pc = "done"
    /\ ~disconnected
    /\ disconnected' = TRUE
    /\ last' = [p \in Readable |-> Degraded(last[p], "stale")]
    /\ published' = [p \in Readable |-> Degraded(last[p], "stale")]
    /\ notified' \in {notified, "disconnected"}
    /\ UNCHANGED <<hmiVars, cmdVars, scan, seen, lifeVars, pulseVars, timeVars, pc, lateStarts>>

-----------------------------------------------------------------------------
Init ==
    /\ cancelled = FALSE
    /\ stopping = FALSE
    /\ queue = <<>>
    /\ pc = "start"
    /\ cur = NoRequest
    /\ result = failure("OK")
    /\ target = NoValue
    /\ scan = NoScan
    /\ disconnected = FALSE
    /\ last = NoSnapshot
    /\ published = NoSnapshot
    /\ notified = "connected"
    /\ ready = FALSE
    /\ timer = "off"
    /\ plc = [p \in Points |-> Default[p]]
    /\ replies = <<>>
    /\ submits = 0
    /\ admitted = 0
    /\ seen = [p \in Readable |-> NoValue]
    /\ drifted = FALSE
    /\ pulseHigh = FALSE
    /\ lateStarts = 0
    /\ tickFresh = FALSE

ReadBatch == ReadBatchOk \/ ReadBatchError \/ ReadBatchDisconnected

Execute ==
    \/ RejectLocally
    \/ ReadToggle
    \/ \E w \in WriteOutcomes : WriteFirst(w) \/ ClearPulse(w) \/ WriteToggle(w)

\* The goroutine's own steps.
Run ==
    \/ Start \/ CheckContext \/ PreferCommand \/ Select \/ Tick
    \/ ReadBatch \/ FinishScan
    \/ Execute \/ Reply
    \/ StopAdmitting \/ RejectQueued \/ Close

Next ==
    \/ Run
    \/ Cancel
    \/ TimerElapses
    \/ ConfirmDisconnected
    \/ \E c \in Commands : TrySubmit(c)
    \/ \E p \in Moving, v \in Values : PlcMoves(p, v)

Spec == Init /\ [][Next]_vars

\* Every adapter call is bounded by its two second context, so the goroutine
\* always reaches its next step; a running timer elapses.
FairSpec == Spec /\ WF_vars(Run) /\ WF_vars(TimerElapses)

-----------------------------------------------------------------------------
(* What the worker promises. *)

HmiTyped ==
    /\ queue \in Seq(Request)
    /\ Len(queue) <= CommandQueueCapacity
    /\ submits \in 0..MaxSubmits
    /\ admitted \in Nat

CmdTyped ==
    /\ cur \in Request
    /\ result \in Result
    /\ target \in Values \cup {NoValue}
    /\ replies \in Seq(Nat)

ReadTyped ==
    /\ scan \in Scan
    /\ disconnected \in BOOLEAN
    /\ last \in [Readable -> PointValue]
    /\ published \in [Readable -> PointValue]
    /\ notified \in {"connected", "disconnected"}
    /\ seen \in [Readable -> Values \cup {NoValue}]

LifeTyped ==
    /\ cancelled \in BOOLEAN
    /\ stopping \in BOOLEAN
    /\ ready \in BOOLEAN

PulseTyped ==
    /\ plc \in [Points -> Values]
    /\ drifted \in BOOLEAN
    /\ pulseHigh \in BOOLEAN

TimeTyped ==
    /\ timer \in {"off", "running", "elapsed"}
    /\ tickFresh \in BOOLEAN

\* Every variable keeps its type; in particular the command FIFO never holds more
\* than its capacity, whoever submits (TrySubmit's non-blocking send).
TypeOK ==
    /\ HmiTyped /\ CmdTyped /\ ReadTyped /\ LifeTyped /\ PulseTyped /\ TimeTyped
    /\ pc \in {"start", "scan", "loop", "prefer", "wait", "tick", "exec", "hold", "flip", "reply",
              "exit", "drain", "done"}
    /\ lateStarts \in Nat

\* A request is in hand between its dequeue and its reply.
Handling == cur # NoRequest
InHand == IF Handling THEN 1 ELSE 0

\* Every admitted command is in exactly one place, in admission order: the
\* replies sent so far, then the command in hand, then the queue.  No command
\* is lost, answered twice or overtaken, cancellation and draining included, and
\* once Done is closed nothing is left unanswered (TrySubmit, Run, rejectQueued).
Pipeline ==
    /\ admitted = Len(replies) + InHand + Len(queue)
    /\ \A i \in 1..Len(replies) : replies[i] = i
    /\ Handling => cur.id = Len(replies) + 1
    /\ \A i \in 1..Len(queue) : queue[i].id = Len(replies) + InHand + i
    /\ pc = "done" => stopping /\ admitted = Len(replies)

\* Every snapshot handed to publish holds every readable point, also when a
\* transport failure cut the scan short, and outside a running scan each of its
\* values is the last one really read from the PLC: degrading the quality neither
\* fabricates nor forgets a value (readAll, staleValues, failureValues).
SnapshotHonest ==
    /\ published = NoSnapshot \/ \A p \in Readable : published[p].quality # "none"
    /\ pc # "scan" => \A p \in Readable : published[p].value = seen[p]

\* Outside a running scan the connection state, the qualities published last and,
\* while the goroutine runs, the last handler called agree: all points stale and
\* onDisconnect called while disconnected, no point stale and no unreported loss
\* while connected (readAll, markDisconnected, markConnected, staleValues).
ConnectionStateAgrees ==
    pc # "scan" =>
        /\ pc # "done" => (notified = "disconnected" <=> disconnected)
        /\ \A p \in Readable : published[p].quality # "none" =>
              (published[p].quality = "stale" <=> disconnected)

\* When the command's own point is the one read back and the PLC did not move on
\* its own, a successful reply carries the level the command asked for.
SuccessIsReadBack ==
    (pc = "reply" /\ result.code = "OK" /\ ~drifted /\ WritePoint[cur.point] = ReadPoint[cur.point])
        => result.actual = CASE cur.action = "set" -> cur.value
                             [] cur.action = "press" -> Active[cur.point]
                             [] cur.action = "toggle" -> target
                             [] OTHER -> Default[cur.point]

\* Cancelling the session lets at most one more command start: the one taken by
\* the select that raced the cancellation (Run checks the context every turn).
OneLateStartAtMost == lateStarts <= 1

\* Once the active level of a pulse was acknowledged, a clear is attempted before
\* the worker does anything else, even when the session was cancelled meanwhile.
PulseClearAttempted == pulseHigh => pc = "hold"

\* An ordinary poll never repeats a read: it runs only after the timer elapsed
\* again since the last complete scan (handleCommand discards the elapsed tick).
NoDuplicatePoll == (pc = "scan" /\ scan.why = "poll") => tickFresh

=============================================================================
