--------------------------- MODULE PlcWorkerProofs ---------------------------
(***************************************************************************)
(* Proofs about the PLC worker for every point table, queue capacity and   *)
(* number of commands.  The inductive invariant adds to the type invariant *)
(* where the goroutine holds a request (Control): without it the step that *)
(* starts or ends a command cannot be shown to keep Pipeline.  The other   *)
(* safety properties have invariants of their own (LateInv, TickInv,       *)
(* SnapInv, BackInv) on top of it.                                         *)
(***************************************************************************)
EXTENDS PlcWorker, TLAPS

\* The program points at which a dequeued request is in hand.
HoldsRequest ==
    \/ pc \in {"exec", "hold", "flip", "reply"}
    \/ pc = "scan" /\ scan.why \in {"toggle", "confirm", "writeFailed"}

\* The program points behind execute's local checks.
PastChecks ==
    \/ pc \in {"hold", "flip"}
    \/ pc = "scan" /\ scan.why \in {"toggle", "confirm"}

Control ==
    /\ Handling <=> HoldsRequest
    /\ PastChecks => LocalCheck(cur) = "OK"
    /\ pc = "flip" => target # NoValue
    /\ stopping <=> pc \in {"drain", "done"}
    /\ pc = "done" => queue = <<>>

IInv == TypeOK /\ Control /\ Pipeline

-----------------------------------------------------------------------------
(* The operators the actions are built from. *)

LEMMA DegradedType ==
    ASSUME NEW pv \in PointValue, NEW q \in {"good", "error", "stale"}
    PROVE  Degraded(pv, q) \in PointValue
  BY DEF Degraded, PointValue

LEMMA LocalCheckType == \A c \in Request : LocalCheck(c) \in Codes
  BY DEF LocalCheck, Codes

\* Behind the local checks the point is configured and the first level is a value.
LEMMA CheckedCommand ==
    ASSUME NEW c \in Request, LocalCheck(c) = "OK"
    PROVE  c.point \in Points /\ FirstLevel(c) \in Values
  <1>1. c.point \in Points
    BY DEF LocalCheck
  <1>2. c.action = "set" => c.value \in Values
    BY DEF LocalCheck, Request
  <1> QED
    BY <1>1, <1>2, ConfigAssumption DEF FirstLevel

LEMMA ToggleTargetType ==
    ASSUME NEW c \in Request, c.point \in Points, NEW v
    PROVE  ToggleTarget(c, v) \in Values \cup {NoValue}
  BY ConfigAssumption DEF ToggleTarget

\* The records that stand for "nothing" belong to their types.
LEMMA NothingType ==
    /\ NoSnapshot \in [Readable -> PointValue]
    /\ NoRequest \in Request
    /\ NoScan \in Scan
  <1>1. NoSnapshot \in [Readable -> PointValue]
    BY DEF NoSnapshot, Absent, PointValue
  <1>2. NoRequest \in Request
    BY DEF NoRequest, Request
  <1> QED
    BY <1>1, <1>2 DEF NoScan, Scan, Reasons

LEMMA FailureType == \A code \in Codes : failure(code) \in Result
  BY DEF failure, Result

\* A group of variables that does not change keeps its type.
LEMMA FrameTyped ==
    ASSUME TypeOK
    PROVE  /\ UNCHANGED hmiVars => HmiTyped'
           /\ UNCHANGED cmdVars => CmdTyped'
           /\ UNCHANGED readVars => ReadTyped'
           /\ UNCHANGED lifeVars => LifeTyped'
           /\ UNCHANGED pulseVars => PulseTyped'
           /\ UNCHANGED timeVars => TimeTyped'
           /\ UNCHANGED lateStarts => (lateStarts \in Nat)'
  BY DEF TypeOK, HmiTyped, CmdTyped, ReadTyped, LifeTyped, PulseTyped, TimeTyped,
     hmiVars, cmdVars, readVars, lifeVars, pulseVars, timeVars

-----------------------------------------------------------------------------
(* The initial state and the steps of the environment. *)

LEMMA InitIInv == Init => IInv
  <1> SUFFICES ASSUME Init PROVE IInv
    OBVIOUS
  <1>1. TypeOK
    <2>1. failure("OK") \in Result
      BY FailureType DEF Codes
    <2>2. HmiTyped
      BY ConfigAssumption DEF Init, HmiTyped
    <2>3. CmdTyped
      BY <2>1, NothingType DEF Init, CmdTyped
    <2>4. ReadTyped
      <3>1. disconnected \in BOOLEAN
        BY Zenon DEF Init
      <3> QED
        BY <3>1, NothingType DEF Init, ReadTyped
    <2>5. LifeTyped
      BY Zenon DEF Init, LifeTyped
    <2>6. PulseTyped
      <3>1. drifted \in BOOLEAN /\ pulseHigh \in BOOLEAN
        BY Zenon DEF Init
      <3>2. plc \in [Points -> Values]
        BY ConfigAssumption DEF Init
      <3> QED
        BY <3>1, <3>2 DEF PulseTyped
    <2>7. TimeTyped
      BY Zenon DEF Init, TimeTyped
    <2> QED
      BY <2>2, <2>3, <2>4, <2>5, <2>6, <2>7 DEF TypeOK, Init
  <1>2. Control /\ Pipeline
    BY DEF Init, Control, Pipeline, Handling, InHand, HoldsRequest, PastChecks, NoRequest
  <1> QED
    BY <1>1, <1>2 DEF IInv

\* Steps that move no request and do not close the worker keep Pipeline.
LEMMA PipelineFrame ==
    ASSUME Pipeline, UNCHANGED <<queue, admitted, cur, replies>>,
           pc' = "done" => pc = "done" /\ UNCHANGED stopping
    PROVE  Pipeline'
  BY DEF Pipeline, Handling, InHand

LEMMA ControlFrame ==
    ASSUME Control, UNCHANGED <<pc, cur, target, scan, stopping, queue>>
    PROVE  Control'
  BY DEF Control, Handling, HoldsRequest, PastChecks

LEMMA TrySubmitIInv ==
    ASSUME IInv, NEW c \in Commands, TrySubmit(c)
    PROVE  IInv'
  <1> DEFINE r == [id |-> admitted + 1, point |-> c.point, action |-> c.action, value |-> c.value]
  <1> USE DEF IInv
  <1>1. /\ r \in Request
        /\ queue \in Seq(Request)
        /\ admitted \in Nat
        /\ replies \in Seq(Nat)
        /\ r.id = admitted + 1
    BY CommandAssumption DEF TypeOK, HmiTyped, CmdTyped, Request
  <1> HIDE DEF r
  <1>2. TypeOK'
    <2>1. submits' \in 0..MaxSubmits
      BY ConfigAssumption DEF TypeOK, HmiTyped, TrySubmit
    <2>2. \/ queue' = Append(queue, r) /\ admitted' = admitted + 1 /\ Len(queue) < CommandQueueCapacity
          \/ queue' = queue /\ admitted' = admitted
      BY DEF TrySubmit, r
    <2>3. ASSUME queue' = Append(queue, r), admitted' = admitted + 1, Len(queue) < CommandQueueCapacity
          PROVE  HmiTyped'
      <3>1. queue' \in Seq(Request) /\ Len(queue') = Len(queue) + 1
        BY <1>1, <2>3
      <3>2. Len(queue') <= CommandQueueCapacity /\ admitted' \in Nat
        BY <1>1, <2>3, <3>1, ConfigAssumption
      <3> QED
        BY <2>1, <3>1, <3>2 DEF HmiTyped
    <2>4. ASSUME queue' = queue, admitted' = admitted
          PROVE  HmiTyped'
      BY <2>1, <2>4 DEF TypeOK, HmiTyped
    <2>5. HmiTyped'
      BY <2>2, <2>3, <2>4
    <2> QED
      BY <2>5, FrameTyped DEF TypeOK, TrySubmit
  <1>3. CASE queue' = Append(queue, r) /\ admitted' = admitted + 1 /\ ~stopping
    <2>1. Control'
      BY <1>1, <1>3 DEF TrySubmit, Control, Handling, HoldsRequest, PastChecks, cmdVars, readVars, lifeVars
    <2>2. Pipeline'
      <3>1. UNCHANGED <<cur, replies, pc, stopping>>
        BY DEF TrySubmit, cmdVars, lifeVars
      <3>2. /\ Len(queue') = Len(queue) + 1
            /\ \A i \in 1..Len(queue) : queue'[i] = queue[i]
            /\ queue'[Len(queue) + 1].id = admitted + 1
        BY <1>1, <1>3
      <3>3. InHand \in 0..1 /\ InHand' = InHand /\ Handling' = Handling
        BY <3>1 DEF InHand, Handling
      <3>4. admitted' = Len(replies') + InHand' + Len(queue')
        BY <1>1, <1>3, <3>1, <3>2, <3>3 DEF Pipeline
      <3>5. \A i \in 1..Len(queue') : queue'[i].id = Len(replies') + InHand' + i
        <4> SUFFICES ASSUME NEW i \in 1..Len(queue')
                     PROVE  queue'[i].id = Len(replies) + InHand + i
          BY <3>1, <3>3
        <4>1. CASE i \in 1..Len(queue)
          BY <4>1, <3>2 DEF Pipeline
        <4>2. CASE i = Len(queue) + 1
          BY <1>1, <4>2, <3>2, <3>3 DEF Pipeline
        <4> QED
          BY <1>1, <3>2, <4>1, <4>2
      <3>6. pc # "done"
        BY <1>3 DEF Control
      <3> QED
        BY <3>1, <3>3, <3>4, <3>5, <3>6 DEF Pipeline
    <2> QED
      BY <2>1, <2>2, <1>2
  <1>4. CASE UNCHANGED <<queue, admitted>>
    BY <1>2, <1>4, ControlFrame, PipelineFrame DEF TrySubmit, cmdVars, readVars, lifeVars
  <1> QED
    BY <1>3, <1>4 DEF TrySubmit, r

LEMMA CancelIInv == IInv /\ Cancel => IInv'
  <1> SUFFICES ASSUME IInv, Cancel PROVE IInv'
    OBVIOUS
  <1> USE DEF IInv
  <1>1. LifeTyped'
    BY Zenon DEF Cancel, TypeOK, LifeTyped
  <1> QED
    BY <1>1, FrameTyped, ControlFrame, PipelineFrame
    DEF Cancel, TypeOK, hmiVars, cmdVars, readVars

LEMMA TimerElapsesIInv == IInv /\ TimerElapses => IInv'
  <1> SUFFICES ASSUME IInv, TimerElapses PROVE IInv'
    OBVIOUS
  <1> USE DEF IInv
  <1>1. TimeTyped'
    BY Zenon DEF TimerElapses, TypeOK, TimeTyped
  <1> QED
    BY <1>1, FrameTyped, ControlFrame, PipelineFrame
    DEF TimerElapses, TypeOK, hmiVars, cmdVars, readVars, lifeVars

LEMMA PlcMovesIInv ==
    ASSUME IInv, NEW p \in Moving, NEW v \in Values, PlcMoves(p, v)
    PROVE  IInv'
  <1> USE DEF IInv
  <1>1. PulseTyped'
    <2>1. drifted' \in BOOLEAN /\ pulseHigh' \in BOOLEAN
      BY DEF PlcMoves, TypeOK, PulseTyped
    <2>2. plc' \in [Points -> Values]
      BY ConfigAssumption DEF PlcMoves, TypeOK, PulseTyped
    <2> QED
      BY <2>1, <2>2 DEF PulseTyped
  <1> QED
    BY <1>1, FrameTyped, ControlFrame, PipelineFrame
    DEF PlcMoves, TypeOK, hmiVars, cmdVars, readVars, lifeVars

LEMMA ConfirmDisconnectedIInv == IInv /\ ConfirmDisconnected => IInv'
  <1> SUFFICES ASSUME IInv, ConfirmDisconnected PROVE IInv'
    OBVIOUS
  <1> USE DEF IInv
  <1>1. ReadTyped'
    <2>1. disconnected' \in BOOLEAN
      BY Zenon DEF ConfirmDisconnected
    <2>2. \A p \in Readable : Degraded(last[p], "stale") \in PointValue
      BY DegradedType DEF TypeOK, ReadTyped
    <2> QED
      BY <2>1, <2>2 DEF ConfirmDisconnected, TypeOK, ReadTyped
  <1> QED
    BY <1>1, FrameTyped, ControlFrame, PipelineFrame
    DEF ConfirmDisconnected, TypeOK, hmiVars, cmdVars, lifeVars

-----------------------------------------------------------------------------
(* readAll. *)

\* Starting a scan gives a well-typed scan record.
LEMMA BeginScanTyped ==
    ASSUME NEW why \in Reasons, BeginScan(why)
    PROVE  scan' \in Scan /\ scan'.why = why /\ pc' = "scan"
  BY NothingType DEF BeginScan, Scan

LEMMA ReadBatchOkIInv == IInv /\ ReadBatchOk => IInv'
  <1> SUFFICES ASSUME IInv, ReadBatchOk PROVE IInv'
    OBVIOUS
  <1> USE DEF IInv
  <1> DEFINE good(p) == [value |-> plc[p], quality |-> "good"]
  <1>1. \A p \in Readable : good(p) \in PointValue /\ plc[p] \in Values
    BY ConfigAssumption DEF TypeOK, PulseTyped, PointValue
  <1>2. last' \in [Readable -> PointValue] /\ seen' \in [Readable -> Values \cup {NoValue}]
    BY <1>1 DEF ReadBatchOk, TypeOK, ReadTyped
  <1>3. scan' \in Scan /\ scan'.why = scan.why
    <2>1. scan' = [scan EXCEPT !.batch = @ + 1,
                               !.values = [p \in Readable |-> IF InBatch(p) THEN good(p) ELSE @[p]]]
      BY DEF ReadBatchOk
    <2> DEFINE values == [p \in Readable |-> IF InBatch(p) THEN good(p) ELSE scan.values[p]]
               batch == scan.batch + 1
    <2>2. scan \in Scan /\ values \in [Readable -> PointValue] /\ batch \in Nat
      BY <1>1 DEF TypeOK, ReadTyped, Scan
    <2>3. scan' = [scan EXCEPT !.batch = batch, !.values = values]
      BY <2>1
    <2> HIDE DEF values, batch
    <2> QED
      BY <2>2, <2>3 DEF Scan
  <1>4. ReadTyped'
    BY <1>2, <1>3 DEF ReadBatchOk, TypeOK, ReadTyped
  <1>5. Control'
    BY <1>3 DEF ReadBatchOk, Control, Handling, HoldsRequest, PastChecks, hmiVars, cmdVars, lifeVars
  <1> QED
    BY <1>4, <1>5, FrameTyped, PipelineFrame DEF ReadBatchOk, TypeOK, hmiVars, cmdVars, lifeVars

\* What a failed batch leaves behind, whatever the failure.
LEMMA FailBatchTyped ==
    ASSUME ReadTyped, NEW d \in BOOLEAN, NEW n \in Nat, FailBatch(d, n)
    PROVE  /\ scan' \in Scan
           /\ scan'.why = scan.why
           /\ last' \in [Readable -> PointValue]
           /\ disconnected' \in BOOLEAN
  <1> DEFINE failed(p) == Degraded(last[p], IF d THEN "stale" ELSE "error")
  <1>1. \A p \in Readable : failed(p) \in PointValue
    BY DegradedType DEF ReadTyped
  <1> HIDE DEF failed
  <1>2. last' = [p \in Readable |-> IF InBatch(p) THEN failed(p) ELSE last[p]]
    BY DEF FailBatch, failed
  <1>3. scan' = [scan EXCEPT !.batch = n,
                             !.values = [p \in Readable |-> IF InBatch(p) THEN failed(p) ELSE @[p]],
                             !.err = TRUE,
                             !.newly = @ \/ (d /\ ~disconnected)]
    BY DEF FailBatch, failed
  <1>4. scan' \in Scan /\ scan'.why = scan.why
    BY <1>1, <1>3 DEF ReadTyped, Scan
  <1>5. last' \in [Readable -> PointValue]
    BY <1>1, <1>2 DEF ReadTyped
  <1> QED
    BY <1>4, <1>5 DEF FailBatch

LEMMA ReadBatchFailsIInv == IInv /\ (ReadBatchError \/ ReadBatchDisconnected) => IInv'
  <1> SUFFICES ASSUME IInv, ReadBatchError \/ ReadBatchDisconnected PROVE IInv'
    OBVIOUS
  <1> USE DEF IInv
  <1>1. PICK d \in BOOLEAN, n \in Nat : FailBatch(d, n)
    <2>1. /\ disconnected \in BOOLEAN
          /\ scan.batch + 1 \in Nat
          /\ TRUE \in BOOLEAN
          /\ Batches + 1 \in Nat
      BY ConfigAssumption DEF TypeOK, ReadTyped, Scan
    <2> QED
      BY <2>1, Zenon DEF ReadBatchError, ReadBatchDisconnected
  <1>2. /\ scan' \in Scan
        /\ scan'.why = scan.why
        /\ last' \in [Readable -> PointValue]
        /\ disconnected' \in BOOLEAN
    BY <1>1, FailBatchTyped DEF TypeOK
  <1>3. /\ pc = "scan"
        /\ UNCHANGED <<hmiVars, cmdVars, published, notified, seen, lifeVars, pulseVars, timeVars, pc, lateStarts>>
    BY DEF ReadBatchError, ReadBatchDisconnected
  <1>4. ReadTyped'
    BY <1>2, <1>3 DEF TypeOK, ReadTyped
  <1>5. Control'
    BY <1>2, <1>3 DEF Control, Handling, HoldsRequest, PastChecks, hmiVars, cmdVars, lifeVars
  <1> QED
    BY <1>3, <1>4, <1>5, FrameTyped, PipelineFrame DEF TypeOK, hmiVars, cmdVars, lifeVars

\* The disjuncts of AfterScan end in the loop, in a reply or in the toggle's write.
LEMMA AfterScanControl ==
    ASSUME IInv, pc = "scan", NEW values \in [Readable -> PointValue], NEW err \in BOOLEAN,
           AfterScan(values, err)
    PROVE  /\ result' \in Result
           /\ target' \in Values \cup {NoValue}
           /\ ready' \in BOOLEAN
           /\ timer' \in {"off", "running", "elapsed"}
           /\ \/ pc' = "loop" /\ scan.why \in {"initial", "poll"}
              \/ pc' = "reply" /\ scan.why \in {"writeFailed", "confirm", "toggle"}
              \/ pc' = "flip" /\ scan.why = "toggle" /\ target' # NoValue
  <1> USE DEF IInv
  <1> DEFINE read == ReadPoint[cur.point]
             flipped == ToggleTarget(cur, values[read].value)
  <1>0. /\ result \in Result
        /\ target \in Values \cup {NoValue}
        /\ ready \in BOOLEAN
        /\ timer \in {"off", "running", "elapsed"}
        /\ cur \in Request
    BY DEF TypeOK, CmdTyped, LifeTyped, TimeTyped
  <1>1. ASSUME scan.why \in {"confirm", "toggle"}
        PROVE  cur.point \in Points
    BY <1>0, <1>1, CheckedCommand DEF Control, PastChecks
  <1>2. CASE scan.why = "initial"
    <2>1. ready' = TRUE /\ timer' = "running" /\ pc' = "loop" /\ UNCHANGED <<result, target>>
      BY <1>2 DEF AfterScan
    <2>2. ready' \in BOOLEAN
      BY <2>1, Zenon
    <2> QED
      BY <1>0, <1>2, <2>1, <2>2
  <1>3. CASE scan.why \in {"poll", "writeFailed"}
    BY <1>0, <1>3 DEF AfterScan
  <1>4. CASE scan.why = "confirm"
    <2> DEFINE missing == err \/ read \notin Readable \cup {NoPoint}
               r == IF missing THEN failure("PLC_READ_FAILED")
                    ELSE [code |-> "OK", actual |-> IF read = NoPoint THEN NoValue ELSE values[read].value]
    <2>1. ~missing => read \in Readable \cup {NoPoint}
      OBVIOUS
    <2>2. read \in Readable => values[read].value \in Values \cup {NoValue}
      BY DEF PointValue
    <2>3. r \in Result
      BY <2>1, <2>2 DEF failure, Result, Codes
    <2>4. result' = r /\ pc' = "reply" /\ UNCHANGED <<ready, timer, target>>
      BY <1>4 DEF AfterScan
    <2> QED
      BY <1>0, <1>4, <2>3, <2>4
  <1>5. CASE scan.why = "toggle"
    <2>1. flipped \in Values \cup {NoValue}
      BY <1>0, <1>1, <1>5, ToggleTargetType
    <2> HIDE DEF flipped
    <2>2. failure(IF err \/ read \notin Readable THEN "PLC_READ_FAILED" ELSE "POINT_STATE_UNEXPECTED") \in Result
      BY FailureType DEF Codes
    <2> QED
      BY <1>0, <1>5, <2>1, <2>2 DEF AfterScan, flipped
  <1> QED
    BY <1>2, <1>3, <1>4, <1>5 DEF TypeOK, ReadTyped, Scan, Reasons

LEMMA FinishScanIInv == IInv /\ FinishScan => IInv'
  <1> SUFFICES ASSUME IInv, FinishScan PROVE IInv'
    OBVIOUS
  <1> USE DEF IInv
  <1>1. FinalValues \in [Readable -> PointValue] /\ FinalLast \in [Readable -> PointValue]
    <2>1. \A p \in Readable : Degraded(last[p], "stale") \in PointValue
      BY DegradedType DEF TypeOK, ReadTyped
    <2> QED
      BY <2>1 DEF FinalValues, FinalLast, TypeOK, ReadTyped, Scan
  <1>2. PICK fails \in BOOLEAN : AfterScan(FinalValues, scan.err \/ fails)
    BY DEF FinishScan
  <1>3. pc = "scan" /\ (scan.err \/ fails) \in BOOLEAN
    BY DEF FinishScan
  <1>4. /\ result' \in Result
        /\ target' \in Values \cup {NoValue}
        /\ ready' \in BOOLEAN
        /\ timer' \in {"off", "running", "elapsed"}
        /\ \/ pc' = "loop" /\ scan.why \in {"initial", "poll"}
           \/ pc' = "reply" /\ scan.why \in {"writeFailed", "confirm", "toggle"}
           \/ pc' = "flip" /\ scan.why = "toggle" /\ target' # NoValue
    BY <1>1, <1>2, <1>3, AfterScanControl
  <1>5. ReadTyped'
    <2>1. disconnected' \in BOOLEAN
      BY DEF FinishScan
    <2>2. notified' \in {"connected", "disconnected"}
      BY DEF FinishScan, TypeOK, ReadTyped
    <2> QED
      BY <1>1, <2>1, <2>2, NothingType DEF FinishScan, TypeOK, ReadTyped
  <1>6. CmdTyped' /\ LifeTyped'
    BY <1>4 DEF FinishScan, TypeOK, CmdTyped, LifeTyped
  <1>7. TimeTyped'
    <2>1. tickFresh' \in BOOLEAN
      BY Zenon DEF FinishScan
    <2> QED
      BY <1>4, <2>1 DEF TimeTyped
  <1>8. Control'
    BY <1>3, <1>4 DEF FinishScan, Control, Handling, HoldsRequest, PastChecks, hmiVars
  <1>9. Pipeline'
    BY <1>4, PipelineFrame DEF FinishScan, hmiVars
  <1> QED
    BY <1>4, <1>5, <1>6, <1>7, <1>8, <1>9, FrameTyped DEF FinishScan, TypeOK

-----------------------------------------------------------------------------
(* Run's loop. *)

LEMMA StartIInv == IInv /\ Start => IInv'
  <1> SUFFICES ASSUME IInv, Start PROVE IInv'
    OBVIOUS
  <1> USE DEF IInv
  <1>1. /\ scan' \in Scan
        /\ pc' = "exit" \/ (pc' = "scan" /\ scan'.why = "initial")
    BY BeginScanTyped DEF Start, TypeOK, ReadTyped, Reasons
  <1>2. ReadTyped'
    BY <1>1 DEF Start, TypeOK, ReadTyped
  <1>3. Control'
    BY <1>1 DEF Start, Control, Handling, HoldsRequest, PastChecks, hmiVars, cmdVars, lifeVars
  <1> QED
    BY <1>1, <1>2, <1>3, FrameTyped, PipelineFrame DEF Start, TypeOK, hmiVars, cmdVars, lifeVars

LEMMA CheckContextIInv == IInv /\ CheckContext => IInv'
  <1> SUFFICES ASSUME IInv, CheckContext PROVE IInv'
    OBVIOUS
  <1> USE DEF IInv
  <1>1. pc = "loop" /\ pc' \in {"exit", "prefer"}
    BY DEF CheckContext
  <1>2. Control'
    BY <1>1 DEF CheckContext, Control, Handling, HoldsRequest, PastChecks, hmiVars, cmdVars, readVars, lifeVars
  <1> QED
    BY <1>1, <1>2, FrameTyped, PipelineFrame DEF CheckContext, TypeOK, hmiVars, cmdVars, lifeVars

\* Taking the head of the queue in hand: the request that follows the replies.
LEMMA DequeueControl ==
    ASSUME IInv, Dequeue, pc \in {"prefer", "wait", "tick"}, UNCHANGED stopping
    PROVE  /\ HmiTyped' /\ CmdTyped' /\ Control' /\ Pipeline'
           /\ lateStarts' \in Nat
           /\ pc' = "exec"
  <1> USE DEF IInv
  <1>1. /\ queue \in Seq(Request)
        /\ queue # <<>>
        /\ replies \in Seq(Nat)
        /\ UNCHANGED <<replies, admitted>>
        /\ cur' = Head(queue)
        /\ queue' = Tail(queue)
        /\ pc' = "exec"
    BY DEF Dequeue, TypeOK, HmiTyped, CmdTyped
  <1>2. /\ cur' \in Request
        /\ cur' = queue[1]
        /\ queue' \in Seq(Request)
        /\ Len(queue') = Len(queue) - 1
        /\ Len(queue) >= 1
        /\ \A i \in 1..Len(queue') : queue'[i] = queue[i + 1]
    BY <1>1
  <1>3. ~Handling
    BY DEF Control, HoldsRequest
  <1>4. cur'.id = Len(replies) + 1
    BY <1>2, <1>3 DEF Pipeline, InHand
  <1>5. Handling'
    BY <1>1, <1>4 DEF Handling, NoRequest
  <1>6. HmiTyped'
    BY <1>1, <1>2, ConfigAssumption DEF Dequeue, TypeOK, HmiTyped
  <1>7. CmdTyped'
    BY <1>2 DEF Dequeue, TypeOK, CmdTyped
  <1>8. Control'
    BY <1>1, <1>5 DEF Control, HoldsRequest, PastChecks
  <1>9. Pipeline'
    <2>1. admitted' = Len(replies') + InHand' + Len(queue')
      BY <1>1, <1>2, <1>3, <1>5 DEF Pipeline, InHand
    <2>2. \A i \in 1..Len(queue') : queue'[i].id = Len(replies') + InHand' + i
      <3> SUFFICES ASSUME NEW i \in 1..Len(queue')
                   PROVE  queue'[i].id = Len(replies) + 1 + i
        BY <1>1, <1>5 DEF InHand
      <3>1. queue[i + 1].id = Len(replies) + (i + 1)
        BY <1>1, <1>2, <1>3 DEF Pipeline, InHand
      <3> QED
        BY <1>1, <1>2, <3>1
    <2> QED
      BY <1>1, <1>4, <2>1, <2>2 DEF Pipeline
  <1> QED
    BY <1>1, <1>6, <1>7, <1>8, <1>9 DEF Dequeue, TypeOK

LEMMA PreferCommandIInv == IInv /\ PreferCommand => IInv'
  <1> SUFFICES ASSUME IInv, PreferCommand PROVE IInv'
    OBVIOUS
  <1> USE DEF IInv
  <1>1. pc = "prefer" /\ UNCHANGED <<readVars, lifeVars, pulseVars, timeVars>>
    BY DEF PreferCommand
  <1>2. CASE Dequeue
    BY <1>1, <1>2, DequeueControl, FrameTyped DEF TypeOK, lifeVars
  <1>3. CASE pc' = "wait" /\ UNCHANGED <<hmiVars, cmdVars, lateStarts>>
    <2>1. Control'
      BY <1>1, <1>3 DEF Control, Handling, HoldsRequest, PastChecks, hmiVars, cmdVars, readVars, lifeVars
    <2> QED
      BY <1>1, <1>3, <2>1, FrameTyped, PipelineFrame DEF TypeOK, hmiVars, cmdVars, lifeVars
  <1> QED
    BY <1>2, <1>3 DEF PreferCommand

LEMMA SelectIInv == IInv /\ Select => IInv'
  <1> SUFFICES ASSUME IInv, Select PROVE IInv'
    OBVIOUS
  <1> USE DEF IInv
  <1>1. pc = "wait" /\ UNCHANGED <<readVars, lifeVars, pulseVars, tickFresh>>
    BY DEF Select
  <1>2. TimeTyped'
    BY DEF Select, TypeOK, TimeTyped
  <1>3. CASE Dequeue
    BY <1>1, <1>2, <1>3, DequeueControl, FrameTyped DEF TypeOK, lifeVars
  <1>4. CASE pc' \in {"exit", "tick"} /\ UNCHANGED <<hmiVars, cmdVars, lateStarts>>
    <2>1. Control'
      BY <1>1, <1>4 DEF Control, Handling, HoldsRequest, PastChecks, hmiVars, cmdVars, readVars, lifeVars
    <2> QED
      BY <1>1, <1>2, <1>4, <2>1, FrameTyped, PipelineFrame DEF TypeOK, hmiVars, cmdVars, lifeVars
  <1> QED
    BY <1>3, <1>4 DEF Select

LEMMA TickIInv == IInv /\ Tick => IInv'
  <1> SUFFICES ASSUME IInv, Tick PROVE IInv'
    OBVIOUS
  <1> USE DEF IInv
  <1>1. /\ pc = "tick"
        /\ UNCHANGED <<disconnected, last, published, notified, seen, lifeVars, pulseVars, timeVars>>
    BY DEF Tick
  <1>2. CASE Dequeue /\ UNCHANGED scan
    BY <1>1, <1>2, DequeueControl, FrameTyped DEF TypeOK, lifeVars, readVars
  <1>3. CASE BeginScan("poll") /\ UNCHANGED <<hmiVars, cmdVars, lateStarts>>
    <2>1. scan' \in Scan /\ scan'.why = "poll" /\ pc' = "scan"
      BY <1>3, BeginScanTyped DEF Reasons
    <2>2. ReadTyped'
      BY <1>1, <2>1 DEF TypeOK, ReadTyped
    <2>3. Control'
      BY <1>1, <1>3, <2>1 DEF Control, Handling, HoldsRequest, PastChecks, hmiVars, cmdVars, lifeVars
    <2> QED
      BY <1>1, <1>3, <2>1, <2>2, <2>3, FrameTyped, PipelineFrame DEF TypeOK, hmiVars, cmdVars, lifeVars
  <1> QED
    BY <1>2, <1>3 DEF Tick

-----------------------------------------------------------------------------
(* execute. *)

LEMMA RejectLocallyIInv == IInv /\ RejectLocally => IInv'
  <1> SUFFICES ASSUME IInv, RejectLocally PROVE IInv'
    OBVIOUS
  <1> USE DEF IInv
  <1>1. pc = "exec" /\ pc' = "reply"
    BY DEF RejectLocally
  <1>2. CmdTyped'
    BY LocalCheckType, FailureType DEF RejectLocally, TypeOK, CmdTyped
  <1>3. Control'
    BY <1>1 DEF RejectLocally, Control, Handling, HoldsRequest, PastChecks, hmiVars, readVars, lifeVars
  <1> QED
    BY <1>1, <1>2, <1>3, FrameTyped, PipelineFrame DEF RejectLocally, TypeOK, hmiVars, lifeVars

LEMMA ReadToggleIInv == IInv /\ ReadToggle => IInv'
  <1> SUFFICES ASSUME IInv, ReadToggle PROVE IInv'
    OBVIOUS
  <1> USE DEF IInv
  <1>1. pc = "exec" /\ scan' \in Scan /\ scan'.why = "toggle" /\ pc' = "scan"
    BY BeginScanTyped DEF ReadToggle, Reasons
  <1>2. ReadTyped'
    BY <1>1 DEF ReadToggle, TypeOK, ReadTyped
  <1>3. Control'
    BY <1>1 DEF ReadToggle, Control, Handling, HoldsRequest, PastChecks, hmiVars, cmdVars, lifeVars
  <1> QED
    BY <1>1, <1>2, <1>3, FrameTyped, PipelineFrame DEF ReadToggle, TypeOK, hmiVars, cmdVars, lifeVars

\* The command in hand at a write: checked, and its write point is configured.
LEMMA AtWrite ==
    ASSUME IInv, LocalCheck(cur) = "OK"
    PROVE  /\ cur \in Request
           /\ cur.point \in Points
           /\ WritePoint[cur.point] \in Points
           /\ FirstLevel(cur) \in Values
           /\ Default[cur.point] \in Values
  BY CheckedCommand, ConfigAssumption DEF IInv, TypeOK, CmdTyped

\* A write ends in the pulse's hold or in a scan, with the command still in hand.
LEMMA WriteIInv ==
    ASSUME IInv, NEW level \in Values, NEW w \in WriteOutcomes, NEW continue \in BOOLEAN,
           Write(level, w, continue),
           continue => \/ BeginScan("confirm")
                       \/ pc' = "hold" /\ UNCHANGED scan,
           pc \in {"exec", "hold", "flip"}, LocalCheck(cur) = "OK",
           target' = target, pulseHigh' \in BOOLEAN
    PROVE  IInv'
  <1> USE DEF IInv
  <1>1. \/ pc' = "scan" /\ scan' \in Scan /\ scan'.why \in {"confirm", "writeFailed"}
        \/ pc' = "hold" /\ UNCHANGED scan
    BY BeginScanTyped DEF Write, Reasons
  <1>2. ReadTyped'
    BY <1>1 DEF Write, TypeOK, ReadTyped
  <1>3. CmdTyped'
    BY FailureType DEF Write, Codes, TypeOK, CmdTyped
  <1>4. PulseTyped'
    <2>1. plc' \in [Points -> Values]
      BY AtWrite DEF Write, TypeOK, PulseTyped
    <2>2. drifted' \in BOOLEAN
      BY DEF Write, TypeOK, PulseTyped
    <2> QED
      BY <2>1, <2>2 DEF PulseTyped
  <1>5. Control'
    BY <1>1 DEF Write, Control, Handling, HoldsRequest, PastChecks, hmiVars, lifeVars
  <1> QED
    BY <1>1, <1>2, <1>3, <1>4, <1>5, FrameTyped, PipelineFrame DEF Write, TypeOK, hmiVars, lifeVars

LEMMA WriteFirstIInv ==
    ASSUME IInv, NEW w \in WriteOutcomes, WriteFirst(w)
    PROVE  IInv'
  <1> DEFINE continue == IF cur.action = "pulse" THEN pc' = "hold" /\ UNCHANGED scan ELSE BeginScan("confirm")
  <1>1. Write(FirstLevel(cur), w, continue) /\ LocalCheck(cur) = "OK" /\ pc = "exec" /\ target' = target
    BY DEF WriteFirst
  <1>2. pulseHigh' \in BOOLEAN /\ continue \in BOOLEAN
    BY DEF WriteFirst, BeginScan
  <1>3. continue => \/ BeginScan("confirm")
                    \/ pc' = "hold" /\ UNCHANGED scan
    OBVIOUS
  <1> HIDE DEF continue
  <1> QED
    BY <1>1, <1>2, <1>3, AtWrite, WriteIInv

LEMMA ClearPulseIInv ==
    ASSUME IInv, NEW w \in WriteOutcomes, ClearPulse(w)
    PROVE  IInv'
  <1>1. /\ Write(Default[cur.point], w, BeginScan("confirm"))
        /\ pc = "hold"
        /\ target' = target
    BY DEF ClearPulse
  <1>2. pulseHigh' \in BOOLEAN /\ BeginScan("confirm") \in BOOLEAN
    BY Zenon DEF ClearPulse, BeginScan
  <1>3. LocalCheck(cur) = "OK"
    BY <1>1 DEF IInv, Control, PastChecks
  <1> QED
    BY <1>1, <1>2, <1>3, AtWrite, WriteIInv

LEMMA WriteToggleIInv ==
    ASSUME IInv, NEW w \in WriteOutcomes, WriteToggle(w)
    PROVE  IInv'
  <1>1. /\ Write(target, w, BeginScan("confirm"))
        /\ pc = "flip"
        /\ target' = target
        /\ pulseHigh' = pulseHigh
    BY DEF WriteToggle
  <1>2. pulseHigh' \in BOOLEAN /\ BeginScan("confirm") \in BOOLEAN
    BY <1>1 DEF BeginScan, IInv, TypeOK, PulseTyped
  <1>3. LocalCheck(cur) = "OK" /\ target \in Values
    BY <1>1 DEF IInv, Control, PastChecks, TypeOK, CmdTyped
  <1> QED
    BY <1>1, <1>2, <1>3, WriteIInv

\* The reply moves the request in hand to the end of the answered ones.
LEMMA ReplyIInv == IInv /\ Reply => IInv'
  <1> SUFFICES ASSUME IInv, Reply PROVE IInv'
    OBVIOUS
  <1> USE DEF IInv
  <1>1. /\ pc = "reply"
        /\ pc' = "loop"
        /\ replies' = Append(replies, cur.id)
        /\ cur' = NoRequest
        /\ replies \in Seq(Nat)
        /\ cur.id \in Nat
        /\ queue \in Seq(Request)
        /\ UNCHANGED <<queue, admitted, stopping>>
    BY DEF Reply, TypeOK, CmdTyped, HmiTyped, Request, hmiVars, lifeVars
  <1>2. /\ replies' \in Seq(Nat)
        /\ Len(replies') = Len(replies) + 1
        /\ \A i \in 1..Len(replies) : replies'[i] = replies[i]
        /\ replies'[Len(replies) + 1] = cur.id
    BY <1>1
  <1>3. Handling /\ ~Handling'
    BY <1>1 DEF Control, HoldsRequest, Handling
  <1>4. CmdTyped'
    <2>1. failure("OK") \in Result
      BY FailureType DEF Codes
    <2> QED
      BY <1>2, <2>1, NothingType DEF Reply, CmdTyped
  <1>5. PulseTyped' /\ TimeTyped'
    <2>1. drifted' \in BOOLEAN /\ pulseHigh' \in BOOLEAN
      BY Zenon DEF Reply
    <2> QED
      BY <2>1 DEF Reply, TypeOK, PulseTyped, TimeTyped
  <1>6. Control'
    BY <1>1, <1>3 DEF Reply, Control, HoldsRequest, PastChecks
  <1>7. Pipeline'
    <2>1. cur.id = Len(replies) + 1 /\ InHand = 1 /\ InHand' = 0
      BY <1>3 DEF Pipeline, InHand
    <2>2. admitted' = Len(replies') + InHand' + Len(queue')
      BY <1>1, <1>2, <2>1 DEF Pipeline
    <2>3. \A i \in 1..Len(replies') : replies'[i] = i
      <3> TAKE i \in 1..Len(replies')
      <3>1. CASE i \in 1..Len(replies)
        BY <1>2, <3>1 DEF Pipeline
      <3>2. CASE i = Len(replies) + 1
        BY <1>2, <2>1, <3>2
      <3> QED
        BY <1>1, <1>2, <3>1, <3>2
    <2>4. \A i \in 1..Len(queue') : queue'[i].id = Len(replies') + InHand' + i
      BY <1>1, <1>2, <2>1 DEF Pipeline
    <2> QED
      BY <1>1, <1>3, <2>2, <2>3, <2>4 DEF Pipeline
  <1> QED
    BY <1>1, <1>4, <1>5, <1>6, <1>7, FrameTyped DEF Reply, TypeOK

-----------------------------------------------------------------------------
(* Run's deferred calls. *)

LEMMA StopAdmittingIInv == IInv /\ StopAdmitting => IInv'
  <1> SUFFICES ASSUME IInv, StopAdmitting PROVE IInv'
    OBVIOUS
  <1> USE DEF IInv
  <1>1. pc = "exit" /\ pc' = "drain" /\ stopping' = TRUE
    BY DEF StopAdmitting
  <1>2. LifeTyped'
    BY Zenon DEF StopAdmitting, TypeOK, LifeTyped
  <1>3. TimeTyped'
    BY DEF StopAdmitting, TypeOK, TimeTyped
  <1>4. Control'
    BY <1>1 DEF StopAdmitting, Control, Handling, HoldsRequest, PastChecks, hmiVars, cmdVars, readVars
  <1> QED
    BY <1>1, <1>2, <1>3, <1>4, FrameTyped, PipelineFrame DEF StopAdmitting, TypeOK, hmiVars, cmdVars

LEMMA RejectQueuedIInv == IInv /\ RejectQueued => IInv'
  <1> SUFFICES ASSUME IInv, RejectQueued PROVE IInv'
    OBVIOUS
  <1> USE DEF IInv
  <1>1. /\ pc = "drain"
        /\ queue # <<>>
        /\ queue \in Seq(Request)
        /\ replies \in Seq(Nat)
        /\ replies' = Append(replies, Head(queue).id)
        /\ queue' = Tail(queue)
        /\ UNCHANGED <<pc, cur, admitted, stopping, scan, target>>
    BY DEF RejectQueued, TypeOK, HmiTyped, CmdTyped, readVars, lifeVars
  <1>2. /\ queue' \in Seq(Request)
        /\ Len(queue) >= 1
        /\ Len(queue') = Len(queue) - 1
        /\ \A i \in 1..Len(queue') : queue'[i] = queue[i + 1]
        /\ Head(queue) = queue[1]
        /\ queue[1] \in Request
    BY <1>1
  <1>3. queue[1].id \in Nat
    BY <1>2 DEF Request
  <1>4. /\ replies' \in Seq(Nat)
        /\ Len(replies') = Len(replies) + 1
        /\ \A i \in 1..Len(replies) : replies'[i] = replies[i]
        /\ replies'[Len(replies) + 1] = queue[1].id
    BY <1>1, <1>2, <1>3
  <1>5. ~Handling /\ ~Handling'
    BY <1>1 DEF Control, HoldsRequest, Handling
  <1>6. HmiTyped' /\ CmdTyped'
    BY <1>1, <1>2, <1>4, ConfigAssumption DEF RejectQueued, TypeOK, HmiTyped, CmdTyped
  <1>7. Control'
    BY <1>1, <1>5 DEF Control, HoldsRequest, PastChecks
  <1>8. Pipeline'
    <2>1. InHand = 0 /\ InHand' = 0
      BY <1>5 DEF InHand
    <2>2. admitted' = Len(replies') + InHand' + Len(queue')
      BY <1>1, <1>2, <1>4, <2>1 DEF Pipeline
    <2>3. \A i \in 1..Len(replies') : replies'[i] = i
      <3> TAKE i \in 1..Len(replies')
      <3>1. CASE i \in 1..Len(replies)
        BY <1>4, <3>1 DEF Pipeline
      <3>2. CASE i = Len(replies) + 1
        BY <1>1, <1>2, <1>4, <2>1, <3>2 DEF Pipeline
      <3> QED
        BY <1>1, <1>4, <3>1, <3>2
    <2>4. \A i \in 1..Len(queue') : queue'[i].id = Len(replies') + InHand' + i
      <3> TAKE i \in 1..Len(queue')
      <3>1. queue[i + 1].id = Len(replies) + (i + 1)
        BY <1>1, <1>2, <2>1 DEF Pipeline
      <3> QED
        BY <1>1, <1>2, <1>4, <2>1, <3>1
    <2> QED
      BY <1>1, <1>5, <2>2, <2>3, <2>4 DEF Pipeline
  <1> QED
    BY <1>1, <1>6, <1>7, <1>8, FrameTyped DEF RejectQueued, TypeOK

LEMMA CloseIInv == IInv /\ Close => IInv'
  <1> SUFFICES ASSUME IInv, Close PROVE IInv'
    OBVIOUS
  <1> USE DEF IInv
  <1>1. /\ pc = "drain" /\ pc' = "done"
        /\ queue = <<>>
        /\ UNCHANGED <<queue, cur, replies, admitted, stopping, scan, target>>
    BY DEF Close, hmiVars, cmdVars, readVars, lifeVars
  <1>2. Control'
    BY <1>1 DEF Control, Handling, HoldsRequest, PastChecks
  <1>3. ~Handling /\ stopping
    BY <1>1 DEF Control, HoldsRequest
  <1>4. Pipeline'
    BY <1>1, <1>3 DEF Pipeline, Handling, InHand, TypeOK, CmdTyped
  <1> QED
    BY <1>1, <1>2, <1>4, FrameTyped DEF Close, TypeOK

-----------------------------------------------------------------------------
(* The theorems. *)

LEMMA NextIInv == IInv /\ [Next]_vars => IInv'
  <1> SUFFICES ASSUME IInv, [Next]_vars PROVE IInv'
    OBVIOUS
  <1>1. CASE Start \/ CheckContext \/ PreferCommand \/ Select \/ Tick
    BY <1>1, StartIInv, CheckContextIInv, PreferCommandIInv, SelectIInv, TickIInv
  <1>2. CASE ReadBatch \/ FinishScan
    BY <1>2, ReadBatchOkIInv, ReadBatchFailsIInv, FinishScanIInv DEF ReadBatch
  <1>3. CASE Execute \/ Reply
    BY <1>3, RejectLocallyIInv, ReadToggleIInv, WriteFirstIInv, ClearPulseIInv, WriteToggleIInv, ReplyIInv
    DEF Execute
  <1>4. CASE StopAdmitting \/ RejectQueued \/ Close
    BY <1>4, StopAdmittingIInv, RejectQueuedIInv, CloseIInv
  <1>5. CASE Cancel \/ TimerElapses \/ ConfirmDisconnected
    BY <1>5, CancelIInv, TimerElapsesIInv, ConfirmDisconnectedIInv
  <1>6. CASE \E c \in Commands : TrySubmit(c)
    BY <1>6, TrySubmitIInv
  <1>7. CASE \E p \in Moving, v \in Values : PlcMoves(p, v)
    BY <1>7, PlcMovesIInv
  <1>8. CASE UNCHANGED vars
    BY <1>8, FrameTyped, ControlFrame, PipelineFrame
    DEF vars, IInv, TypeOK, hmiVars, cmdVars, readVars, lifeVars
  <1> QED
    BY <1>1, <1>2, <1>3, <1>4, <1>5, <1>6, <1>7, <1>8 DEF Next, Run

\* The worker's variables keep their types and its command FIFO its capacity, for
\* every point table, every capacity and every sequence of submissions (TrySubmit).
THEOREM TypeCorrect == Spec => []TypeOK
  <1>1. IInv => TypeOK
    BY DEF IInv
  <1> QED
    BY InitIInv, NextIInv, <1>1, PTL DEF Spec

\* No admitted command is lost, answered twice or overtaken, and none is left
\* unanswered when Done is closed (TrySubmit, Run, handleCommand, rejectQueued).
THEOREM EveryCommandInOnePlace == Spec => []Pipeline
  <1>1. IInv => Pipeline
    BY DEF IInv
  <1> QED
    BY InitIInv, NextIInv, <1>1, PTL DEF Spec

-----------------------------------------------------------------------------
(* What a cancelled worker may still start, when it polls, that a pulse is   *)
(* cleared, and what a published snapshot and a reply say.                   *)

\* A command started after the cancellation is the last one: the loop looks at the
\* context before it comes to a select again.
LateInv ==
    /\ OneLateStartAtMost
    /\ lateStarts # 0 => cancelled /\ pc \notin {"prefer", "wait", "tick"}

\* Wherever the loop may take a tick, the tick is newer than the last complete scan.
TickInv ==
    /\ pc \in {"loop", "prefer", "wait"} /\ timer = "elapsed" => tickFresh
    /\ pc = "tick" => tickFresh
    /\ NoDuplicatePoll

\* The batches of the running scan that have been read, all of them after the last.
Done(p) == BatchOf[p] < scan.batch

\* Inside a scan: a batch that was tried is in values as it is in last; the others
\* are missing only when the transport broke, and then all will be made stale.
ScanInv ==
    /\ \A p \in Readable : Done(p) =>
          \/ scan.values[p] = last[p] /\ scan.values[p].quality # "none"
          \/ scan.err /\ disconnected
    /\ \A p \in Readable : Done(p) /\ ~scan.err => scan.values[p].quality = "good"
    /\ \A p \in Readable : Done(p) /\ ~disconnected => scan.values[p].quality \in {"good", "error"}
    /\ notified = "disconnected" => disconnected
    /\ scan.newly <=> (disconnected /\ notified = "connected")
    /\ scan.newly => scan.err

SnapInv ==
    /\ \A p \in Readable : last[p].value = seen[p]
    /\ pc = "scan" => ScanInv
    /\ SnapshotHonest
    /\ ConnectionStateAgrees

-----------------------------------------------------------------------------
(* Where a scan begins, and what a write leaves alone. *)

\* The state of a scan that has read nothing yet.
LEMMA FreshScan ==
    ASSUME NEW why \in Reasons, BeginScan(why)
    PROVE  /\ pc' = "scan"
           /\ scan'.why = why
           /\ scan'.batch = 1 /\ scan'.err = FALSE /\ scan'.newly = FALSE
  BY DEF BeginScan

\* After a write the command holds its pulse or a scan begins that is no poll.
LEMMA WriteMoves ==
    ASSUME NEW w \in WriteOutcomes, WriteFirst(w) \/ ClearPulse(w) \/ WriteToggle(w)
    PROVE  /\ \/ pc' = "hold" /\ UNCHANGED scan
              \/ BeginScan("confirm")
              \/ BeginScan("writeFailed")
           /\ UNCHANGED <<disconnected, last, published, notified, seen, timeVars, lateStarts>>
           /\ pc \in {"exec", "hold", "flip"}
  <1>1. CASE WriteFirst(w)
    BY <1>1 DEF WriteFirst, Write
  <1>2. CASE ClearPulse(w)
    BY <1>2 DEF ClearPulse, Write
  <1>3. CASE WriteToggle(w)
    BY <1>3 DEF WriteToggle, Write
  <1> QED
    BY <1>1, <1>2, <1>3

-----------------------------------------------------------------------------
(* Cancellation, pulses and the poll timer. *)

LEMMA LateStep == TypeOK /\ LateInv /\ [Next]_vars => LateInv'
  <1> SUFFICES ASSUME TypeOK, LateInv, [Next]_vars PROVE LateInv'
    OBVIOUS
  <1> USE DEF LateInv, OneLateStartAtMost, TypeOK
  <1>1. CASE Start \/ CheckContext \/ StopAdmitting \/ Close
    BY <1>1 DEF Start, BeginScan, CheckContext, StopAdmitting, Close, lifeVars
  <1>2. CASE PreferCommand \/ Select \/ Tick
    BY <1>2 DEF PreferCommand, Select, Tick, Dequeue, BeginScan, lifeVars
  <1>3. CASE FinishScan
    BY <1>3 DEF FinishScan, AfterScan
  <1>4. CASE Execute \/ Reply
    BY <1>4 DEF Execute, RejectLocally, ReadToggle, WriteFirst, ClearPulse, WriteToggle, Write, BeginScan,
       Reply, lifeVars
  <1>5. CASE ReadBatch \/ RejectQueued \/ Cancel \/ TimerElapses \/ ConfirmDisconnected
    BY <1>5 DEF Cancel, TimerElapses, ConfirmDisconnected, RejectQueued, ReadBatch,
     ReadBatchOk, ReadBatchError, ReadBatchDisconnected, lifeVars
  <1>6. CASE \E c \in Commands : TrySubmit(c)
    BY <1>6 DEF TrySubmit, lifeVars
  <1>7. CASE \E p \in Moving, v \in Values : PlcMoves(p, v)
    BY <1>7 DEF PlcMoves, lifeVars
  <1>8. CASE UNCHANGED vars
    BY <1>8 DEF vars, lifeVars
  <1> QED
    BY <1>1, <1>2, <1>3, <1>4, <1>5, <1>6, <1>7, <1>8 DEF Next, Run

\* Cancelling the session lets at most one more command start (Run's context checks).
THEOREM CancellationIsPrompt == Spec => []OneLateStartAtMost
  <1>1. Init => LateInv
    BY DEF Init, LateInv, OneLateStartAtMost
  <1>2. LateInv => OneLateStartAtMost
    BY DEF LateInv
  <1> QED
    BY TypeCorrect, <1>1, LateStep, <1>2, PTL DEF Spec

LEMMA PulseStep == PulseClearAttempted /\ [Next]_vars => PulseClearAttempted'
  <1> SUFFICES ASSUME PulseClearAttempted, [Next]_vars PROVE PulseClearAttempted'
    OBVIOUS
  <1> USE DEF PulseClearAttempted
  <1>1. CASE Start \/ CheckContext \/ StopAdmitting \/ Close
    BY <1>1 DEF Start, CheckContext, StopAdmitting, Close, pulseVars
  <1>2. CASE PreferCommand \/ Select \/ Tick
    BY <1>2 DEF PreferCommand, Select, Tick, pulseVars
  <1>3. CASE FinishScan
    BY <1>3 DEF FinishScan, pulseVars
  <1>4. CASE Execute \/ Reply
    BY <1>4 DEF Execute, RejectLocally, ReadToggle, WriteFirst, ClearPulse, WriteToggle, Write, Reply,
       pulseVars
  <1>5. CASE ReadBatch \/ RejectQueued \/ Cancel \/ TimerElapses \/ ConfirmDisconnected
    BY <1>5 DEF Cancel, TimerElapses, ConfirmDisconnected, RejectQueued, ReadBatch,
     ReadBatchOk, ReadBatchError, ReadBatchDisconnected, pulseVars
  <1>6. CASE \E c \in Commands : TrySubmit(c)
    BY <1>6 DEF TrySubmit, pulseVars
  <1>7. CASE \E p \in Moving, v \in Values : PlcMoves(p, v)
    BY <1>7 DEF PlcMoves
  <1>8. CASE UNCHANGED vars
    BY <1>8 DEF vars, pulseVars
  <1> QED
    BY <1>1, <1>2, <1>3, <1>4, <1>5, <1>6, <1>7, <1>8 DEF Next, Run

\* An acknowledged pulse is followed by an attempt to clear it before anything else,
\* whenever the session is cancelled (execute).
THEOREM PulseIsCleared == Spec => []PulseClearAttempted
  <1>1. Init => PulseClearAttempted
    BY DEF Init, PulseClearAttempted
  <1> QED
    BY <1>1, PulseStep, PTL DEF Spec

LEMMA TickStep == TypeOK /\ TickInv /\ [Next]_vars => TickInv'
  <1> SUFFICES ASSUME TypeOK, TickInv, [Next]_vars PROVE TickInv'
    OBVIOUS
  <1> USE DEF TickInv, NoDuplicatePoll
  <1>1. CASE Start \/ CheckContext \/ StopAdmitting \/ Close
    BY <1>1 DEF Start, BeginScan, CheckContext, StopAdmitting, Close, timeVars, readVars
  <1>2. CASE PreferCommand \/ Select \/ Tick
    BY <1>2 DEF PreferCommand, Select, Tick, Dequeue, BeginScan, timeVars, readVars
  <1>3. CASE FinishScan
    BY <1>3 DEF FinishScan, AfterScan
  <1>4. CASE Execute \/ Reply
    <2>1. CASE RejectLocally \/ ReadToggle \/ Reply
      BY <2>1 DEF RejectLocally, ReadToggle, BeginScan, Reply
    <2>2. CASE \E w \in WriteOutcomes : WriteFirst(w) \/ ClearPulse(w) \/ WriteToggle(w)
      <3>1. pc' = "hold" \/ (pc' = "scan" /\ scan'.why \in {"confirm", "writeFailed"})
        BY <2>2, WriteMoves, FreshScan DEF Reasons
      <3> QED
        BY <3>1
    <2> QED
      BY <1>4, <2>1, <2>2 DEF Execute
  <1>5. CASE ReadBatch
    BY <1>5 DEF ReadBatch, ReadBatchOk, ReadBatchError, ReadBatchDisconnected, FailBatch, timeVars,
       TypeOK, ReadTyped, Scan
  <1>6. CASE RejectQueued \/ Cancel \/ TimerElapses \/ ConfirmDisconnected
    BY <1>6 DEF Cancel, TimerElapses, ConfirmDisconnected, RejectQueued, timeVars, readVars
  <1>7. CASE \E c \in Commands : TrySubmit(c)
    BY <1>7 DEF TrySubmit, timeVars, readVars
  <1>8. CASE \E p \in Moving, v \in Values : PlcMoves(p, v)
    BY <1>8 DEF PlcMoves, timeVars, readVars
  <1>9. CASE UNCHANGED vars
    BY <1>9 DEF vars, timeVars, readVars
  <1> QED
    BY <1>1, <1>2, <1>3, <1>4, <1>5, <1>6, <1>7, <1>8, <1>9 DEF Next, Run

\* An ordinary poll runs only after the timer elapsed again since the last complete
\* scan, however commands and their own scans come in between (handleCommand).
THEOREM PollsAreFresh == Spec => []NoDuplicatePoll
  <1>1. Init => TickInv
    BY DEF Init, TickInv, NoDuplicatePoll
  <1>2. TickInv => NoDuplicatePoll
    BY DEF TickInv
  <1> QED
    BY TypeCorrect, <1>1, TickStep, <1>2, PTL DEF Spec

-----------------------------------------------------------------------------
(* Snapshots and the connection state. *)

\* Steps that read nothing and neither begin nor end a scan.
LEMMA SnapFrame ==
    ASSUME SnapInv, UNCHANGED readVars,
           pc' = pc \/ (pc \notin {"scan", "done"} /\ pc' # "scan")
    PROVE  SnapInv'
  BY DEF SnapInv, ScanInv, Done, SnapshotHonest, ConnectionStateAgrees, readVars

\* A scan begins with no batch read and the connection state as it was reported.
LEMMA SnapBegin ==
    ASSUME TypeOK, SnapInv, NEW why \in Reasons, BeginScan(why),
           pc \notin {"scan", "done"},
           UNCHANGED <<disconnected, last, published, notified, seen>>
    PROVE  SnapInv'
  <1>1. /\ pc' = "scan"
        /\ scan'.batch = 1 /\ scan'.err = FALSE /\ scan'.newly = FALSE
    BY FreshScan
  <1>2. \A p \in Readable : ~Done(p)'
    BY <1>1, ConfigAssumption DEF Done
  <1>3. notified \in {"connected", "disconnected"} /\ (notified = "disconnected" <=> disconnected)
    BY DEF SnapInv, ConnectionStateAgrees, TypeOK, ReadTyped
  <1>4. ScanInv'
    BY <1>1, <1>2, <1>3 DEF ScanInv
  <1> QED
    BY <1>1, <1>4 DEF SnapInv, SnapshotHonest, ConnectionStateAgrees

LEMMA SnapReadOk == TypeOK /\ SnapInv /\ ReadBatchOk => SnapInv'
  <1> SUFFICES ASSUME TypeOK, SnapInv, ReadBatchOk PROVE SnapInv'
    OBVIOUS
  <1> DEFINE good(p) == [value |-> plc[p], quality |-> "good"]
  <1>1. /\ pc = "scan" /\ pc' = "scan"
        /\ UNCHANGED <<disconnected, published, notified>>
        /\ scan \in Scan
    BY DEF ReadBatchOk, TypeOK, ReadTyped
  <1>2. /\ scan'.batch = scan.batch + 1
        /\ scan'.err = scan.err /\ scan'.newly = scan.newly
        /\ \A p \in Readable : scan'.values[p] = IF InBatch(p) THEN good(p) ELSE scan.values[p]
    BY <1>1 DEF ReadBatchOk, Scan
  <1>3. \A p \in Readable : last'[p] = IF InBatch(p) THEN good(p) ELSE last[p]
    BY DEF ReadBatchOk
  <1>4. \A p \in Readable : last'[p].value = seen'[p]
    BY <1>3 DEF ReadBatchOk, SnapInv
  <1>5. \A p \in Readable : Done(p)' => InBatch(p) \/ (Done(p) /\ ~InBatch(p))
    BY <1>1, <1>2, ConfigAssumption DEF Done, InBatch, Scan
  <1>6. ScanInv'
    <2> HIDE DEF good
    <2>1. \A p \in Readable : good(p).quality = "good"
      BY DEF good
    <2>2. \A p \in Readable : Done(p)' =>
             \/ scan'.values[p] = last'[p] /\ scan'.values[p].quality # "none"
             \/ scan'.err /\ disconnected'
      BY <1>1, <1>2, <1>3, <1>5, <2>1 DEF SnapInv, ScanInv
    <2>3. \A p \in Readable : Done(p)' /\ ~scan'.err => scan'.values[p].quality = "good"
      BY <1>1, <1>2, <1>5, <2>1 DEF SnapInv, ScanInv
    <2>4. \A p \in Readable : Done(p)' /\ ~disconnected' => scan'.values[p].quality \in {"good", "error"}
      BY <1>1, <1>2, <1>5, <2>1 DEF SnapInv, ScanInv
    <2> QED
      BY <1>1, <1>2, <2>2, <2>3, <2>4 DEF SnapInv, ScanInv
  <1> QED
    BY <1>1, <1>4, <1>6 DEF SnapInv, SnapshotHonest, ConnectionStateAgrees

\* A failed batch keeps its values; a new disconnect is remembered until it is notified.
LEMMA SnapReadFails == TypeOK /\ SnapInv /\ (ReadBatchError \/ ReadBatchDisconnected) => SnapInv'
  <1> SUFFICES ASSUME TypeOK, SnapInv, ReadBatchError \/ ReadBatchDisconnected PROVE SnapInv'
    OBVIOUS
  <1>1. /\ pc = "scan" /\ pc' = "scan"
        /\ UNCHANGED <<published, notified, seen>>
        /\ scan \in Scan /\ disconnected \in BOOLEAN
        /\ notified \in {"connected", "disconnected"}
    BY DEF ReadBatchError, ReadBatchDisconnected, TypeOK, ReadTyped
  <1>2. PICK now \in BOOLEAN, next \in Nat :
           /\ FailBatch(now, next)
           /\ \/ now = disconnected /\ next = scan.batch + 1
              \/ now = TRUE
    <2>1. scan.batch + 1 \in Nat /\ Batches + 1 \in Nat
      BY <1>1, ConfigAssumption DEF Scan
    <2>2. FailBatch(disconnected, scan.batch + 1) \/ FailBatch(TRUE, Batches + 1)
      BY DEF ReadBatchError, ReadBatchDisconnected
    <2> QED
      BY <1>1, <2>1, <2>2, Zenon
  <1> DEFINE failed(p) == Degraded(last[p], IF now THEN "stale" ELSE "error")
  <1>3. /\ scan'.batch = next
        /\ scan'.err = TRUE
        /\ scan'.newly = (scan.newly \/ (now /\ ~disconnected))
        /\ \A p \in Readable : scan'.values[p] = IF InBatch(p) THEN failed(p) ELSE scan.values[p]
        /\ \A p \in Readable : last'[p] = IF InBatch(p) THEN failed(p) ELSE last[p]
        /\ disconnected' = now
    BY <1>1, <1>2 DEF FailBatch, Scan
  <1>4. \A p \in Readable : /\ failed(p).value = last[p].value
                            /\ failed(p).quality = IF now THEN "stale" ELSE "error"
    BY DEF Degraded, TypeOK, ReadTyped, PointValue
  <1> HIDE DEF failed
  <1>5. \A p \in Readable : last'[p].value = seen'[p]
    BY <1>1, <1>3, <1>4 DEF SnapInv
  <1>6. CASE now = TRUE
    BY <1>1, <1>3, <1>5, <1>6 DEF SnapInv, ScanInv, SnapshotHonest, ConnectionStateAgrees
  <1>7. CASE now = FALSE
    <2>1. \A p \in Readable : Done(p)' => InBatch(p) \/ (Done(p) /\ ~InBatch(p))
      BY <1>1, <1>2, <1>3, <1>7, ConfigAssumption DEF Done, InBatch, Scan
    <2>2. ~disconnected
      BY <1>1, <1>2, <1>7
    <2>3. ScanInv'
      BY <1>1, <1>3, <1>4, <1>7, <2>1, <2>2 DEF SnapInv, ScanInv
    <2> QED
      BY <1>1, <1>5, <2>3 DEF SnapInv, SnapshotHonest, ConnectionStateAgrees
  <1> QED
    BY <1>6, <1>7

\* What readAll publishes at the end of a scan.
LEMMA FinalSnapshot ==
    ASSUME TypeOK, SnapInv, pc = "scan", scan.batch > Batches
    PROVE  \A p \in Readable :
              /\ FinalValues[p].value = seen[p] /\ FinalLast[p].value = seen[p]
              /\ FinalValues[p].quality # "none"
              /\ FinalValues[p].quality = "stale" <=> (disconnected /\ scan.err)
  <1> SUFFICES ASSUME NEW p \in Readable
               PROVE  /\ FinalValues[p].value = seen[p] /\ FinalLast[p].value = seen[p]
                      /\ FinalValues[p].quality # "none"
                      /\ FinalValues[p].quality = "stale" <=> (disconnected /\ scan.err)
    OBVIOUS
  <1>1. Done(p)
    BY ConfigAssumption DEF Done, TypeOK, ReadTyped, Scan
  <1>2. CASE scan.err /\ disconnected
    <2>1. FinalValues[p] = Degraded(last[p], "stale") /\ FinalLast[p] = Degraded(last[p], "stale")
      BY <1>2 DEF FinalValues, FinalLast
    <2>2. Degraded(last[p], "stale").value = last[p].value /\ Degraded(last[p], "stale").quality = "stale"
      BY DEF Degraded, TypeOK, ReadTyped, PointValue
    <2> QED
      BY <1>2, <2>1, <2>2 DEF SnapInv
  <1>3. CASE ~(scan.err /\ disconnected)
    <2>1. FinalValues[p] = scan.values[p] /\ FinalLast[p] = last[p]
      BY <1>3 DEF FinalValues, FinalLast
    <2> QED
      BY <1>1, <1>3, <2>1 DEF SnapInv, ScanInv
  <1> QED
    BY <1>2, <1>3

LEMMA SnapFinish == TypeOK /\ SnapInv /\ FinishScan => SnapInv'
  <1> SUFFICES ASSUME TypeOK, SnapInv, FinishScan PROVE SnapInv'
    OBVIOUS
  <1>1. /\ pc = "scan" /\ scan.batch > Batches
        /\ disconnected' = (disconnected /\ scan.err)
        /\ last' = FinalLast /\ published' = FinalValues /\ seen' = seen
    BY DEF FinishScan
  <1>2. pc' \in {"loop", "reply", "flip"}
    BY DEF FinishScan, AfterScan
  <1>3. notified' = "disconnected" <=> disconnected'
    <2>1. ScanInv /\ notified \in {"connected", "disconnected"}
      BY <1>1 DEF SnapInv, TypeOK, ReadTyped
    <2> QED
      BY <1>1, <2>1 DEF FinishScan, ScanInv
  <1> QED
    BY <1>1, <1>2, <1>3, FinalSnapshot DEF SnapInv, SnapshotHonest, ConnectionStateAgrees

LEMMA SnapConfirm == TypeOK /\ SnapInv /\ ConfirmDisconnected => SnapInv'
  <1> SUFFICES ASSUME TypeOK, SnapInv, ConfirmDisconnected PROVE SnapInv'
    OBVIOUS
  <1>1. \A p \in Readable : /\ Degraded(last[p], "stale").value = last[p].value
                            /\ Degraded(last[p], "stale").quality = "stale"
    BY DEF Degraded, TypeOK, ReadTyped, PointValue
  <1>2. \A p \in Readable : /\ last'[p] = Degraded(last[p], "stale")
                            /\ published'[p] = Degraded(last[p], "stale")
    BY DEF ConfirmDisconnected
  <1>3. pc = "done" /\ pc' = "done" /\ disconnected' = TRUE /\ seen' = seen
    BY DEF ConfirmDisconnected
  <1> QED
    BY <1>1, <1>2, <1>3 DEF SnapInv, SnapshotHonest, ConnectionStateAgrees

LEMMA SnapStep == TypeOK /\ SnapInv /\ [Next]_vars => SnapInv'
  <1> SUFFICES ASSUME TypeOK, SnapInv, [Next]_vars PROVE SnapInv'
    OBVIOUS
  <1>1. CASE Start
    BY <1>1, SnapBegin, SnapFrame DEF Start, Reasons, readVars
  <1>2. CASE CheckContext \/ PreferCommand \/ Select
    BY <1>2, SnapFrame DEF CheckContext, PreferCommand, Select, Dequeue
  <1>3. CASE Tick
    BY <1>3, SnapBegin, SnapFrame DEF Tick, Dequeue, Reasons, readVars
  <1>4. CASE ReadBatch \/ FinishScan \/ ConfirmDisconnected
    BY <1>4, SnapReadOk, SnapReadFails, SnapFinish, SnapConfirm DEF ReadBatch
  <1>5. CASE RejectLocally \/ Reply
    BY <1>5, SnapFrame DEF RejectLocally, Reply
  <1>6. CASE ReadToggle
    BY <1>6, SnapBegin DEF ReadToggle, Reasons
  <1>7. CASE \E w \in WriteOutcomes : WriteFirst(w) \/ ClearPulse(w) \/ WriteToggle(w)
    BY <1>7, WriteMoves, SnapBegin, SnapFrame DEF Reasons, readVars
  <1>8. CASE StopAdmitting \/ RejectQueued \/ Close \/ Cancel \/ TimerElapses
    BY <1>8, SnapFrame DEF StopAdmitting, RejectQueued, Close, Cancel, TimerElapses
  <1>9. CASE \E c \in Commands : TrySubmit(c)
    BY <1>9, SnapFrame DEF TrySubmit
  <1>10. CASE \E p \in Moving, v \in Values : PlcMoves(p, v)
    BY <1>10, SnapFrame DEF PlcMoves
  <1>11. CASE UNCHANGED vars
    BY <1>11, SnapFrame DEF vars
  <1> QED
    BY <1>1, <1>2, <1>3, <1>4, <1>5, <1>6, <1>7, <1>8, <1>9, <1>10, <1>11 DEF Next, Run, Execute

LEMMA SnapInit == Init => SnapInv
  <1> SUFFICES ASSUME Init PROVE SnapInv
    OBVIOUS
  <1>1. \A p \in Readable : /\ last[p].value = NoValue /\ seen[p] = NoValue
                            /\ published[p].value = NoValue /\ published[p].quality = "none"
    BY DEF Init, NoSnapshot, Absent
  <1> QED
    BY <1>1 DEF Init, SnapInv, SnapshotHonest, ConnectionStateAgrees

\* Every published snapshot is complete, and outside a scan carries the values really
\* read last, for every point table and every failure (readAll, staleValues).
THEOREM SnapshotsAreHonest == Spec => []SnapshotHonest
  <1>1. SnapInv => SnapshotHonest
    BY DEF SnapInv
  <1> QED
    BY TypeCorrect, SnapInit, SnapStep, <1>1, PTL DEF Spec

\* The connection state, the last handler called and the published qualities agree
\* whenever no scan is running (readAll, markDisconnected, markConnected).
THEOREM ConnectionReported == Spec => []ConnectionStateAgrees
  <1>1. SnapInv => ConnectionStateAgrees
    BY DEF SnapInv
  <1> QED
    BY TypeCorrect, SnapInit, SnapStep, <1>1, PTL DEF Spec

-----------------------------------------------------------------------------
(* A confirmed command. *)

\* The level the command in hand asked for.
Asked ==
    CASE cur.action = "set" -> cur.value
      [] cur.action = "press" -> Active[cur.point]
      [] cur.action = "toggle" -> target
      [] OTHER -> Default[cur.point]

ReadsOwnPoint == WritePoint[cur.point] = ReadPoint[cur.point]

\* From the acknowledged write on the PLC has the level asked for, unless it moved on its
\* own, and so has the scan that confirms once it has read the point's batch.
ConfirmInv ==
    pc = "scan" /\ scan.why = "confirm" /\ ~drifted =>
        /\ plc[WritePoint[cur.point]] = Asked
        /\ ReadsOwnPoint /\ ~scan.err /\ Done(ReadPoint[cur.point]) =>
              scan.values[ReadPoint[cur.point]].value = Asked

BackInv ==
    /\ pc = "hold" => cur.action = "pulse"
    /\ pc = "flip" => cur.action = "toggle"
    /\ pc = "scan" /\ scan.why = "toggle" => cur.action = "toggle"
    /\ pc = "scan" /\ scan.why = "writeFailed" => result.code = "PLC_WRITE_FAILED"
    /\ ConfirmInv
    /\ SuccessIsReadBack

\* Steps that touch neither the command nor what it wrote and read.
LEMMA BackFrame ==
    ASSUME BackInv, UNCHANGED <<cur, result, target, scan, plc, drifted>>,
           pc' = pc \/ pc' \notin {"hold", "flip", "scan", "reply"}
    PROVE  BackInv'
  BY DEF BackInv, ConfirmInv, SuccessIsReadBack, Asked, ReadsOwnPoint, Done

\* A scan that confirms nothing begins.
LEMMA BackBegin ==
    ASSUME NEW why \in {"initial", "poll", "toggle", "writeFailed"}, BeginScan(why),
           why = "toggle" => cur'.action = "toggle",
           why = "writeFailed" => result'.code = "PLC_WRITE_FAILED"
    PROVE  BackInv'
  <1>1. pc' = "scan" /\ scan'.why = why
    BY FreshScan DEF Reasons
  <1> QED
    BY <1>1 DEF BackInv, ConfirmInv, SuccessIsReadBack

\* An acknowledged write of the level asked for, with the scan that confirms it.
LEMMA BackWrite ==
    ASSUME IInv, LocalCheck(cur) = "OK", NEW level, NEW w \in WriteOutcomes,
           Write(level, w, BeginScan("confirm")), target' = target, level = Asked
    PROVE  BackInv'
  <1>1. cur' = cur
    BY DEF Write
  <1>2. CASE ~w.ack
    <2>1. BeginScan("writeFailed") /\ result'.code = "PLC_WRITE_FAILED"
      BY <1>2 DEF Write, failure
    <2> QED
      BY <2>1, BackBegin
  <1>3. CASE w.ack
    <2>1. w.applied /\ BeginScan("confirm")
      BY <1>3 DEF Write, WriteOutcomes
    <2>2. pc' = "scan" /\ scan'.why = "confirm" /\ scan'.batch = 1
      BY <2>1, FreshScan DEF Reasons
    <2>3. plc'[WritePoint[cur.point]] = level
      BY <2>1, AtWrite DEF Write, IInv, TypeOK, PulseTyped
    <2>4. ReadsOwnPoint => ReadPoint[cur.point] \in Readable
      BY AtWrite, ConfigAssumption DEF ReadsOwnPoint
    <2>5. ReadsOwnPoint => ~Done(ReadPoint[cur.point])'
      BY <1>1, <2>2, <2>4, ConfigAssumption DEF Done
    <2>6. Asked' = Asked /\ ReadsOwnPoint' = ReadsOwnPoint
      BY <1>1 DEF Asked, ReadsOwnPoint
    <2> QED
      BY <1>1, <2>2, <2>3, <2>5, <2>6 DEF BackInv, ConfirmInv, SuccessIsReadBack
  <1> QED
    BY <1>2, <1>3

LEMMA BackExecute == IInv /\ BackInv /\ Execute => BackInv'
  <1> SUFFICES ASSUME IInv, BackInv, Execute PROVE BackInv'
    OBVIOUS
  <1>1. CASE RejectLocally
    <2>1. pc' = "reply" /\ result'.code # "OK"
      BY <1>1 DEF RejectLocally, failure
    <2> QED
      BY <2>1 DEF BackInv, ConfirmInv, SuccessIsReadBack
  <1>2. CASE ReadToggle
    BY <1>2, BackBegin DEF ReadToggle, cmdVars
  <1>3. ASSUME NEW w \in WriteOutcomes, WriteFirst(w) PROVE BackInv'
    <2>1. LocalCheck(cur) = "OK" /\ cur.action # "toggle" /\ target' = target /\ cur' = cur /\ cur \in Request
      BY <1>3 DEF WriteFirst, Write, IInv, TypeOK, CmdTyped
    <2>2. CASE cur.action = "pulse"
      <3>1. CASE w.ack
        BY <1>3, <2>1, <2>2, <3>1 DEF WriteFirst, Write, BackInv, ConfirmInv, SuccessIsReadBack
      <3>2. CASE ~w.ack
        <4>1. BeginScan("writeFailed") /\ result'.code = "PLC_WRITE_FAILED"
          BY <1>3, <3>2 DEF WriteFirst, Write, failure
        <4> QED
          BY <4>1, BackBegin
      <3> QED
        BY <3>1, <3>2
    <2>3. CASE cur.action # "pulse"
      <3>1. Write(FirstLevel(cur), w, BeginScan("confirm"))
        BY <1>3, <2>3 DEF WriteFirst
      <3>2. FirstLevel(cur) = Asked
        BY <2>1, <2>3 DEF FirstLevel, Asked, LocalCheck, allowsAction, Request
      <3> QED
        BY <2>1, <3>1, <3>2, BackWrite
    <2> QED
      BY <2>2, <2>3
  <1>4. ASSUME NEW w \in WriteOutcomes, ClearPulse(w) PROVE BackInv'
    <2>1. Write(Default[cur.point], w, BeginScan("confirm")) /\ target' = target /\ pc = "hold"
      BY <1>4 DEF ClearPulse
    <2>2. LocalCheck(cur) = "OK" /\ Default[cur.point] = Asked
      BY <2>1 DEF IInv, Control, PastChecks, BackInv, Asked
    <2> QED
      BY <2>1, <2>2, BackWrite
  <1>5. ASSUME NEW w \in WriteOutcomes, WriteToggle(w) PROVE BackInv'
    <2>1. Write(target, w, BeginScan("confirm")) /\ target' = target /\ pc = "flip"
      BY <1>5 DEF WriteToggle
    <2>2. LocalCheck(cur) = "OK" /\ target = Asked
      BY <2>1 DEF IInv, Control, PastChecks, BackInv, Asked
    <2> QED
      BY <2>1, <2>2, BackWrite
  <1> QED
    BY <1>1, <1>2, <1>3, <1>4, <1>5 DEF Execute

\* Reading a batch: the confirming scan takes the level from the PLC.
LEMMA BackRead == IInv /\ BackInv /\ ReadBatch => BackInv'
  <1> SUFFICES ASSUME IInv, BackInv, ReadBatch PROVE BackInv'
    OBVIOUS
  <1>1. /\ pc = "scan" /\ pc' = "scan" /\ UNCHANGED <<cur, result, target, plc, drifted>>
        /\ scan \in Scan
    BY DEF ReadBatch, ReadBatchOk, ReadBatchError, ReadBatchDisconnected, cmdVars, pulseVars, IInv, TypeOK, ReadTyped
  <1>2. scan'.why = scan.why
    BY <1>1 DEF ReadBatch, ReadBatchOk, ReadBatchError, ReadBatchDisconnected, FailBatch, Scan
  <1>3. Asked' = Asked /\ ReadsOwnPoint' = ReadsOwnPoint
    BY <1>1 DEF Asked, ReadsOwnPoint
  <1>4. CASE ReadBatchError \/ ReadBatchDisconnected
    <2>1. scan'.err = TRUE
      BY <1>1, <1>4 DEF ReadBatchError, ReadBatchDisconnected, FailBatch, Scan
    <2> QED
      BY <1>1, <1>2, <1>3, <2>1 DEF BackInv, ConfirmInv, SuccessIsReadBack
  <1>5. CASE ReadBatchOk
    <2>1. /\ scan'.batch = scan.batch + 1 /\ scan'.err = scan.err
          /\ \A p \in Readable : scan'.values[p] = IF InBatch(p) THEN [value |-> plc[p], quality |-> "good"]
                                                   ELSE scan.values[p]
      BY <1>1, <1>5 DEF ReadBatchOk, Scan
    <2>2. \A p \in Readable : Done(p)' => InBatch(p) \/ Done(p)
      BY <1>1, <2>1, ConfigAssumption DEF Done, InBatch, Scan
    <2>3. ConfirmInv'
      <3> SUFFICES ASSUME scan.why = "confirm", ~drifted
                   PROVE  /\ plc[WritePoint[cur.point]] = Asked
                          /\ ReadsOwnPoint /\ ~scan.err /\ Done(ReadPoint[cur.point])' =>
                                scan'.values[ReadPoint[cur.point]].value = Asked
        BY <1>1, <1>2, <1>3, <2>1 DEF ConfirmInv, Done
      <3>1. /\ plc[WritePoint[cur.point]] = Asked
            /\ ReadsOwnPoint /\ ~scan.err /\ Done(ReadPoint[cur.point]) =>
                  scan.values[ReadPoint[cur.point]].value = Asked
        BY <1>1 DEF BackInv, ConfirmInv
      <3>2. LocalCheck(cur) = "OK"
        BY <1>1 DEF IInv, Control, PastChecks
      <3>3. ReadsOwnPoint => ReadPoint[cur.point] \in Readable
        BY <3>2, AtWrite, ConfigAssumption DEF ReadsOwnPoint
      <3> QED
        <4> SUFFICES ASSUME ReadsOwnPoint, ~scan.err, Done(ReadPoint[cur.point])'
                     PROVE  scan'.values[ReadPoint[cur.point]].value = Asked
          BY <3>1
        <4> DEFINE p == ReadPoint[cur.point]
        <4>1. p \in Readable /\ plc[p] = Asked
          BY <3>1, <3>3 DEF ReadsOwnPoint
        <4>2. BatchOf[p] < scan'.batch
          BY <1>1 DEF Done
        <4> HIDE DEF p
        <4>3. InBatch(p) \/ Done(p)
          BY <2>2, <4>1, <4>2 DEF Done
        <4>4. ~InBatch(p) => scan.values[p].value = Asked
          BY <3>1, <4>3 DEF p
        <4>5. scan'.values[p].value = Asked
          <5>1. scan'.values[p] = IF InBatch(p) THEN [value |-> plc[p], quality |-> "good"] ELSE scan.values[p]
            BY <2>1, <4>1
          <5>2. CASE InBatch(p)
            <6>1. scan'.values[p] = [value |-> plc[p], quality |-> "good"]
              BY <5>1, <5>2
            <6> QED
              BY <4>1, <6>1
          <5>3. CASE ~InBatch(p)
            BY <4>4, <5>1, <5>3
          <5> QED
            BY <5>2, <5>3
        <4> QED
          BY <4>5 DEF p
    <2> QED
      BY <1>1, <1>2, <1>3, <2>3 DEF BackInv, SuccessIsReadBack
  <1> QED
    BY <1>4, <1>5 DEF ReadBatch

\* The end of a scan: the reply carries what the confirming scan read.
LEMMA BackFinish == IInv /\ BackInv /\ FinishScan => BackInv'
  <1> SUFFICES ASSUME IInv, BackInv, FinishScan PROVE BackInv'
    OBVIOUS
  <1>1. /\ pc = "scan" /\ scan.batch > Batches /\ scan \in Scan
        /\ UNCHANGED <<cur, plc, drifted>>
    BY DEF FinishScan, pulseVars, IInv, TypeOK, ReadTyped
  <1>2. PICK publishFails \in BOOLEAN : AfterScan(FinalValues, scan.err \/ publishFails)
    BY DEF FinishScan
  <1>3. CASE scan.why \in {"initial", "poll"}
    BY <1>2, <1>3 DEF AfterScan, BackInv, ConfirmInv, SuccessIsReadBack
  <1>4. CASE scan.why = "writeFailed"
    BY <1>1, <1>2, <1>4 DEF AfterScan, BackInv, ConfirmInv, SuccessIsReadBack
  <1>5. CASE scan.why = "toggle"
    <2>1. pc' = "flip" \/ (pc' = "reply" /\ result'.code # "OK")
      BY <1>2, <1>5 DEF AfterScan, failure
    <2> QED
      BY <1>1, <1>5, <2>1 DEF BackInv, ConfirmInv, SuccessIsReadBack
  <1>6. CASE scan.why = "confirm"
    <2>1. pc' = "reply" /\ target' = target
      BY <1>2, <1>6 DEF AfterScan
    <2>2. SuccessIsReadBack'
      <3> SUFFICES ASSUME result'.code = "OK", ~drifted, ReadsOwnPoint
                   PROVE  result'.actual = Asked
        BY <1>1, <2>1 DEF SuccessIsReadBack, Asked, ReadsOwnPoint
      <3>1. LocalCheck(cur) = "OK"
        BY <1>1, <1>6 DEF IInv, Control, PastChecks
      <3>2. ReadPoint[cur.point] \in Readable /\ ReadPoint[cur.point] # NoPoint
        BY <3>1, AtWrite, ConfigAssumption DEF ReadsOwnPoint
      <3>3. Done(ReadPoint[cur.point])
        BY <1>1, <3>2, ConfigAssumption DEF Done, Scan
      <3>4. ~scan.err /\ result'.actual = FinalValues[ReadPoint[cur.point]].value
        BY <1>2, <1>6, <3>2 DEF AfterScan, failure
      <3>5. FinalValues = scan.values
        BY <3>4 DEF FinalValues
      <3> QED
        BY <1>1, <1>6, <3>3, <3>4, <3>5 DEF BackInv, ConfirmInv
    <2> QED
      BY <2>1, <2>2 DEF BackInv, ConfirmInv
  <1> QED
    BY <1>1, <1>3, <1>4, <1>5, <1>6 DEF Scan, Reasons

LEMMA BackStep == IInv /\ BackInv /\ [Next]_vars => BackInv'
  <1> SUFFICES ASSUME IInv, BackInv, [Next]_vars PROVE BackInv'
    OBVIOUS
  <1>1. CASE Start \/ Tick
    <2>1. BeginScan("initial") \/ BeginScan("poll") => BackInv'
      BY BackBegin
    <2>2. pc' \in {"exit", "exec"} => BackInv'
      BY DEF BackInv, ConfirmInv, SuccessIsReadBack
    <2> QED
      BY <1>1, <2>1, <2>2 DEF Start, Tick, Dequeue
  <1>2. CASE CheckContext \/ PreferCommand \/ Select \/ Reply \/ StopAdmitting \/ Close
    <2>1. pc' \in {"exit", "prefer", "exec", "wait", "tick", "loop", "drain", "done"}
      BY <1>2 DEF CheckContext, PreferCommand, Select, Dequeue, Reply, StopAdmitting, Close
    <2> QED
      BY <2>1 DEF BackInv, ConfirmInv, SuccessIsReadBack
  <1>3. CASE ReadBatch \/ FinishScan \/ Execute
    BY <1>3, BackRead, BackFinish, BackExecute
  <1>4. CASE RejectQueued \/ Cancel \/ TimerElapses \/ ConfirmDisconnected
    BY <1>4, BackFrame DEF RejectQueued, Cancel, TimerElapses, ConfirmDisconnected, cmdVars, readVars, pulseVars
  <1>5. CASE \E c \in Commands : TrySubmit(c)
    BY <1>5, BackFrame DEF TrySubmit, cmdVars, readVars, pulseVars
  <1>6. CASE \E p \in Moving, v \in Values : PlcMoves(p, v)
    <2>1. UNCHANGED <<cur, result, target, scan, pc>> /\ drifted' = (cur # NoRequest)
      BY <1>6 DEF PlcMoves, cmdVars, readVars
    <2>2. (pc = "scan" /\ scan.why = "confirm") \/ pc = "reply" => cur # NoRequest
      BY DEF IInv, Control, HoldsRequest, Handling
    <2> QED
      BY <2>1, <2>2 DEF BackInv, ConfirmInv, SuccessIsReadBack
  <1>7. CASE UNCHANGED vars
    BY <1>7, BackFrame DEF vars, cmdVars, readVars, pulseVars
  <1> QED
    BY <1>1, <1>2, <1>3, <1>4, <1>5, <1>6, <1>7 DEF Next, Run

\* A successful reply carries the level the command asked for, read back after its
\* write, unless the PLC moved on its own or feeds another point back (execute).
THEOREM SuccessIsConfirmed == Spec => []SuccessIsReadBack
  <1>1. Init => IInv /\ BackInv
    BY InitIInv DEF Init, BackInv, ConfirmInv, SuccessIsReadBack
  <1>2. IInv /\ BackInv /\ [Next]_vars => (IInv /\ BackInv)'
    BY NextIInv, BackStep
  <1>3. BackInv => SuccessIsReadBack
    BY DEF BackInv
  <1> QED
    BY <1>1, <1>2, <1>3, PTL DEF Spec
============================================================
