------------------------- MODULE CommandQueueProofs -------------------------
(***************************************************************************)
(* Proofs about the command pipeline, for every set of commandIds and      *)
(* contents and any number of submissions, crashes, samples and device     *)
(* sessions: it implements CommandLedger, never leaves a PENDING record    *)
(* behind, and keeps the persisted snapshot in order.                      *)
(***************************************************************************)
EXTENDS CommandQueue, TLAPS

-----------------------------------------------------------------------------
(* The inductive invariant. *)

InHand == pc \notin {"idle", "done"}

\* There is a request in hand exactly while process runs.
WorkInv ==
    /\ InHand => up /\ cur \in [id : Ids, body : Bodies]
    /\ ~up => pc = "done"
    /\ ~InHand => ~waiting
    /\ pc # "answer" => answer = NoResult

\* One record at most is PENDING, also after the queue terminated with it; the
\* record of the command in hand is, until its outcome is durable.
RecordInv ==
    /\ \A i, j \in Ids : status[i] = "PENDING" /\ status[j] = "PENDING" => i = j
    /\ pc \in {"check", "execute", "answer", "read"} => status[cur.id] = "PENDING"
    /\ pc = "persist" => status[cur.id] \in {"PENDING", result.status}

\* A request is on its way to the device only for a command that has not taken effect
\* and whose outcome is open or UNKNOWN.
DeviceInv ==
    /\ \A i \in inflight : applied[i] = 0 /\ status[i] \in {"PENDING", "UNKNOWN"}
    /\ \A i \in Ids : status[i] = "none" => applied[i] = 0

\* What the goroutine and the answer know about the command in hand.
OutcomeInv ==
    /\ pc \in {"check", "execute"} => cur.id \notin inflight /\ applied[cur.id] = 0
    /\ pc = "answer" =>
          /\ answer # NoResult => cur.id \notin inflight /\ answer.status # "none"
          /\ answer.status = "EXECUTED" => applied[cur.id] = 1 /\ execRev[cur.id] = answer.rev
          /\ answer.status = "REJECTED" => applied[cur.id] = 0
    /\ pc = "read" =>
          /\ result.status = "EXECUTED" /\ cur.id \notin inflight
          /\ applied[cur.id] = 1 /\ execRev[cur.id] = result.rev
    /\ pc = "persist" =>
          /\ result.status # "UNKNOWN" => cur.id \notin inflight
          /\ result.status = "EXECUTED" =>
                applied[cur.id] = 1 /\ readback \in Snapshots /\ readback.rev = execRev[cur.id]
          /\ result.status = "REJECTED" => applied[cur.id] = 0

\* The mark "available" is this process's own.
SourceInv ==
    /\ available => sampled \/ reloaded
    /\ pc \in {"execute", "answer"} => sampled \/ reloaded

IInv == TypeOK /\ WorkInv /\ RecordInv /\ PendingIsInHand /\ DeviceInv /\ OutcomeInv /\ SourceInv /\ ExecutedIsVisible

-----------------------------------------------------------------------------
(* Type correctness. *)

LEMMA ConstantTypes ==
  /\ NoResult \in [status : Terminal \cup {"none"}, rev : Nat]
  /\ NoResult \in [status : {"none", "EXECUTED", "REJECTED", "FAILED"}, rev : Nat]
  /\ [status |-> "UNKNOWN", rev |-> 0] \in [status : Terminal \cup {"none"}, rev : Nat]
  /\ [status |-> "REJECTED", rev |-> 0] \in [status : Terminal \cup {"none"}, rev : Nat]
  /\ Terminal \subseteq Statuses /\ "UNKNOWN" \in Terminal /\ "REJECTED" \in Terminal /\ "PENDING" \in Statuses
BY DEF NoResult, Terminal, Statuses

\* The snapshot read from the device.
LEMMA DeviceSnapshot ==
  ASSUME TypeOK, NEW good \in BOOLEAN
  PROVE  [session |-> dev.session, rev |-> dev.rev, seq |-> dev.seq, good |-> good] \in Snapshots
BY DEF TypeOK, Snapshots

LEMMA SnapshotParts ==
  /\ \A s \in Snapshots \cup {NoSnap} : s.good \in BOOLEAN /\ [s EXCEPT !.good = FALSE] \in Snapshots \cup {NoSnap}
  /\ \A s \in Snapshots \cup {NoSnap} : s.session \in Nat /\ s.rev \in Nat /\ s.seq \in Nat
<1>1. \A s \in Snapshots : s.good \in BOOLEAN /\ [s EXCEPT !.good = FALSE] \in Snapshots
  BY DEF Snapshots
<1>1a. \A s \in Snapshots : s.session \in Nat /\ s.rev \in Nat /\ s.seq \in Nat
  BY PipelineAssumption DEF Snapshots
<1>2. /\ NoSnap.good = FALSE /\ NoSnap = [x \in DOMAIN NoSnap |-> NoSnap[x]]
      /\ NoSnap.session \in Nat /\ NoSnap.rev \in Nat /\ NoSnap.seq \in Nat
  BY DEF NoSnap
<1>3. \A r : r.good = FALSE /\ r = [x \in DOMAIN r |-> r[x]] => [r EXCEPT !.good = FALSE] = r
  OBVIOUS
<1>4. [NoSnap EXCEPT !.good = FALSE] = NoSnap
  BY <1>2, <1>3
<1> QED
  BY <1>1, <1>1a, <1>2, <1>4

LEMMA RespondType ==
  ASSUME TypeOK, WorkInv, InHand, NEW reply \in Statuses \cup {"conflict", "error"}, NEW fatal \in BOOLEAN,
         Respond(reply, fatal)
  PROVE  /\ pc' \in {"idle", "done"} /\ cur' = NoRequest /\ waiting' \in BOOLEAN
         /\ result' = NoResult /\ readback' = NoSnap
         /\ submits' = submits
         /\ told' \in [Ids -> SUBSET Statuses]
<1>1. cur.id \in Ids /\ told \in [Ids -> SUBSET Statuses]
  BY DEF TypeOK, WorkInv
<1>2. reply \notin {"conflict", "error"} => reply \in Statuses
  OBVIOUS
<1>3. told' \in [Ids -> SUBSET Statuses]
  BY <1>1, <1>2 DEF Respond
<1> QED
  BY <1>3 DEF Respond

LEMMA SubmitType == ASSUME IInv, NEW i \in Ids, NEW b \in Bodies, Submit(i, b) PROVE TypeOK'
<1>0. TypeOK /\ WorkInv
  BY DEF IInv
<1>1. submits' \in 0..MaxSubmits
  BY <1>0, PipelineAssumption DEF TypeOK, Submit
<1>2. cur' \in [id : Ids, body : Bodies] /\ waiting' \in BOOLEAN /\ expired' \in BOOLEAN /\ pc' = "begin"
  BY DEF Submit
<1>3. UNCHANGED <<durableVars, result, readback, deviceVars, processVars, sourceVars, told>>
  BY DEF Submit
<1> QED
  BY <1>0, <1>1, <1>2, <1>3 DEF TypeOK, durableVars, deviceVars, processVars, sourceVars

LEMMA CallerLeavesType == ASSUME IInv, CallerLeaves PROVE TypeOK'
<1>0. TypeOK /\ WorkInv
  BY DEF IInv
<1>1. waiting' \in BOOLEAN
  BY DEF CallerLeaves
<1> QED
  BY <1>0, <1>1, ConstantTypes DEF TypeOK, CallerLeaves, durableVars, workVars, deviceVars, processVars, sourceVars

LEMMA CloseType == ASSUME IInv, Close PROVE TypeOK'
<1>0. TypeOK /\ WorkInv
  BY DEF IInv
<1> QED
  BY <1>0, ConstantTypes DEF TypeOK, Close, durableVars, workVars, deviceVars, processVars, sourceVars

LEMMA RunStopsType == ASSUME IInv, RunStops PROVE TypeOK'
<1>0. TypeOK /\ WorkInv
  BY DEF IInv
<1> QED
  BY <1>0, ConstantTypes DEF TypeOK, RunStops, durableVars, workVars, deviceVars, processVars, sourceVars

LEMMA ExecuteTimeoutType == ASSUME IInv, ExecuteTimeout PROVE TypeOK'
<1>0. TypeOK /\ WorkInv
  BY DEF IInv
<1> QED
  BY <1>0, ConstantTypes DEF TypeOK, ExecuteTimeout, durableVars, workVars, deviceVars, processVars, sourceVars

LEMMA BudgetEndsType == ASSUME IInv, BudgetEnds PROVE TypeOK'
<1>0. TypeOK /\ WorkInv
  BY DEF IInv
<1> QED
  BY <1>0, ConstantTypes DEF TypeOK, BudgetEnds, durableVars, workVars, deviceVars, processVars, sourceVars

LEMMA TimePassesType == ASSUME IInv, TimePasses PROVE TypeOK'
<1>0. TypeOK /\ WorkInv
  BY DEF IInv
<1> QED
  BY <1>0, ConstantTypes DEF TypeOK, TimePasses, durableVars, workVars, deviceVars, processVars, sourceVars

LEMMA BeginExistingType == ASSUME IInv, BeginExisting PROVE TypeOK'
<1>0. TypeOK /\ WorkInv
  BY DEF IInv
<1>1. /\ pc' \in {"idle", "done"} /\ cur' = NoRequest /\ waiting' \in BOOLEAN
      /\ result' = NoResult /\ readback' = NoSnap /\ submits' = submits /\ told' \in [Ids -> SUBSET Statuses]
  <2>1. cur.id \in Ids
    BY <1>0 DEF WorkInv, InHand, BeginExisting
  <2>2. (IF body[cur.id] = cur.body THEN status[cur.id] ELSE "conflict") \in Statuses \cup {"conflict", "error"}
    BY <1>0, <2>1 DEF TypeOK
  <2> QED
    BY <1>0, <2>2, RespondType DEF BeginExisting, InHand
<1> QED
  BY <1>0, <1>1, ConstantTypes DEF TypeOK, BeginExisting, durableVars, workVars, deviceVars, processVars, sourceVars

LEMMA BeginInsertType == ASSUME IInv, BeginInsert PROVE TypeOK'
<1>0. TypeOK /\ WorkInv
  BY DEF IInv
<1>1. cur.id \in Ids /\ cur.body \in Bodies
  BY <1>0 DEF WorkInv, InHand, BeginInsert
<1> QED
  BY <1>0, <1>1, ConstantTypes DEF TypeOK, BeginInsert, durableVars, workVars, deviceVars, processVars, sourceVars

LEMMA BeginFailsType == ASSUME IInv, BeginFails PROVE TypeOK'
<1>0. TypeOK /\ WorkInv
  BY DEF IInv
<1>1. cur.id \in Ids /\ cur.body \in Bodies
  BY <1>0 DEF WorkInv, InHand, BeginFails
<1>2. /\ pc' \in {"idle", "done"} /\ cur' = NoRequest /\ waiting' \in BOOLEAN
      /\ result' = NoResult /\ readback' = NoSnap /\ submits' = submits /\ told' \in [Ids -> SUBSET Statuses]
  BY <1>0, RespondType DEF BeginFails, InHand
<1>3. status' \in [Ids -> Statuses] /\ body' \in [Ids -> Bodies \cup {NoBody}]
  BY <1>0, <1>1, ConstantTypes DEF BeginFails, TypeOK
<1> QED
  BY <1>0, <1>2, <1>3, ConstantTypes DEF TypeOK, BeginFails, durableVars, workVars, deviceVars, processVars, sourceVars

LEMMA CheckType == ASSUME IInv, Check PROVE TypeOK'
<1>0. TypeOK /\ WorkInv
  BY DEF IInv
<1>1. available' \in BOOLEAN
  BY <1>0 DEF TypeOK, Check
<1> QED
  BY <1>0, <1>1, ConstantTypes DEF TypeOK, Check, durableVars, workVars, deviceVars, processVars, sourceVars

LEMMA ExecuteType == ASSUME IInv, Execute PROVE TypeOK'
<1>0. TypeOK /\ WorkInv
  BY DEF IInv
<1>1. cur.id \in Ids
  BY <1>0 DEF WorkInv, InHand, Execute
<1> QED
  BY <1>0, <1>1, ConstantTypes DEF TypeOK, Execute, durableVars, workVars, deviceVars, processVars, sourceVars

LEMMA ExecuteAnsweredType == ASSUME IInv, ExecuteAnswered PROVE TypeOK'
<1>0. TypeOK /\ WorkInv
  BY DEF IInv
<1>1. answer \in [status : Terminal \cup {"none"}, rev : Nat] /\ answer.status \in Terminal
  BY <1>0 DEF IInv, OutcomeInv, ExecuteAnswered, TypeOK, Terminal
<1>2. result' \in [status : Terminal \cup {"none"}, rev : Nat] /\ result'.status \in Terminal
  BY <1>1, ConstantTypes DEF ExecuteAnswered
<1> QED
  BY <1>0, <1>2, ConstantTypes DEF TypeOK, ExecuteAnswered, durableVars, workVars, deviceVars, processVars, sourceVars

LEMMA ReadType == ASSUME IInv, Read PROVE TypeOK'
<1>0. TypeOK /\ WorkInv
  BY DEF IInv
<1>1. result' \in [status : Terminal \cup {"none"}, rev : Nat] /\ result'.status \in Terminal
  BY <1>0 DEF IInv, OutcomeInv, TypeOK, Read, Terminal
<1>2. readback' \in Snapshots \cup {NoSnap}
  BY <1>0, DeviceSnapshot DEF TypeOK, Read
<1> QED
  BY <1>0, <1>1, <1>2, ConstantTypes DEF TypeOK, Read, durableVars, workVars, deviceVars, processVars, sourceVars

LEMMA PersistOkType == ASSUME IInv, PersistOk PROVE TypeOK'
<1>0. TypeOK /\ WorkInv
  BY DEF IInv
<1>1. cur.id \in Ids /\ result.status \in Terminal
  BY <1>0 DEF TypeOK, WorkInv, InHand, PersistOk
<1>2. status' \in [Ids -> Statuses] /\ rows' \in [Ids -> Nat] /\ snap' \in Snapshots \cup {NoSnap} /\ body' = body
  BY <1>0, <1>1, ConstantTypes DEF PersistOk, Completes, TypeOK, durableVars
<1>3. available' \in BOOLEAN /\ aged' \in BOOLEAN /\ sampled' \in BOOLEAN /\ reloaded' \in BOOLEAN
  <2>1. available' \in BOOLEAN
    BY <1>0, SnapshotParts DEF TypeOK, PersistOk
  <2> QED
    BY <1>0, <2>1 DEF TypeOK, PersistOk
<1>4. /\ pc' \in {"idle", "done"} /\ cur' = NoRequest /\ waiting' \in BOOLEAN
      /\ result' = NoResult /\ readback' = NoSnap /\ submits' = submits /\ told' \in [Ids -> SUBSET Statuses]
  BY <1>0, <1>1, RespondType, ConstantTypes DEF PersistOk, InHand
<1>5. UNCHANGED <<expired, deviceVars, processVars, sample>>
  BY DEF PersistOk
<1> QED
  BY <1>0, <1>2, <1>3, <1>4, <1>5, ConstantTypes DEF TypeOK, deviceVars, processVars

LEMMA PersistFailsType == ASSUME IInv, PersistFails PROVE TypeOK'
<1>0. TypeOK /\ WorkInv
  BY DEF IInv
<1>1. cur.id \in Ids /\ result.status \in Terminal
  BY <1>0 DEF TypeOK, WorkInv, InHand, PersistFails
<1>2. status' \in [Ids -> Statuses] /\ rows' \in [Ids -> Nat] /\ snap' \in Snapshots \cup {NoSnap} /\ body' = body
  BY <1>0, <1>1, ConstantTypes DEF PersistFails, Completes, TypeOK, durableVars
<1>3. available' \in BOOLEAN /\ aged' \in BOOLEAN /\ sampled' \in BOOLEAN /\ reloaded' \in BOOLEAN
  <2>1. available' \in BOOLEAN
    BY <1>0, SnapshotParts DEF TypeOK, PersistFails
  <2> QED
    BY <1>0, <2>1 DEF TypeOK, PersistFails
<1>4. UNCHANGED <<workVars, deviceVars, processVars, sample, submits, told>>
  BY DEF PersistFails
<1> QED
  BY <1>0, <1>2, <1>3, <1>4 DEF TypeOK, workVars, deviceVars, processVars

LEMMA PersistGivesUpType == ASSUME IInv, PersistGivesUp PROVE TypeOK'
<1>0. TypeOK /\ WorkInv
  BY DEF IInv
<1>1. /\ pc' \in {"idle", "done"} /\ cur' = NoRequest /\ waiting' \in BOOLEAN
      /\ result' = NoResult /\ readback' = NoSnap /\ submits' = submits /\ told' \in [Ids -> SUBSET Statuses]
  BY <1>0, RespondType DEF PersistGivesUp, InHand
<1>2. available' \in BOOLEAN
  BY <1>0 DEF PersistGivesUp, TypeOK
<1>3. UNCHANGED <<durableVars, expired, deviceVars, processVars, aged, sample, sampled, reloaded>>
  BY DEF PersistGivesUp
<1> QED
  BY <1>0, <1>1, <1>2, <1>3, ConstantTypes DEF TypeOK, durableVars, deviceVars, processVars

LEMMA CrashType == ASSUME IInv, Crash PROVE TypeOK'
<1>0. TypeOK /\ WorkInv
  BY DEF IInv
<1>1. crashes' \in 0..MaxCrashes
  BY <1>0, PipelineAssumption DEF TypeOK, Crash
<1> QED
  BY <1>0, <1>1, ConstantTypes DEF TypeOK, Crash, durableVars, workVars, deviceVars, processVars, sourceVars

LEMMA RestartType == ASSUME IInv, Restart PROVE TypeOK'
<1>0. TypeOK /\ WorkInv
  BY DEF IInv
<1>1. status' \in [Ids -> Statuses] /\ rows' \in [Ids -> Nat]
  BY <1>0, ConstantTypes DEF TypeOK, Restart, RecoverPending
<1> QED
  BY <1>0, <1>1, ConstantTypes DEF TypeOK, Restart, durableVars, workVars, deviceVars, processVars, sourceVars

LEMMA SampleReadType == ASSUME IInv, SampleRead PROVE TypeOK'
<1>0. TypeOK /\ WorkInv
  BY DEF IInv
<1>1. sample' \in Snapshots
  BY <1>0, DeviceSnapshot DEF SampleRead
<1> QED
  BY <1>0, <1>1, ConstantTypes DEF TypeOK, SampleRead, durableVars, workVars, deviceVars, processVars, sourceVars

LEMMA SavePLCType == ASSUME IInv, SavePLC PROVE TypeOK'
<1>0. TypeOK /\ WorkInv
  BY DEF IInv
<1>1. snap' \in Snapshots \cup {NoSnap}
  BY <1>0 DEF SavePLC, TypeOK
<1>2. aged' \in BOOLEAN /\ available' \in BOOLEAN /\ sampled' \in BOOLEAN
  BY <1>0, SnapshotParts DEF SavePLC, TypeOK
<1>3. UNCHANGED <<status, body, rows, workVars, deviceVars, processVars, reloaded, submits, told>> /\ sample' = NoSnap
  BY DEF SavePLC
<1> QED
  BY <1>0, <1>1, <1>2, <1>3 DEF TypeOK, workVars, deviceVars, processVars

LEMMA MarkStaleType == ASSUME IInv, MarkStale PROVE TypeOK'
<1>0. TypeOK /\ WorkInv
  BY DEF IInv
<1>1. snap' \in Snapshots \cup {NoSnap}
  BY <1>0, SnapshotParts DEF MarkStale, TypeOK
<1>2. /\ available' \in BOOLEAN
      /\ UNCHANGED <<status, body, rows, workVars, deviceVars, processVars, aged, sample, sampled, reloaded, submits, told>>
  BY DEF MarkStale
<1> QED
  BY <1>0, <1>1, <1>2 DEF TypeOK, workVars, deviceVars, processVars

LEMMA DeviceExecutesType == ASSUME IInv, NEW i \in Ids, DeviceExecutes(i) PROVE TypeOK'
<1>0. TypeOK /\ WorkInv
  BY DEF IInv
<1> QED
  BY <1>0, ConstantTypes DEF TypeOK, DeviceExecutes, AnswerTo, durableVars, workVars, deviceVars, processVars, sourceVars

LEMMA DeviceRefusesType == ASSUME IInv, NEW i \in Ids, DeviceRefuses(i) PROVE TypeOK'
<1>0. TypeOK /\ WorkInv
  BY DEF IInv
<1> QED
  BY <1>0, ConstantTypes DEF TypeOK, DeviceRefuses, AnswerTo, durableVars, workVars, deviceVars, processVars, sourceVars

LEMMA DeviceTicksType == ASSUME IInv, DeviceTicks PROVE TypeOK'
<1>0. TypeOK /\ WorkInv
  BY DEF IInv
<1>1. dev' \in [session : 1..MaxSessions, rev : Nat \ {0}, seq : 0..MaxSamples]
  <2>1. CASE dev.seq < MaxSamples /\ dev' = [dev EXCEPT !.seq = @ + 1]
    <3>1. dev.seq + 1 \in 0..MaxSamples
      BY <1>0, <2>1, PipelineAssumption DEF TypeOK
    <3> QED
      BY <1>0, <2>1, <3>1 DEF TypeOK
  <2>2. CASE dev.session < MaxSessions /\ dev' = [dev EXCEPT !.session = @ + 1, !.seq = 0]
    <3>1. dev.session + 1 \in 1..MaxSessions /\ 0 \in 0..MaxSamples
      BY <1>0, <2>2, PipelineAssumption DEF TypeOK
    <3> QED
      BY <1>0, <2>2, <3>1 DEF TypeOK
  <2> QED
    BY <2>1, <2>2 DEF DeviceTicks
<1> QED
  BY <1>0, <1>1, ConstantTypes DEF TypeOK, DeviceTicks, durableVars, workVars, deviceVars, processVars, sourceVars

-----------------------------------------------------------------------------
(* The invariant, one lemma per action. *)

\* What happens beside the pipeline: nothing the invariant speaks of, except that a
\* caller may have left.
LEMMA Beside ==
  ASSUME IInv, waiting' => waiting,
         UNCHANGED <<up, pc, cur, result, readback, status, snap, inflight, applied, answer, execRev,
                     available, sampled, reloaded>>
  PROVE  /\ WorkInv' /\ RecordInv' /\ PendingIsInHand' /\ DeviceInv' /\ OutcomeInv' /\ SourceInv' /\ ExecutedIsVisible'
<1>1. WorkInv'
  BY DEF IInv, WorkInv, InHand
<1>2. RecordInv' /\ PendingIsInHand' /\ ExecutedIsVisible'
  BY DEF IInv, RecordInv, PendingIsInHand, ExecutedIsVisible
<1>3. DeviceInv' /\ OutcomeInv' /\ SourceInv'
  BY DEF IInv, DeviceInv, OutcomeInv, SourceInv
<1> QED
  BY <1>1, <1>2, <1>3

LEMMA CallerLeavesStep == ASSUME IInv, CallerLeaves PROVE IInv'
<1>1. TypeOK'
  BY CallerLeavesType
<1> QED
  BY <1>1, Beside DEF IInv, CallerLeaves, durableVars, workVars, deviceVars, processVars, sourceVars

LEMMA CloseStep == ASSUME IInv, Close PROVE IInv'
<1>1. TypeOK'
  BY CloseType
<1> QED
  BY <1>1, Beside DEF IInv, Close, durableVars, workVars, deviceVars, processVars, sourceVars

LEMMA BudgetEndsStep == ASSUME IInv, BudgetEnds PROVE IInv'
<1>1. TypeOK'
  BY BudgetEndsType
<1> QED
  BY <1>1, Beside DEF IInv, BudgetEnds, durableVars, workVars, deviceVars, processVars, sourceVars

LEMMA TimePassesStep == ASSUME IInv, TimePasses PROVE IInv'
<1>1. TypeOK'
  BY TimePassesType
<1> QED
  BY <1>1, Beside DEF IInv, TimePasses, durableVars, workVars, deviceVars, processVars, sourceVars

LEMMA SampleReadStep == ASSUME IInv, SampleRead PROVE IInv'
<1>1. TypeOK'
  BY SampleReadType
<1> QED
  BY <1>1, Beside DEF IInv, SampleRead, durableVars, workVars, deviceVars, processVars, sourceVars

LEMMA DeviceTicksStep == ASSUME IInv, DeviceTicks PROVE IInv'
<1>1. TypeOK'
  BY DeviceTicksType
<1> QED
  BY <1>1, Beside DEF IInv, DeviceTicks, durableVars, workVars, processVars, sourceVars

\* The completion of the command in hand.
LEMMA Completion ==
  ASSUME IInv, pc = "persist", status[cur.id] = "PENDING", Completes
  PROVE  /\ cur.id \in Ids /\ result.status \in Terminal
         /\ status'[cur.id] = result.status
         /\ \A i \in Ids : i # cur.id => status'[i] = status[i] /\ status[i] # "PENDING"
         /\ snap'.rev >= snap.rev
         /\ result.status = "EXECUTED" => snap'.rev >= execRev[cur.id]
<1>1. cur.id \in Ids /\ result.status \in Terminal
  BY DEF IInv, WorkInv, InHand, TypeOK
<1>2. /\ status'[cur.id] = result.status
      /\ \A i \in Ids : i # cur.id => status'[i] = status[i] /\ status[i] # "PENDING"
  BY <1>1 DEF IInv, TypeOK, RecordInv, Completes
<1>3. snap.rev \in Nat /\ readback.rev \in Nat
  BY SnapshotParts DEF IInv, TypeOK
<1>4. snap'.rev >= snap.rev
  BY <1>3 DEF Completes, acceptsSnapshot
<1>5. ASSUME result.status = "EXECUTED" PROVE snap'.rev >= execRev[cur.id]
  <2>1. readback \in Snapshots /\ readback.rev = execRev[cur.id]
    BY <1>5 DEF IInv, OutcomeInv
  <2>2. readback # NoSnap
    BY <2>1, PipelineAssumption DEF Snapshots, NoSnap
  <2> QED
    BY <1>3, <2>1, <2>2 DEF Completes, acceptsSnapshot
<1> QED
  BY <1>1, <1>2, <1>4, <1>5

LEMMA SubmitStep == ASSUME IInv, NEW i \in Ids, NEW b \in Bodies, Submit(i, b) PROVE IInv'
<1>1. TypeOK'
  BY SubmitType
<1>2. WorkInv'
  BY DEF IInv, Submit, durableVars, workVars, deviceVars, processVars, sourceVars, WorkInv, InHand, NoResult, TypeOK
<1>3. RecordInv' /\ PendingIsInHand'
  BY DEF IInv, Submit, durableVars, workVars, deviceVars, processVars, sourceVars, TypeOK, WorkInv, InHand, RecordInv, PendingIsInHand
<1>4. DeviceInv' /\ OutcomeInv'
  BY DEF IInv, Submit, durableVars, workVars, deviceVars, processVars, sourceVars, TypeOK, WorkInv, InHand, RecordInv, PendingIsInHand, DeviceInv, OutcomeInv, NoResult
<1>5. SourceInv' /\ ExecutedIsVisible'
  BY DEF IInv, Submit, durableVars, workVars, deviceVars, processVars, sourceVars, TypeOK, WorkInv, InHand, SourceInv, DeviceInv, ExecutedIsVisible
<1> QED
  BY <1>1, <1>2, <1>3, <1>4, <1>5 DEF IInv

LEMMA RunStopsStep == ASSUME IInv, RunStops PROVE IInv'
<1>1. TypeOK'
  BY RunStopsType
<1>2. WorkInv'
  BY DEF IInv, RunStops, durableVars, workVars, deviceVars, processVars, sourceVars, WorkInv, InHand, NoResult, TypeOK
<1>3. RecordInv' /\ PendingIsInHand'
  BY DEF IInv, RunStops, durableVars, workVars, deviceVars, processVars, sourceVars, TypeOK, WorkInv, InHand, RecordInv, PendingIsInHand
<1>4. DeviceInv' /\ OutcomeInv'
  BY DEF IInv, RunStops, durableVars, workVars, deviceVars, processVars, sourceVars, TypeOK, WorkInv, InHand, RecordInv, PendingIsInHand, DeviceInv, OutcomeInv, NoResult
<1>5. SourceInv' /\ ExecutedIsVisible'
  BY DEF IInv, RunStops, durableVars, workVars, deviceVars, processVars, sourceVars, TypeOK, WorkInv, InHand, SourceInv, DeviceInv, ExecutedIsVisible
<1> QED
  BY <1>1, <1>2, <1>3, <1>4, <1>5 DEF IInv

LEMMA BeginExistingStep == ASSUME IInv, BeginExisting PROVE IInv'
<1>1. TypeOK'
  BY BeginExistingType
<1>2. WorkInv'
  BY DEF IInv, BeginExisting, Respond, durableVars, workVars, deviceVars, processVars, sourceVars, WorkInv, InHand, NoResult, TypeOK
<1>3. RecordInv' /\ PendingIsInHand'
  BY DEF IInv, BeginExisting, Respond, durableVars, workVars, deviceVars, processVars, sourceVars, TypeOK, WorkInv, InHand, RecordInv, PendingIsInHand
<1>4. DeviceInv' /\ OutcomeInv'
  BY DEF IInv, BeginExisting, Respond, durableVars, workVars, deviceVars, processVars, sourceVars, TypeOK, WorkInv, InHand, RecordInv, PendingIsInHand, DeviceInv, OutcomeInv, NoResult
<1>5. SourceInv' /\ ExecutedIsVisible'
  BY DEF IInv, BeginExisting, Respond, durableVars, workVars, deviceVars, processVars, sourceVars, TypeOK, WorkInv, InHand, SourceInv, DeviceInv, ExecutedIsVisible
<1> QED
  BY <1>1, <1>2, <1>3, <1>4, <1>5 DEF IInv

LEMMA BeginInsertStep == ASSUME IInv, BeginInsert PROVE IInv'
<1>1. TypeOK'
  BY BeginInsertType
<1>2. WorkInv'
  BY DEF IInv, BeginInsert, durableVars, workVars, deviceVars, processVars, sourceVars, WorkInv, InHand, NoResult, TypeOK
<1>3. RecordInv' /\ PendingIsInHand'
  BY DEF IInv, BeginInsert, durableVars, workVars, deviceVars, processVars, sourceVars, TypeOK, WorkInv, InHand, RecordInv, PendingIsInHand
<1>4. DeviceInv' /\ OutcomeInv'
  BY DEF IInv, BeginInsert, durableVars, workVars, deviceVars, processVars, sourceVars, TypeOK, WorkInv, InHand, RecordInv, PendingIsInHand, DeviceInv, OutcomeInv, NoResult
<1>5. SourceInv' /\ ExecutedIsVisible'
  BY DEF IInv, BeginInsert, durableVars, workVars, deviceVars, processVars, sourceVars, TypeOK, WorkInv, InHand, SourceInv, DeviceInv, ExecutedIsVisible
<1> QED
  BY <1>1, <1>2, <1>3, <1>4, <1>5 DEF IInv

LEMMA BeginFailsStep == ASSUME IInv, BeginFails PROVE IInv'
<1>1. TypeOK'
  BY BeginFailsType
<1>2. WorkInv'
  BY DEF IInv, BeginFails, Respond, durableVars, workVars, deviceVars, processVars, sourceVars, WorkInv, InHand, NoResult, TypeOK
<1>3. RecordInv' /\ PendingIsInHand'
  BY DEF IInv, BeginFails, Respond, durableVars, workVars, deviceVars, processVars, sourceVars, TypeOK, WorkInv, InHand, RecordInv, PendingIsInHand
<1>4. DeviceInv' /\ OutcomeInv'
  BY DEF IInv, BeginFails, Respond, durableVars, workVars, deviceVars, processVars, sourceVars, TypeOK, WorkInv, InHand, RecordInv, PendingIsInHand, DeviceInv, OutcomeInv, NoResult
<1>5. SourceInv' /\ ExecutedIsVisible'
  BY DEF IInv, BeginFails, Respond, durableVars, workVars, deviceVars, processVars, sourceVars, TypeOK, WorkInv, InHand, SourceInv, DeviceInv, ExecutedIsVisible
<1> QED
  BY <1>1, <1>2, <1>3, <1>4, <1>5 DEF IInv

LEMMA CheckStep == ASSUME IInv, Check PROVE IInv'
<1>1. TypeOK'
  BY CheckType
<1>2. WorkInv'
  BY DEF IInv, Check, commandAvailability, durableVars, workVars, deviceVars, processVars, sourceVars, WorkInv, InHand, NoResult, TypeOK
<1>3. RecordInv' /\ PendingIsInHand'
  BY DEF IInv, Check, commandAvailability, durableVars, workVars, deviceVars, processVars, sourceVars, TypeOK, WorkInv, InHand, RecordInv, PendingIsInHand
<1>4. DeviceInv' /\ OutcomeInv'
  BY DEF IInv, Check, commandAvailability, durableVars, workVars, deviceVars, processVars, sourceVars, TypeOK, WorkInv, InHand, RecordInv, PendingIsInHand, DeviceInv, OutcomeInv, NoResult
<1>5. SourceInv' /\ ExecutedIsVisible'
  BY DEF IInv, Check, commandAvailability, durableVars, workVars, deviceVars, processVars, sourceVars, TypeOK, WorkInv, InHand, SourceInv, DeviceInv, ExecutedIsVisible
<1> QED
  BY <1>1, <1>2, <1>3, <1>4, <1>5 DEF IInv

LEMMA ExecuteStep == ASSUME IInv, Execute PROVE IInv'
<1>1. TypeOK'
  BY ExecuteType
<1>2. WorkInv'
  BY DEF IInv, Execute, durableVars, workVars, deviceVars, processVars, sourceVars, WorkInv, InHand, NoResult, TypeOK
<1>3. RecordInv' /\ PendingIsInHand'
  BY DEF IInv, Execute, durableVars, workVars, deviceVars, processVars, sourceVars, TypeOK, WorkInv, InHand, RecordInv, PendingIsInHand
<1>4. DeviceInv' /\ OutcomeInv'
  BY DEF IInv, Execute, durableVars, workVars, deviceVars, processVars, sourceVars, TypeOK, WorkInv, InHand, RecordInv, PendingIsInHand, DeviceInv, OutcomeInv, NoResult
<1>5. SourceInv' /\ ExecutedIsVisible'
  BY DEF IInv, Execute, durableVars, workVars, deviceVars, processVars, sourceVars, TypeOK, WorkInv, InHand, SourceInv, DeviceInv, ExecutedIsVisible
<1> QED
  BY <1>1, <1>2, <1>3, <1>4, <1>5 DEF IInv

LEMMA ExecuteAnsweredStep == ASSUME IInv, ExecuteAnswered PROVE IInv'
<1>1. TypeOK'
  BY ExecuteAnsweredType
<1>2. WorkInv'
  BY DEF IInv, ExecuteAnswered, durableVars, workVars, deviceVars, processVars, sourceVars, WorkInv, InHand, NoResult, TypeOK
<1>3. RecordInv' /\ PendingIsInHand'
  BY DEF IInv, ExecuteAnswered, durableVars, workVars, deviceVars, processVars, sourceVars, TypeOK, WorkInv, InHand, RecordInv, PendingIsInHand
<1>4. DeviceInv' /\ OutcomeInv'
  BY DEF IInv, ExecuteAnswered, durableVars, workVars, deviceVars, processVars, sourceVars, TypeOK, WorkInv, InHand, RecordInv, PendingIsInHand, DeviceInv, OutcomeInv, NoResult
<1>5. SourceInv' /\ ExecutedIsVisible'
  BY DEF IInv, ExecuteAnswered, durableVars, workVars, deviceVars, processVars, sourceVars, TypeOK, WorkInv, InHand, SourceInv, DeviceInv, ExecutedIsVisible
<1> QED
  BY <1>1, <1>2, <1>3, <1>4, <1>5 DEF IInv

LEMMA ExecuteTimeoutStep == ASSUME IInv, ExecuteTimeout PROVE IInv'
<1>1. TypeOK'
  BY ExecuteTimeoutType
<1>2. WorkInv'
  BY DEF IInv, ExecuteTimeout, durableVars, workVars, deviceVars, processVars, sourceVars, WorkInv, InHand, NoResult, TypeOK
<1>3. RecordInv' /\ PendingIsInHand'
  BY DEF IInv, ExecuteTimeout, durableVars, workVars, deviceVars, processVars, sourceVars, TypeOK, WorkInv, InHand, RecordInv, PendingIsInHand
<1>4. DeviceInv' /\ OutcomeInv'
  BY DEF IInv, ExecuteTimeout, durableVars, workVars, deviceVars, processVars, sourceVars, TypeOK, WorkInv, InHand, RecordInv, PendingIsInHand, DeviceInv, OutcomeInv, NoResult
<1>5. SourceInv' /\ ExecutedIsVisible'
  BY DEF IInv, ExecuteTimeout, durableVars, workVars, deviceVars, processVars, sourceVars, TypeOK, WorkInv, InHand, SourceInv, DeviceInv, ExecutedIsVisible
<1> QED
  BY <1>1, <1>2, <1>3, <1>4, <1>5 DEF IInv

LEMMA ReadStep == ASSUME IInv, Read PROVE IInv'
<1>1. TypeOK'
  BY ReadType
<1>2. WorkInv'
  BY DEF IInv, Read, durableVars, workVars, deviceVars, processVars, sourceVars, WorkInv, InHand, NoResult, TypeOK
<1>3. RecordInv' /\ PendingIsInHand'
  BY DEF IInv, Read, durableVars, workVars, deviceVars, processVars, sourceVars, TypeOK, WorkInv, InHand, RecordInv, PendingIsInHand
<1>4. DeviceInv' /\ OutcomeInv'
  <2>1. result.status = "EXECUTED" /\ cur.id \notin inflight /\ applied[cur.id] = 1 /\ execRev[cur.id] = result.rev
    BY DEF IInv, OutcomeInv, Read
  <2>2. result'.status = "EXECUTED" => readback' \in Snapshots /\ readback'.rev = result.rev
    BY DeviceSnapshot DEF IInv, TypeOK, Read
  <2>3. result'.status \in {"EXECUTED", "UNKNOWN", "FAILED"} /\ pc' = "persist"
    BY <2>1 DEF IInv, TypeOK, Read
  <2>4. UNCHANGED <<status, cur, inflight, applied, execRev>>
    BY DEF Read, durableVars, deviceVars
  <2> QED
    BY <2>1, <2>2, <2>3, <2>4 DEF IInv, DeviceInv, OutcomeInv
<1>5. SourceInv' /\ ExecutedIsVisible'
  BY DEF IInv, Read, durableVars, workVars, deviceVars, processVars, sourceVars, TypeOK, WorkInv, InHand, SourceInv, DeviceInv, ExecutedIsVisible
<1> QED
  BY <1>1, <1>2, <1>3, <1>4, <1>5 DEF IInv

LEMMA PersistOkStep == ASSUME IInv, PersistOk PROVE IInv'
<1>1. TypeOK'
  BY PersistOkType
<1>2. WorkInv' /\ RecordInv' /\ PendingIsInHand'
  <2>1. CASE status[cur.id] = "PENDING" /\ Completes
    BY <2>1, Completion DEF IInv, PersistOk, Respond, deviceVars, processVars, workVars, WorkInv, InHand, RecordInv, PendingIsInHand, Terminal
  <2>2. CASE status[cur.id] = result.status /\ UNCHANGED durableVars
    BY <2>2 DEF IInv, PersistOk, Respond, TypeOK, Terminal, durableVars, deviceVars, processVars, workVars, WorkInv, InHand, RecordInv, PendingIsInHand
  <2> QED
    BY <2>1, <2>2 DEF PersistOk
<1>3. DeviceInv' /\ OutcomeInv'
  <2>1. UNCHANGED <<inflight, applied, execRev>>
    BY DEF PersistOk, deviceVars
  <2>2. CASE status[cur.id] = "PENDING" /\ Completes
    <3>1. cur.id \in inflight => status'[cur.id] = "UNKNOWN"
      BY <2>2, Completion DEF IInv, OutcomeInv, PersistOk
    <3>2. DeviceInv'
      BY <2>1, <2>2, <3>1, Completion DEF IInv, TypeOK, DeviceInv, Terminal, PersistOk
    <3>3. OutcomeInv'
      BY <2>1 DEF IInv, PersistOk, Respond, workVars, OutcomeInv
    <3> QED
      BY <3>2, <3>3
  <2>3. CASE status[cur.id] = result.status /\ UNCHANGED durableVars
    BY <2>1, <2>3 DEF IInv, PersistOk, Respond, durableVars, workVars, DeviceInv, OutcomeInv
  <2> QED
    BY <2>2, <2>3 DEF PersistOk
<1>4. SourceInv' /\ ExecutedIsVisible'
  <2>1. SourceInv'
    <3>1. available => sampled \/ reloaded
      BY DEF IInv, SourceInv
    <3>2. \/ /\ available' = IF acceptsSnapshot(readback) THEN readback.good ELSE available
             /\ sampled' = (sampled \/ (acceptsSnapshot(readback) /\ readback.good))
             /\ reloaded' = reloaded
          \/ /\ reloaded' = (reloaded \/ available')
      BY DEF PersistOk
    <3>3. available' => sampled' \/ reloaded'
      BY <3>1, <3>2, Zenon
    <3> QED
      BY <3>3 DEF PersistOk, Respond, SourceInv
  <2>2. execRev' = execRev
    BY DEF PersistOk, deviceVars
  <2>3. CASE status[cur.id] = "PENDING" /\ Completes
    <3>1. snap.rev \in Nat /\ snap'.rev \in Nat /\ snap'.rev >= snap.rev
      BY <1>1, <2>3, Completion, SnapshotParts DEF IInv, TypeOK, PersistOk
    <3> SUFFICES ASSUME NEW i \in Ids, status'[i] = "EXECUTED" PROVE snap'.rev >= execRev[i]
      BY <2>1, <2>2 DEF ExecutedIsVisible
    <3>2. CASE i = cur.id
      BY <2>3, <3>2, Completion DEF PersistOk
    <3>3. CASE i # cur.id
      <4>1. snap.rev >= execRev[i] /\ execRev[i] \in Nat
        BY <2>3, <3>3, Completion DEF IInv, TypeOK, ExecutedIsVisible, PersistOk
      <4> QED
        BY <3>1, <4>1
    <3> QED
      BY <3>2, <3>3
  <2>4. CASE status[cur.id] = result.status /\ UNCHANGED durableVars
    BY <2>1, <2>2, <2>4 DEF IInv, PersistOk, durableVars, ExecutedIsVisible
  <2> QED
    BY <2>3, <2>4 DEF PersistOk
<1> QED
  BY <1>1, <1>2, <1>3, <1>4 DEF IInv

LEMMA PersistFailsStep == ASSUME IInv, PersistFails PROVE IInv'
<1>1. TypeOK'
  BY PersistFailsType
<1>2. WorkInv' /\ RecordInv' /\ PendingIsInHand'
  <2>1. CASE status[cur.id] = "PENDING" /\ Completes
    BY <2>1, Completion DEF IInv, PersistFails, deviceVars, processVars, workVars, WorkInv, InHand, RecordInv, PendingIsInHand, Terminal
  <2>2. CASE UNCHANGED durableVars
    BY <2>2 DEF IInv, PersistFails, TypeOK, Terminal, durableVars, deviceVars, processVars, workVars, WorkInv, InHand, RecordInv, PendingIsInHand
  <2> QED
    BY <2>1, <2>2 DEF PersistFails
<1>3. DeviceInv' /\ OutcomeInv'
  <2>1. UNCHANGED <<inflight, applied, execRev>>
    BY DEF PersistFails, deviceVars
  <2>2. CASE status[cur.id] = "PENDING" /\ Completes
    <3>1. cur.id \in inflight => status'[cur.id] = "UNKNOWN"
      BY <2>2, Completion DEF IInv, OutcomeInv, PersistFails
    <3>2. DeviceInv'
      BY <2>1, <2>2, <3>1, Completion DEF IInv, TypeOK, DeviceInv, Terminal, PersistFails
    <3>3. OutcomeInv'
      BY <2>1 DEF IInv, PersistFails, workVars, OutcomeInv
    <3> QED
      BY <3>2, <3>3
  <2>3. CASE UNCHANGED durableVars
    BY <2>1, <2>3 DEF IInv, PersistFails, durableVars, workVars, DeviceInv, OutcomeInv
  <2> QED
    BY <2>2, <2>3 DEF PersistFails
<1>4. SourceInv' /\ ExecutedIsVisible'
  <2>1. SourceInv'
    BY DEF IInv, PersistFails, workVars, TypeOK, SourceInv
  <2>2. execRev' = execRev
    BY DEF PersistFails, deviceVars
  <2>3. CASE status[cur.id] = "PENDING" /\ Completes
    <3>1. snap.rev \in Nat /\ snap'.rev \in Nat /\ snap'.rev >= snap.rev
      BY <1>1, <2>3, Completion, SnapshotParts DEF IInv, TypeOK, PersistFails
    <3> SUFFICES ASSUME NEW i \in Ids, status'[i] = "EXECUTED" PROVE snap'.rev >= execRev[i]
      BY <2>1, <2>2 DEF ExecutedIsVisible
    <3>2. CASE i = cur.id
      BY <2>3, <3>2, Completion DEF PersistFails
    <3>3. CASE i # cur.id
      <4>1. snap.rev >= execRev[i] /\ execRev[i] \in Nat
        BY <2>3, <3>3, Completion DEF IInv, TypeOK, ExecutedIsVisible, PersistFails
      <4> QED
        BY <3>1, <4>1
    <3> QED
      BY <3>2, <3>3
  <2>4. CASE UNCHANGED durableVars
    BY <2>1, <2>2, <2>4 DEF IInv, PersistFails, durableVars, ExecutedIsVisible
  <2> QED
    BY <2>3, <2>4 DEF PersistFails
<1> QED
  BY <1>1, <1>2, <1>3, <1>4 DEF IInv

LEMMA PersistGivesUpStep == ASSUME IInv, PersistGivesUp PROVE IInv'
<1>1. TypeOK'
  BY PersistGivesUpType
<1>2. WorkInv'
  BY DEF IInv, PersistGivesUp, Respond, durableVars, workVars, deviceVars, processVars, sourceVars, WorkInv, InHand, NoResult, TypeOK
<1>3. RecordInv' /\ PendingIsInHand'
  BY DEF IInv, PersistGivesUp, Respond, durableVars, workVars, deviceVars, processVars, sourceVars, TypeOK, WorkInv, InHand, RecordInv, PendingIsInHand
<1>4. DeviceInv' /\ OutcomeInv'
  BY DEF IInv, PersistGivesUp, Respond, durableVars, workVars, deviceVars, processVars, sourceVars, TypeOK, WorkInv, InHand, RecordInv, PendingIsInHand, DeviceInv, OutcomeInv, NoResult
<1>5. SourceInv' /\ ExecutedIsVisible'
  <2>1. available' => available
    BY Zenon DEF PersistGivesUp
  <2>2. UNCHANGED <<sampled, reloaded>> /\ pc' = "done"
    BY DEF PersistGivesUp, Respond
  <2> QED
    BY <2>1, <2>2 DEF IInv, SourceInv, PersistGivesUp, durableVars, deviceVars, ExecutedIsVisible
<1> QED
  BY <1>1, <1>2, <1>3, <1>4, <1>5 DEF IInv

LEMMA CrashStep == ASSUME IInv, Crash PROVE IInv'
<1>1. TypeOK'
  BY CrashType
<1>2. WorkInv'
  BY DEF IInv, Crash, durableVars, workVars, deviceVars, processVars, sourceVars, WorkInv, InHand, NoResult, TypeOK
<1>3. RecordInv' /\ PendingIsInHand'
  BY DEF IInv, Crash, durableVars, workVars, deviceVars, processVars, sourceVars, TypeOK, WorkInv, InHand, RecordInv, PendingIsInHand
<1>4. DeviceInv' /\ OutcomeInv'
  BY DEF IInv, Crash, durableVars, workVars, deviceVars, processVars, sourceVars, TypeOK, WorkInv, InHand, RecordInv, PendingIsInHand, DeviceInv, OutcomeInv, NoResult
<1>5. SourceInv' /\ ExecutedIsVisible'
  BY DEF IInv, Crash, durableVars, workVars, deviceVars, processVars, sourceVars, TypeOK, WorkInv, InHand, SourceInv, DeviceInv, ExecutedIsVisible
<1> QED
  BY <1>1, <1>2, <1>3, <1>4, <1>5 DEF IInv

LEMMA RestartStep == ASSUME IInv, Restart PROVE IInv'
<1>1. TypeOK'
  BY RestartType
<1>2. WorkInv'
  BY DEF IInv, Restart, RecoverPending, durableVars, workVars, deviceVars, processVars, sourceVars, WorkInv, InHand, NoResult, TypeOK
<1>3. RecordInv' /\ PendingIsInHand'
  BY DEF IInv, Restart, RecoverPending, durableVars, workVars, deviceVars, processVars, sourceVars, TypeOK, WorkInv, InHand, RecordInv, PendingIsInHand
<1>4. DeviceInv' /\ OutcomeInv'
  BY DEF IInv, Restart, RecoverPending, durableVars, workVars, deviceVars, processVars, sourceVars, TypeOK, WorkInv, InHand, RecordInv, PendingIsInHand, DeviceInv, OutcomeInv, NoResult
<1>5. SourceInv' /\ ExecutedIsVisible'
  BY DEF IInv, Restart, RecoverPending, durableVars, workVars, deviceVars, processVars, sourceVars, TypeOK, WorkInv, InHand, SourceInv, DeviceInv, ExecutedIsVisible
<1> QED
  BY <1>1, <1>2, <1>3, <1>4, <1>5 DEF IInv

LEMMA SavePLCStep == ASSUME IInv, SavePLC PROVE IInv'
<1>1. TypeOK'
  BY SavePLCType
<1>2. WorkInv'
  BY DEF IInv, SavePLC, acceptsSnapshot, durableVars, workVars, deviceVars, processVars, sourceVars, WorkInv, InHand, NoResult, TypeOK
<1>3. RecordInv' /\ PendingIsInHand'
  BY DEF IInv, SavePLC, acceptsSnapshot, durableVars, workVars, deviceVars, processVars, sourceVars, TypeOK, WorkInv, InHand, RecordInv, PendingIsInHand
<1>4. DeviceInv' /\ OutcomeInv'
  BY DEF IInv, SavePLC, acceptsSnapshot, durableVars, workVars, deviceVars, processVars, sourceVars, TypeOK, WorkInv, InHand, RecordInv, PendingIsInHand, DeviceInv, OutcomeInv, NoResult
<1>5. SourceInv' /\ ExecutedIsVisible'
  <2>1. snap'.rev >= snap.rev /\ snap.rev \in Nat /\ snap'.rev \in Nat
    BY <1>1, SnapshotParts DEF IInv, TypeOK, SavePLC, acceptsSnapshot
  <2>2. SourceInv'
    <3>1. \/ available' = sample.good /\ sampled' = (sampled \/ sample.good)
          \/ UNCHANGED <<available, sampled>>
          \/ available' = FALSE /\ UNCHANGED sampled
      BY DEF SavePLC
    <3>2. UNCHANGED <<pc, reloaded>>
      BY DEF SavePLC, workVars
    <3>3. (available => sampled \/ reloaded) /\ (sampled \/ reloaded => sampled' \/ reloaded')
      BY <3>1, <3>2, Zenon DEF IInv, SourceInv
    <3>4. available' => sampled' \/ reloaded'
      BY <3>1, <3>2, <3>3, Zenon
    <3> QED
      BY <3>2, <3>3, <3>4 DEF IInv, SourceInv
  <2> QED
    BY <2>1, <2>2 DEF IInv, TypeOK, ExecutedIsVisible, SavePLC, deviceVars
<1> QED
  BY <1>1, <1>2, <1>3, <1>4, <1>5 DEF IInv

LEMMA MarkStaleStep == ASSUME IInv, MarkStale PROVE IInv'
<1>1. TypeOK'
  BY MarkStaleType
<1>2. WorkInv'
  BY DEF IInv, MarkStale, durableVars, workVars, deviceVars, processVars, sourceVars, WorkInv, InHand, NoResult, TypeOK
<1>3. RecordInv' /\ PendingIsInHand'
  BY DEF IInv, MarkStale, durableVars, workVars, deviceVars, processVars, sourceVars, TypeOK, WorkInv, InHand, RecordInv, PendingIsInHand
<1>4. DeviceInv' /\ OutcomeInv'
  BY DEF IInv, MarkStale, durableVars, workVars, deviceVars, processVars, sourceVars, TypeOK, WorkInv, InHand, RecordInv, PendingIsInHand, DeviceInv, OutcomeInv, NoResult
<1>5. SourceInv' /\ ExecutedIsVisible'
  <2>1. snap' = snap \/ snap' = [snap EXCEPT !.good = FALSE]
    BY DEF MarkStale
  <2>2. snap'.rev = snap.rev
    BY <2>1, SnapshotParts DEF IInv, TypeOK, Snapshots, NoSnap
  <2>3. SourceInv'
    BY DEF IInv, TypeOK, SourceInv, MarkStale, workVars
  <2> QED
    BY <2>2, <2>3 DEF IInv, ExecutedIsVisible, MarkStale, deviceVars
<1> QED
  BY <1>1, <1>2, <1>3, <1>4, <1>5 DEF IInv

LEMMA DeviceExecutesStep == ASSUME IInv, NEW i \in Ids, DeviceExecutes(i) PROVE IInv'
<1>1. TypeOK'
  BY DeviceExecutesType
<1>2. WorkInv'
  BY DEF IInv, DeviceExecutes, AnswerTo, durableVars, workVars, deviceVars, processVars, sourceVars, WorkInv, InHand, NoResult, TypeOK
<1>3. RecordInv' /\ PendingIsInHand'
  BY DEF IInv, DeviceExecutes, AnswerTo, durableVars, workVars, deviceVars, processVars, sourceVars, TypeOK, WorkInv, InHand, RecordInv, PendingIsInHand
<1>4. DeviceInv' /\ OutcomeInv'
  BY DEF IInv, DeviceExecutes, AnswerTo, durableVars, workVars, deviceVars, processVars, sourceVars, TypeOK, WorkInv, InHand, RecordInv, PendingIsInHand, DeviceInv, OutcomeInv, NoResult
<1>5. SourceInv' /\ ExecutedIsVisible'
  BY DEF IInv, DeviceExecutes, AnswerTo, durableVars, workVars, deviceVars, processVars, sourceVars, TypeOK, WorkInv, InHand, SourceInv, DeviceInv, ExecutedIsVisible
<1> QED
  BY <1>1, <1>2, <1>3, <1>4, <1>5 DEF IInv

LEMMA DeviceRefusesStep == ASSUME IInv, NEW i \in Ids, DeviceRefuses(i) PROVE IInv'
<1>1. TypeOK'
  BY DeviceRefusesType
<1>2. WorkInv'
  BY DEF IInv, DeviceRefuses, AnswerTo, durableVars, workVars, deviceVars, processVars, sourceVars, WorkInv, InHand, NoResult, TypeOK
<1>3. RecordInv' /\ PendingIsInHand'
  BY DEF IInv, DeviceRefuses, AnswerTo, durableVars, workVars, deviceVars, processVars, sourceVars, TypeOK, WorkInv, InHand, RecordInv, PendingIsInHand
<1>4. DeviceInv' /\ OutcomeInv'
  BY DEF IInv, DeviceRefuses, AnswerTo, durableVars, workVars, deviceVars, processVars, sourceVars, TypeOK, WorkInv, InHand, RecordInv, PendingIsInHand, DeviceInv, OutcomeInv, NoResult
<1>5. SourceInv' /\ ExecutedIsVisible'
  BY DEF IInv, DeviceRefuses, AnswerTo, durableVars, workVars, deviceVars, processVars, sourceVars, TypeOK, WorkInv, InHand, SourceInv, DeviceInv, ExecutedIsVisible
<1> QED
  BY <1>1, <1>2, <1>3, <1>4, <1>5 DEF IInv

LEMMA InvInit == Init => IInv
<1> SUFFICES ASSUME Init PROVE IInv
  OBVIOUS
<1>1. dev \in [session : 1..MaxSessions, rev : Nat \ {0}, seq : 0..MaxSamples]
  BY PipelineAssumption DEF Init
<1>2. submits \in 0..MaxSubmits /\ crashes \in 0..MaxCrashes
  BY PipelineAssumption DEF Init
<1>3. status \in [Ids -> Statuses] /\ told \in [Ids -> SUBSET Statuses]
  BY DEF Init, Statuses
<1>4. TypeOK
  BY <1>1, <1>2, <1>3, ConstantTypes DEF Init, TypeOK
<1>5. WorkInv /\ RecordInv /\ PendingIsInHand /\ DeviceInv /\ OutcomeInv /\ SourceInv /\ ExecutedIsVisible
  BY DEF Init, WorkInv, InHand, RecordInv, PendingIsInHand, DeviceInv, OutcomeInv, SourceInv, ExecutedIsVisible
<1> QED
  BY <1>4, <1>5 DEF IInv

LEMMA InvStep == IInv /\ [Next]_vars => IInv'
<1> SUFFICES ASSUME IInv, [Next]_vars PROVE IInv'
  OBVIOUS
<1>1. ASSUME NEW i \in Ids, NEW b \in Bodies, Submit(i, b) PROVE IInv'
  BY <1>1, SubmitStep
<1>2. CASE Process
  BY <1>2, BeginExistingStep, BeginInsertStep, BeginFailsStep, CheckStep, ExecuteStep, ExecuteAnsweredStep,
     ExecuteTimeoutStep, ReadStep, PersistOkStep, PersistFailsStep, PersistGivesUpStep DEF Process
<1>3. CASE CallerLeaves \/ BudgetEnds \/ Close \/ RunStops \/ Crash \/ Restart
  BY <1>3, CallerLeavesStep, BudgetEndsStep, CloseStep, RunStopsStep, CrashStep, RestartStep
<1>4. CASE TimePasses \/ SampleRead \/ SavePLC \/ MarkStale \/ DeviceTicks
  BY <1>4, TimePassesStep, SampleReadStep, SavePLCStep, MarkStaleStep, DeviceTicksStep
<1>5. ASSUME NEW i \in Ids, DeviceExecutes(i) \/ DeviceRefuses(i) PROVE IInv'
  BY <1>5, DeviceExecutesStep, DeviceRefusesStep
<1>6. CASE UNCHANGED vars
  <2>1. TypeOK'
    BY <1>6 DEF IInv, TypeOK, vars, durableVars, workVars, deviceVars, processVars, sourceVars
  <2> QED
    BY <1>6, <2>1, Beside DEF IInv, vars, durableVars, workVars, deviceVars, processVars, sourceVars
<1> QED
  BY <1>1, <1>2, <1>3, <1>4, <1>5, <1>6 DEF Next

LEMMA InvAlways == Spec => []IInv
BY InvInit, InvStep, PTL DEF Spec

-----------------------------------------------------------------------------
(* The steps of the pipeline as steps of the ledger. *)

LedgerStep == Ledger!Next \/ UNCHANGED Ledger!vars

LEMMA Silent == ASSUME UNCHANGED <<status, body, rows, applied, told>> PROVE LedgerStep
BY DEF LedgerStep, Ledger!vars

\* Telling a caller the outcome on record.
LEMMA RespondTells ==
  ASSUME IInv, InHand, NEW reply, NEW fatal, Respond(reply, fatal), UNCHANGED <<status, body, rows, applied>>,
         reply \in {"conflict", "error"} \/ (reply \in Terminal /\ reply = status[cur.id])
  PROVE  LedgerStep
<1>1. cur.id \in Ids
  BY DEF IInv, WorkInv
<1>2. CASE told' = told
  BY <1>2, Silent
<1>3. CASE told' = [told EXCEPT ![cur.id] = @ \cup {reply}] /\ reply \notin {"conflict", "error"}
  <2>1. Ledger!Tell(cur.id)
    BY <1>3 DEF Ledger!Tell, Ledger!Terminal, Terminal
  <2> QED
    BY <1>1, <2>1 DEF LedgerStep, Ledger!Next
<1> QED
  BY <1>2, <1>3 DEF Respond

LEMMA BeginLedger == ASSUME IInv, BeginExisting \/ BeginInsert \/ BeginFails PROVE LedgerStep
<1>1. cur.id \in Ids /\ cur.body \in Bodies /\ InHand
  BY DEF IInv, WorkInv, InHand, BeginExisting, BeginInsert, BeginFails
<1>2. CASE BeginExisting
  <2>1. status[cur.id] \in Terminal
    BY <1>1, <1>2 DEF IInv, TypeOK, Statuses, PendingIsInHand, BeginExisting
  <2> QED
    BY <1>1, <1>2, <2>1, RespondTells DEF BeginExisting, durableVars, deviceVars
<1>3. ASSUME status[cur.id] = "none", status' = [status EXCEPT ![cur.id] = "PENDING"],
             body' = [body EXCEPT ![cur.id] = cur.body], UNCHANGED <<rows, applied, told>>
      PROVE  LedgerStep
  <2>1. Ledger!Bind(cur.id, cur.body)
    BY <1>3 DEF Ledger!Bind
  <2> QED
    BY <1>1, <2>1 DEF LedgerStep, Ledger!Next
<1>4. CASE BeginInsert
  BY <1>3, <1>4 DEF BeginInsert, deviceVars
<1>5. CASE BeginFails
  <2>1. told' = told /\ UNCHANGED <<rows, applied>>
    BY <1>5 DEF BeginFails, Respond, deviceVars
  <2> QED
    BY <1>3, <1>5, <2>1, Silent DEF BeginFails
<1> QED
  BY <1>2, <1>4, <1>5

LEMMA PersistLedger == ASSUME IInv, PersistOk \/ PersistFails \/ PersistGivesUp PROVE LedgerStep
<1>1. cur.id \in Ids /\ InHand /\ result.status \in Terminal /\ UNCHANGED applied /\ pc = "persist"
  BY DEF IInv, WorkInv, InHand, TypeOK, PersistOk, PersistFails, PersistGivesUp, deviceVars
<1>2. ASSUME status[cur.id] = "PENDING", Completes,
             told' = told \/ told' = [told EXCEPT ![cur.id] = @ \cup {result.status}]
      PROVE  LedgerStep
  <2>1. /\ result.status = "EXECUTED" => applied[cur.id] = 1
        /\ result.status = "REJECTED" => applied[cur.id] = 0
    BY <1>1 DEF IInv, OutcomeInv
  <2>2. Ledger!Settle(cur.id, result.status)
    BY <1>1, <1>2, <2>1 DEF Ledger!Settle, Completes
  <2>3. result.status \in Ledger!Terminal
    BY <1>1 DEF Ledger!Terminal, Terminal
  <2> QED
    BY <1>1, <2>2, <2>3 DEF LedgerStep, Ledger!Next
<1>3. CASE PersistOk
  <2>1. CASE status[cur.id] = "PENDING" /\ Completes
    BY <1>2, <1>3, <2>1 DEF PersistOk, Respond
  <2>2. CASE status[cur.id] = result.status /\ UNCHANGED durableVars
    BY <1>1, <1>3, <2>2, RespondTells DEF PersistOk, durableVars
  <2> QED
    BY <1>3, <2>1, <2>2 DEF PersistOk
<1>4. CASE PersistFails
  BY <1>1, <1>2, <1>4, Silent DEF PersistFails, durableVars
<1>5. CASE PersistGivesUp
  BY <1>1, <1>5, RespondTells DEF PersistGivesUp, durableVars
<1> QED
  BY <1>3, <1>4, <1>5

\* Open settles the one record a terminated queue may have left PENDING.
LEMMA RestartLedger == ASSUME IInv, Restart PROVE LedgerStep
<1>1. UNCHANGED <<body, applied, told>> /\ status \in [Ids -> Statuses] /\ rows \in [Ids -> Nat]
  BY DEF IInv, TypeOK, Restart, deviceVars
<1>2. CASE \E i \in Ids : status[i] = "PENDING"
  <2>1. PICK i \in Ids : status[i] = "PENDING"
    BY <1>2
  <2>2. \A j \in Ids : j # i => status[j] # "PENDING"
    BY <2>1 DEF IInv, RecordInv
  <2>3. status' = [status EXCEPT ![i] = "UNKNOWN"]
    BY <1>1, <2>1, <2>2 DEF Restart, RecoverPending
  <2>4. rows' = [rows EXCEPT ![i] = @ + 1]
    BY <1>1, <2>1, <2>2 DEF Restart, RecoverPending
  <2>5. Ledger!Settle(i, "UNKNOWN")
    BY <1>1, <2>1, <2>3, <2>4 DEF Ledger!Settle
  <2> QED
    BY <2>5 DEF LedgerStep, Ledger!Next, Ledger!Terminal
<1>3. CASE \A i \in Ids : status[i] # "PENDING"
  <2>1. status' = status /\ rows' = rows
    BY <1>1, <1>3 DEF Restart, RecoverPending
  <2> QED
    BY <1>1, <2>1, Silent
<1> QED
  BY <1>2, <1>3

LEMMA DeviceLedger == ASSUME IInv, NEW i \in Ids, DeviceExecutes(i) PROVE LedgerStep
<1>1. status[i] \in {"PENDING", "UNKNOWN"} /\ applied[i] = 0
  BY DEF IInv, DeviceInv, DeviceExecutes
<1>2. applied' = [applied EXCEPT ![i] = 1]
  BY <1>1 DEF DeviceExecutes
<1>3. Ledger!Apply(i)
  BY <1>1, <1>2 DEF Ledger!Apply, DeviceExecutes, durableVars
<1> QED
  BY <1>3 DEF LedgerStep, Ledger!Next

LEMMA NextLedger == IInv /\ [Next]_vars => [Ledger!Next]_Ledger!vars
<1> SUFFICES ASSUME IInv, [Next]_vars PROVE LedgerStep
  BY DEF LedgerStep
<1>1. CASE BeginExisting \/ BeginInsert \/ BeginFails
  BY <1>1, BeginLedger
<1>2. CASE PersistOk \/ PersistFails \/ PersistGivesUp
  BY <1>2, PersistLedger
<1>3. CASE Restart
  BY <1>3, RestartLedger
<1>4. ASSUME NEW i \in Ids, DeviceExecutes(i) PROVE LedgerStep
  BY <1>4, DeviceLedger
<1>5. ASSUME NEW i \in Ids, DeviceRefuses(i) PROVE LedgerStep
  BY <1>5, Silent DEF DeviceRefuses, durableVars
<1>6. CASE Check \/ Execute \/ ExecuteAnswered \/ ExecuteTimeout \/ Read
  BY <1>6, Silent DEF Check, Execute, ExecuteAnswered, ExecuteTimeout, Read, durableVars, deviceVars
<1>7. ASSUME NEW i \in Ids, NEW b \in Bodies, Submit(i, b) PROVE LedgerStep
  BY <1>7, Silent DEF Submit, durableVars, deviceVars
<1>8. CASE CallerLeaves \/ BudgetEnds \/ Close \/ RunStops \/ Crash
  BY <1>8, Silent DEF CallerLeaves, BudgetEnds, Close, RunStops, Crash, durableVars, deviceVars
<1>9. CASE TimePasses \/ SampleRead \/ SavePLC \/ MarkStale \/ DeviceTicks
  BY <1>9, Silent DEF TimePasses, SampleRead, SavePLC, MarkStale, DeviceTicks, durableVars, deviceVars
<1>10. CASE UNCHANGED vars
  BY <1>10, Silent DEF vars, durableVars, deviceVars
<1> QED
  BY <1>1, <1>2, <1>3, <1>4, <1>5, <1>6, <1>7, <1>8, <1>9, <1>10 DEF Next, Process

-----------------------------------------------------------------------------
(* The theorems. *)

\* Every variable of the pipeline and of its records keeps its type.
THEOREM PipelineTyped == Spec => []TypeOK
<1>1. IInv => TypeOK
  BY DEF IInv
<1> QED
  BY <1>1, InvAlways, PTL

\* The pipeline implements the ledger: however requests are repeated, commits fail
\* halfway, the device answers late and the process crashes, every commandId is bound
\* once, takes effect at most once and has one outcome, recorded once by
\* CompleteCommand or RecoverPending and the only one anybody is told.
THEOREM PipelineImplementsLedger == Spec => ImplementsLedger
<1>1. Init => Ledger!Init
  BY DEF Init, Ledger!Init
<1> QED
  BY <1>1, InvAlways, NextLedger, PTL DEF Spec, ImplementsLedger, Ledger!Spec

\* A PENDING record is the command in hand or waits for the next Open: nobody waits
\* for an outcome no goroutine will record.
THEOREM PipelinePendingIsInHand == Spec => []PendingIsInHand
<1>1. IInv => PendingIsInHand
  BY DEF IInv
<1> QED
  BY <1>1, InvAlways, PTL

\* process sends a command to the device only after this very process stored a good
\* snapshot or found one fresh when it repeated a completion.
THEOREM PipelineNoBlindExecution == Spec => []NoBlindExecution
<1>1. IInv => NoBlindExecution
  BY DEF IInv, SourceInv, NoBlindExecution
<1> QED
  BY <1>1, InvAlways, PTL

\* An EXECUTED outcome on record comes with a persisted snapshot at least as new as the
\* command's own control revision, also when its readback lost against a later one.
THEOREM PipelineExecutedIsVisible == Spec => []ExecutedIsVisible
<1>1. IInv => ExecutedIsVisible
  BY DEF IInv
<1> QED
  BY <1>1, InvAlways, PTL

Ordered ==
    /\ snap'.rev >= snap.rev
    /\ snap'.rev = snap.rev => snap'.session >= snap.session
    /\ snap'.rev = snap.rev /\ snap'.session = snap.session => snap'.seq >= snap.seq

LEMMA AcceptedIsLater ==
  ASSUME IInv, NEW new \in Snapshots \cup {NoSnap}, acceptsSnapshot(new), snap' = new PROVE Ordered
<1>1. /\ new.session \in Nat /\ new.rev \in Nat /\ new.seq \in Nat
      /\ snap.session \in Nat /\ snap.rev \in Nat /\ snap.seq \in Nat
  BY SnapshotParts DEF IInv, TypeOK
<1> QED
  BY <1>1 DEF acceptsSnapshot, Ordered

LEMMA SameSnapshot ==
  ASSUME IInv, snap'.rev = snap.rev, snap'.session = snap.session, snap'.seq = snap.seq PROVE Ordered
<1>1. snap.session \in Nat /\ snap.rev \in Nat /\ snap.seq \in Nat
  BY SnapshotParts DEF IInv, TypeOK
<1> QED
  BY <1>1 DEF Ordered

LEMMA SnapshotStep == IInv /\ [Next]_vars => [Ordered]_vars
<1> SUFFICES ASSUME IInv, Next PROVE Ordered
  OBVIOUS
<1>1. ASSUME snap' = snap PROVE Ordered
  BY <1>1, SameSnapshot
<1>2. ASSUME Completes PROVE Ordered
  <2>1. CASE acceptsSnapshot(readback)
    BY <1>2, <2>1, AcceptedIsLater DEF Completes, IInv, TypeOK
  <2>2. CASE ~acceptsSnapshot(readback)
    BY <1>1, <1>2, <2>2 DEF Completes
  <2> QED
    BY <2>1, <2>2
<1>3. CASE PersistOk \/ PersistFails
  BY <1>1, <1>2, <1>3 DEF PersistOk, PersistFails, durableVars
<1>4. CASE SavePLC
  <2>1. sample \in Snapshots \cup {NoSnap}
    BY DEF IInv, TypeOK
  <2> QED
    BY <1>1, <1>4, <2>1, AcceptedIsLater DEF SavePLC
<1>5. CASE MarkStale
  <2>1. snap' = snap \/ snap' = [snap EXCEPT !.good = FALSE]
    BY <1>5 DEF MarkStale
  <2>2. snap'.rev = snap.rev /\ snap'.session = snap.session /\ snap'.seq = snap.seq
    BY <2>1 DEF IInv, TypeOK, Snapshots, NoSnap
  <2> QED
    BY <2>2, SameSnapshot
<1>6. CASE BeginExisting \/ BeginInsert \/ BeginFails \/ Check \/ Execute \/ ExecuteAnswered \/ ExecuteTimeout \/ Read
  BY <1>1, <1>6 DEF BeginExisting, BeginInsert, BeginFails, Check, Execute, ExecuteAnswered, ExecuteTimeout, Read, durableVars
<1>7. CASE PersistGivesUp \/ CallerLeaves \/ BudgetEnds \/ Close \/ RunStops \/ Crash \/ Restart
  BY <1>1, <1>7 DEF PersistGivesUp, CallerLeaves, BudgetEnds, Close, RunStops, Crash, Restart, durableVars
<1>8. CASE TimePasses \/ SampleRead \/ DeviceTicks
  BY <1>1, <1>8 DEF TimePasses, SampleRead, DeviceTicks, durableVars
<1>9. ASSUME NEW i \in Ids, NEW b \in Bodies, Submit(i, b) PROVE Ordered
  BY <1>1, <1>9 DEF Submit, durableVars
<1>10. ASSUME NEW i \in Ids, DeviceExecutes(i) \/ DeviceRefuses(i) PROVE Ordered
  BY <1>1, <1>10 DEF DeviceExecutes, DeviceRefuses, durableVars
<1> QED
  BY <1>3, <1>4, <1>5, <1>6, <1>7, <1>8, <1>9, <1>10 DEF Next, Process

\* The persisted snapshot never goes back, whichever of a late sample and a late
\* readback is saved last, a crash between them included (mergeSnapshot).
THEOREM PipelineSnapshotNeverGoesBack == Spec => SnapshotNeverGoesBack
BY InvAlways, SnapshotStep, PTL DEF Spec, SnapshotNeverGoesBack, Ordered
=============================================================================
