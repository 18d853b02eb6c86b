---------------------------- MODULE CommandQueue ----------------------------
(***************************************************************************)
(* The command pipeline of block-agent (internal/command/queue.go) on top  *)
(* of its durable records (internal/storage/store.go): one goroutine takes *)
(* one request at a time, binds its commandId in SQLite, executes it on    *)
(* the device, reads the device back, and records the outcome together     *)
(* with the snapshot, retrying until its operation budget ends.            *)
(*                                                                         *)
(* Beside it run the callers, who may leave at any time, the device, which *)
(* serves a request late or not at all (external), the periodic sampling   *)
(* that shares the Coordinator and the snapshot row (external: this        *)
(* revision of the agent does not start one), and the process, which may   *)
(* crash at any step and comes back through Open and RecoverPending.       *)
(***************************************************************************)
EXTENDS Naturals

CONSTANTS
    Ids, Bodies, NoBody,
    MaxSubmits,  \* model bound on admitted requests
    MaxCrashes,  \* model bound on crashes of the agent
    MaxSamples,  \* model bound on the device's sampleSequence
    MaxSessions  \* model bound on the device's sessions

ASSUME PipelineAssumption ==
    /\ NoBody \notin Bodies
    /\ MaxSubmits \in Nat
    /\ MaxCrashes \in Nat
    /\ MaxSamples \in Nat
    /\ MaxSessions \in Nat \ {0}

VARIABLES
    status, body, rows,  \* command_records, operation_history and audit_records (durable)
    snap,                \* current_snapshot (durable)
    up,                  \* the agent's process is running
    stop,                \* Queue.stop is closed
    pc,                  \* where run and process are; "done" once Queue.done is closed
    cur,                 \* the request in hand
    waiting,             \* its caller still waits for the response
    result,              \* process's result: its status and control revision
    readback,            \* the confirmed readback, NoSnap when nil
    expired,             \* the operation budget is used up
    available,           \* Store.available
    aged,                \* the snapshot was received longer than staleAfter ago
    sample,              \* the sampling's last read, not saved yet; NoSnap when none
    dev,                 \* the device: session, control revision, sample sequence (external)
    inflight,            \* commandIds sent to the device and not yet served (external)
    answer,              \* the device's answer on its way back (external)
    submits,             \* number of admitted requests, bounded by MaxSubmits
    applied,             \* history: how often the device executed a command
    told,                \* history: the outcomes callers were given without an error
    execRev,             \* history: control revision after a command's execution
    sampled,             \* history: this process has saved a good snapshot itself
    reloaded,            \* history: a repeated completion took availability from the database
    crashes              \* number of crashes, bounded by MaxCrashes

durableVars == <<status, body, rows, snap>>
workVars == <<pc, cur, waiting, result, readback, expired>>
deviceVars == <<dev, inflight, answer, applied, execRev>>
processVars == <<up, stop, crashes>>
sourceVars == <<available, aged, sample, sampled, reloaded>>
vars == <<durableVars, workVars, deviceVars, processVars, sourceVars, submits, told>>

Terminal == {"EXECUTED", "REJECTED", "FAILED", "UNKNOWN"}

-----------------------------------------------------------------------------
(* Records. *)

\* A snapshot as far as the store orders them; good: connected, GOOD and not stale.
\* generatedAt grows with the session, which is what orders two sessions.
Snapshots == [session : 1..MaxSessions, rev : Nat, seq : 0..MaxSamples, good : BOOLEAN]
NoSnap == [session |-> 0, rev |-> 0, seq |-> 0, good |-> FALSE]

NoResult == [status |-> "none", rev |-> 0]
NoRequest == [id |-> NoBody, body |-> NoBody]

\* The coordinator is held from the readiness check to the recorded outcome.
Coordinated == pc \in {"check", "execute", "answer", "read", "persist"}

-----------------------------------------------------------------------------
(* Submit, and Close. *)

\* The request is handed to run, which starts process with a new budget.
Submit(i, b) ==
    /\ up /\ pc = "idle"
    /\ submits < MaxSubmits
    /\ submits' = submits + 1
    /\ cur' = [id |-> i, body |-> b]
    /\ waiting' = TRUE
    /\ pc' = "begin"
    /\ expired' = FALSE
    /\ UNCHANGED <<durableVars, result, readback, deviceVars, processVars, sourceVars, told>>

\* The caller's context ends; the queue goes on without it.
CallerLeaves ==
    /\ waiting
    /\ waiting' = FALSE
    /\ UNCHANGED <<durableVars, pc, cur, result, readback, expired, deviceVars, processVars, sourceVars, submits, told>>

Close ==
    /\ up /\ ~stop
    /\ stop' = TRUE
    /\ UNCHANGED <<durableVars, workVars, deviceVars, up, crashes, sourceVars, submits, told>>

RunStops ==
    /\ up /\ stop /\ pc = "idle"
    /\ pc' = "done"
    /\ UNCHANGED <<durableVars, cur, waiting, result, readback, expired, deviceVars, processVars, sourceVars, submits, told>>

\* process returns: the caller, if it still waits, gets the answer; after a fatal
\* error run returns and Queue.done is closed.
Respond(reply, fatal) ==
    /\ told' = IF waiting /\ reply \notin {"conflict", "error"}
               THEN [told EXCEPT ![cur.id] = @ \cup {reply}] ELSE told
    /\ pc' = IF fatal THEN "done" ELSE "idle"
    /\ cur' = NoRequest
    /\ waiting' = FALSE
    /\ result' = NoResult
    /\ readback' = NoSnap
    /\ UNCHANGED submits

-----------------------------------------------------------------------------
(* BeginCommand. *)

\* Mutant: a command whose outcome was left UNKNOWN is executed again.
BeginExistingRetries ==
    /\ pc = "begin" /\ ~expired
    /\ status[cur.id] # "none"
    /\ IF body[cur.id] = cur.body /\ status[cur.id] # "UNKNOWN"
       THEN Respond(status[cur.id], FALSE)
       ELSE IF body[cur.id] # cur.body THEN Respond("conflict", FALSE)
       ELSE pc' = "check" /\ UNCHANGED <<submits, told, cur, waiting, result, readback>>
    /\ UNCHANGED <<durableVars, expired, deviceVars, processVars, sourceVars>>

\* The commandId is on record: its outcome is repeated, or the content conflicts.
BeginExisting ==
    /\ pc = "begin" /\ ~expired
    /\ status[cur.id] # "none"
    /\ Respond(IF body[cur.id] = cur.body THEN status[cur.id] ELSE "conflict", FALSE)
    /\ UNCHANGED <<durableVars, expired, deviceVars, processVars, sourceVars>>

BeginInsert ==
    /\ pc = "begin" /\ ~expired
    /\ status[cur.id] = "none"
    /\ status' = [status EXCEPT ![cur.id] = "PENDING"]
    /\ body' = [body EXCEPT ![cur.id] = cur.body]
    /\ pc' = "check"
    /\ UNCHANGED <<rows, snap, cur, waiting, result, readback, expired, deviceVars, processVars, sourceVars, submits, told>>

\* The database fails, before or after the insert became durable: fatal.
BeginFails ==
    /\ pc = "begin"
    /\ \/ UNCHANGED <<status, body>>
       \/ /\ status[cur.id] = "none" /\ ~expired
          /\ status' = [status EXCEPT ![cur.id] = "PENDING"]
          /\ body' = [body EXCEPT ![cur.id] = cur.body]
    /\ Respond("error", TRUE)
    /\ UNCHANGED <<rows, snap, expired, deviceVars, processVars, sourceVars>>

-----------------------------------------------------------------------------
(* Inside Coordinator.Do: readiness, execution and readback. *)

\* Mutant: only the age of the persisted snapshot counts.
commandAvailabilityPersisted == snap # NoSnap /\ snap.good /\ ~aged /\ ~expired

\* LoadSnapshot, SourceAvailability and Freshness.
commandAvailability == snap # NoSnap /\ available /\ snap.good /\ ~aged /\ ~expired

\* A source that is not ready is refused and marked unavailable; so is a database
\* that cannot be read, which leaves the mark alone.
Check ==
    /\ pc = "check"
    /\ \/ commandAvailability /\ pc' = "execute" /\ UNCHANGED <<result, available>>
       \/ /\ result' = [status |-> "REJECTED", rev |-> 0]
          /\ pc' = "persist"
          /\ \/ UNCHANGED available
             \/ ~commandAvailability /\ ~expired /\ available' = FALSE
    /\ UNCHANGED <<durableVars, cur, waiting, readback, expired, deviceVars, processVars, aged, sample, sampled, reloaded, submits, told>>

\* Execute puts the request on its way, or fails before it does.
Execute ==
    /\ pc = "execute"
    /\ \/ /\ ~expired
          /\ inflight' = inflight \cup {cur.id}
          /\ pc' = "answer"
          /\ UNCHANGED result
       \/ /\ result' = [status |-> "UNKNOWN", rev |-> 0]
          /\ pc' = "persist"
          /\ UNCHANGED inflight
    /\ UNCHANGED <<durableVars, cur, waiting, readback, expired, dev, answer, applied, execRev, processVars, sourceVars, submits, told>>

\* validatedResult: a well-formed answer of this command, or UNKNOWN.
ExecuteAnswered ==
    /\ pc = "answer" /\ answer # NoResult
    /\ result' \in {answer, [status |-> "UNKNOWN", rev |-> 0]}
    /\ pc' = IF result'.status = "EXECUTED" THEN "read" ELSE "persist"
    /\ answer' = NoResult
    /\ UNCHANGED <<durableVars, cur, waiting, readback, expired, dev, inflight, applied, execRev, processVars, sourceVars, submits, told>>

\* The command's timeout, or a broken connection.
ExecuteTimeout ==
    /\ pc = "answer"
    /\ result' = [status |-> "UNKNOWN", rev |-> 0]
    /\ pc' = "persist"
    /\ answer' = NoResult
    /\ UNCHANGED <<durableVars, cur, waiting, readback, expired, dev, inflight, applied, execRev, processVars, sourceVars, submits, told>>

\* device.Read and confirm.  effectSeen is confirm's look at the points, which a
\* fault of the device may have changed again without a new control revision.
Read ==
    /\ pc = "read"
    /\ \/ result' = [result EXCEPT !.status = "UNKNOWN"] /\ UNCHANGED readback
       \/ /\ ~expired
          /\ \E effectSeen \in BOOLEAN, good \in BOOLEAN :
                IF effectSeen /\ dev.rev = result.rev
                THEN /\ readback' = [session |-> dev.session, rev |-> dev.rev, seq |-> dev.seq, good |-> good]
                     /\ UNCHANGED result
                ELSE result' = [result EXCEPT !.status = "FAILED"] /\ UNCHANGED readback
    /\ pc' = "persist"
    /\ UNCHANGED <<durableVars, cur, waiting, expired, deviceVars, processVars, sourceVars, submits, told>>

-----------------------------------------------------------------------------
(* persistOutcome and CompleteCommand. *)

\* Mutant: whatever was read last wins.
acceptsSnapshotAlways(new) == new # NoSnap

\* mergeSnapshot's order: control revision, then session and sample sequence.
acceptsSnapshot(new) ==
    /\ new # NoSnap
    /\ new.rev >= snap.rev
    /\ new.rev = snap.rev /\ new.session = snap.session => new.seq >= snap.seq
    /\ new.rev = snap.rev /\ new.session # snap.session => new.session > snap.session

\* Mutant: the record is written without its readback.
CompletesWithoutReadback ==
    /\ status' = [status EXCEPT ![cur.id] = result.status]
    /\ rows' = [rows EXCEPT ![cur.id] = @ + 1]
    /\ UNCHANGED <<snap, body>>

\* CompleteCommand's transaction on a PENDING record: outcome, rows and, unless it
\* is late, the readback.
Completes ==
    /\ status' = [status EXCEPT ![cur.id] = result.status]
    /\ rows' = [rows EXCEPT ![cur.id] = @ + 1]
    /\ snap' = IF acceptsSnapshot(readback) THEN readback ELSE snap
    /\ UNCHANGED body

\* What a completed command reports about the source: a readback just stored is as
\* good as it is, a repeated completion goes by the stored snapshot.
PersistOk ==
    /\ pc = "persist" /\ ~expired
    /\ \/ /\ status[cur.id] = "PENDING"
          /\ Completes
          /\ available' = IF acceptsSnapshot(readback) THEN readback.good ELSE available
          /\ aged' = (aged /\ ~acceptsSnapshot(readback))
          /\ sampled' = (sampled \/ (acceptsSnapshot(readback) /\ readback.good))
          /\ UNCHANGED reloaded
       \/ /\ status[cur.id] = result.status
          /\ available' = IF snap = NoSnap THEN available ELSE snap.good /\ ~aged
          /\ reloaded' = (reloaded \/ available')
          /\ UNCHANGED <<durableVars, aged, sampled>>
    /\ Respond(result.status, FALSE)
    /\ UNCHANGED <<expired, deviceVars, processVars, sample>>

\* The attempt fails, perhaps after the transaction became durable; it is repeated.
PersistFails ==
    /\ pc = "persist" /\ ~expired
    /\ \/ UNCHANGED <<durableVars, aged>>
       \/ status[cur.id] = "PENDING" /\ Completes /\ aged' = (aged /\ ~acceptsSnapshot(readback))
    /\ available' = FALSE
    /\ UNCHANGED <<workVars, deviceVars, processVars, sample, sampled, reloaded, submits, told>>

\* Mutant: an attempt that fails because the budget has ended is repeated as well.
PersistGivesUpNever ==
    /\ pc = "persist" /\ expired
    /\ available' = FALSE
    /\ UNCHANGED <<durableVars, workVars, deviceVars, processVars, aged, sample, sampled, reloaded, submits, told>>

\* The budget ends before an attempt succeeded: fatal, the queue terminates.
PersistGivesUp ==
    /\ pc = "persist" /\ expired
    /\ available' \in {available, FALSE}
    /\ Respond("error", TRUE)
    /\ UNCHANGED <<durableVars, expired, deviceVars, processVars, aged, sample, sampled, reloaded>>

\* operationContext's deadline.
BudgetEnds ==
    /\ pc \notin {"idle", "done"} /\ ~expired
    /\ expired' = TRUE
    /\ UNCHANGED <<durableVars, pc, cur, waiting, result, readback, deviceVars, processVars, sourceVars, submits, told>>

-----------------------------------------------------------------------------
(* The process. *)

\* Everything in memory is lost; requests already sent are not.
Crash ==
    /\ up /\ crashes < MaxCrashes
    /\ crashes' = crashes + 1
    /\ up' = FALSE
    /\ pc' = "done" /\ cur' = NoRequest /\ waiting' = FALSE /\ result' = NoResult /\ readback' = NoSnap /\ expired' = FALSE
    /\ answer' = NoResult
    /\ stop' = FALSE
    /\ available' = FALSE /\ sample' = NoSnap /\ sampled' = FALSE /\ reloaded' = FALSE
    /\ UNCHANGED <<durableVars, dev, inflight, applied, execRev, aged, submits, told>>

\* Mutant: Open does not recover.
RecoverPendingNothing == UNCHANGED <<status, rows>>

\* PENDING records become UNKNOWN, with their rows, in one transaction.
RecoverPending ==
    /\ status' = [i \in Ids |-> IF status[i] = "PENDING" THEN "UNKNOWN" ELSE status[i]]
    /\ rows' = [i \in Ids |-> IF status[i] = "PENDING" THEN rows[i] + 1 ELSE rows[i]]

\* The agent starts again: Open, and a new Queue.
Restart ==
    /\ ~up
    /\ RecoverPending
    /\ up' = TRUE
    /\ pc' = "idle"
    /\ UNCHANGED <<body, snap, cur, waiting, result, readback, expired, deviceVars, stop, crashes, sourceVars, submits, told>>

-----------------------------------------------------------------------------
(* Time, the periodic sampling and the device (external, except SavePLC and  *)
(* MarkStale).                                                               *)

TimePasses ==
    /\ snap # NoSnap /\ ~aged
    /\ aged' = TRUE
    /\ UNCHANGED <<durableVars, workVars, deviceVars, processVars, available, sample, sampled, reloaded, submits, told>>

SampleRead ==
    /\ up /\ ~Coordinated
    /\ sample = NoSnap
    /\ \E good \in BOOLEAN :
          sample' = [session |-> dev.session, rev |-> dev.rev, seq |-> dev.seq, good |-> good]
    /\ UNCHANGED <<durableVars, workVars, deviceVars, processVars, available, aged, sampled, reloaded, submits, told>>

\* The save may come after the coordinator was released: the store orders it itself.
\* A late read is refused without touching anything; a database error marks the
\* source unavailable.
SavePLC ==
    /\ up /\ sample # NoSnap
    /\ sample' = NoSnap
    /\ \/ /\ acceptsSnapshot(sample)
          /\ snap' = sample
          /\ aged' = FALSE
          /\ available' = sample.good
          /\ sampled' = (sampled \/ sample.good)
       \/ /\ ~acceptsSnapshot(sample)
          /\ UNCHANGED <<snap, aged, available, sampled>>
       \/ /\ available' = FALSE
          /\ UNCHANGED <<snap, aged, sampled>>
    /\ UNCHANGED <<status, body, rows, workVars, deviceVars, processVars, reloaded, submits, told>>

\* The sampling could not read the device.
MarkStale ==
    /\ up /\ ~Coordinated
    /\ snap' \in {[snap EXCEPT !.good = FALSE], snap}
    /\ available' = FALSE
    /\ UNCHANGED <<status, body, rows, workVars, deviceVars, processVars, aged, sample, sampled, reloaded, submits, told>>

\* The device serves a request; its answer is lost if nobody waits for it any more.
AnswerTo(i, a) == IF pc = "answer" /\ cur.id = i THEN a ELSE answer

DeviceExecutes(i) ==
    /\ i \in inflight
    /\ inflight' = inflight \ {i}
    /\ applied' = [applied EXCEPT ![i] = @ + 1]
    /\ dev' = [dev EXCEPT !.rev = @ + 1]
    /\ execRev' = [execRev EXCEPT ![i] = dev.rev + 1]
    /\ answer' = AnswerTo(i, [status |-> "EXECUTED", rev |-> dev.rev + 1])
    /\ UNCHANGED <<durableVars, workVars, processVars, sourceVars, submits, told>>

DeviceRefuses(i) ==
    /\ i \in inflight
    /\ inflight' = inflight \ {i}
    /\ \E refusal \in {"REJECTED", "FAILED"} : answer' = AnswerTo(i, [status |-> refusal, rev |-> dev.rev])
    /\ UNCHANGED <<durableVars, workVars, dev, applied, execRev, processVars, sourceVars, submits, told>>

DeviceTicks ==
    /\ \/ dev.seq < MaxSamples /\ dev' = [dev EXCEPT !.seq = @ + 1]
       \/ dev.session < MaxSessions /\ dev' = [dev EXCEPT !.session = @ + 1, !.seq = 0]
    /\ UNCHANGED <<durableVars, workVars, inflight, answer, applied, execRev, processVars, sourceVars, submits, told>>

-----------------------------------------------------------------------------
Init ==
    /\ status = [i \in Ids |-> "none"]
    /\ body = [i \in Ids |-> NoBody]
    /\ rows = [i \in Ids |-> 0]
    /\ snap = NoSnap
    /\ up = TRUE /\ stop = FALSE /\ crashes = 0
    /\ pc = "idle" /\ cur = NoRequest /\ waiting = FALSE /\ result = NoResult /\ readback = NoSnap /\ expired = FALSE
    /\ available = FALSE /\ aged = FALSE /\ sample = NoSnap /\ sampled = FALSE /\ reloaded = FALSE
    /\ dev = [session |-> 1, rev |-> 1, seq |-> 0]
    /\ inflight = {} /\ answer = NoResult
    /\ submits = 0
    /\ applied = [i \in Ids |-> 0]
    /\ told = [i \in Ids |-> {}]
    /\ execRev = [i \in Ids |-> 0]

\* The goroutine's own steps.
Process ==
    \/ BeginExisting \/ BeginInsert \/ BeginFails
    \/ Check \/ Execute \/ ExecuteAnswered \/ ExecuteTimeout \/ Read
    \/ PersistOk \/ PersistFails \/ PersistGivesUp

Next ==
    \/ \E i \in Ids, b \in Bodies : Submit(i, b)
    \/ CallerLeaves
    \/ Process \/ BudgetEnds \/ Close \/ RunStops
    \/ Crash \/ Restart
    \/ TimePasses \/ SampleRead \/ SavePLC \/ MarkStale
    \/ \E i \in Ids : DeviceExecutes(i) \/ DeviceRefuses(i)
    \/ DeviceTicks

Spec == Init /\ [][Next]_vars

\* The goroutine keeps running, every adapter call has its timeout and the operation
\* budget is a timer; nothing else has to happen.
FairSpec == Spec /\ WF_vars(Process) /\ WF_vars(BudgetEnds)

-----------------------------------------------------------------------------
(* What the pipeline promises. *)

Statuses == {"none", "PENDING"} \cup Terminal

\* Every variable keeps its type; in particular no result that is not terminal is
\* ever about to be recorded (validatedResult).
TypeOK ==
    /\ status \in [Ids -> Statuses]
    /\ body \in [Ids -> Bodies \cup {NoBody}]
    /\ rows \in [Ids -> Nat]
    /\ snap \in Snapshots \cup {NoSnap}
    /\ up \in BOOLEAN /\ stop \in BOOLEAN /\ crashes \in 0..MaxCrashes
    /\ pc \in {"idle", "begin", "check", "execute", "answer", "read", "persist", "done"}
    /\ cur \in [id : Ids, body : Bodies] \cup {NoRequest}
    /\ waiting \in BOOLEAN
    /\ submits \in 0..MaxSubmits
    /\ result \in [status : Terminal \cup {"none"}, rev : Nat]
    /\ pc = "persist" => result.status \in Terminal
    /\ readback \in Snapshots \cup {NoSnap}
    /\ expired \in BOOLEAN /\ available \in BOOLEAN /\ aged \in BOOLEAN /\ sampled \in BOOLEAN /\ reloaded \in BOOLEAN
    /\ sample \in Snapshots \cup {NoSnap}
    /\ dev \in [session : 1..MaxSessions, rev : Nat \ {0}, seq : 0..MaxSamples]
    /\ inflight \subseteq Ids
    /\ answer \in [status : {"none", "EXECUTED", "REJECTED", "FAILED"}, rev : Nat]
    /\ applied \in [Ids -> Nat] /\ execRev \in [Ids -> Nat]
    /\ told \in [Ids -> SUBSET Statuses]

\* The pipeline implements the ledger: through retries, resubmissions, uncertain
\* commits, late device answers and crashes every commandId keeps one content, takes
\* effect at most once and has one outcome, recorded and told once and for all.
Ledger == INSTANCE CommandLedger WITH
    Ids <- Ids, Bodies <- Bodies, NoBody <- NoBody,
    status <- status, body <- body, rows <- rows, applied <- applied, told <- told
ImplementsLedger == Ledger!Spec

\* A PENDING record belongs to the command in hand, unless the queue has terminated:
\* after a crash Open leaves none behind, and nobody waits for an outcome that no
\* goroutine is going to record (process, RecoverPending).
PendingIsInHand ==
    \A i \in Ids : status[i] = "PENDING" => pc = "done" \/ (pc \notin {"idle", "begin"} /\ cur.id = i)

\* A command reaches the device only when this process has stored a good snapshot of
\* it, or has had to repeat a completion and found a snapshot still fresh then: a
\* restarted agent does not otherwise act on what an earlier process left in the
\* database (commandAvailability, Store.available).
NoBlindExecution == pc = "answer" => sampled \/ reloaded

\* The persisted snapshot never goes back to an older control revision, nor within
\* it to an older session or sample, whichever of a late sample and a late readback
\* is saved last, crashes included (mergeSnapshot).
SnapshotNeverGoesBack ==
    [][/\ snap'.rev >= snap.rev
       /\ snap'.rev = snap.rev => snap'.session >= snap.session
       /\ snap'.rev = snap.rev /\ snap'.session = snap.session => snap'.seq >= snap.seq]_vars

\* Whoever is told EXECUTED finds the command's effect in the persisted snapshot: it
\* is at least as new as the control revision the command produced (CompleteCommand).
ExecutedIsVisible ==
    \A i \in Ids : status[i] = "EXECUTED" => snap.rev >= execRev[i]

\* An admitted command never blocks the queue for ever: it is answered, or the queue
\* terminates, whatever the device and the database do (the operation budget).
QueueMovesOn == (pc = "begin") ~> (pc \in {"idle", "done"})
=============================================================================
