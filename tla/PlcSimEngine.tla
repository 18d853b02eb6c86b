---------------------------- MODULE PlcSimEngine ----------------------------
(***************************************************************************)
(* The PLC simulator that block-agent drives over a Unix socket: the       *)
(* engine (internal/plcsim/engine.go) with its JSON state file, the HTTP   *)
(* handlers in front of it (server.go) and the adapter that classifies the *)
(* answers for the command queue (internal/adapter/simulator.go).          *)
(*                                                                         *)
(* Every engine operation runs under Engine.mu: it builds a candidate,     *)
(* writes it to the state file by an atomic rename and only then makes it  *)
(* the state in memory.  The write may fail, and the process may die at    *)
(* any moment, also between the rename and the answer.  An HTTP handler    *)
(* outlives its caller's timeout, so a retry races the original request.   *)
(* Whether the n-th inspected item passes (deterministicPass) is a         *)
(* constant; NextProductionAt is kept as the time that is left until then. *)
(***************************************************************************)
EXTENDS Integers, FiniteSets

CONSTANTS
    Ids, Bodies, NoBody,     \* commandIds and command contents (normalised, without commandId)
    Requests,                \* POSTs to /v1/commands
    Blanks, FinishedCapacity, RejectCapacity,  \* config.BinCapacities
    InitialTarget, InitialToolLimit, InitialInspectInterval, Cycle,
    PassAt,                  \* the inspections that pass
    FaultNames,              \* faults the control socket may inject
    MaxSamples, MaxSessions, MaxFaultChanges  \* model bounds

ASSUME SimulatorAssumption ==
    /\ NoBody \notin Bodies
    /\ {Blanks, FinishedCapacity, RejectCapacity, InitialTarget, InitialToolLimit,
        InitialInspectInterval, Cycle} \subseteq Nat \ {0}
    /\ PassAt \subseteq Nat
    /\ \A b \in Bodies : {b.target, b.toolLimit, b.inspectInterval} \subseteq Int
    /\ FaultNames \subseteq {"plc_disconnected", "freeze_data", "emergency_stop", "guard_door_open",
                             "severe_alarm", "command_reject", "command_fail", "applied_response_timeout"}
    /\ {MaxSamples, MaxSessions, MaxFaultChanges} \subseteq Nat

VARIABLES
    up,       \* the simulator process runs
    file,     \* the state file (durable)
    state,    \* Engine.state, meaningless while the process is down
    handler,  \* the HTTP handler of each request, with its result
    outcome,  \* what the adapter's Execute returned: a status, "conflict", "error" or "unknown"
    request,  \* the commandId and content of each request
    sessions, \* number of session ids handed out, bounded by MaxSessions
    changes,  \* number of fault injections, bounded by MaxFaultChanges
    overfilled \* history: an inspect command pushed an item into a full reject bin

vars == <<up, file, state, handler, outcome, request, sessions, changes, overfilled>>
callerVars == <<handler, outcome, request>>

-----------------------------------------------------------------------------
(* The persisted state and what the engine derives from it. *)

\* NextProductionAt.IsZero(); otherwise the time left, negative when overdue.  More
\* than MaxOverdue makes no difference: each cycle that is caught up on takes a blank.
NotScheduled == Cycle + 1
MaxOverdue == Blanks * Cycle

NotProcessed == [body |-> NoBody, status |-> "none", revision |-> 0]

canProduce(s) ==
    /\ s.connected /\ s.running /\ s.mode = "auto"
    /\ ~s.singlePaused /\ ~s.framePaused
    /\ s.safetyReady /\ ~s.emergencyStop /\ s.guardDoorClosed

hasProductionCapacity(s) ==
    s.output < s.target /\ s.blank > 0 /\ s.finished < FinishedCapacity /\ s.rejectBin < RejectCapacity

\* Mutant: faults that clear set the line running again.
applyFaultStateResumes(s) ==
    LET connected == "plc_disconnected" \notin s.faults
        ready == connected /\ s.faults \cap {"emergency_stop", "guard_door_open"} = {}
    IN  [s EXCEPT !.connected = connected,
                  !.emergencyStop = "emergency_stop" \in s.faults,
                  !.guardDoorClosed = "guard_door_open" \notin s.faults,
                  !.safetyReady = ready,
                  !.running = ready /\ (@ \/ ~s.safetyReady)]

applyFaultState(s) ==
    LET connected == "plc_disconnected" \notin s.faults
        ready == connected /\ s.faults \cap {"emergency_stop", "guard_door_open"} = {}
    IN  [s EXCEPT !.connected = connected,
                  !.emergencyStop = "emergency_stop" \in s.faults,
                  !.guardDoorClosed = "guard_door_open" \notin s.faults,
                  !.safetyReady = ready,
                  !.running = @ /\ ready]

\* binStatus is "warning" or "full".
nearlyFull(quantity, capacity) == quantity > 0 /\ quantity * 100 >= capacity * 80

\* The conditions refreshDerived raises an alarm for.
alarmConditions(s) ==
    {a \in {"E_STOP", "GUARD_DOOR", "TOOL_LIMIT", "FINISHED_BIN", "SIM_SEVERE"} :
        \/ a = "E_STOP" /\ s.emergencyStop
        \/ a = "GUARD_DOOR" /\ ~s.guardDoorClosed
        \/ a = "TOOL_LIMIT" /\ s.toolUsed >= s.toolLimit
        \/ a = "FINISHED_BIN" /\ nearlyFull(s.finished, FinishedCapacity)
        \/ a = "SIM_SEVERE" /\ "severe_alarm" \in s.faults}

\* Active alarms keep their acknowledgement, cleared ones are dropped with it.
refreshDerived(s) ==
    [s EXCEPT !.alarms = alarmConditions(s), !.acknowledged = @ \cap alarmConditions(s)]

validateCounters(s) ==
    /\ s.inspected <= s.output
    /\ s.passed + s.ng = s.inspected
    /\ s.pending = s.output - s.inspected

\* Mutant: a bin filled to its capacity is refused.
validatePersistedStrict(s) ==
    /\ validateCounters(s)
    /\ s.blank \in 0..Blanks
    /\ s.finished \in 0..FinishedCapacity
    /\ s.rejectBin \in 0..(RejectCapacity - 1)

validatePersisted(s) ==
    /\ s.revision # 0
    /\ s.target > 0 /\ s.toolLimit > 0 /\ s.inspectInterval > 0
    /\ s.mode \in {"auto", "manual"}
    /\ s.toolUsed >= 0
    /\ s.blank \in 0..Blanks
    /\ s.finished \in 0..FinishedCapacity
    /\ validateCounters(s)
    /\ s.rejectBin \in 0..RejectCapacity

\* Mutant: a reject found by the inspect command stays in the finished bin as well.
inspectOneKeeps(s, fromFinishedBin) ==
    LET n == s.inspected + 1
        passes == n \in PassAt
    IN  [s EXCEPT !.inspected = n,
                  !.passed = IF passes THEN @ + 1 ELSE @,
                  !.ng = IF passes THEN @ ELSE @ + 1,
                  !.rejectBin = IF passes THEN @ ELSE @ + 1,
                  !.finished = IF passes /\ ~fromFinishedBin THEN @ + 1 ELSE @,
                  !.pending = s.output - n]

inspectOne(s, fromFinishedBin) ==
    LET n == s.inspected + 1
        passes == n \in PassAt
    IN  [s EXCEPT !.inspected = n,
                  !.passed = IF passes THEN @ + 1 ELSE @,
                  !.ng = IF passes THEN @ ELSE @ + 1,
                  !.rejectBin = IF passes THEN @ ELSE @ + 1,
                  !.finished = IF passes /\ ~fromFinishedBin THEN @ + 1
                               ELSE IF ~passes /\ fromFinishedBin /\ @ > 0 THEN @ - 1 ELSE @,
                  !.pending = s.output - n]

produceOne(s) ==
    LET made == [s EXCEPT !.output = @ + 1, !.toolUsed = @ + 1, !.blank = @ - 1]
        sorted == IF made.output % made.inspectInterval = 0 THEN inspectOne(made, FALSE)
                  ELSE [made EXCEPT !.finished = @ + 1]
    IN  [sorted EXCEPT !.pending = sorted.output - sorted.inspected]

\* The loop of Tick: one item per elapsed cycle, each of which uses up a blank.
produceDue(s) ==
    IF s.nextProductionAt <= 0 /\ canProduce(s) /\ hasProductionCapacity(s)
    THEN [produceOne(s) EXCEPT !.nextProductionAt = @ + Cycle] ELSE s

catchUp(s) ==
    LET after[n \in 0..Blanks] == IF n = 0 THEN s ELSE produceDue(after[n - 1])
    IN  after[Blanks]

initialState(session) ==
    refreshDerived(
        [session |-> session, sample |-> 0, nextProductionAt |-> NotScheduled, rejectBin |-> 0,
         revision |-> 1, running |-> FALSE, mode |-> "auto", singlePaused |-> FALSE, framePaused |-> FALSE,
         safetyReady |-> TRUE, guardDoorClosed |-> TRUE, emergencyStop |-> FALSE, connected |-> TRUE,
         target |-> InitialTarget, toolLimit |-> InitialToolLimit, inspectInterval |-> InitialInspectInterval,
         toolUsed |-> 0, blank |-> Blanks, finished |-> 0,
         output |-> 0, inspected |-> 0, passed |-> 0, ng |-> 0, pending |-> 0,
         alarms |-> {}, acknowledged |-> {}, faults |-> {}, processed |-> [i \in Ids |-> NotProcessed]])

-----------------------------------------------------------------------------
(* persist, and the life of the process. *)

\* The candidate replaces the file by a rename and then the state in memory ...
Persisted(candidate) ==
    /\ file' = candidate
    /\ state' = candidate
    /\ UNCHANGED up

\* ... unless writing it fails, which leaves both alone, ...
PersistFails == UNCHANGED <<up, file, state>>

\* ... or the process dies after the rename and before its answer.  Where nobody
\* waits for an answer, that is a Crash after the write.
DiesAfterRename(candidate) ==
    /\ file' = candidate
    /\ up' = FALSE
    /\ state' = candidate

\* The callers of a process that dies see their transport fail.
CallersCutOff ==
    /\ handler' = [r \in Requests |-> IF handler[r].pc = "new" THEN handler[r]
                                      ELSE [pc |-> "done", result |-> "none"]]
    /\ outcome' = [r \in Requests |-> IF handler[r].pc # "new" /\ outcome[r] = "none" THEN "unknown"
                                      ELSE outcome[r]]
    /\ UNCHANGED request

Crash ==
    /\ up
    /\ up' = FALSE
    /\ state' = file
    /\ CallersCutOff
    /\ UNCHANGED <<file, sessions, changes, overfilled>>

\* A state file Open does not refuse is taken over under a new session id.
Open ==
    /\ ~up
    /\ sessions < MaxSessions
    /\ validatePersisted(file)
    /\ LET restored == [file EXCEPT !.session = sessions + 1,
                                    !.nextProductionAt = IF canProduce(file) THEN Cycle ELSE @]
           candidate == refreshDerived(applyFaultState(restored))
       IN  /\ file' = candidate
           /\ state' = candidate
    /\ up' = TRUE
    /\ sessions' = sessions + 1
    /\ UNCHANGED <<callerVars, changes, overfilled>>

-----------------------------------------------------------------------------
(* Tick, SetFault and RestartSession. *)

sampled(s) ==
    LET candidate == applyFaultState([s EXCEPT !.sample = @ + 1])
        due == IF candidate.nextProductionAt = NotScheduled
               THEN [candidate EXCEPT !.nextProductionAt = Cycle] ELSE candidate
    IN  IF canProduce(candidate) /\ hasProductionCapacity(candidate) THEN catchUp(due)
        ELSE [candidate EXCEPT !.nextProductionAt = NotScheduled]

\* Nothing happens while the data is frozen, and nothing if the counters are off.
Tick ==
    /\ up
    /\ "freeze_data" \notin state.faults
    /\ state.sample < MaxSamples
    /\ validateCounters(sampled(state))
    /\ Persisted(refreshDerived(sampled(state)))
    /\ UNCHANGED <<callerVars, sessions, changes, overfilled>>

\* POST /v1/faults; a failed write leaves everything as it was.  Of response_delay
\* and quality, which carry a number and a word in place of enabled, the first only
\* makes ExecuteTimesOut likelier, which may happen anyway, and the second is shown
\* in snapshots alone: f stands for neither.
SetFault(f) ==
    /\ up
    /\ changes < MaxFaultChanges
    /\ changes' = changes + 1
    /\ \E enabled \in BOOLEAN :
          LET faulted == [state EXCEPT !.faults = IF enabled THEN @ \cup {f} ELSE @ \ {f}]
          IN  Persisted(refreshDerived(applyFaultState(faulted)))
    /\ UNCHANGED <<callerVars, sessions, overfilled>>

\* POST /v1/restart: a new session without a new process.
RestartSession ==
    /\ up
    /\ sessions < MaxSessions
    /\ sessions' = sessions + 1
    /\ Persisted([state EXCEPT !.session = sessions + 1, !.sample = 0,
                               !.nextProductionAt = IF canProduce(state) THEN Cycle ELSE NotScheduled])
    /\ UNCHANGED <<callerVars, changes, overfilled>>

-----------------------------------------------------------------------------
(* ApplyCommand. *)

\* applyCommand's refusals.
accepts(s, b) ==
    CASE b.name = "start" -> ~s.emergencyStop /\ s.guardDoorClosed /\ s.safetyReady
      [] b.name \in {"pause", "reset", "clear_bins"} -> TRUE
      [] b.name = "set_mode" -> b.mode \in {"auto", "manual"}
      [] b.name \in {"set_single_paused", "set_frame_paused"} -> b.paused # "nil"
      [] b.name = "inspect" -> s.inspected < s.output
      [] b.name = "update_settings" -> b.target >= 1 /\ b.toolLimit >= 1 /\ b.inspectInterval >= 1
      [] b.name = "acknowledge_alarm" -> b.alarm \in s.alarms
      [] OTHER -> FALSE

applyCommand(s, b) ==
    CASE b.name = "start" -> [s EXCEPT !.running = TRUE]
      [] b.name = "pause" -> [s EXCEPT !.running = FALSE]
      [] b.name = "reset" ->
            [s EXCEPT !.running = FALSE, !.singlePaused = FALSE, !.framePaused = FALSE, !.output = 0,
                      !.inspected = 0, !.passed = 0, !.ng = 0, !.pending = 0, !.toolUsed = 0,
                      !.blank = Blanks, !.finished = 0, !.rejectBin = 0]
      [] b.name = "set_mode" -> [s EXCEPT !.mode = b.mode]
      [] b.name = "set_single_paused" -> [s EXCEPT !.singlePaused = (b.paused = "true")]
      [] b.name = "set_frame_paused" -> [s EXCEPT !.framePaused = (b.paused = "true")]
      [] b.name = "inspect" -> inspectOne(s, TRUE)
      [] b.name = "clear_bins" -> [s EXCEPT !.blank = 0, !.finished = 0, !.rejectBin = 0]
      [] b.name = "update_settings" ->
            [s EXCEPT !.target = b.target, !.toolLimit = b.toolLimit, !.inspectInterval = b.inspectInterval]
      [] b.name = "acknowledge_alarm" -> [s EXCEPT !.acknowledged = @ \cup {b.alarm}]

\* The status of a refused command, in the order of ApplyCommand's checks.
refusal(s, b) ==
    IF b.expectedRevision # 0 /\ b.expectedRevision # s.revision THEN "REJECTED"
    ELSE IF "command_reject" \in s.faults THEN "REJECTED"
    ELSE IF "command_fail" \in s.faults THEN "FAILED"
    ELSE IF ~s.connected \/ ~accepts(s, b) THEN "REJECTED"
    ELSE "none"

\* An executed command: its effect, the next revision, the production schedule.
executed(s, b) ==
    LET effect == applyFaultState([applyCommand(s, b) EXCEPT !.revision = @ + 1])
        reschedules == b.name \in {"start", "set_mode", "set_single_paused", "set_frame_paused"}
        next == IF ~canProduce(effect) THEN NotScheduled
                ELSE IF reschedules \/ effect.nextProductionAt = NotScheduled THEN Cycle
                ELSE effect.nextProductionAt
    IN  refreshDerived([effect EXCEPT !.nextProductionAt = next])

record(s, i, b, status) == [s EXCEPT !.processed[i] = [body |-> b, status |-> status, revision |-> s.revision]]

\* The candidate for a commandId that is not on record yet.
decided(s, i, b) ==
    IF refusal(s, b) # "none" THEN record(s, i, b, refusal(s, b)) ELSE record(executed(s, b), i, b, "EXECUTED")

fills(s, b) ==
    refusal(s, b) = "none" /\ b.name = "inspect" /\ s.rejectBin >= RejectCapacity /\ (s.inspected + 1) \notin PassAt

-----------------------------------------------------------------------------
(* POST /v1/commands and the adapter's Execute. *)

callerFrame == <<sessions, changes>>

\* The adapter sends a command.
Execute(r, i, b) ==
    /\ up
    /\ handler[r].pc = "new"
    /\ handler' = [handler EXCEPT ![r].pc = "apply"]
    /\ request' = [request EXCEPT ![r] = [id |-> i, body |-> b]]
    /\ UNCHANGED <<up, file, state, outcome, callerFrame, overfilled>>

\* Its context or the client's timeout ends; the handler does not notice.
ExecuteTimesOut(r) ==
    /\ handler[r].pc # "new" /\ outcome[r] = "none"
    /\ outcome' = [outcome EXCEPT ![r] = "unknown"]
    /\ UNCHANGED <<up, file, state, handler, request, callerFrame, overfilled>>

Answer(r, result) == handler' = [handler EXCEPT ![r] = [pc |-> "behave", result |-> result]]

\* A commandId on record: the recorded result, or a conflict with other content.
ApplyProcessed(r) ==
    LET previous == state.processed[request[r].id]
    IN  /\ up /\ handler[r].pc = "apply"
        /\ previous.body # NoBody
        /\ Answer(r, IF previous.body = request[r].body THEN previous.status ELSE "conflict")
        /\ UNCHANGED <<up, file, state, outcome, request, callerFrame, overfilled>>

\* Mutant: the new state is in effect before it is written.
ApplyCommandEarly(r) ==
    LET i == request[r].id
        b == request[r].body
        candidate == decided(state, i, b)
    IN  /\ up /\ handler[r].pc = "apply"
        /\ state.processed[i].body = NoBody
        /\ validateCounters(candidate)
        /\ \/ Persisted(candidate) /\ Answer(r, candidate.processed[i].status) /\ UNCHANGED <<outcome, request>>
           \/ state' = candidate /\ UNCHANGED <<up, file>> /\ Answer(r, "error") /\ UNCHANGED <<outcome, request>>
           \/ DiesAfterRename(candidate) /\ CallersCutOff
        /\ overfilled' = (overfilled \/ fills(state, b))
        /\ UNCHANGED callerFrame

\* A new one is decided and recorded in one write; if that fails the caller gets
\* HTTP 500 and nothing has happened.
ApplyCommand(r) ==
    LET i == request[r].id
        b == request[r].body
        candidate == decided(state, i, b)
    IN  /\ up /\ handler[r].pc = "apply"
        /\ state.processed[i].body = NoBody
        /\ validateCounters(candidate)
        /\ \/ /\ Persisted(candidate)
              /\ Answer(r, candidate.processed[i].status)
              /\ overfilled' = (overfilled \/ fills(state, b))
              /\ UNCHANGED <<outcome, request>>
           \/ /\ PersistFails
              /\ Answer(r, "error")
              /\ UNCHANGED <<outcome, request, overfilled>>
           \/ /\ DiesAfterRename(candidate)
              /\ CallersCutOff
              /\ overfilled' = (overfilled \/ fills(state, b))
        /\ UNCHANGED callerFrame

\* ResponseBehavior is read after ApplyCommand has released the engine: an executed
\* command's answer is withheld if the fault is on by then.
ResponseBehavior(r) ==
    /\ up /\ handler[r].pc = "behave"
    /\ handler' = [handler EXCEPT ![r].pc =
          IF "applied_response_timeout" \in state.faults /\ handler[r].result = "EXECUTED" THEN "hang" ELSE "reply"]
    /\ UNCHANGED <<up, file, state, outcome, request, callerFrame, overfilled>>

\* The answer reaches the adapter, if it still waits; a hanging handler ends with it.
Reply(r) ==
    /\ up
    /\ \/ handler[r].pc = "reply"
       \/ handler[r].pc = "hang" /\ outcome[r] # "none"
    /\ handler' = [handler EXCEPT ![r] = [pc |-> "done", result |-> "none"]]
    /\ outcome' = [outcome EXCEPT ![r] = IF @ = "none" THEN handler[r].result ELSE @]
    /\ UNCHANGED <<up, file, state, request, callerFrame, overfilled>>

older(s) ==
    [s EXCEPT !.nextProductionAt = IF @ = NotScheduled \/ @ = -MaxOverdue THEN @ ELSE @ - 1]

TimePasses ==
    /\ file' = older(file)
    /\ state' = older(state)
    /\ UNCHANGED <<up, callerVars, sessions, changes, overfilled>>

-----------------------------------------------------------------------------
Init ==
    /\ up = TRUE
    /\ file = initialState(1)
    /\ state = initialState(1)
    /\ handler = [r \in Requests |-> [pc |-> "new", result |-> "none"]]
    /\ outcome = [r \in Requests |-> "none"]
    /\ request = [r \in Requests |-> [id |-> NoBody, body |-> NoBody]]
    /\ sessions = 1
    /\ changes = 0
    /\ overfilled = FALSE

Handle(r) == ApplyProcessed(r) \/ ApplyCommand(r) \/ ResponseBehavior(r) \/ Reply(r)

Next ==
    \/ Crash \/ Open \/ Tick \/ RestartSession \/ TimePasses
    \/ \E f \in FaultNames : SetFault(f)
    \/ \E r \in Requests :
          \/ \E i \in Ids, b \in Bodies : Execute(r, i, b)
          \/ ExecuteTimesOut(r)
          \/ Handle(r)

Spec == Init /\ [][Next]_vars

-----------------------------------------------------------------------------
(* What the simulator promises. *)

\* The verdicts callers were given for the content their commandId is bound to.
toldFor(i) ==
    {outcome[r] : r \in {q \in Requests : request[q].id = i /\ request[q].body = file.processed[i].body}}
        \cap {"EXECUTED", "REJECTED", "FAILED"}

\* The engine behind its socket is a device on which commands can be retried: the
\* state file decides every commandId once and for all, whatever times out, dies
\* or fails to be written, and nobody is told another verdict (ApplyCommand, Open).
Device == INSTANCE IdempotentDevice WITH
    bound <- [i \in Ids |-> file.processed[i].body],
    verdict <- [i \in Ids |-> file.processed[i].status],
    revision <- file.revision,
    told <- [i \in Ids |-> toldFor(i)]
ImplementsDevice == Device!Spec

\* A line that stands still is set running by nothing but a newly executed start:
\* not by an emergency stop, a door or a connection that clears, and not by a
\* restart or a repeated command.  A line that runs when the process dies runs on
\* after it (applyFaultState, Open, RestartSession, ApplyCommand's record).
OnlyStartRuns ==
    [][~file.running /\ file'.running =>
          \E i \in Ids : /\ file.processed[i].body = NoBody
                         /\ file'.processed[i].status = "EXECUTED"
                         /\ file'.processed[i].body.name = "start"]_vars

\* Every blank is a blank or an item made of it, and every item is in one bin.
Accounted(s) == s.finished + s.rejectBin = s.output /\ s.blank + s.output = Blanks

\* clear_bins, the one command that takes goods away without a new count.
BinsCleared(s) ==
    \E i \in Ids : s.processed[i].status = "EXECUTED" /\ s.processed[i].body.name = "clear_bins"

\* Nothing is made twice or out of nothing, and until the bins are cleared by hand
\* nothing vanishes, over a Tick that catches up, inspections, crashes and resets:
\* every item produced is in exactly one bin and took exactly one blank
\* (produceOne, inspectOne, applyCommand).
GoodsConserved ==
    /\ validateCounters(file)
    /\ file.finished + file.rejectBin <= file.output
    /\ file.blank + file.output <= Blanks
    /\ Accounted(file) \/ BinsCleared(file)

\* The simulator can always be restarted on the file it wrote itself.  The one
\* exception is inspect, which does not look at the reject bin's capacity: a file
\* with an overfilled bin is refused by validatePersisted.
RestartAccepted == ~overfilled => validatePersisted(file)

=============================================================================
