------------------------ MODULE PlcSimEngineProofs ------------------------
(***************************************************************************)
(* Proofs about PlcSimEngine, for any bins, settings, inspections, command *)
(* contents and number of requests: goods are conserved, the engine can be *)
(* restarted on the file it wrote, only a start sets the line running, and *)
(* the engine implements the device the command queue retries on.          *)
(***************************************************************************)
EXTENDS PlcSimEngine, TLAPS, WellFoundedInduction

Verdicts == {"EXECUTED", "REJECTED", "FAILED"}
Entries == [body : Bodies \cup {NoBody}, status : Verdicts \cup {"none"}, revision : Nat]

AlarmNames == {"E_STOP", "GUARD_DOOR", "TOOL_LIMIT", "FINISHED_BIN", "SIM_SEVERE"}
States ==
    [session : Nat, sample : Nat, nextProductionAt : Int, rejectBin : Nat,
     revision : Nat \ {0}, running : BOOLEAN, mode : {"auto", "manual"}, singlePaused : BOOLEAN, framePaused : BOOLEAN,
     safetyReady : BOOLEAN, guardDoorClosed : BOOLEAN, emergencyStop : BOOLEAN, connected : BOOLEAN,
     target : Nat \ {0}, toolLimit : Nat \ {0}, inspectInterval : Nat \ {0},
     toolUsed : Nat, blank : Nat, finished : Nat,
     output : Nat, inspected : Nat, passed : Nat, ng : Nat, pending : Nat,
     alarms : SUBSET AlarmNames, acknowledged : SUBSET AlarmNames, faults : SUBSET FaultNames,
     processed : [Ids -> Entries]]

\* The counters agree with each other, with the bins and with the blanks; an item in
\* the reject bin was found not good.
Goods(s) ==
    /\ validateCounters(s)
    /\ s.finished + s.rejectBin <= s.output
    /\ s.blank + s.output <= Blanks
    /\ s.rejectBin <= s.ng
    /\ s.finished <= FinishedCapacity

Sound == {s \in States : Goods(s)}

\* A commandId is bound exactly when it is decided.
EntryInv == \A i \in Ids : file.processed[i].body = NoBody <=> file.processed[i].status = "none"

\* Nothing vanishes but by clear_bins.
AccountInv == Accounted(file) \/ BinsCleared(file)

\* The answer of a request on its way, or given, is the one on record.
OnRecord(r, v) ==
    v \in Verdicts => /\ file.processed[request[r].id].body = request[r].body
                      /\ file.processed[request[r].id].status = v
AnswerInv ==
    \A r \in Requests :
        /\ handler[r].pc = "new" => outcome[r] = "none" /\ handler[r].result = "none"
        /\ handler[r].pc # "new" => request[r] \in [id : Ids, body : Bodies]
        /\ OnRecord(r, handler[r].result)
        /\ OnRecord(r, outcome[r])

TypeOK ==
    /\ up \in BOOLEAN
    /\ file \in Sound
    /\ handler \in [Requests -> [pc : {"new", "apply", "behave", "reply", "hang", "done"},
                                 result : Verdicts \cup {"none", "conflict", "error"}]]
    /\ outcome \in [Requests -> Verdicts \cup {"none", "conflict", "error", "unknown"}]
    /\ request \in [Requests -> [id : Ids \cup {NoBody}, body : Bodies \cup {NoBody}]]
    /\ sessions \in Nat
    /\ overfilled \in BOOLEAN

IInv ==
    /\ TypeOK
    /\ state = file
    /\ EntryInv
    /\ AnswerInv
    /\ ~overfilled => file.rejectBin <= RejectCapacity
    /\ AccountInv

-----------------------------------------------------------------------------
(* The loop of Tick. *)

\* A set of naturals that is not empty has a least element: the form in which induction is used here.
LEMMA Least ==
    ASSUME NEW T \in SUBSET Nat, T # {}
    PROVE  \E x \in T : \A y \in T : x <= y
<1> DEFINE R == OpToRel(<, Nat)
<1>1. IsWellFoundedOn(R, Nat)
  BY NatLessThanWellFounded
<1> HIDE DEF R
<1>2. \E x \in T : \A y \in T : ~(<<y, x>> \in R)
  BY <1>1, WFMin
<1>3. \A x, y \in Nat : y < x => <<y, x>> \in R
  BY DEF R, OpToRel
<1>4. PICK x \in T : \A y \in T : ~(<<y, x>> \in R)
  BY <1>2
<1>5. ASSUME NEW y \in T PROVE x <= y
  <2>1. ~(y < x)
    BY <1>3, <1>4
  <2>2. x \in Nat /\ y \in Nat
    OBVIOUS
  <2> QED
    BY <2>1, <2>2
<1> QED
  BY <1>5

Unrolls(g, s, n) == g = [k \in 0..n |-> IF k = 0 THEN s ELSE produceDue(g[k - 1])]

\* The recursive function of the loop exists, for any number of turns.
LEMMA CatchUpExists ==
    ASSUME NEW s
    PROVE  \A n \in Nat : \E g : Unrolls(g, s, n)
<1> DEFINE T == {n \in Nat : ~\E g : Unrolls(g, s, n)}
<1> SUFFICES ASSUME T # {} PROVE FALSE
  OBVIOUS
<1>1. PICK n \in T : \A k \in T : n <= k
  BY Least
<1>2. n # 0
  <2>1. Unrolls([k \in 0..0 |-> s], s, 0)
    BY DEF Unrolls
  <2> QED
    BY <2>1
<1>3. n - 1 \in Nat /\ n - 1 \notin T
  BY <1>1, <1>2
<1>4. PICK g : Unrolls(g, s, n - 1)
  BY <1>3
<1> DEFINE h == [k \in 0..n |-> IF k = n THEN produceDue(g[n - 1]) ELSE g[k]]
<1>5. \A k \in 0..(n - 1) : g[k] = IF k = 0 THEN s ELSE produceDue(g[k - 1])
  BY <1>3, <1>4 DEF Unrolls
<1>6. ASSUME NEW k \in 0..n PROVE h[k] = IF k = 0 THEN s ELSE produceDue(h[k - 1])
  <2>1. CASE k = 0
    BY <1>1, <1>2, <1>3, <1>5, <2>1
  <2>2. CASE k # 0
    <3>1. k - 1 \in 0..(n - 1) /\ k - 1 # n /\ k - 1 \in 0..n
      BY <1>1, <2>2
    <3>2. h[k - 1] = g[k - 1]
      BY <3>1
    <3> QED
      BY <1>1, <1>5, <2>2, <3>1, <3>2
  <2> QED
    BY <2>1, <2>2
<1>7. h = [k \in 0..n |-> h[k]]
  OBVIOUS
<1> HIDE DEF h
<1>8. h = [k \in 0..n |-> IF k = 0 THEN s ELSE produceDue(h[k - 1])]
  BY <1>6, <1>7
<1> QED
  BY <1>1, <1>8 DEF Unrolls

\* catchUp is its last value.
LEMMA CatchUpUnrolls ==
    ASSUME NEW s
    PROVE  \E g : Unrolls(g, s, Blanks) /\ catchUp(s) = g[Blanks]
<1> DEFINE g == CHOOSE f : f = [n \in 0..Blanks |-> IF n = 0 THEN s ELSE produceDue(f[n - 1])]
<1>1. catchUp(s) = g[Blanks]
  BY DEF catchUp
<1>2. Blanks \in Nat
  BY SimulatorAssumption
<1>3. \E f : f = [n \in 0..Blanks |-> IF n = 0 THEN s ELSE produceDue(f[n - 1])]
  BY <1>2, CatchUpExists DEF Unrolls
<1>4. g = [n \in 0..Blanks |-> IF n = 0 THEN s ELSE produceDue(g[n - 1])]
  BY <1>3, Zenon
<1> QED
  BY <1>1, <1>4 DEF Unrolls

\* What every turn of the loop keeps, the loop keeps.
LEMMA CatchUpKeeps ==
    ASSUME NEW s, NEW S, s \in S, \A t \in S : produceDue(t) \in S
    PROVE  catchUp(s) \in S
<1>1. PICK g : Unrolls(g, s, Blanks) /\ catchUp(s) = g[Blanks]
  BY CatchUpUnrolls
<1>2. Blanks \in Nat
  BY SimulatorAssumption
<1> DEFINE T == {n \in 0..Blanks : g[n] \notin S}
<1>3. T # {} => FALSE
  <2> SUFFICES ASSUME T # {} PROVE FALSE
    OBVIOUS
  <2>1. PICK n \in T : \A k \in T : n <= k
    <3>1. T \in SUBSET Nat
      BY <1>2
    <3> HIDE DEF T
    <3> QED
      BY <3>1, Least
  <2>2. g[0] = s
    BY <1>1, <1>2 DEF Unrolls
  <2>3. n # 0
    BY <2>2
  <2>4. n - 1 \in 0..Blanks /\ n - 1 \notin T
    BY <1>2, <2>1, <2>3
  <2>5. g[n] = produceDue(g[n - 1])
    BY <1>1, <1>2, <2>3 DEF Unrolls
  <2> QED
    BY <2>4, <2>5
<1> QED
  BY <1>1, <1>2, <1>3
-----------------------------------------------------------------------------
(* What the operations on a state keep. *)

\* A sound state reached without a command: nothing newly decided, the line not newly
\* running, the reject bin within its capacity if it was, nothing gone.
Kept(s) ==
    {t \in Sound : /\ t.processed = s.processed /\ t.revision = s.revision
                   /\ t.running => s.running
                   /\ s.rejectBin <= RejectCapacity => t.rejectBin <= RejectCapacity
                   /\ Accounted(s) => Accounted(t)}

\* The schedule, the sample and the session are bookkeeping.
LEMMA Bookkeeping ==
    ASSUME NEW s \in Sound, NEW n \in Nat, NEW at \in Int
    PROVE  /\ s \in Kept(s)
           /\ [s EXCEPT !.sample = n] \in Kept(s)
           /\ [s EXCEPT !.nextProductionAt = at] \in Kept(s)
           /\ [s EXCEPT !.session = n, !.nextProductionAt = at] \in Kept(s)
           /\ [s EXCEPT !.session = n, !.sample = 0, !.nextProductionAt = at] \in Kept(s)
  BY DEF Sound, Kept, States, Goods, validateCounters, Accounted

\* Kept is reflexive and transitive.
LEMMA KeptReflexive ==
    ASSUME NEW s \in Sound
    PROVE  s \in Kept(s)
  BY DEF Kept

\* Operations that keep can follow one another.
LEMMA KeptTransitive ==
    ASSUME NEW s, NEW t \in Kept(s), NEW u \in Kept(t)
    PROVE  u \in Kept(s)
  BY DEF Kept

\* applyFaultState may stop the line and never starts it.
LEMMA FaultStateKeeps ==
    ASSUME NEW s \in Sound
    PROVE  applyFaultState(s) \in Kept(s)
<1> DEFINE connected == "plc_disconnected" \notin s.faults
           ready == connected /\ s.faults \cap {"emergency_stop", "guard_door_open"} = {}
<1>1. ASSUME NEW a \in BOOLEAN, NEW b \in BOOLEAN, NEW c \in BOOLEAN, NEW d \in BOOLEAN, NEW e \in BOOLEAN, e => s.running
      PROVE  [s EXCEPT !.connected = a, !.emergencyStop = b, !.guardDoorClosed = c, !.safetyReady = d,
                       !.running = e] \in Kept(s)
  <2> DEFINE t == [s EXCEPT !.connected = a, !.emergencyStop = b, !.guardDoorClosed = c, !.safetyReady = d,
                            !.running = e]
  <2>1. s \in States /\ Goods(s)
    BY DEF Sound
  <2>2. t \in States
    BY <2>1 DEF States
  <2>3. /\ t.output = s.output /\ t.blank = s.blank /\ t.inspected = s.inspected /\ t.passed = s.passed /\ t.ng = s.ng
        /\ t.pending = s.pending /\ t.finished = s.finished /\ t.rejectBin = s.rejectBin
        /\ t.processed = s.processed /\ t.revision = s.revision
    BY <2>1 DEF States
  <2>4. t.running = e
    BY <2>1 DEF States
  <2> HIDE DEF t
  <2>5. Goods(t) /\ (Accounted(s) => Accounted(t))
    BY <2>1, <2>3 DEF Goods, validateCounters, Accounted
  <2>6. t \in Kept(s)
    BY <1>1, <2>2, <2>3, <2>4, <2>5 DEF Kept, Sound
  <2> QED
    BY <2>6 DEF t
<1> DEFINE stop == "emergency_stop" \in s.faults
           closed == "guard_door_open" \notin s.faults
           runs == s.running /\ ready
<1>2. /\ connected \in BOOLEAN /\ ready \in BOOLEAN /\ stop \in BOOLEAN /\ closed \in BOOLEAN /\ runs \in BOOLEAN
      /\ runs => s.running
  OBVIOUS
<1>3. applyFaultState(s) = [s EXCEPT !.connected = connected, !.emergencyStop = stop, !.guardDoorClosed = closed,
                                     !.safetyReady = ready, !.running = runs]
  BY DEF applyFaultState
<1> HIDE DEF connected, ready, stop, closed, runs
<1>4. [s EXCEPT !.connected = connected, !.emergencyStop = stop, !.guardDoorClosed = closed,
                !.safetyReady = ready, !.running = runs] \in Kept(s)
  BY <1>1, <1>2, Zenon
<1> QED
  BY <1>3, <1>4

\* refreshDerived touches the alarms only.
LEMMA DerivedKeeps ==
    ASSUME NEW s \in Sound
    PROVE  refreshDerived(s) \in Kept(s)
<1>1. alarmConditions(s) \in SUBSET AlarmNames
  BY DEF alarmConditions, AlarmNames
<1> QED
  BY <1>1 DEF Sound, Kept, States, Goods, validateCounters, Accounted, refreshDerived

\* Time only brings the next production closer.
LEMMA OlderKeeps ==
    ASSUME NEW s \in Sound
    PROVE  older(s) \in Kept(s)
  BY DEF Sound, Kept, States, Goods, validateCounters, Accounted, older

\* Faults that come and go leave everything else alone.
LEMMA FaultsKeep ==
    ASSUME NEW s \in Sound, NEW F \in SUBSET FaultNames
    PROVE  [s EXCEPT !.faults = F] \in Kept(s)
  BY DEF Sound, Kept, States, Goods, validateCounters, Accounted

\* The fields inspectOne changes.
LEMMA InspectFields ==
    ASSUME NEW s \in States, s.inspected < s.output, NEW fromFinishedBin \in BOOLEAN
    PROVE  LET t == inspectOne(s, fromFinishedBin)
           IN  /\ t \in States
               /\ t.inspected = s.inspected + 1 /\ t.pending = s.output - t.inspected
               /\ t.output = s.output /\ t.blank = s.blank
               /\ t.processed = s.processed /\ t.revision = s.revision /\ t.running = s.running
               /\ \/ /\ (s.inspected + 1) \in PassAt
                     /\ t.passed = s.passed + 1 /\ t.ng = s.ng /\ t.rejectBin = s.rejectBin
                     /\ t.finished = IF fromFinishedBin THEN s.finished ELSE s.finished + 1
                  \/ /\ (s.inspected + 1) \notin PassAt
                     /\ t.passed = s.passed /\ t.ng = s.ng + 1 /\ t.rejectBin = s.rejectBin + 1
                     /\ t.finished = IF fromFinishedBin /\ s.finished > 0 THEN s.finished - 1 ELSE s.finished
<1> DEFINE n == s.inspected + 1
           t == inspectOne(s, fromFinishedBin)
<1>1. n \in Nat /\ s.output - n \in Nat
  BY DEF States
<1>2. CASE n \in PassAt
  <2>1. t = [s EXCEPT !.inspected = n, !.passed = @ + 1, !.ng = @, !.rejectBin = @,
                      !.finished = IF ~fromFinishedBin THEN @ + 1 ELSE @, !.pending = s.output - n]
    BY <1>2 DEF inspectOne
  <2> HIDE DEF t, n
  <2>a. /\ s.passed + 1 \in Nat /\ s.ng \in Nat /\ s.rejectBin \in Nat
        /\ (IF ~fromFinishedBin THEN s.finished + 1 ELSE s.finished) \in Nat
    BY DEF States
  <2>b. t \in States
    BY <1>1, <2>1, <2>a DEF States
  <2>2. t \in States /\ t.inspected = n /\ t.pending = s.output - n /\ t.output = s.output /\ t.blank = s.blank
    BY <1>1, <2>1, <2>b DEF States
  <2>3. /\ t.processed = s.processed /\ t.revision = s.revision /\ t.running = s.running
        /\ t.passed = s.passed + 1 /\ t.ng = s.ng /\ t.rejectBin = s.rejectBin
        /\ t.finished = IF fromFinishedBin THEN s.finished ELSE s.finished + 1
    BY <2>1 DEF States
  <2> QED
    BY <1>2, <2>2, <2>3 DEF t, n
<1>3. CASE n \notin PassAt
  <2>1. t = [s EXCEPT !.inspected = n, !.passed = @, !.ng = @ + 1, !.rejectBin = @ + 1,
                      !.finished = IF fromFinishedBin /\ @ > 0 THEN @ - 1 ELSE @, !.pending = s.output - n]
    BY <1>3 DEF inspectOne
  <2> HIDE DEF t, n
  <2>a. /\ s.passed \in Nat /\ s.ng + 1 \in Nat /\ s.rejectBin + 1 \in Nat
        /\ (IF fromFinishedBin /\ s.finished > 0 THEN s.finished - 1 ELSE s.finished) \in Nat
    BY DEF States
  <2>b. t \in States
    BY <1>1, <2>1, <2>a DEF States
  <2>2. t \in States /\ t.inspected = n /\ t.pending = s.output - n /\ t.output = s.output /\ t.blank = s.blank
    BY <1>1, <2>1, <2>b DEF States
  <2>3. /\ t.processed = s.processed /\ t.revision = s.revision /\ t.running = s.running
        /\ t.passed = s.passed /\ t.ng = s.ng + 1 /\ t.rejectBin = s.rejectBin + 1
        /\ t.finished = IF fromFinishedBin /\ s.finished > 0 THEN s.finished - 1 ELSE s.finished
    BY <2>1 DEF States
  <2> QED
    BY <1>3, <2>2, <2>3 DEF t, n
<1> QED
  BY <1>2, <1>3

\* An item that is produced uses a blank and goes to one bin.
LEMMA ProduceKeeps ==
    ASSUME NEW s \in Sound, hasProductionCapacity(s)
    PROVE  produceOne(s) \in Kept(s) /\ produceOne(s).blank = s.blank - 1
<1> DEFINE made == [s EXCEPT !.output = @ + 1, !.toolUsed = @ + 1, !.blank = @ - 1]
           sorted == IF made.output % made.inspectInterval = 0 THEN inspectOne(made, FALSE)
                     ELSE [made EXCEPT !.finished = @ + 1]
           t == [sorted EXCEPT !.pending = sorted.output - sorted.inspected]
<1>0. s \in States /\ Goods(s) /\ {FinishedCapacity, RejectCapacity, Blanks} \subseteq Nat
  BY SimulatorAssumption DEF Sound
<1>1. /\ made \in States
      /\ made.output = s.output + 1 /\ made.blank = s.blank - 1
      /\ made.inspected = s.inspected /\ made.passed = s.passed /\ made.ng = s.ng
      /\ made.finished = s.finished /\ made.rejectBin = s.rejectBin
      /\ made.processed = s.processed /\ made.revision = s.revision /\ made.running = s.running
  <2>1. s.output + 1 \in Nat /\ s.toolUsed + 1 \in Nat /\ s.blank - 1 \in Nat
    BY <1>0 DEF States, hasProductionCapacity
  <2>2. made \in States
    BY <1>0, <2>1 DEF States
  <2>3. made.output = s.output + 1 /\ made.blank = s.blank - 1
    BY <1>0 DEF States
  <2>4. /\ made.inspected = s.inspected /\ made.passed = s.passed /\ made.ng = s.ng
        /\ made.finished = s.finished /\ made.rejectBin = s.rejectBin
        /\ made.processed = s.processed /\ made.revision = s.revision /\ made.running = s.running
    BY <1>0 DEF States
  <2> HIDE DEF made
  <2> QED
    BY <2>2, <2>3, <2>4
<1>2. /\ s.output \in Nat /\ s.inspected \in Nat /\ s.passed \in Nat /\ s.ng \in Nat /\ s.finished \in Nat
      /\ s.rejectBin \in Nat /\ s.blank \in Nat /\ s.inspected <= s.output
      /\ s.blank > 0 /\ s.finished < FinishedCapacity /\ s.rejectBin < RejectCapacity
  BY <1>0 DEF States, Goods, validateCounters, hasProductionCapacity
<1> HIDE DEF made
<1>3. /\ sorted \in States
      /\ sorted.output = s.output + 1 /\ sorted.blank = s.blank - 1
      /\ sorted.processed = s.processed /\ sorted.revision = s.revision /\ sorted.running = s.running
      /\ sorted.inspected \in {s.inspected, s.inspected + 1}
      /\ sorted.passed + sorted.ng = sorted.inspected
      /\ sorted.rejectBin <= sorted.ng
      /\ sorted.finished <= s.finished + 1 /\ sorted.rejectBin <= s.rejectBin + 1
      /\ sorted.finished + sorted.rejectBin = s.finished + s.rejectBin + 1
  <2>1. CASE sorted = inspectOne(made, FALSE)
    <3>1. made.inspected < made.output
      BY <1>1, <1>2
    <3> HIDE DEF sorted
    <3>2. sorted \in States
      BY <1>1, <2>1, <3>1, InspectFields
    <3>3. /\ sorted.inspected = made.inspected + 1
          /\ sorted.output = made.output /\ sorted.blank = made.blank
          /\ sorted.processed = made.processed /\ sorted.revision = made.revision /\ sorted.running = made.running
          /\ \/ /\ sorted.passed = made.passed + 1 /\ sorted.ng = made.ng /\ sorted.rejectBin = made.rejectBin
                /\ sorted.finished = made.finished + 1
             \/ /\ sorted.passed = made.passed /\ sorted.ng = made.ng + 1 /\ sorted.rejectBin = made.rejectBin + 1
                /\ sorted.finished = made.finished
      BY <1>1, <2>1, <3>1, InspectFields
    <3>4. s.passed + s.ng = s.inspected /\ s.rejectBin <= s.ng
      BY <1>0 DEF Goods, validateCounters
    <3> QED
      BY <1>1, <1>2, <3>2, <3>3, <3>4
  <2>2. CASE sorted = [made EXCEPT !.finished = @ + 1]
    <3> HIDE DEF sorted
    <3>1. /\ sorted \in States
          /\ sorted.output = made.output /\ sorted.blank = made.blank
          /\ sorted.inspected = made.inspected /\ sorted.passed = made.passed /\ sorted.ng = made.ng
          /\ sorted.rejectBin = made.rejectBin /\ sorted.finished = made.finished + 1
          /\ sorted.processed = made.processed /\ sorted.revision = made.revision /\ sorted.running = made.running
      BY <1>1, <2>2 DEF States
    <3>2. s.passed + s.ng = s.inspected /\ s.rejectBin <= s.ng
      BY <1>0 DEF Goods, validateCounters
    <3> QED
      BY <1>1, <1>2, <3>1, <3>2
  <2> QED
    BY <2>1, <2>2
<1> HIDE DEF sorted
<1>4. /\ t \in States
      /\ t.output = sorted.output /\ t.blank = sorted.blank /\ t.inspected = sorted.inspected
      /\ t.passed = sorted.passed /\ t.ng = sorted.ng /\ t.finished = sorted.finished /\ t.rejectBin = sorted.rejectBin
      /\ t.processed = sorted.processed /\ t.revision = sorted.revision /\ t.running = sorted.running
      /\ t.pending = sorted.output - sorted.inspected
  <2>1. sorted.output - sorted.inspected \in Nat
    BY <1>2, <1>3
  <2> QED
    BY <1>3, <2>1 DEF States
<1>5. produceOne(s) = t
  BY DEF produceOne, t, sorted, made
<1> HIDE DEF t
<1>6. /\ t.passed \in Nat /\ t.ng \in Nat /\ t.finished \in Nat /\ t.rejectBin \in Nat
  BY <1>4 DEF States
<1>7. Goods(t)
  <2>1. s.finished + s.rejectBin <= s.output /\ s.blank + s.output <= Blanks
    BY <1>0 DEF Goods
  <2> QED
    BY <1>0, <1>2, <1>3, <1>4, <1>6, <2>1 DEF Goods, validateCounters
<1>8. Accounted(s) => Accounted(t)
  BY <1>0, <1>2, <1>3, <1>4, <1>6 DEF Accounted
<1> QED
  BY <1>0, <1>2, <1>3, <1>4, <1>5, <1>6, <1>7, <1>8 DEF Kept, Sound

\* So does every turn of the loop, and the loop, whatever the number of its turns.
LEMMA CatchUpKept ==
    ASSUME NEW s \in Sound
    PROVE  catchUp(s) \in Kept(s)
<1>1. ASSUME NEW t \in Kept(s) PROVE produceDue(t) \in Kept(s)
  <2>1. t \in Sound
    BY DEF Kept
  <2>2. CASE produceDue(t) = t
    BY <2>2
  <2>3. CASE hasProductionCapacity(t) /\ produceDue(t) = [produceOne(t) EXCEPT !.nextProductionAt = @ + Cycle]
    <3>1. produceOne(t) \in Kept(t)
      BY <2>1, <2>3, ProduceKeeps
    <3>2. produceOne(t) \in Sound /\ produceOne(t).nextProductionAt + Cycle \in Int
      BY <3>1, SimulatorAssumption DEF Kept, Sound, States
    <3>3. produceDue(t) \in Kept(produceOne(t))
      BY <2>3, <3>2, Bookkeeping
    <3>4. produceDue(t) \in Kept(t)
      BY <3>1, <3>3, KeptTransitive
    <3> QED
      BY <3>4, KeptTransitive
  <2> QED
    BY <2>2, <2>3 DEF produceDue
<1>2. s \in Kept(s)
  BY KeptReflexive
<1> QED
  BY <1>1, <1>2, CatchUpKeeps

\* The loop really is over after as many turns as there can be blanks: it would not turn once more.
THEOREM SimTickLoopEnds ==
    ASSUME NEW s \in Sound
    PROVE  produceDue(catchUp(s)) = catchUp(s)
<1>1. PICK g : Unrolls(g, s, Blanks) /\ catchUp(s) = g[Blanks]
  BY CatchUpUnrolls
<1>2. Blanks \in Nat
  BY SimulatorAssumption
<1> DEFINE Done(n) == g[n] \in Sound /\ (produceDue(g[n]) = g[n] \/ g[n].blank + n <= Blanks)
           T == {n \in 0..Blanks : ~Done(n)}
<1>3. Done(0)
  <2>1. g[0] = s
    BY <1>1, <1>2 DEF Unrolls
  <2>2. s.blank \in Nat /\ s.output \in Nat /\ s.blank + s.output <= Blanks
    BY DEF Sound, States, Goods
  <2> QED
    BY <1>2, <2>1, <2>2
<1>4. ASSUME NEW n \in 0..Blanks, n # 0, Done(n - 1) PROVE Done(n)
  <2> DEFINE t == g[n - 1]
  <2>1. g[n] = produceDue(t) /\ t \in Sound /\ n \in Nat
    BY <1>1, <1>2, <1>4 DEF Unrolls
  <2>2. CASE produceDue(t) = t
    BY <2>1, <2>2
  <2>3. CASE produceDue(t) # t
    <3>1. hasProductionCapacity(t) /\ produceDue(t) = [produceOne(t) EXCEPT !.nextProductionAt = @ + Cycle]
      BY <2>3 DEF produceDue
    <3>2. t.blank + (n - 1) <= Blanks
      BY <1>4, <2>3
    <3> HIDE DEF t
    <3> DEFINE u == produceOne(t)
    <3>3. u \in Kept(t) /\ u.blank = t.blank - 1
      BY <2>1, <3>1, ProduceKeeps
    <3> HIDE DEF u
    <3>4. u \in Sound /\ u.nextProductionAt + Cycle \in Int /\ t.blank \in Nat
      BY <2>1, <3>3, SimulatorAssumption DEF Kept, Sound, States
    <3>5. [u EXCEPT !.nextProductionAt = @ + Cycle] \in Kept(u)
      BY <3>4, Bookkeeping
    <3>6. [u EXCEPT !.nextProductionAt = @ + Cycle].blank = u.blank
      BY <3>4 DEF Sound, States
    <3>7. g[n] \in Sound /\ g[n].blank = t.blank - 1
      BY <2>1, <3>1, <3>3, <3>5, <3>6 DEF Kept, u
    <3> QED
      BY <1>2, <2>1, <3>2, <3>4, <3>7
  <2> QED
    BY <2>2, <2>3
<1>5. T = {}
  <2> SUFFICES ASSUME T # {} PROVE FALSE
    OBVIOUS
  <2>1. T \in SUBSET Nat
    BY <1>2
  <2>2. PICK n \in T : \A k \in T : n <= k
    <3> HIDE DEF T
    <3> QED
      BY <2>1, Least
  <2>3. n \in 0..Blanks /\ ~Done(n)
    OBVIOUS
  <2>4. n # 0
    BY <1>3, <2>3
  <2>5. n - 1 \in 0..Blanks /\ n - 1 \notin T
    BY <1>2, <2>2, <2>3, <2>4
  <2>6. Done(n - 1)
    BY <2>5
  <2> HIDE DEF Done
  <2> QED
    BY <1>4, <2>3, <2>4, <2>6
<1>6. Done(Blanks)
  BY <1>2, <1>5
<1>7. CASE g[Blanks].blank + Blanks <= Blanks
  <2>1. g[Blanks].blank \in Nat
    BY <1>6 DEF Sound, States
  <2>2. ~hasProductionCapacity(g[Blanks])
    BY <1>2, <1>7, <2>1 DEF hasProductionCapacity
  <2> QED
    BY <1>1, <2>2 DEF produceDue
<1> QED
  BY <1>1, <1>6, <1>7

\* A sample: the faults are applied, then the line catches up or is not scheduled.
LEMMA SampledKept ==
    ASSUME NEW s \in Sound
    PROVE  sampled(s) \in Kept(s)
<1> DEFINE counted == [s EXCEPT !.sample = @ + 1]
           candidate == applyFaultState(counted)
           due == IF candidate.nextProductionAt = NotScheduled
                  THEN [candidate EXCEPT !.nextProductionAt = Cycle] ELSE candidate
           idle == [candidate EXCEPT !.nextProductionAt = NotScheduled]
<1>1. s.sample + 1 \in Nat /\ Cycle \in Int /\ NotScheduled \in Int
  BY SimulatorAssumption DEF Sound, States, NotScheduled
<1>2. counted \in Kept(s)
  BY <1>1, Bookkeeping
<1> HIDE DEF counted
<1>3. candidate \in Kept(counted)
  BY <1>2, FaultStateKeeps DEF Kept
<1> HIDE DEF candidate
<1>4. candidate \in Sound /\ candidate \in Kept(s)
  BY <1>2, <1>3, KeptTransitive DEF Kept
<1>5. due \in Kept(candidate) /\ idle \in Kept(candidate)
  BY <1>1, <1>4, Bookkeeping
<1>6. sampled(s) = IF canProduce(candidate) /\ hasProductionCapacity(candidate) THEN catchUp(due) ELSE idle
  BY DEF sampled, candidate, counted
<1> HIDE DEF due, idle
<1>7. due \in Sound /\ due \in Kept(s) /\ idle \in Kept(s)
  BY <1>4, <1>5, KeptTransitive DEF Kept
<1>8. catchUp(due) \in Kept(s)
  BY <1>7, CatchUpKept, KeptTransitive
<1> QED
  BY <1>6, <1>7, <1>8

-----------------------------------------------------------------------------
(* What a command does to a state. *)

\* An inspection that puts one more item into a reject bin that is full.
Overfills(s, b) == b.name = "inspect" /\ s.rejectBin >= RejectCapacity /\ (s.inspected + 1) \notin PassAt

\* The sound states a command with content b may lead to: only start sets the line running,
\* only an inspection overfills the reject bin, only clear_bins takes goods away.
Effects(s, b) ==
    {t \in Sound : /\ t.processed = s.processed
                   /\ t.running => s.running \/ b.name = "start"
                   /\ s.rejectBin <= RejectCapacity /\ ~Overfills(s, b) => t.rejectBin <= RejectCapacity
                   /\ Accounted(s) /\ b.name # "clear_bins" => Accounted(t)}

\* What follows a command without another one keeps its effect.
LEMMA EffectsKept ==
    ASSUME NEW s, NEW b, NEW t \in Effects(s, b), NEW u \in Kept(t)
    PROVE  u \in Effects(s, b)
  BY DEF Kept, Effects

\* An accepted command, before its revision is counted.
LEMMA AppliedEffects ==
    ASSUME NEW s \in Sound, NEW b \in Bodies, accepts(s, b)
    PROVE  applyCommand(s, b) \in Effects(s, b) /\ applyCommand(s, b).revision = s.revision
<1> DEFINE t == applyCommand(s, b)
<1>0. s \in States /\ Goods(s)
  BY DEF Sound
<1>a. {Blanks, FinishedCapacity, RejectCapacity} \subseteq Nat
  BY SimulatorAssumption
<1>1. CASE b.name = "start"
  <2>1. t = [s EXCEPT !.running = TRUE]
    BY <1>1 DEF applyCommand
  <2> QED
    BY <1>0, <1>1, <2>1 DEF Effects, Sound, States, Goods, validateCounters, Accounted
<1>2. CASE b.name = "pause"
  <2>1. t = [s EXCEPT !.running = FALSE]
    BY <1>2 DEF applyCommand
  <2> QED
    BY <1>0, <2>1 DEF Effects, Sound, States, Goods, validateCounters, Accounted
<1>3. CASE b.name = "reset"
  <2>1. t = [s EXCEPT !.running = FALSE, !.singlePaused = FALSE, !.framePaused = FALSE, !.output = 0,
                      !.inspected = 0, !.passed = 0, !.ng = 0, !.pending = 0, !.toolUsed = 0,
                      !.blank = Blanks, !.finished = 0, !.rejectBin = 0]
    BY <1>3 DEF applyCommand
  <2> HIDE DEF t
  <2>2. t \in States
    BY <1>0, <1>a, <2>1 DEF States
  <2>3. /\ t.output = 0 /\ t.inspected = 0 /\ t.passed = 0 /\ t.ng = 0 /\ t.pending = 0
        /\ t.blank = Blanks /\ t.finished = 0 /\ t.rejectBin = 0
        /\ t.processed = s.processed /\ t.revision = s.revision /\ t.running = FALSE
    BY <1>0, <2>1 DEF States
  <2>4. Goods(t) /\ Accounted(t)
    BY <1>a, <2>3 DEF Goods, validateCounters, Accounted
  <2>5. t \in Effects(s, b) /\ t.revision = s.revision
    BY <1>a, <2>2, <2>3, <2>4 DEF Effects, Sound
  <2> QED
    BY <2>5 DEF t
<1>4. CASE b.name = "set_mode"
  <2>1. t = [s EXCEPT !.mode = b.mode] /\ b.mode \in {"auto", "manual"}
    BY <1>4 DEF applyCommand, accepts
  <2> QED
    BY <1>0, <2>1 DEF Effects, Sound, States, Goods, validateCounters, Accounted
<1>5. CASE b.name = "set_single_paused"
  <2>1. t = [s EXCEPT !.singlePaused = (b.paused = "true")]
    BY <1>5 DEF applyCommand
  <2> QED
    BY <1>0, <2>1 DEF Effects, Sound, States, Goods, validateCounters, Accounted
<1>6. CASE b.name = "set_frame_paused"
  <2>1. t = [s EXCEPT !.framePaused = (b.paused = "true")]
    BY <1>6 DEF applyCommand
  <2> QED
    BY <1>0, <2>1 DEF Effects, Sound, States, Goods, validateCounters, Accounted
<1>7. CASE b.name = "inspect"
  <2>1. t = inspectOne(s, TRUE) /\ s.inspected < s.output
    BY <1>7 DEF applyCommand, accepts
  <2> HIDE DEF t
  <2>2. t \in States
    BY <1>0, <2>1, InspectFields
  <2>3. /\ t.inspected = s.inspected + 1 /\ t.pending = s.output - t.inspected
        /\ t.output = s.output /\ t.blank = s.blank
        /\ t.processed = s.processed /\ t.revision = s.revision /\ t.running = s.running
        /\ \/ /\ (s.inspected + 1) \in PassAt
              /\ t.passed = s.passed + 1 /\ t.ng = s.ng /\ t.rejectBin = s.rejectBin
              /\ t.finished = s.finished
           \/ /\ (s.inspected + 1) \notin PassAt
              /\ t.passed = s.passed /\ t.ng = s.ng + 1 /\ t.rejectBin = s.rejectBin + 1
              /\ t.finished = IF s.finished > 0 THEN s.finished - 1 ELSE s.finished
    BY <1>0, <2>1, InspectFields
  <2>4. /\ s.output \in Nat /\ s.inspected \in Nat /\ s.passed \in Nat /\ s.ng \in Nat
        /\ s.finished \in Nat /\ s.rejectBin \in Nat /\ s.blank \in Nat
    BY <1>0 DEF States
  <2>5. Goods(t)
    <3>1. /\ s.passed + s.ng = s.inspected /\ s.finished + s.rejectBin <= s.output /\ s.blank + s.output <= Blanks
          /\ s.rejectBin <= s.ng /\ s.finished <= FinishedCapacity
      BY <1>0 DEF Goods, validateCounters
    <3>2. s.rejectBin <= s.inspected
      BY <2>4, <3>1
    <3>3. t.passed + t.ng = t.inspected /\ t.rejectBin <= t.ng
      BY <2>3, <2>4, <3>1
    <3>a. s.inspected < s.output
      BY <2>1
    <3>b. t.inspected <= t.output
      BY <2>3, <2>4, <3>a
    <3>4. t.finished + t.rejectBin <= t.output
      <4>1. CASE t.finished + t.rejectBin = s.finished + s.rejectBin
        BY <2>3, <3>1, <4>1
      <4>2. CASE t.finished = 0 /\ t.rejectBin = s.rejectBin + 1
        BY <2>3, <2>4, <3>2, <3>a, <4>2
      <4> QED
        BY <2>3, <2>4, <4>1, <4>2
    <3>5. t.finished <= FinishedCapacity
      BY <1>a, <2>3, <2>4, <3>1
    <3>6. t.pending = t.output - t.inspected /\ t.blank + t.output <= Blanks
      BY <2>3, <3>1
    <3> QED
      BY <3>b, <3>3, <3>4, <3>5, <3>6 DEF Goods, validateCounters
  <2>6. s.rejectBin <= RejectCapacity /\ ~Overfills(s, b) => t.rejectBin <= RejectCapacity
    BY <1>7, <1>a, <2>3, <2>4 DEF Overfills
  <2>7. Accounted(s) => Accounted(t)
    <3>1. s.rejectBin <= s.inspected /\ s.inspected < s.output
      BY <1>0, <2>1, <2>4 DEF Goods, validateCounters
    <3>2. Accounted(s) => s.finished > 0
      BY <2>4, <3>1 DEF Accounted
    <3> QED
      BY <2>3, <2>4, <3>2 DEF Accounted
  <2>8. t \in Effects(s, b) /\ t.revision = s.revision
    BY <2>2, <2>3, <2>5, <2>6, <2>7 DEF Effects, Sound
  <2> QED
    BY <2>8 DEF t
<1>8. CASE b.name = "clear_bins"
  <2>1. t = [s EXCEPT !.blank = 0, !.finished = 0, !.rejectBin = 0]
    BY <1>8 DEF applyCommand
  <2> HIDE DEF t
  <2>2. t \in States
    BY <1>0, <2>1 DEF States
  <2>3. /\ t.output = s.output /\ t.inspected = s.inspected /\ t.passed = s.passed /\ t.ng = s.ng
        /\ t.pending = s.pending /\ t.blank = 0 /\ t.finished = 0 /\ t.rejectBin = 0
        /\ t.processed = s.processed /\ t.revision = s.revision /\ t.running = s.running
    BY <1>0, <2>1 DEF States
  <2>4. s.output \in Nat /\ s.ng \in Nat /\ s.blank \in Nat
    BY <1>0 DEF States
  <2>5. Goods(t)
    BY <1>0, <1>a, <2>3, <2>4 DEF Goods, validateCounters
  <2>6. t \in Effects(s, b) /\ t.revision = s.revision
    BY <1>8, <1>a, <2>2, <2>3, <2>5 DEF Effects, Sound
  <2> QED
    BY <2>6 DEF t
<1>9. CASE b.name = "update_settings"
  <2>1. /\ t = [s EXCEPT !.target = b.target, !.toolLimit = b.toolLimit, !.inspectInterval = b.inspectInterval]
        /\ b.target >= 1 /\ b.toolLimit >= 1 /\ b.inspectInterval >= 1
    BY <1>9 DEF applyCommand, accepts
  <2>2. b.target \in Nat \ {0} /\ b.toolLimit \in Nat \ {0} /\ b.inspectInterval \in Nat \ {0}
    BY <2>1, SimulatorAssumption
  <2> HIDE DEF t
  <2>3. t \in States
    BY <1>0, <2>1, <2>2 DEF States
  <2>4. /\ t.output = s.output /\ t.inspected = s.inspected /\ t.passed = s.passed /\ t.ng = s.ng
        /\ t.pending = s.pending /\ t.blank = s.blank /\ t.finished = s.finished /\ t.rejectBin = s.rejectBin
        /\ t.processed = s.processed /\ t.revision = s.revision /\ t.running = s.running
    BY <1>0, <2>1 DEF States
  <2>5. Goods(t) /\ (Accounted(s) => Accounted(t))
    BY <1>0, <2>4 DEF Goods, validateCounters, Accounted
  <2>6. t \in Effects(s, b) /\ t.revision = s.revision
    BY <2>3, <2>4, <2>5 DEF Effects, Sound
  <2> QED
    BY <2>6 DEF t
<1>10. CASE b.name = "acknowledge_alarm"
  <2>1. t = [s EXCEPT !.acknowledged = @ \cup {b.alarm}] /\ b.alarm \in s.alarms
    BY <1>10 DEF applyCommand, accepts
  <2>2. s.acknowledged \cup {b.alarm} \in SUBSET AlarmNames
    BY <1>0, <2>1 DEF States
  <2> QED
    BY <1>0, <2>1, <2>2 DEF Effects, Sound, States, Goods, validateCounters, Accounted
<1> QED
  BY <1>1, <1>2, <1>3, <1>4, <1>5, <1>6, <1>7, <1>8, <1>9, <1>10 DEF accepts

\* An executed command: its effect under the faults, and the next revision.
LEMMA ExecutedEffects ==
    ASSUME NEW s \in Sound, NEW b \in Bodies, accepts(s, b)
    PROVE  executed(s, b) \in Effects(s, b) /\ executed(s, b).revision = s.revision + 1
<1> DEFINE t == applyCommand(s, b)
           counted == [t EXCEPT !.revision = @ + 1]
           effect == applyFaultState(counted)
           next == IF ~canProduce(effect) THEN NotScheduled
                   ELSE IF b.name \in {"start", "set_mode", "set_single_paused", "set_frame_paused"}
                           \/ effect.nextProductionAt = NotScheduled THEN Cycle
                   ELSE effect.nextProductionAt
           scheduled == [effect EXCEPT !.nextProductionAt = next]
<1>1. t \in Effects(s, b) /\ t.revision = s.revision /\ s.revision \in Nat \ {0}
  BY AppliedEffects DEF Sound, States
<1>2. executed(s, b) = refreshDerived(scheduled)
  BY DEF executed
<1> HIDE DEF t
<1>3. counted \in Effects(s, b) /\ counted.revision = s.revision + 1
  BY <1>1 DEF Effects, Sound, States, Goods, validateCounters, Accounted
<1> HIDE DEF counted
<1>4. effect \in Kept(counted)
  BY <1>3, FaultStateKeeps DEF Effects
<1> HIDE DEF effect
<1>5. effect \in Sound
  BY <1>4 DEF Kept
<1>6. next \in Int
  BY <1>5, SimulatorAssumption DEF Sound, States, NotScheduled
<1> HIDE DEF next
<1>7. scheduled \in Kept(effect)
  BY <1>5, <1>6, Bookkeeping
<1> HIDE DEF scheduled
<1>8. refreshDerived(scheduled) \in Kept(scheduled)
  BY <1>7, DerivedKeeps DEF Kept
<1>9. refreshDerived(scheduled) \in Kept(counted)
  BY <1>4, <1>7, <1>8, KeptTransitive
<1>10. refreshDerived(scheduled) \in Effects(s, b)
  BY <1>3, <1>9, EffectsKept
<1>11. refreshDerived(scheduled).revision = s.revision + 1
  BY <1>3, <1>9 DEF Kept
<1> QED
  BY <1>2, <1>10, <1>11

\* The record of a command changes nothing else.
LEMMA RecordFields ==
    ASSUME NEW s \in Sound, NEW i \in Ids, NEW b \in Bodies, NEW v \in Verdicts
    PROVE  LET t == record(s, i, b, v)
           IN  /\ t \in Sound
               /\ t.revision = s.revision /\ t.running = s.running /\ t.rejectBin = s.rejectBin
               /\ Accounted(s) => Accounted(t)
               /\ t.processed = [s.processed EXCEPT ![i] = [body |-> b, status |-> v, revision |-> s.revision]]
<1> DEFINE e == [body |-> b, status |-> v, revision |-> s.revision]
           t == record(s, i, b, v)
           p == [s.processed EXCEPT ![i] = e]
<1>0. s \in States /\ Goods(s)
  BY DEF Sound
<1>1. e \in Entries
  BY <1>0 DEF Entries, States
<1>2. t = [s EXCEPT !.processed = p]
  BY DEF record
<1> HIDE DEF e, t
<1>3. p \in [Ids -> Entries]
  BY <1>0, <1>1 DEF States
<1> HIDE DEF p
<1>4. t \in States
  BY <1>0, <1>2, <1>3 DEF States
<1>5. /\ t.output = s.output /\ t.inspected = s.inspected /\ t.passed = s.passed /\ t.ng = s.ng
      /\ t.pending = s.pending /\ t.blank = s.blank /\ t.finished = s.finished /\ t.rejectBin = s.rejectBin
      /\ t.revision = s.revision /\ t.running = s.running /\ t.processed = p
  BY <1>0, <1>2 DEF States
<1>6. Goods(t) /\ (Accounted(s) => Accounted(t))
  BY <1>0, <1>5 DEF Goods, validateCounters, Accounted
<1> QED
  BY <1>4, <1>5, <1>6 DEF Sound, t, p, e

\* A decision: the record of the command, the revision if it was executed, and its effect.
LEMMA DecidedFields ==
    ASSUME NEW s \in Sound, NEW i \in Ids, NEW b \in Bodies
    PROVE  LET t == decided(s, i, b)
           IN  /\ t \in Sound
               /\ \E v \in Verdicts, n \in Nat :
                     /\ t.processed = [s.processed EXCEPT ![i] = [body |-> b, status |-> v, revision |-> n]]
                     /\ t.revision = IF v = "EXECUTED" THEN s.revision + 1 ELSE s.revision
                     /\ t.running => s.running \/ (b.name = "start" /\ v = "EXECUTED")
                     /\ Accounted(s) /\ ~(b.name = "clear_bins" /\ v = "EXECUTED") => Accounted(t)
               /\ s.rejectBin <= RejectCapacity /\ ~fills(s, b) => t.rejectBin <= RejectCapacity
<1> DEFINE t == decided(s, i, b)
<1>1. CASE refusal(s, b) # "none"
  <2> DEFINE v == refusal(s, b)
  <2>1. v \in {"REJECTED", "FAILED"}
    BY <1>1 DEF refusal
  <2>2. t = record(s, i, b, v)
    BY <1>1 DEF decided
  <2> HIDE DEF v, t
  <2>4. v \in Verdicts /\ v # "EXECUTED" /\ s.revision \in Nat
    BY <2>1 DEF Verdicts, Sound, States
  <2>3. /\ t \in Sound
        /\ t.revision = s.revision /\ t.running = s.running /\ t.rejectBin = s.rejectBin
        /\ Accounted(s) => Accounted(t)
        /\ t.processed = [s.processed EXCEPT ![i] = [body |-> b, status |-> v, revision |-> s.revision]]
    BY <2>2, <2>4, RecordFields
  <2> QED
    BY <2>3, <2>4 DEF t
<1>2. CASE refusal(s, b) = "none"
  <2> DEFINE u == executed(s, b)
  <2>1. accepts(s, b)
    BY <1>2 DEF refusal
  <2>2. t = record(u, i, b, "EXECUTED")
    BY <1>2 DEF decided
  <2>3. u \in Effects(s, b) /\ u.revision = s.revision + 1
    BY <2>1, ExecutedEffects
  <2> HIDE DEF u, t
  <2>4. /\ u \in Sound /\ u.processed = s.processed
        /\ u.running => s.running \/ b.name = "start"
        /\ s.rejectBin <= RejectCapacity /\ ~Overfills(s, b) => u.rejectBin <= RejectCapacity
        /\ Accounted(s) /\ b.name # "clear_bins" => Accounted(u)
    BY <2>3 DEF Effects
  <2>6. "EXECUTED" \in Verdicts /\ u.revision \in Nat
    BY <2>4 DEF Verdicts, Sound, States
  <2>5. /\ t \in Sound
        /\ t.revision = u.revision /\ t.running = u.running /\ t.rejectBin = u.rejectBin
        /\ Accounted(u) => Accounted(t)
        /\ t.processed = [u.processed EXCEPT ![i] = [body |-> b, status |-> "EXECUTED", revision |-> u.revision]]
    BY <2>2, <2>4, <2>6, RecordFields
  <2>7. fills(s, b) <=> Overfills(s, b)
    BY <1>2 DEF fills, Overfills
  <2> QED
    BY <2>3, <2>4, <2>5, <2>6, <2>7 DEF t
<1> QED
  BY <1>1, <1>2

-----------------------------------------------------------------------------
(* The invariant. *)

\* What is decided stays decided.
Lasting == \A i \in Ids : file.processed[i].body # NoBody => file'.processed[i] = file.processed[i]

AnswerOf(r) ==
    /\ handler[r].pc = "new" => outcome[r] = "none" /\ handler[r].result = "none"
    /\ handler[r].pc # "new" => request[r] \in [id : Ids, body : Bodies]
    /\ OnRecord(r, handler[r].result)
    /\ OnRecord(r, outcome[r])

\* The answers of a request that has begun stay on record, and so does a new one.
LEMMA AnswersKept ==
    ASSUME IInv, Lasting, NEW r \in Requests,
           handler[r].pc # "new", handler'[r].pc # "new", request'[r] = request[r],
           \/ handler'[r].result \in {handler[r].result, "none", "conflict", "error"}
           \/ /\ file'.processed[request[r].id].body = request[r].body
              /\ file'.processed[request[r].id].status = handler'[r].result,
           outcome'[r] \in {outcome[r], handler[r].result, "unknown"}
    PROVE  AnswerOf(r)'
<1>1. AnswerOf(r)
  BY DEF IInv, AnswerInv, AnswerOf
<1> DEFINE i == request[r].id
<1>2. request[r] \in [id : Ids, body : Bodies] /\ i \in Ids
  BY <1>1 DEF AnswerOf
<1>3. ASSUME NEW v \in Verdicts, file.processed[i].body = request[r].body, file.processed[i].status = v
      PROVE  file'.processed[i].body = request[r].body /\ file'.processed[i].status = v
  <2>1. v # "none"
    BY DEF Verdicts
  <2>2. file.processed[i].body # NoBody
    BY <1>2, <1>3, <2>1 DEF IInv, EntryInv
  <2> QED
    BY <1>2, <1>3, <2>2 DEF Lasting
<1>4. /\ handler[r].result \in Verdicts => file.processed[i].body = request[r].body /\ file.processed[i].status = handler[r].result
      /\ outcome[r] \in Verdicts => file.processed[i].body = request[r].body /\ file.processed[i].status = outcome[r]
  BY <1>1 DEF AnswerOf, OnRecord
<1>5. {"none", "conflict", "error", "unknown"} \cap Verdicts = {}
  BY DEF Verdicts
<1>6. handler'[r].result \in Verdicts => file'.processed[i].body = request[r].body /\ file'.processed[i].status = handler'[r].result
  BY <1>3, <1>4, <1>5
<1>7. outcome'[r] \in Verdicts => file'.processed[i].body = request[r].body /\ file'.processed[i].status = outcome'[r]
  BY <1>3, <1>4, <1>5
<1> QED
  BY <1>2, <1>6, <1>7 DEF AnswerOf, OnRecord

\* The same for one that has not begun, or that nothing happens to.
LEMMA AnswersFramed ==
    ASSUME IInv, Lasting, NEW r \in Requests,
           handler'[r] = handler[r], outcome'[r] = outcome[r], request'[r] = request[r]
    PROVE  AnswerOf(r)'
<1>1. CASE handler[r].pc # "new"
  BY <1>1, AnswersKept
<1>2. CASE handler[r].pc = "new"
  <2>1. outcome[r] = "none" /\ handler[r].result = "none"
    BY <1>2 DEF IInv, AnswerInv
  <2>2. "none" \notin Verdicts
    BY DEF Verdicts
  <2> QED
    BY <1>2, <2>1, <2>2 DEF AnswerOf, OnRecord
<1> QED
  BY <1>1, <1>2

\* A state reached without a command leaves everything decided as it was.
LEMMA KeptLasts ==
    ASSUME IInv, file' \in Kept(file)
    PROVE  Lasting /\ EntryInv' /\ file' \in Sound /\ AccountInv'
  BY DEF IInv, EntryInv, Lasting, Kept, AccountInv, BinsCleared

\* The steps that concern no caller.
LEMMA QuietStep ==
    ASSUME IInv, file' \in Kept(file), state' = file', up' \in BOOLEAN, sessions' \in Nat,
           UNCHANGED callerVars, UNCHANGED overfilled
    PROVE  IInv'
<1>1. Lasting /\ EntryInv' /\ file' \in Sound /\ AccountInv'
  BY KeptLasts
<1>2. TypeOK'
  BY <1>1 DEF IInv, TypeOK, callerVars
<1>3. ASSUME NEW r \in Requests PROVE AnswerOf(r)'
  <2>1. handler'[r] = handler[r] /\ outcome'[r] = outcome[r] /\ request'[r] = request[r]
    BY DEF callerVars
  <2> QED
    BY <1>1, <2>1, AnswersFramed
<1>4. AnswerInv'
  BY <1>3 DEF AnswerInv, AnswerOf
<1>5. ~overfilled' => file'.rejectBin <= RejectCapacity
  BY DEF IInv, Kept
<1> QED
  BY <1>1, <1>2, <1>4, <1>5 DEF IInv

\* The callers of a process that dies keep what they know.
LEMMA CutOffAnswers ==
    ASSUME IInv, Lasting, CallersCutOff
    PROVE  /\ AnswerInv'
           /\ handler' \in [Requests -> [pc : {"new", "apply", "behave", "reply", "hang", "done"},
                                         result : Verdicts \cup {"none", "conflict", "error"}]]
           /\ outcome' \in [Requests -> Verdicts \cup {"none", "conflict", "error", "unknown"}]
           /\ request' = request
<1>0. TypeOK
  BY DEF IInv
<1>1. \A r \in Requests :
        /\ handler'[r] = IF handler[r].pc = "new" THEN handler[r] ELSE [pc |-> "done", result |-> "none"]
        /\ outcome'[r] = IF handler[r].pc # "new" /\ outcome[r] = "none" THEN "unknown" ELSE outcome[r]
        /\ request'[r] = request[r]
  BY DEF CallersCutOff
<1>2. ASSUME NEW r \in Requests PROVE AnswerOf(r)'
  <2>1. CASE handler[r].pc = "new"
    BY <1>1, <2>1, AnswersFramed
  <2>2. CASE handler[r].pc # "new"
    <3>1. handler'[r].pc = "done" /\ handler'[r].result = "none"
      BY <1>1, <2>2
    <3>2. outcome'[r] \in {outcome[r], "unknown"}
      BY <1>1
    <3> QED
      BY <1>1, <2>2, <3>1, <3>2, AnswersKept
  <2> QED
    BY <2>1, <2>2
<1>3. AnswerInv'
  BY <1>2 DEF AnswerInv, AnswerOf
<1>4. handler' \in [Requests -> [pc : {"new", "apply", "behave", "reply", "hang", "done"},
                                 result : Verdicts \cup {"none", "conflict", "error"}]]
  BY <1>0 DEF TypeOK, CallersCutOff
<1>5. outcome' \in [Requests -> Verdicts \cup {"none", "conflict", "error", "unknown"}]
  BY <1>0 DEF TypeOK, CallersCutOff
<1> QED
  BY <1>3, <1>4, <1>5 DEF CallersCutOff

\* A step that concerns no caller and decides nothing.
Quiet ==
    /\ file' \in Kept(file)
    /\ state' = file'
    /\ up' \in BOOLEAN
    /\ sessions' \in Nat
    /\ UNCHANGED callerVars
    /\ UNCHANGED overfilled

\* A state file is taken over by a new process: the faults still hold the line back.
LEMMA OpenQuiet ==
    ASSUME IInv, Open
    PROVE  Quiet
<1> DEFINE restored == [file EXCEPT !.session = sessions + 1,
                                    !.nextProductionAt = IF canProduce(file) THEN Cycle ELSE @]
           faulted == applyFaultState(restored)
<1>1. file \in Sound /\ sessions \in Nat
  BY DEF IInv, TypeOK
<1>2. (IF canProduce(file) THEN Cycle ELSE file.nextProductionAt) \in Int
  BY <1>1, SimulatorAssumption DEF Sound, States
<1>a. sessions + 1 \in Nat
  BY <1>1
<1>3. restored \in Kept(file)
  <2> DEFINE n == sessions + 1
             at == IF canProduce(file) THEN Cycle ELSE file.nextProductionAt
  <2>1. restored = [file EXCEPT !.session = n, !.nextProductionAt = at]
    OBVIOUS
  <2> HIDE DEF n, at, restored
  <2> QED
    BY <1>1, <1>2, <1>a, <2>1, Bookkeeping DEF n, at
<1>4. file' = refreshDerived(faulted) /\ state' = file' /\ up' = TRUE /\ sessions' = sessions + 1
  BY DEF Open
<1> HIDE DEF restored
<1>5. faulted \in Kept(restored)
  BY <1>3, FaultStateKeeps DEF Kept
<1> HIDE DEF faulted
<1>6. refreshDerived(faulted) \in Kept(faulted)
  BY <1>5, DerivedKeeps DEF Kept
<1>7. file' \in Kept(file)
  BY <1>3, <1>4, <1>5, <1>6, KeptTransitive
<1> QED
  BY <1>1, <1>4, <1>7 DEF Quiet, Open

\* A tick decides nothing.
LEMMA TickQuiet ==
    ASSUME IInv, Tick
    PROVE  Quiet
<1>1. file \in Sound /\ sessions \in Nat /\ state = file /\ up \in BOOLEAN
  BY DEF IInv, TypeOK
<1>2. sampled(file) \in Kept(file)
  BY <1>1, SampledKept
<1>3. refreshDerived(sampled(file)) \in Kept(sampled(file))
  BY <1>2, DerivedKeeps DEF Kept
<1>4. refreshDerived(sampled(file)) \in Kept(file)
  BY <1>2, <1>3, KeptTransitive
<1>5. file' = refreshDerived(sampled(file)) /\ state' = file'
  BY <1>1 DEF Tick, Persisted
<1> QED
  BY <1>1, <1>4, <1>5 DEF Quiet, Tick, Persisted

\* Neither does an injected fault, ...
LEMMA SetFaultQuiet ==
    ASSUME IInv, NEW f \in FaultNames, SetFault(f)
    PROVE  Quiet
<1>1. file \in Sound /\ sessions \in Nat /\ state = file /\ up \in BOOLEAN
  BY DEF IInv, TypeOK
<1>2. PICK enabled \in BOOLEAN :
         Persisted(refreshDerived(applyFaultState(
            [file EXCEPT !.faults = IF enabled THEN @ \cup {f} ELSE @ \ {f}])))
  BY <1>1 DEF SetFault
<1> DEFINE faulted == [file EXCEPT !.faults = IF enabled THEN @ \cup {f} ELSE @ \ {f}]
           applied == applyFaultState(faulted)
<1>3. (IF enabled THEN file.faults \cup {f} ELSE file.faults \ {f}) \in SUBSET FaultNames
  BY <1>1 DEF Sound, States
<1>4. faulted \in Kept(file)
  BY <1>1, <1>3, FaultsKeep
<1> HIDE DEF faulted
<1>5. applied \in Kept(faulted)
  BY <1>4, FaultStateKeeps DEF Kept
<1>6. file' = refreshDerived(applied) /\ state' = file' /\ up' = up
  BY <1>2 DEF Persisted, applied, faulted
<1> HIDE DEF applied
<1>7. refreshDerived(applied) \in Kept(applied)
  BY <1>5, DerivedKeeps DEF Kept
<1>8. file' \in Kept(file)
  BY <1>4, <1>5, <1>6, <1>7, KeptTransitive
<1> QED
  BY <1>1, <1>6, <1>8 DEF Quiet, SetFault

\* ... nor a new session, ...
LEMMA RestartQuiet ==
    ASSUME IInv, RestartSession
    PROVE  Quiet
<1>1. file \in Sound /\ sessions \in Nat /\ state = file /\ up \in BOOLEAN
  BY DEF IInv, TypeOK
<1> DEFINE at == IF canProduce(file) THEN Cycle ELSE NotScheduled
<1>2. at \in Int
  BY SimulatorAssumption DEF NotScheduled
<1>3. /\ file' = [file EXCEPT !.session = sessions + 1, !.sample = 0, !.nextProductionAt = at]
      /\ state' = file' /\ up' = up /\ sessions' = sessions + 1
  BY <1>1 DEF RestartSession, Persisted
<1> HIDE DEF at
<1>4. file' \in Kept(file)
  <2> DEFINE n == sessions + 1
  <2>1. n \in Nat
    BY <1>1
  <2>2. file' = [file EXCEPT !.session = n, !.sample = 0, !.nextProductionAt = at]
    BY <1>3
  <2> HIDE DEF n
  <2> QED
    BY <1>1, <1>2, <2>1, <2>2, Bookkeeping
<1> QED
  BY <1>1, <1>3, <1>4 DEF Quiet, RestartSession

\* ... nor time.
LEMMA TimeQuiet ==
    ASSUME IInv, TimePasses
    PROVE  Quiet
<1>1. file \in Sound /\ sessions \in Nat /\ state = file /\ up \in BOOLEAN
  BY DEF IInv, TypeOK
<1> QED
  BY <1>1, OlderKeeps DEF Quiet, TimePasses

\* One command is decided, with its effect, in the state file.
Decision(r) ==
    \E i \in Ids, b \in Bodies, v \in Verdicts, n \in Nat :
        /\ request[r].id = i /\ request[r].body = b
        /\ file.processed[i].body = NoBody
        /\ file' \in Sound
        /\ file'.processed = [file.processed EXCEPT ![i] = [body |-> b, status |-> v, revision |-> n]]
        /\ file'.revision = IF v = "EXECUTED" THEN file.revision + 1 ELSE file.revision
        /\ file'.running => file.running \/ (b.name = "start" /\ v = "EXECUTED")
        /\ Accounted(file) /\ ~(b.name = "clear_bins" /\ v = "EXECUTED") => Accounted(file')
        /\ ~overfilled' => file'.rejectBin <= RejectCapacity

\* ApplyCommand decides, and the caller waits for the answer or is cut off, or it does nothing.
LEMMA ApplyCommandSteps ==
    ASSUME IInv, NEW r \in Requests, ApplyCommand(r)
    PROVE  /\ handler[r].pc = "apply" /\ request' = request /\ sessions' = sessions
           /\ state' = file' /\ up' \in BOOLEAN /\ overfilled' \in BOOLEAN
           /\ \/ /\ Decision(r)
                 /\ outcome' = outcome
                 /\ Answer(r, file'.processed[request[r].id].status)
              \/ Decision(r) /\ CallersCutOff
              \/ file' = file /\ overfilled' = overfilled /\ outcome' = outcome /\ Answer(r, "error")
<1> DEFINE i == request[r].id
           b == request[r].body
           t == decided(state, i, b)
<1>1. /\ handler[r].pc = "apply" /\ up /\ state.processed[i].body = NoBody
      /\ sessions' = sessions
      /\ \/ /\ Persisted(t) /\ Answer(r, t.processed[i].status)
            /\ overfilled' = (overfilled \/ fills(state, b)) /\ UNCHANGED <<outcome, request>>
         \/ PersistFails /\ Answer(r, "error") /\ UNCHANGED <<outcome, request, overfilled>>
         \/ DiesAfterRename(t) /\ CallersCutOff /\ overfilled' = (overfilled \/ fills(state, b))
  BY DEF ApplyCommand, callerFrame
<1>2. file \in Sound /\ state = file /\ overfilled \in BOOLEAN /\ up \in BOOLEAN
  BY DEF IInv, TypeOK
<1>3. i \in Ids /\ b \in Bodies
  BY <1>1 DEF IInv, AnswerInv
<1>4. fills(state, b) \in BOOLEAN
  BY DEF fills
<1>b. t = decided(file, i, b)
  BY <1>2
<1> HIDE DEF i, b, t
<1>5. /\ t \in Sound
      /\ \E v \in Verdicts, n \in Nat :
            /\ t.processed = [file.processed EXCEPT ![i] = [body |-> b, status |-> v, revision |-> n]]
            /\ t.revision = IF v = "EXECUTED" THEN file.revision + 1 ELSE file.revision
            /\ t.running => file.running \/ (b.name = "start" /\ v = "EXECUTED")
            /\ Accounted(file) /\ ~(b.name = "clear_bins" /\ v = "EXECUTED") => Accounted(t)
      /\ file.rejectBin <= RejectCapacity /\ ~fills(file, b) => t.rejectBin <= RejectCapacity
  <2> DEFINE d == decided(file, i, b)
  <2>0. file \in Sound
    BY <1>2
  <2>1. /\ d \in Sound
        /\ \E v \in Verdicts, n \in Nat :
              /\ d.processed = [file.processed EXCEPT ![i] = [body |-> b, status |-> v, revision |-> n]]
              /\ d.revision = IF v = "EXECUTED" THEN file.revision + 1 ELSE file.revision
              /\ d.running => file.running \/ (b.name = "start" /\ v = "EXECUTED")
              /\ Accounted(file) /\ ~(b.name = "clear_bins" /\ v = "EXECUTED") => Accounted(d)
        /\ file.rejectBin <= RejectCapacity /\ ~fills(file, b) => d.rejectBin <= RejectCapacity
    BY <1>3, <2>0, DecidedFields, Zenon
  <2>2. t = d
    BY <1>b
  <2> HIDE DEF d
  <2> QED
    BY <2>1, <2>2, Zenon
<1>6. ASSUME file' = t, overfilled' = (overfilled \/ fills(state, b))
      PROVE  Decision(r)
  <2>1. ~overfilled' => t.rejectBin <= RejectCapacity
    BY <1>2, <1>5, <1>6 DEF IInv
  <2> QED
    BY <1>1, <1>2, <1>3, <1>5, <1>6, <2>1 DEF Decision, i, b
<1>7. CASE /\ Persisted(t) /\ Answer(r, t.processed[i].status)
           /\ overfilled' = (overfilled \/ fills(state, b)) /\ UNCHANGED <<outcome, request>>
  <2>1. file' = t /\ state' = file' /\ up' = up
    BY <1>7 DEF Persisted
  <2>2. Decision(r)
    BY <1>6, <1>7, <2>1
  <2>3. overfilled' \in BOOLEAN
    BY <1>2, <1>4, <1>7
  <2>4. Answer(r, file'.processed[request[r].id].status)
    BY <1>7, <2>1 DEF i
  <2> QED
    BY <1>1, <1>2, <1>7, <2>1, <2>2, <2>3, <2>4
<1>8. CASE PersistFails /\ Answer(r, "error") /\ UNCHANGED <<outcome, request, overfilled>>
  BY <1>1, <1>2, <1>8 DEF PersistFails
<1>9. CASE DiesAfterRename(t) /\ CallersCutOff /\ overfilled' = (overfilled \/ fills(state, b))
  <2>1. file' = t /\ state' = file' /\ up' = FALSE
    BY <1>9 DEF DiesAfterRename
  <2>2. Decision(r)
    BY <1>6, <1>9, <2>1
  <2>3. overfilled' \in BOOLEAN
    BY <1>2, <1>4, <1>9
  <2> QED
    BY <1>1, <1>9, <2>1, <2>2, <2>3 DEF CallersCutOff
<1> QED
  BY <1>1, <1>7, <1>8, <1>9

\* A new line with its blanks loaded.
LEMMA InitSound ==
    initialState(1) \in Sound /\ initialState(1).processed = [i \in Ids |-> NotProcessed]
    /\ initialState(1).revision = 1 /\ initialState(1).rejectBin = 0 /\ Accounted(initialState(1))
<1> DEFINE s == [session |-> 1, sample |-> 0, nextProductionAt |-> NotScheduled, rejectBin |-> 0,
                 revision |-> 1, running |-> FALSE, mode |-> "auto", singlePaused |-> FALSE, framePaused |-> FALSE,
                 safetyReady |-> TRUE, guardDoorClosed |-> TRUE, emergencyStop |-> FALSE, connected |-> TRUE,
                 target |-> InitialTarget, toolLimit |-> InitialToolLimit, inspectInterval |-> InitialInspectInterval,
                 toolUsed |-> 0, blank |-> Blanks, finished |-> 0,
                 output |-> 0, inspected |-> 0, passed |-> 0, ng |-> 0, pending |-> 0,
                 alarms |-> {}, acknowledged |-> {}, faults |-> {}, processed |-> [i \in Ids |-> NotProcessed]]
<1>1. /\ NotScheduled \in Int /\ InitialTarget \in Nat \ {0} /\ InitialToolLimit \in Nat \ {0}
      /\ InitialInspectInterval \in Nat \ {0} /\ Blanks \in Nat /\ FinishedCapacity \in Nat
  BY SimulatorAssumption DEF NotScheduled
<1>2. [i \in Ids |-> NotProcessed] \in [Ids -> Entries]
  BY DEF NotProcessed, Entries
<1>3. s \in States
  BY <1>1, <1>2 DEF States
<1>4. Goods(s) /\ Accounted(s)
  BY <1>1 DEF Goods, validateCounters, Accounted
<1>5. s.processed = [i \in Ids |-> NotProcessed] /\ s.revision = 1 /\ s.rejectBin = 0
  OBVIOUS
<1>6. initialState(1) = refreshDerived(s)
  BY DEF initialState
<1> HIDE DEF s
<1>7. refreshDerived(s) \in Sound /\ Accounted(refreshDerived(s))
  BY <1>3, <1>4, DerivedKeeps DEF Sound, Kept
<1>8. /\ refreshDerived(s).processed = s.processed /\ refreshDerived(s).revision = s.revision
      /\ refreshDerived(s).rejectBin = s.rejectBin
  BY <1>3 DEF refreshDerived, States
<1> QED
  BY <1>5, <1>6, <1>7, <1>8

\* The invariant holds initially.
LEMMA InitInv == Init => IInv
<1> SUFFICES ASSUME Init PROVE IInv
  OBVIOUS
<1>1. file = initialState(1) /\ state = file
  BY DEF Init
<1>2. file \in Sound /\ file.processed = [i \in Ids |-> NotProcessed] /\ file.rejectBin = 0 /\ Accounted(file)
  BY <1>1, InitSound
<1>3. TypeOK
  BY <1>2 DEF Init, TypeOK
<1>4. EntryInv
  BY <1>2 DEF EntryInv, NotProcessed
<1>5. AnswerInv
  BY DEF Init, AnswerInv, OnRecord, Verdicts
<1>6. file.rejectBin <= RejectCapacity
  BY <1>2, SimulatorAssumption
<1> QED
  BY <1>1, <1>2, <1>3, <1>4, <1>5, <1>6 DEF IInv, AccountInv

\* A step of one request that leaves the engine alone.
LEMMA CallerStep ==
    ASSUME IInv, NEW r \in Requests, file' = file, state' = state, up' = up, sessions' = sessions,
           overfilled' = overfilled, TypeOK', AnswerOf(r)',
           \A q \in Requests \ {r} : handler'[q] = handler[q] /\ outcome'[q] = outcome[q] /\ request'[q] = request[q]
    PROVE  IInv'
<1>1. Lasting
  BY DEF Lasting
<1>2. ASSUME NEW q \in Requests PROVE AnswerOf(q)'
  BY <1>1, AnswersFramed
<1>3. AnswerInv'
  BY <1>2 DEF AnswerInv, AnswerOf
<1> QED
  BY <1>3 DEF IInv, EntryInv, AccountInv, BinsCleared

\* A new request has no answer.
LEMMA ExecuteStep ==
    ASSUME IInv, NEW r \in Requests, NEW i \in Ids, NEW b \in Bodies, Execute(r, i, b)
    PROVE  IInv'
<1>0. TypeOK /\ handler[r].pc = "new"
  BY DEF IInv, Execute
<1>1. outcome[r] = "none" /\ handler[r].result = "none"
  BY <1>0 DEF IInv, AnswerInv
<1>2. /\ handler' = [handler EXCEPT ![r].pc = "apply"]
      /\ request' = [request EXCEPT ![r] = [id |-> i, body |-> b]]
      /\ UNCHANGED <<up, file, state, outcome, sessions, overfilled>>
  BY DEF Execute, callerFrame
<1>3. TypeOK'
  BY <1>0, <1>2 DEF TypeOK
<1>4. handler'[r].pc = "apply" /\ handler'[r].result = "none" /\ request'[r] = [id |-> i, body |-> b]
  BY <1>0, <1>1, <1>2 DEF TypeOK
<1>5. AnswerOf(r)'
  <2>1. "none" \notin Verdicts
    BY DEF Verdicts
  <2> QED
    BY <1>1, <1>2, <1>4, <2>1 DEF AnswerOf, OnRecord
<1>6. \A q \in Requests \ {r} : handler'[q] = handler[q] /\ outcome'[q] = outcome[q] /\ request'[q] = request[q]
  BY <1>0, <1>2 DEF TypeOK
<1> QED
  BY <1>2, <1>3, <1>5, <1>6, CallerStep

\* A caller that gives up has none either.
LEMMA TimesOutStep ==
    ASSUME IInv, NEW r \in Requests, ExecuteTimesOut(r)
    PROVE  IInv'
<1>0. TypeOK /\ Lasting
  BY DEF IInv, Lasting, ExecuteTimesOut
<1>1. /\ handler[r].pc # "new" /\ outcome' = [outcome EXCEPT ![r] = "unknown"]
      /\ UNCHANGED <<up, file, state, handler, request, sessions, overfilled>>
  BY DEF ExecuteTimesOut, callerFrame
<1>2. TypeOK'
  BY <1>0, <1>1 DEF TypeOK
<1>3. outcome'[r] = "unknown"
  BY <1>0, <1>1 DEF TypeOK
<1>4. AnswerOf(r)'
  BY <1>0, <1>1, <1>3, AnswersKept
<1>5. \A q \in Requests \ {r} : handler'[q] = handler[q] /\ outcome'[q] = outcome[q] /\ request'[q] = request[q]
  BY <1>0, <1>1 DEF TypeOK
<1> QED
  BY <1>1, <1>2, <1>4, <1>5, CallerStep

\* A retry is answered from the record.
LEMMA ApplyProcessedStep ==
    ASSUME IInv, NEW r \in Requests, ApplyProcessed(r)
    PROVE  IInv'
<1>0. TypeOK /\ Lasting /\ state = file
  BY DEF IInv, Lasting, ApplyProcessed
<1> DEFINE previous == file.processed[request[r].id]
           result == IF previous.body = request[r].body THEN previous.status ELSE "conflict"
<1>1. /\ handler[r].pc = "apply" /\ previous.body # NoBody
      /\ handler' = [handler EXCEPT ![r] = [pc |-> "behave", result |-> result]]
      /\ UNCHANGED <<up, file, state, outcome, request, sessions, overfilled>>
  BY <1>0 DEF ApplyProcessed, Answer, callerFrame
<1>2. request[r] \in [id : Ids, body : Bodies]
  BY <1>1 DEF IInv, AnswerInv
<1>3. previous \in Entries
  BY <1>0, <1>2 DEF TypeOK, Sound, States
<1>4. result \in Verdicts \cup {"none", "conflict", "error"}
  BY <1>3 DEF Entries
<1>5. result = "conflict" \/ (previous.body = request[r].body /\ previous.status = result)
  OBVIOUS
<1> HIDE DEF result
<1>6. TypeOK'
  BY <1>0, <1>1, <1>4 DEF TypeOK
<1>7. handler'[r].pc = "behave" /\ handler'[r].result = result
  BY <1>0, <1>1 DEF TypeOK
<1>8. AnswerOf(r)'
  BY <1>0, <1>1, <1>5, <1>7, AnswersKept
<1>9. \A q \in Requests \ {r} : handler'[q] = handler[q] /\ outcome'[q] = outcome[q] /\ request'[q] = request[q]
  BY <1>0, <1>1 DEF TypeOK
<1> QED
  BY <1>1, <1>6, <1>8, <1>9, CallerStep

\* The answer is held back or sent on.
LEMMA BehaviorStep ==
    ASSUME IInv, NEW r \in Requests, ResponseBehavior(r)
    PROVE  IInv'
<1>0. TypeOK /\ Lasting
  BY DEF IInv, Lasting, ResponseBehavior
<1>1. PICK pc \in {"hang", "reply"} : handler' = [handler EXCEPT ![r].pc = pc]
  BY DEF ResponseBehavior
<1>2. handler[r].pc = "behave" /\ UNCHANGED <<up, file, state, outcome, request, sessions, overfilled>>
  BY DEF ResponseBehavior, callerFrame
<1>3. TypeOK'
  BY <1>0, <1>1, <1>2 DEF TypeOK
<1>4. handler'[r].pc = pc /\ handler'[r].result = handler[r].result
  BY <1>0, <1>1 DEF TypeOK
<1>5. AnswerOf(r)'
  BY <1>0, <1>2, <1>4, AnswersKept
<1>6. \A q \in Requests \ {r} : handler'[q] = handler[q] /\ outcome'[q] = outcome[q] /\ request'[q] = request[q]
  BY <1>0, <1>1, <1>2 DEF TypeOK
<1> QED
  BY <1>2, <1>3, <1>5, <1>6, CallerStep

\* The answer that reaches the caller is the one on record.
LEMMA ReplyStep ==
    ASSUME IInv, NEW r \in Requests, Reply(r)
    PROVE  IInv'
<1>0. TypeOK /\ Lasting
  BY DEF IInv, Lasting, Reply
<1>1. /\ handler[r].pc # "new"
      /\ handler' = [handler EXCEPT ![r] = [pc |-> "done", result |-> "none"]]
      /\ outcome' = [outcome EXCEPT ![r] = IF @ = "none" THEN handler[r].result ELSE @]
      /\ UNCHANGED <<up, file, state, request, sessions, overfilled>>
  BY DEF Reply, callerFrame
<1>2. handler'[r].pc = "done" /\ handler'[r].result = "none" /\ outcome'[r] \in {outcome[r], handler[r].result}
  BY <1>0, <1>1 DEF TypeOK
<1>3. TypeOK'
  <2>1. handler[r].result \in Verdicts \cup {"none", "conflict", "error"}
    BY <1>0 DEF TypeOK
  <2> QED
    BY <1>0, <1>1, <2>1 DEF TypeOK
<1>4. AnswerOf(r)'
  BY <1>0, <1>1, <1>2, AnswersKept
<1>5. \A q \in Requests \ {r} : handler'[q] = handler[q] /\ outcome'[q] = outcome[q] /\ request'[q] = request[q]
  BY <1>0, <1>1 DEF TypeOK
<1> QED
  BY <1>1, <1>3, <1>4, <1>5, CallerStep

\* A crash loses nothing that was written.
LEMMA CrashStep ==
    ASSUME IInv, Crash
    PROVE  IInv'
<1>0. TypeOK /\ Lasting
  BY DEF IInv, Lasting, Crash
<1>1. CallersCutOff /\ up' = FALSE /\ file' = file /\ state' = file' /\ UNCHANGED <<sessions, overfilled>>
  BY DEF Crash
<1>2. /\ AnswerInv' /\ request' = request
      /\ handler' \in [Requests -> [pc : {"new", "apply", "behave", "reply", "hang", "done"},
                                    result : Verdicts \cup {"none", "conflict", "error"}]]
      /\ outcome' \in [Requests -> Verdicts \cup {"none", "conflict", "error", "unknown"}]
  BY <1>0, <1>1, CutOffAnswers
<1>3. TypeOK'
  BY <1>0, <1>1, <1>2 DEF TypeOK
<1> QED
  BY <1>1, <1>2, <1>3 DEF IInv, EntryInv, AccountInv, BinsCleared

\* A decision binds an unbound commandId and touches no other.
LEMMA DecisionLasts ==
    ASSUME IInv, NEW r \in Requests, Decision(r)
    PROVE  /\ Lasting /\ EntryInv' /\ file' \in Sound /\ AccountInv'
           /\ ~overfilled' => file'.rejectBin <= RejectCapacity
<1>1. PICK i \in Ids, b \in Bodies, v \in Verdicts, n \in Nat :
        /\ file.processed[i].body = NoBody
        /\ file' \in Sound
        /\ file'.processed = [file.processed EXCEPT ![i] = [body |-> b, status |-> v, revision |-> n]]
        /\ Accounted(file) /\ ~(b.name = "clear_bins" /\ v = "EXECUTED") => Accounted(file')
        /\ ~overfilled' => file'.rejectBin <= RejectCapacity
  BY DEF Decision
<1>2. file.processed \in [Ids -> Entries]
  BY DEF IInv, TypeOK, Sound, States
<1>3. /\ file'.processed[i] = [body |-> b, status |-> v, revision |-> n]
      /\ \A j \in Ids \ {i} : file'.processed[j] = file.processed[j]
  BY <1>1, <1>2
<1>4. v # "none" /\ b # NoBody
  BY SimulatorAssumption DEF Verdicts
<1>5. Lasting
  BY <1>1, <1>3 DEF Lasting
<1>6. EntryInv'
  BY <1>3, <1>4 DEF IInv, EntryInv
<1>7. AccountInv'
  <2>1. CASE Accounted(file')
    BY <2>1 DEF AccountInv
  <2>2. CASE b.name = "clear_bins" /\ v = "EXECUTED"
    BY <1>3, <2>2 DEF AccountInv, BinsCleared
  <2>3. CASE BinsCleared(file)
    <3>1. PICK j \in Ids : file.processed[j].status = "EXECUTED" /\ file.processed[j].body.name = "clear_bins"
      BY <2>3 DEF BinsCleared
    <3>2. file.processed[j].body # NoBody
      BY <3>1 DEF IInv, EntryInv
    <3>3. file'.processed[j] = file.processed[j]
      BY <1>5, <3>2 DEF Lasting
    <3> QED
      BY <3>1, <3>3 DEF AccountInv, BinsCleared
  <2> QED
    BY <1>1, <2>1, <2>2, <2>3 DEF IInv, AccountInv
<1> QED
  BY <1>1, <1>5, <1>6, <1>7

\* A new command is decided in the file before anyone is answered.
LEMMA ApplyCommandStep ==
    ASSUME IInv, NEW r \in Requests, ApplyCommand(r)
    PROVE  IInv'
<1>0. TypeOK
  BY DEF IInv
<1>1. /\ handler[r].pc = "apply" /\ request' = request /\ sessions' = sessions
      /\ state' = file' /\ up' \in BOOLEAN /\ overfilled' \in BOOLEAN
      /\ \/ /\ Decision(r)
            /\ outcome' = outcome
            /\ Answer(r, file'.processed[request[r].id].status)
         \/ Decision(r) /\ CallersCutOff
         \/ file' = file /\ overfilled' = overfilled /\ outcome' = outcome /\ Answer(r, "error")
  BY ApplyCommandSteps
<1>2. CASE Decision(r) /\ outcome' = outcome /\ Answer(r, file'.processed[request[r].id].status)
  <2>1. /\ Lasting /\ EntryInv' /\ file' \in Sound /\ AccountInv'
        /\ ~overfilled' => file'.rejectBin <= RejectCapacity
    BY <1>2, DecisionLasts
  <2>2. PICK i \in Ids, b \in Bodies, v \in Verdicts, n \in Nat :
          /\ request[r].id = i /\ request[r].body = b
          /\ file'.processed = [file.processed EXCEPT ![i] = [body |-> b, status |-> v, revision |-> n]]
    BY <1>2 DEF Decision
  <2>3. file'.processed[i].body = b /\ file'.processed[i].status = v
    BY <1>0, <2>2 DEF TypeOK, Sound, States
  <2>4. handler' = [handler EXCEPT ![r] = [pc |-> "behave", result |-> v]]
    BY <1>2, <2>2, <2>3 DEF Answer
  <2>5. /\ handler'[r].pc = "behave" /\ handler'[r].result = v
        /\ \A q \in Requests \ {r} : handler'[q] = handler[q]
    BY <1>0, <2>4 DEF TypeOK
  <2>6. TypeOK'
    BY <1>0, <1>1, <1>2, <2>1, <2>4 DEF TypeOK
  <2>7. AnswerOf(r)'
    BY <1>1, <1>2, <2>1, <2>2, <2>3, <2>5, AnswersKept
  <2>8. ASSUME NEW q \in Requests \ {r} PROVE AnswerOf(q)'
    BY <1>1, <1>2, <2>1, <2>5, AnswersFramed
  <2>9. AnswerInv'
    BY <2>7, <2>8 DEF AnswerInv, AnswerOf
  <2> QED
    BY <1>1, <2>1, <2>6, <2>9 DEF IInv
<1>3. CASE Decision(r) /\ CallersCutOff
  <2>1. /\ Lasting /\ EntryInv' /\ file' \in Sound /\ AccountInv'
        /\ ~overfilled' => file'.rejectBin <= RejectCapacity
    BY <1>3, DecisionLasts
  <2>2. /\ AnswerInv'
        /\ handler' \in [Requests -> [pc : {"new", "apply", "behave", "reply", "hang", "done"},
                                      result : Verdicts \cup {"none", "conflict", "error"}]]
        /\ outcome' \in [Requests -> Verdicts \cup {"none", "conflict", "error", "unknown"}]
    BY <1>3, <2>1, CutOffAnswers
  <2>3. TypeOK'
    BY <1>0, <1>1, <2>1, <2>2 DEF TypeOK
  <2> QED
    BY <1>1, <2>1, <2>2, <2>3 DEF IInv
<1>4. CASE file' = file /\ overfilled' = overfilled /\ outcome' = outcome /\ Answer(r, "error")
  <2>1. Lasting
    BY <1>4 DEF Lasting
  <2>2. handler' = [handler EXCEPT ![r] = [pc |-> "behave", result |-> "error"]]
    BY <1>4 DEF Answer
  <2>3. /\ handler'[r].pc = "behave" /\ handler'[r].result = "error"
        /\ \A q \in Requests \ {r} : handler'[q] = handler[q]
    BY <1>0, <2>2 DEF TypeOK
  <2>4. TypeOK'
    BY <1>0, <1>1, <1>4, <2>2 DEF TypeOK
  <2>5. AnswerOf(r)'
    BY <1>1, <1>4, <2>1, <2>3, AnswersKept
  <2>6. ASSUME NEW q \in Requests \ {r} PROVE AnswerOf(q)'
    BY <1>1, <1>4, <2>1, <2>3, AnswersFramed
  <2>7. AnswerInv'
    BY <2>5, <2>6 DEF AnswerInv, AnswerOf
  <2> QED
    BY <1>1, <1>4, <2>4, <2>7 DEF IInv, EntryInv, AccountInv, BinsCleared
<1> QED
  BY <1>1, <1>2, <1>3, <1>4

\* Every step is quiet, decides a command, or concerns a caller only.
LEMMA NextInv == IInv /\ [Next]_vars => IInv'
<1> SUFFICES ASSUME IInv, [Next]_vars PROVE IInv'
  OBVIOUS
<1>1. CASE UNCHANGED vars
  BY <1>1 DEF vars, IInv, TypeOK, EntryInv, AnswerInv, OnRecord, AccountInv, BinsCleared
<1>2. ASSUME Quiet PROVE IInv'
  BY <1>2, QuietStep DEF Quiet
<1>3. CASE Crash
  BY <1>3, CrashStep
<1>4. CASE Open
  BY <1>2, <1>4, OpenQuiet
<1>5. CASE Tick
  BY <1>2, <1>5, TickQuiet
<1>6. CASE RestartSession
  BY <1>2, <1>6, RestartQuiet
<1>7. CASE TimePasses
  BY <1>2, <1>7, TimeQuiet
<1>8. CASE \E f \in FaultNames : SetFault(f)
  BY <1>2, <1>8, SetFaultQuiet
<1>9. ASSUME NEW r \in Requests, NEW i \in Ids, NEW b \in Bodies, Execute(r, i, b) PROVE IInv'
  BY <1>9, ExecuteStep
<1>10. ASSUME NEW r \in Requests, ExecuteTimesOut(r) PROVE IInv'
  BY <1>10, TimesOutStep
<1>11. ASSUME NEW r \in Requests, Handle(r) PROVE IInv'
  BY <1>11, ApplyProcessedStep, ApplyCommandStep, BehaviorStep, ReplyStep DEF Handle
<1> QED
  BY <1>1, <1>3, <1>4, <1>5, <1>6, <1>7, <1>8, <1>9, <1>10, <1>11 DEF Next

\* The invariant always holds.
LEMMA InvAlways == Spec => []IInv
  BY InitInv, NextInv, PTL DEF Spec

\* The counters agree, and until the bins are cleared every item produced is in exactly one bin and
\* took exactly one blank, for any capacities and inspections (produceOne, inspectOne, Tick's loop).
THEOREM SimGoodsConserved == Spec => []GoodsConserved
<1>1. IInv => GoodsConserved
  BY DEF IInv, TypeOK, Sound, Goods, GoodsConserved, AccountInv
<1> QED
  BY <1>1, InvAlways, PTL

\* The engine accepts the file it wrote itself, unless an inspection overfilled the reject bin
\* (validatePersisted against every writer of the state file).
THEOREM SimRestartAccepted == Spec => []RestartAccepted
<1>1. IInv => RestartAccepted
  <2> SUFFICES ASSUME IInv, ~overfilled PROVE validatePersisted(file)
    BY DEF RestartAccepted
  <2>1. file \in States /\ Goods(file) /\ file.rejectBin <= RejectCapacity
    BY DEF IInv, TypeOK, Sound
  <2>2. {Blanks, FinishedCapacity, RejectCapacity} \subseteq Nat
    BY SimulatorAssumption
  <2>3. /\ file.revision # 0 /\ file.target > 0 /\ file.toolLimit > 0 /\ file.inspectInterval > 0
        /\ file.mode \in {"auto", "manual"} /\ file.toolUsed >= 0
        /\ file.blank \in Nat /\ file.finished \in Nat /\ file.rejectBin \in Nat /\ file.output \in Nat
    BY <2>1 DEF States
  <2>4. validateCounters(file) /\ file.blank + file.output <= Blanks /\ file.finished <= FinishedCapacity
    BY <2>1 DEF Goods
  <2> QED
    BY <2>1, <2>2, <2>3, <2>4 DEF validatePersisted
<1> QED
  BY <1>1, InvAlways, PTL

\* No fault that clears, no crash, no restart and no other command sets the line running: only a
\* start that is newly decided and executed does (applyFaultState, Open, applyCommand).
THEOREM SimOnlyStartRuns == Spec => OnlyStartRuns
<1> DEFINE Started == ~file.running /\ file'.running =>
                        \E i \in Ids : /\ file.processed[i].body = NoBody
                                       /\ file'.processed[i].status = "EXECUTED"
                                       /\ file'.processed[i].body.name = "start"
<1>1. IInv /\ [Next]_vars => [Started]_vars
  <2> SUFFICES ASSUME IInv, Next PROVE Started
    OBVIOUS
  <2>1. ASSUME Quiet PROVE Started
    BY <2>1 DEF Quiet, Kept
  <2>2. ASSUME file' = file PROVE Started
    BY <2>2
  <2>3. ASSUME NEW r \in Requests, Decision(r) PROVE Started
    <3>1. PICK i \in Ids, b \in Bodies, v \in Verdicts, n \in Nat :
            /\ file.processed[i].body = NoBody
            /\ file'.processed = [file.processed EXCEPT ![i] = [body |-> b, status |-> v, revision |-> n]]
            /\ file'.running => file.running \/ (b.name = "start" /\ v = "EXECUTED")
      BY <2>3 DEF Decision
    <3>2. file'.processed[i] = [body |-> b, status |-> v, revision |-> n]
      BY <3>1 DEF IInv, TypeOK, Sound, States
    <3> QED
      BY <3>1, <3>2
  <2> HIDE DEF Started
  <2>4. CASE Open \/ Tick \/ RestartSession \/ TimePasses \/ \E f \in FaultNames : SetFault(f)
    BY <2>1, <2>4, OpenQuiet, TickQuiet, RestartQuiet, TimeQuiet, SetFaultQuiet
  <2>5. ASSUME NEW r \in Requests, ApplyCommand(r) PROVE Started
    BY <2>2, <2>3, <2>5, ApplyCommandSteps
  <2>6. CASE Crash
    BY <2>2, <2>6 DEF Crash
  <2>7. ASSUME NEW r \in Requests, NEW i \in Ids, NEW b \in Bodies, Execute(r, i, b) PROVE Started
    BY <2>2, <2>7 DEF Execute
  <2>8. ASSUME NEW r \in Requests, ExecuteTimesOut(r) PROVE Started
    BY <2>2, <2>8 DEF ExecuteTimesOut
  <2>9. ASSUME NEW r \in Requests, ApplyProcessed(r) \/ ResponseBehavior(r) \/ Reply(r) PROVE Started
    BY <2>2, <2>9 DEF ApplyProcessed, ResponseBehavior, Reply
  <2> QED
    BY <2>4, <2>5, <2>6, <2>7, <2>8, <2>9 DEF Next, Handle
<1> QED
  BY <1>1, InvAlways, PTL DEF Spec, OnlyStartRuns, Started

-----------------------------------------------------------------------------
(* The refinement. *)

\* The verdicts callers were given for a commandId, whatever its content is: by AnswerInv it is
\* the content on record.
Given(i) == {v \in Verdicts : \E r \in Requests : request[r].id = i /\ outcome[r] = v}

ToldGiven == \A i \in Ids : toldFor(i) = Given(i)

\* The refinement mapping's verdicts, without looking at the content.
LEMMA ToldIsGiven == IInv => ToldGiven
<1> SUFFICES ASSUME IInv, NEW i \in Ids PROVE toldFor(i) = Given(i)
  BY DEF ToldGiven
<1>1. \A r \in Requests : request[r].id = i /\ outcome[r] \in Verdicts => request[r].body = file.processed[i].body
  BY DEF IInv, AnswerInv, OnRecord
<1>2. \A v : v \in toldFor(i) <=> v \in Verdicts /\ \E r \in Requests : /\ request[r].id = i
                                                                        /\ request[r].body = file.processed[i].body
                                                                        /\ outcome[r] = v
  BY DEF toldFor, Verdicts
<1>3. \A v : v \in Given(i) <=> v \in Verdicts /\ \E r \in Requests : request[r].id = i /\ outcome[r] = v
  BY DEF Given
<1>4. \A v : v \in toldFor(i) <=> v \in Given(i)
  BY <1>1, <1>2, <1>3
<1> QED
  BY <1>4

\* A step that gives no verdict and takes none back.
LEMMA GivenFramed ==
    ASSUME \A r \in Requests : outcome[r] \in Verdicts \/ outcome'[r] \in Verdicts =>
                                  outcome'[r] = outcome[r] /\ request'[r] = request[r]
    PROVE  \A i \in Ids : Given(i)' = Given(i)
  BY DEF Given

DeviceStep == Device!Next \/ UNCHANGED Device!vars

\* The device stutters when the record, the revision and the verdicts given stay.
LEMMA DeviceStutters ==
    ASSUME IInv, IInv', file'.processed = file.processed, file'.revision = file.revision,
           \A i \in Ids : Given(i)' = Given(i)
    PROVE  DeviceStep
<1>1. ToldGiven /\ ToldGiven'
  BY ToldIsGiven, PTL
<1>2. \A i \in Ids : toldFor(i) = Given(i) /\ toldFor(i)' = Given(i)'
  BY <1>1 DEF ToldGiven
<1>3. [i \in Ids |-> toldFor(i)]' = [i \in Ids |-> toldFor(i)]
  BY <1>1, <1>2
<1> QED
  BY <1>3 DEF DeviceStep, Device!vars

\* A quiet step is none of the device's.
LEMMA QuietDevice ==
    ASSUME IInv, IInv', Quiet
    PROVE  DeviceStep
<1>1. \A i \in Ids : Given(i)' = Given(i)
  BY GivenFramed DEF Quiet, callerVars
<1> QED
  BY <1>1, DeviceStutters DEF Quiet, Kept

\* A caller that is cut off learns nothing.
LEMMA CutOffGives ==
    ASSUME CallersCutOff
    PROVE  \A i \in Ids : Given(i)' = Given(i)
<1>1. \A r \in Requests : outcome'[r] = outcome[r] \/ (outcome[r] = "none" /\ outcome'[r] = "unknown")
  BY DEF CallersCutOff
<1>2. {"none", "unknown"} \cap Verdicts = {}
  BY DEF Verdicts
<1>3. request' = request
  BY DEF CallersCutOff
<1> QED
  BY <1>1, <1>2, <1>3, GivenFramed

\* A decision in the state file is the device's, and nobody has been told yet.
LEMMA DecisionDevice ==
    ASSUME IInv, IInv', NEW r \in Requests, Decision(r), \A i \in Ids : Given(i)' = Given(i)
    PROVE  DeviceStep
<1>1. PICK i \in Ids, b \in Bodies, v \in Verdicts, n \in Nat :
        /\ file.processed[i].body = NoBody
        /\ file'.processed = [file.processed EXCEPT ![i] = [body |-> b, status |-> v, revision |-> n]]
        /\ file'.revision = IF v = "EXECUTED" THEN file.revision + 1 ELSE file.revision
  BY DEF Decision
<1>2. file.processed \in [Ids -> Entries]
  BY DEF IInv, TypeOK, Sound, States
<1>3. /\ file'.processed[i].body = b /\ file'.processed[i].status = v
      /\ \A j \in Ids \ {i} : file'.processed[j] = file.processed[j]
  BY <1>1, <1>2
<1>4. ToldGiven /\ ToldGiven'
  BY ToldIsGiven, PTL
<1>5. [j \in Ids |-> toldFor(j)]' = [j \in Ids |-> toldFor(j)]
  BY <1>4 DEF ToldGiven
<1>6. [j \in Ids |-> file'.processed[j].body] = [[j \in Ids |-> file.processed[j].body] EXCEPT ![i] = b]
  BY <1>3
<1>7. [j \in Ids |-> file'.processed[j].status] = [[j \in Ids |-> file.processed[j].status] EXCEPT ![i] = v]
  BY <1>3
<1>8. Device!Decide(i, b, v)
  BY <1>1, <1>5, <1>6, <1>7 DEF Device!Decide
<1>9. v \in Device!Verdicts
  BY DEF Device!Verdicts, Verdicts
<1> QED
  BY <1>8, <1>9 DEF DeviceStep, Device!Next

\* An answer repeats the verdict on record.
LEMMA ReplyDevice ==
    ASSUME IInv, IInv', NEW r \in Requests, Reply(r)
    PROVE  DeviceStep
<1>0. TypeOK
  BY DEF IInv
<1> DEFINE i == request[r].id
           v == handler[r].result
<1>1. /\ file' = file /\ request' = request
      /\ handler[r].pc # "new"
      /\ outcome' = [outcome EXCEPT ![r] = IF @ = "none" THEN handler[r].result ELSE @]
  BY DEF Reply
<1>2. /\ outcome'[r] = IF outcome[r] = "none" THEN handler[r].result ELSE outcome[r]
      /\ \A q \in Requests \ {r} : outcome'[q] = outcome[q]
  BY <1>0, <1>1 DEF TypeOK
<1>3. CASE outcome'[r] = outcome[r] \/ v \notin Verdicts
  <2>1. "none" \notin Verdicts
    BY DEF Verdicts
  <2>2. \A q \in Requests : outcome[q] \in Verdicts \/ outcome'[q] \in Verdicts =>
                              outcome'[q] = outcome[q] /\ request'[q] = request[q]
    BY <1>1, <1>2, <1>3, <2>1
  <2>3. \A j \in Ids : Given(j)' = Given(j)
    BY <2>2, GivenFramed
  <2> QED
    BY <1>1, <2>3, DeviceStutters
<1>4. CASE outcome[r] = "none" /\ outcome'[r] = v /\ v \in Verdicts
  <2>1. i \in Ids /\ file.processed[i].status = v
    BY <1>1, <1>4 DEF IInv, AnswerInv, OnRecord
  <2>2. "none" \notin Verdicts
    BY DEF Verdicts
  <2>3. ASSUME NEW j \in Ids PROVE Given(j)' = IF j = i THEN Given(j) \cup {v} ELSE Given(j)
    <3>1. \A w : w \in Given(j) <=> w \in Verdicts /\ \E q \in Requests : request[q].id = j /\ outcome[q] = w
      BY DEF Given
    <3>2. \A w : w \in Given(j)' <=> w \in Verdicts /\ \E q \in Requests : request[q].id = j /\ outcome'[q] = w
      BY <1>1 DEF Given
    <3>3. \A w : w \in Given(j)' <=> w \in Given(j) \/ (j = i /\ w = v)
      BY <1>2, <1>4, <2>2, <3>1, <3>2
    <3> QED
      BY <3>3
  <2>4. ToldGiven /\ ToldGiven'
    BY ToldIsGiven, PTL
  <2>5. [j \in Ids |-> toldFor(j)]' = [[j \in Ids |-> toldFor(j)] EXCEPT ![i] = @ \cup {v}]
    BY <2>1, <2>3, <2>4 DEF ToldGiven
  <2>6. v # "none"
    BY <1>4, <2>2
  <2>7. Device!Tell(i)
    BY <1>1, <2>1, <2>5, <2>6 DEF Device!Tell
  <2> QED
    BY <2>1, <2>7 DEF DeviceStep, Device!Next
<1> QED
  BY <1>2, <1>3, <1>4

\* Every step of the simulator is one of the device's, or none.
LEMMA NextDevice == IInv /\ IInv' /\ [Next]_vars => [Device!Next]_Device!vars
<1> SUFFICES ASSUME IInv, IInv', [Next]_vars PROVE DeviceStep
  BY DEF DeviceStep
<1>1. ASSUME file' = file, \A i \in Ids : Given(i)' = Given(i) PROVE DeviceStep
  BY <1>1, DeviceStutters
<1>2. ASSUME file' = file, outcome' = outcome, request' = request PROVE DeviceStep
  <2>1. \A i \in Ids : Given(i)' = Given(i)
    BY <1>2, GivenFramed
  <2> QED
    BY <1>2, <2>1, DeviceStutters
<1>3. CASE UNCHANGED vars
  BY <1>2, <1>3 DEF vars
<1>4. CASE Crash
  BY <1>1, <1>4, CutOffGives DEF Crash
<1>5. CASE Open \/ Tick \/ RestartSession \/ TimePasses \/ \E f \in FaultNames : SetFault(f)
  BY <1>5, OpenQuiet, TickQuiet, RestartQuiet, TimeQuiet, SetFaultQuiet, QuietDevice
<1>6. ASSUME NEW r \in Requests, NEW i \in Ids, NEW b \in Bodies, Execute(r, i, b) PROVE DeviceStep
  <2>1. outcome[r] = "none" /\ "none" \notin Verdicts
    BY <1>6 DEF IInv, AnswerInv, Execute, Verdicts
  <2>2. outcome' = outcome /\ file' = file /\ \A q \in Requests \ {r} : request'[q] = request[q]
    BY <1>6 DEF Execute, IInv, TypeOK
  <2>3. \A j \in Ids : Given(j)' = Given(j)
    BY <2>1, <2>2, GivenFramed
  <2> QED
    BY <1>1, <2>2, <2>3
<1>7. ASSUME NEW r \in Requests, ExecuteTimesOut(r) PROVE DeviceStep
  <2>1. outcome[r] = "none" /\ {"none", "unknown"} \cap Verdicts = {}
    BY <1>7 DEF ExecuteTimesOut, Verdicts
  <2>2. /\ outcome'[r] = "unknown" /\ file' = file /\ request' = request
        /\ \A q \in Requests \ {r} : outcome'[q] = outcome[q]
    BY <1>7 DEF ExecuteTimesOut, IInv, TypeOK
  <2>3. \A j \in Ids : Given(j)' = Given(j)
    BY <2>1, <2>2, GivenFramed
  <2> QED
    BY <1>1, <2>2, <2>3
<1>8. ASSUME NEW r \in Requests, ApplyProcessed(r) \/ ResponseBehavior(r) PROVE DeviceStep
  BY <1>2, <1>8 DEF ApplyProcessed, ResponseBehavior
<1>9. ASSUME NEW r \in Requests, ApplyCommand(r) PROVE DeviceStep
  <2>1. request' = request
    BY <1>9, ApplyCommandSteps
  <2>2. CASE Decision(r) /\ outcome' = outcome
    <3>1. \A j \in Ids : Given(j)' = Given(j)
      BY <2>1, <2>2, GivenFramed
    <3> QED
      BY <2>2, <3>1, DecisionDevice
  <2>3. CASE Decision(r) /\ CallersCutOff
    BY <2>3, CutOffGives, DecisionDevice
  <2>4. CASE file' = file /\ outcome' = outcome
    BY <1>2, <2>1, <2>4
  <2> QED
    BY <1>9, <2>2, <2>3, <2>4, ApplyCommandSteps
<1>10. ASSUME NEW r \in Requests, Reply(r) PROVE DeviceStep
  BY <1>10, ReplyDevice
<1> QED
  BY <1>3, <1>4, <1>5, <1>6, <1>7, <1>8, <1>9, <1>10 DEF Next, Handle

\* The engine behind its socket is the device the command queue retries on: every commandId is
\* decided once, with its effect on the revision, and every answer repeats that verdict, for any
\* number of requests, timeouts, crashes and failed writes (ApplyCommand, handleCommands, Execute).
THEOREM SimImplementsDevice == Spec => ImplementsDevice
<1>1. Init => Device!Init
  <2> SUFFICES ASSUME Init PROVE Device!Init
    OBVIOUS
  <2>1. file.processed = [i \in Ids |-> NotProcessed] /\ file.revision = 1
    BY InitSound DEF Init
  <2>2. \A i \in Ids : toldFor(i) = {}
    BY DEF Init, toldFor
  <2> QED
    BY <2>1, <2>2 DEF Device!Init, NotProcessed
<1> QED
  BY <1>1, InvAlways, NextDevice, PTL DEF Spec, ImplementsDevice, Device!Spec
=============================================================================
