-------------------------- MODULE PointFeedProofs --------------------------
(***************************************************************************)
(* Proofs about PointFeed, for any points, values, queue size and number   *)
(* of commands and events: the page follows the point store, a lost PLC is *)
(* shown as lost, every command is answered exactly once, what the page    *)
(* takes as confirmed the worker confirmed and the page had shown, and the *)
(* alarm history alternates and agrees with the store.                     *)
(***************************************************************************)
EXTENDS PointFeed, TLAPS, FiniteSetTheorems, SequenceTheorems, WellFoundedInduction

PointValue == [value : Values \cup {"nil"}, quality : {"none", "good", "stale"}]
AllValues == [Points -> PointValue]

\* A message carries values of the points it names; a snapshot names them all.
Carried == UNION {[S -> PointValue] : S \in SUBSET Points}
Messages ==
    {m \in [type : {"state", "snapshot", "changed", "result"}, values : Carried, id : Nat, ok : BOOLEAN] :
        m.type = "snapshot" => m.values \in AllValues}

Commands == [id : Nat, value : Values]
Workers ==
    [pc : {"none", "scan", "update", "send", "scanned", "idle"}, why : {"poll", "initial", "confirm"},
     last : AllValues, lost : BOOLEAN, note : {"none", "lost", "recovered"}, flag : BOOLEAN,
     changed : SUBSET Points, err : BOOLEAN, cmd : Nat, commands : Seq(Commands)]
Sessions ==
    [current : BOOLEAN, attached : BOOLEAN, plcState : {"disconnected", "connecting", "connected", "error"},
     broadcasts : BOOLEAN, alarms : [Alarms -> {"unknown", "active", "normal"}]]
Handlers == [pc : {"idle", "connecting", "snapshot", "stopping", "gone"}, values : AllValues]
Pages == [values : AllValues, pending : Nat, shown : SUBSET PointValue, confirmed : SUBSET Nat]
Ghosts ==
    [unsent : SUBSET Points, missed : BOOLEAN, swallowed : SUBSET Points, dropped : BOOLEAN,
     succeeded : SUBSET Nat, answered : SUBSET Nat]

\* The state apart from the alarm history.
TypeOK ==
    /\ plc \in [Points -> Values]
    /\ worker \in Workers
    /\ store \in AllValues
    /\ sess \in Sessions
    /\ finish \in {"none", "waiting", "readyOk", "readyErr"}
    /\ handler \in Handlers
    /\ replies \in SUBSET Messages
    /\ queue \in Seq(Messages)
    /\ closed \in BOOLEAN
    /\ page \in Pages
    /\ used \in [commands : Nat, events : Nat]
    /\ ghost \in Ghosts

-----------------------------------------------------------------------------
(* The way of a command. *)

Waits(id) == \E i \in DOMAIN worker.commands : worker.commands[i].id = id
InHand(id) == worker.cmd = id
Replied(id) == \E m \in replies : m.id = id
Queued(id) == \E i \in DOMAIN queue : queue[i].id = id
Answered(id) == id \in ghost.answered

\* A command is in at least one place, and not in two.
OnePlace(id) ==
    /\ Waits(id) \/ InHand(id) \/ Replied(id) \/ Queued(id) \/ Answered(id)
    /\ Waits(id) => ~InHand(id) /\ ~Replied(id) /\ ~Queued(id) /\ ~Answered(id)
    /\ InHand(id) => ~Replied(id) /\ ~Queued(id) /\ ~Answered(id)
    /\ Replied(id) => ~Queued(id) /\ ~Answered(id)
    /\ Queued(id) => ~Answered(id)

\* The worker has a command in hand exactly during its confirming scan.
HandInv ==
    /\ worker.cmd # 0 <=> worker.why = "confirm"
    /\ worker.pc \in {"none", "idle"} => worker.cmd = 0

\* Results have the number of a command that was sent, other messages none.
NumberInv ==
    /\ \A i \in DOMAIN worker.commands : worker.commands[i].id \in 1..used.commands
    /\ \A m \in replies : m.type = "result" /\ m.id \in 1..used.commands
    /\ \A i \in DOMAIN queue : IF queue[i].type = "result" THEN queue[i].id \in 1..used.commands
                               ELSE queue[i].id = 0
    /\ worker.cmd \in 0..used.commands
    /\ page.pending \in 0..used.commands
    /\ ghost.answered \subseteq 1..used.commands

\* No place holds a command twice.
OnceInv ==
    /\ \A i, j \in DOMAIN worker.commands : worker.commands[i].id = worker.commands[j].id => i = j
    /\ \A m, n \in replies : m.id = n.id => m = n
    /\ \A i, j \in DOMAIN queue : queue[i].id = queue[j].id /\ queue[i].id # 0 => i = j

PlaceInv == \A id \in 1..used.commands : OnePlace(id)

\* Results that say the command was done say it of a command the worker confirmed.
ConfirmInv ==
    /\ \A m \in replies : m.ok => m.id \in ghost.succeeded
    /\ \A i \in DOMAIN queue : queue[i].type = "result" /\ queue[i].ok => queue[i].id \in ghost.succeeded

-----------------------------------------------------------------------------
(* The way of a value. *)

Carries(m, p) == m.type \in {"snapshot", "changed"} /\ p \in DOMAIN m.values

\* Once the messages q have arrived, a page that shows the values s shows v at p.
Ends(q, s, p, v) ==
    \/ \E i \in DOMAIN q : /\ Carries(q[i], p)
                           /\ q[i].values[p] = v
                           /\ \A j \in DOMAIN q : j > i => ~Carries(q[j], p)
    \/ (\A i \in DOMAIN q : ~Carries(q[i], p)) /\ s[p] = v

\* The change of the point is stored and about to be broadcast.
AboutToSend(p) == worker.pc = "send" /\ worker.flag /\ p \in worker.changed

\* The page will come to show what the store holds, or it is about to be told; a
\* cleared store is told of with the snapshot that begins the broadcasts.
FollowInv ==
    \A p \in Points \ ghost.unsent :
        \/ AboutToSend(p)
        \/ Ends(queue, page.values, p, store[p])
        \/ ~sess.broadcasts /\ store[p] = Absent

\* What the last scan read is stored, unless a value was refused.
StoredInv ==
    /\ sess.broadcasts => sess.attached
    /\ sess.attached /\ worker.pc \in {"send", "scanned", "idle"}
       /\ (\A p \in Points : worker.last[p].value # Invalid) => store = worker.last
    /\ worker.lost => \A p \in Points : worker.last[p].quality = "stale"

\* A confirming scan that went through has its feedback stored ...
FeedbackInv ==
    /\ worker.pc \in {"update", "send", "scanned"} => worker.last[Written].quality # "none"
    /\ ~ghost.missed => Written \notin ghost.unsent
    /\ ~ghost.missed /\ worker.pc \in {"send", "scanned"} /\ worker.cmd # 0 /\ worker.cmd = page.pending
       /\ ~worker.err => store[Written] = worker.last[Written]

\* The page has shown v at the written point since it sent its command, or will
\* have when the first n messages have arrived.
Seen(v, n) ==
    \/ v \in page.shown
    \/ \E i \in DOMAIN queue : i <= n /\ Carries(queue[i], Written) /\ queue[i].values[Written] = v

\* ... and its result is behind the change it reports.
ShownInv ==
    page.pending # 0 =>
        /\ page.values[Written] \in page.shown
        /\ ~ghost.missed =>
            /\ \A m \in replies : m.ok /\ m.id = page.pending => Seen(m.values[Written], Len(queue))
            /\ \A i \in DOMAIN queue : queue[i].type = "result" /\ queue[i].ok /\ queue[i].id = page.pending
                                       => Seen(queue[i].values[Written], i)

\* What holds while the connection lasts.
OpenInv ==
    /\ handler.pc # "stopping"
    /\ HandInv /\ NumberInv /\ OnceInv /\ PlaceInv /\ ConfirmInv
    /\ FollowInv /\ StoredInv /\ FeedbackInv /\ ShownInv

-----------------------------------------------------------------------------
(* The alarm history. *)

Records == [point : Alarms, kind : {"RAISED", "CLEARED"}]
Alternates(p) == \A i \in PlacesOf(p) : history[i].kind = IF RaisedBefore(p, i) THEN "CLEARED" ELSE "RAISED"

\* What the session knows of an alarm is what the history says of it, and what the
\* store holds unless the change is about to be recorded or was swallowed.
RecordInv ==
    /\ history \in Seq(Records)
    /\ ~ghost.dropped => \A p \in Alarms : Alternates(p) /\ (LastIsRaised(p) <=> sess.alarms[p] = "active")
    /\ sess.current =>
        \A p \in Alarms \ ghost.swallowed :
            store[p].quality = "good" =>
                \/ worker.pc = "send" /\ p \in worker.changed
                \/ alarmActive(store[p]) <=> sess.alarms[p] = "active"

IInv ==
    /\ TypeOK
    /\ ConfirmedByWorker
    /\ ~closed => OpenInv

-----------------------------------------------------------------------------
(* Messages and the queue. *)

\* The fields of a message.
LEMMA MessageFields ==
    ASSUME NEW m \in Messages
    PROVE  /\ m.type \in {"state", "snapshot", "changed", "result"} /\ m.id \in Nat /\ m.ok \in BOOLEAN
           /\ \A p \in DOMAIN m.values : p \in Points /\ m.values[p] \in PointValue
           /\ m.type = "snapshot" => m.values \in AllValues
<1>1. \A vs \in Carried : \A p \in DOMAIN vs : p \in Points /\ vs[p] \in PointValue
  BY DEF Carried
<1> QED
  BY <1>1 DEF Messages

\* The messages the agent sends carry values of points.
LEMMA MessageTypes ==
    /\ NoValues \in AllValues
    /\ State \in Messages
    /\ \A vs \in AllValues : Snapshot(vs) \in Messages
    /\ \A S \in SUBSET Points : \A vs \in [S -> PointValue] : Message("changed", vs, 0, TRUE) \in Messages
    /\ \A vs \in AllValues, id \in Nat, ok \in BOOLEAN : Result(id, ok, vs) \in Messages
<1>1. NoValues \in AllValues
  BY DEF NoValues, AllValues, Absent, PointValue
<1>2. /\ AllValues \subseteq Carried
      /\ \A S \in SUBSET Points : [S -> PointValue] \subseteq Carried
  BY DEF AllValues, Carried
<1> QED
  BY <1>1, <1>2 DEF State, Snapshot, Message, Result, Messages

\* enqueue: either the messages are appended or the client is closed.
LEMMA EnqueueFacts ==
    ASSUME NEW ms \in Seq(Messages), queue \in Seq(Messages), closed \in BOOLEAN, enqueue(ms)
    PROVE  /\ queue' \in Seq(Messages)
           /\ closed' \in BOOLEAN
           /\ closed => closed'
           /\ ~closed' => ~closed /\ queue' = queue \o ms
<1>1. CASE closed
  <2>1. queue' = queue /\ closed' = closed
    BY <1>1, Zenon DEF enqueue
  <2> QED
    BY <1>1, <2>1
<1>2. CASE ~closed
  <2>1. (queue' = <<>> /\ closed' = TRUE) \/ (queue' = queue \o ms /\ closed' = closed)
    BY <1>2, Zenon DEF enqueue
  <2>2. <<>> \in Seq(Messages) /\ queue \o ms \in Seq(Messages)
    OBVIOUS
  <2>3. CASE queue' = <<>> /\ closed' = TRUE
    BY <1>2, <2>2, <2>3
  <2>4. CASE queue' = queue \o ms /\ closed' = closed
    BY <1>2, <2>2, <2>4
  <2> QED
    BY <2>1, <2>3, <2>4
<1> QED
  BY <1>1, <1>2

-----------------------------------------------------------------------------
(* Types. *)

\* The records' fields have their types.
LEMMA TypeFacts ==
    ASSUME TypeOK
    PROVE  /\ worker.last \in AllValues /\ worker.changed \in SUBSET Points /\ worker.cmd \in Nat
           /\ worker.commands \in Seq(Commands) /\ worker.lost \in BOOLEAN
           /\ worker.flag \in BOOLEAN /\ worker.err \in BOOLEAN
           /\ page.values \in AllValues /\ page.pending \in Nat /\ page.shown \in SUBSET PointValue
           /\ page.confirmed \in SUBSET Nat
           /\ used.commands \in Nat /\ handler.values \in AllValues
           /\ ghost.unsent \in SUBSET Points /\ ghost.succeeded \in SUBSET Nat /\ ghost.answered \in SUBSET Nat
           /\ ghost.missed \in BOOLEAN
           /\ \A i \in DOMAIN queue : queue[i] \in Messages
           /\ \A i \in DOMAIN worker.commands : worker.commands[i] \in Commands
           /\ DOMAIN queue = 1..Len(queue) /\ Len(queue) \in Nat
           /\ DOMAIN worker.commands = 1..Len(worker.commands) /\ Len(worker.commands) \in Nat
  BY DEF TypeOK, Workers, Pages, Handlers, Ghosts

\* The initial state has the types.
LEMMA TypeInit == Init => TypeOK
<1> SUFFICES ASSUME Init PROVE TypeOK
  OBVIOUS
<1>1. plc \in [Points -> Values]
  BY FeedAssumption DEF Init
<1>2. worker \in Workers
  BY MessageTypes DEF Init, NoWorker, Workers
<1>3. store \in AllValues /\ handler \in Handlers
  BY MessageTypes DEF Init, Handlers
<1>4. sess \in Sessions /\ finish \in {"none", "waiting", "readyOk", "readyErr"}
  BY DEF Init, Sessions
<1>5. replies \in SUBSET Messages /\ queue \in Seq(Messages) /\ closed \in BOOLEAN
  <2>1. <<>> \in Seq(Messages)
    OBVIOUS
  <2>2. replies = {} /\ queue = <<>> /\ closed = FALSE
    BY Zenon DEF Init
  <2> QED
    BY <2>1, <2>2
<1>6. page \in Pages /\ used \in [commands : Nat, events : Nat] /\ ghost \in Ghosts
  BY MessageTypes DEF Init, Pages, Ghosts
<1> QED
  BY <1>1, <1>2, <1>3, <1>4, <1>5, <1>6 DEF TypeOK

\* Sending keeps the type of the queue.
LEMMA EnqueueTypes ==
    ASSUME TypeOK, NEW ms \in Seq(Messages), enqueue(ms) \/ UNCHANGED <<queue, closed>>
    PROVE  queue' \in Seq(Messages) /\ closed' \in BOOLEAN
<1>1. queue \in Seq(Messages) /\ closed \in BOOLEAN
  BY DEF TypeOK
<1>2. CASE enqueue(ms)
  BY <1>1, <1>2, EnqueueFacts
<1> QED
  BY <1>1, <1>2

\* The same for one message.
LEMMA EnqueueOneTypes ==
    ASSUME TypeOK, NEW m \in Messages, enqueue(<<m>>) \/ UNCHANGED <<queue, closed>>
    PROVE  queue' \in Seq(Messages) /\ closed' \in BOOLEAN
<1>1. <<m>> \in Seq(Messages)
  OBVIOUS
<1> QED
  BY <1>1, EnqueueTypes, Zenon

\* A model bound is counted.
LEMMA TypeCountEvent ==
    ASSUME TypeOK, CountEvent
    PROVE  used' \in [commands : Nat, events : Nat] /\ used'.commands = used.commands
<1>1. used \in [commands : Nat, events : Nat] /\ used' = [used EXCEPT !.events = @ + 1]
  BY DEF TypeOK, CountEvent
<1>2. \A u \in [commands : Nat, events : Nat] :
         LET w == [u EXCEPT !.events = @ + 1] IN w \in [commands : Nat, events : Nat] /\ w.commands = u.commands
  OBVIOUS
<1> QED
  BY <1>1, <1>2

\* The answers of a stopping worker.
LEMMA TypeRejected ==
    ASSUME TypeOK
    PROVE  Rejected \in SUBSET Messages
<1>1. \A i \in DOMAIN worker.commands : worker.commands[i].id \in Nat
  BY TypeFacts DEF Commands
<1> QED
  BY <1>1, MessageTypes DEF Rejected

\* A scan keeps the types.
LEMMA TypeScanned ==
    ASSUME TypeOK, NEW vs \in AllValues, NEW lost \in BOOLEAN, Scanned(vs, lost)
    PROVE  worker' \in Workers /\ ghost' \in Ghosts
  BY DEF TypeOK, Scanned, Workers, Sessions, Ghosts

\* Every step keeps the types.
LEMMA TypeStep == TypeOK /\ [Next]_vars => TypeOK'
<1> SUFFICES ASSUME TypeOK, [Next]_vars PROVE TypeOK'
  OBVIOUS
<1>1. ASSUME NEW m \in Moves, PlcMoves(m[1], m[2]) PROVE TypeOK'
  <2>1. m[1] \in Points /\ m[2] \in Values
    BY FeedAssumption
  <2>2. plc' \in [Points -> Values] /\ used' \in [commands : Nat, events : Nat]
    BY <1>1, <2>1, TypeCountEvent DEF PlcMoves, TypeOK
  <2> QED
    BY <1>1, <2>2 DEF PlcMoves, TypeOK
<1>2. CASE ScanOk
  <2>1. [p \in Points |-> [value |-> plc[p], quality |-> "good"]] \in AllValues
    BY DEF TypeOK, AllValues, PointValue
  <2>2. worker' \in Workers /\ ghost' \in Ghosts
    BY <1>2, <2>1, TypeScanned DEF ScanOk
  <2> QED
    BY <1>2, <2>2 DEF ScanOk, TypeOK
<1>3. CASE ScanLost
  <2>1. [p \in Points |-> [worker.last[p] EXCEPT !.quality = "stale"]] \in AllValues
    <3>1. \A r \in PointValue : [r EXCEPT !.quality = "stale"] \in PointValue
      BY DEF PointValue
    <3> QED
      BY <3>1, TypeFacts DEF AllValues
  <2>2. worker' \in Workers /\ ghost' \in Ghosts
    BY <1>3, <2>1, TypeScanned DEF ScanLost
  <2>3. used' \in [commands : Nat, events : Nat]
    BY <1>3, TypeCountEvent DEF ScanLost
  <2> QED
    BY <1>3, <2>2, <2>3 DEF ScanLost, TypeOK
<1>4. CASE StoreUpdate
  <2>1. store' \in AllValues
    BY <1>4, TypeFacts DEF StoreUpdate, TypeOK, AllValues
  <2>2. worker' \in Workers
    <3>1. \A w \in Workers, pc \in {"scanned", "send"}, S \in SUBSET Points :
             /\ [w EXCEPT !.pc = pc, !.changed = S] \in Workers
             /\ [w EXCEPT !.pc = "scanned", !.err = TRUE] \in Workers
      BY DEF Workers
    <3>2. \/ \E S \in SUBSET Points : worker' = [worker EXCEPT !.pc = IF S = {} THEN "scanned" ELSE "send", !.changed = S]
          \/ worker' = [worker EXCEPT !.pc = "scanned", !.err = TRUE]
      BY <1>4 DEF StoreUpdate
    <3> QED
      <4>1. worker \in Workers
        BY DEF TypeOK
      <4>2. CASE \E S \in SUBSET Points : worker' = [worker EXCEPT !.pc = IF S = {} THEN "scanned" ELSE "send", !.changed = S]
        <5>1. PICK S \in SUBSET Points : worker' = [worker EXCEPT !.pc = IF S = {} THEN "scanned" ELSE "send", !.changed = S]
          BY <4>2
        <5>2. (IF S = {} THEN "scanned" ELSE "send") \in {"scanned", "send"}
          OBVIOUS
        <5> QED
          BY <3>1, <4>1, <5>1, <5>2, Zenon
      <4>3. CASE worker' = [worker EXCEPT !.pc = "scanned", !.err = TRUE]
        BY <3>1, <4>1, <4>3
      <4> QED
        BY <3>2, <4>2, <4>3
  <2>3. ghost' \in Ghosts
    <3>1. \A S \in SUBSET Points : Unsent(S) \in Ghosts
      BY FeedAssumption DEF Unsent, TypeOK, Ghosts
    <3>2. \A S, D \in SUBSET Points : [Unsent(S) EXCEPT !.swallowed = @ \cup D] \in Ghosts
      <4>1. \A g \in Ghosts, D \in SUBSET Points : [g EXCEPT !.swallowed = @ \cup D] \in Ghosts
        BY DEF Ghosts
      <4> QED
        BY <3>1, <4>1
    <3>3. ghost \in Ghosts /\ ghost.unsent \in SUBSET Points
      BY DEF TypeOK, Ghosts
    <3>4. \/ ghost' = ghost
          \/ \E D \in SUBSET Points : ghost' = Unsent(ghost.unsent \cup D)
          \/ \E D \in SUBSET Points : ghost' = [Unsent(ghost.unsent \cup D) EXCEPT !.swallowed = @ \cup D]
      BY <1>4 DEF StoreUpdate
    <3>5. \A D \in SUBSET Points : ghost.unsent \cup D \in SUBSET Points
      BY <3>3
    <3>6. CASE \E D \in SUBSET Points : ghost' = Unsent(ghost.unsent \cup D)
      BY <3>1, <3>5, <3>6, Zenon
    <3>7. CASE \E D \in SUBSET Points : ghost' = [Unsent(ghost.unsent \cup D) EXCEPT !.swallowed = @ \cup D]
      <4>1. PICK D \in SUBSET Points : ghost' = [Unsent(ghost.unsent \cup D) EXCEPT !.swallowed = @ \cup D]
        BY <3>7
      <4> DEFINE S == ghost.unsent \cup D
      <4>2. S \in SUBSET Points
        BY <3>5
      <4> HIDE DEF S
      <4>3. [Unsent(S) EXCEPT !.swallowed = @ \cup D] \in Ghosts
        BY <3>2, <4>2
      <4> QED
        BY <4>1, <4>3 DEF S
    <3> QED
      BY <3>3, <3>4, <3>6, <3>7
  <2> QED
    BY <1>4, <2>1, <2>2, <2>3 DEF StoreUpdate, TypeOK
<1>5. CASE ApplyValues
  <2> DEFINE m == Message("changed", [p \in worker.changed |-> store[p]], 0, TRUE)
  <2>1. m \in Messages
    <3>1. [p \in worker.changed |-> store[p]] \in [worker.changed -> PointValue]
      BY TypeFacts DEF TypeOK, AllValues
    <3> QED
      BY <3>1, TypeFacts, MessageTypes
  <2> HIDE DEF m
  <2>2. queue' \in Seq(Messages) /\ closed' \in BOOLEAN
    <3>1. enqueue(<<m>>) \/ UNCHANGED <<queue, closed>>
      BY <1>5, Zenon DEF ApplyValues, m
    <3> QED
      BY <2>1, <3>1, EnqueueOneTypes, Zenon
  <2>3. sess' \in Sessions /\ ghost' \in Ghosts
    <3>1. CASE RecordAlarmChanges
      <4>1. sess' \in Sessions
        BY <3>1 DEF RecordAlarmChanges, TypeOK, Sessions
      <4>2. ghost' \in Ghosts
        <5>1. PICK kept \in SUBSET Transitions :
                 ghost' = [ghost EXCEPT !.unsent = IF worker.flag THEN @ \ worker.changed ELSE @,
                                        !.swallowed = @ \ worker.changed,
                                        !.dropped = @ \/ kept # Transitions]
          BY <3>1 DEF RecordAlarmChanges, AppendRecords
        <5>2. \A g \in Ghosts, S \in SUBSET Points, d \in BOOLEAN :
                 [g EXCEPT !.unsent = S, !.swallowed = @ \ worker.changed, !.dropped = d] \in Ghosts
          BY DEF Ghosts
        <5>3. /\ ghost \in Ghosts
              /\ (IF worker.flag THEN ghost.unsent \ worker.changed ELSE ghost.unsent) \in SUBSET Points
              /\ (ghost.dropped \/ kept # Transitions) \in BOOLEAN
          BY TypeFacts DEF TypeOK
        <5> QED
          BY <5>1, <5>2, <5>3
      <4> QED
        BY <4>1, <4>2
    <3> QED
      BY <1>5, <3>1 DEF ApplyValues, TypeOK
  <2>4. worker' \in Workers
    BY <1>5 DEF ApplyValues, TypeOK, Workers
  <2> QED
    BY <1>5, <2>2, <2>3, <2>4 DEF ApplyValues, TypeOK
<1>6. CASE AfterScan
  <2>1. queue' \in Seq(Messages) /\ closed' \in BOOLEAN
    <3>1. enqueue(<<State>>) \/ UNCHANGED <<queue, closed>>
      BY <1>6, Zenon DEF AfterScan
    <3> QED
      BY <3>1, MessageTypes, EnqueueOneTypes, Zenon
  <2>2. sess' \in Sessions /\ finish' \in {"none", "waiting", "readyOk", "readyErr"}
    BY <1>6 DEF AfterScan, TypeOK, Sessions
  <2>3. replies' \in SUBSET Messages
    <3>1. Result(worker.cmd, ~(worker.err \/ worker.lost), worker.last) \in Messages
      BY TypeFacts, MessageTypes
    <3> QED
      BY <1>6, <3>1 DEF AfterScan, TypeOK
  <2>4. ghost' \in Ghosts
    BY <1>6, TypeFacts DEF AfterScan, TypeOK, Ghosts
  <2>5. worker' \in Workers
    BY <1>6 DEF AfterScan, TypeOK, Workers
  <2> QED
    BY <1>6, <2>1, <2>2, <2>3, <2>4, <2>5 DEF AfterScan, TypeOK
<1>7. CASE Execute
  <2>1. Head(worker.commands) \in Commands /\ Tail(worker.commands) \in Seq(Commands)
    BY <1>7, TypeFacts DEF Execute
  <2>2. plc' \in [Points -> Values]
    BY <1>7, <2>1 DEF Execute, TypeOK, Commands
  <2>3. worker' \in Workers
    BY <1>7, <2>1 DEF Execute, TypeOK, Workers, Commands
  <2> QED
    BY <1>7, <2>2, <2>3 DEF Execute, TypeOK
<1>8. CASE ConnectDetach
  <2>1. handler' \in Handlers /\ sess' \in Sessions
    BY <1>8 DEF ConnectDetach, TypeOK, Handlers, Sessions
  <2>2. used' \in [commands : Nat, events : Nat]
    BY <1>8, TypeCountEvent DEF ConnectDetach
  <2> QED
    BY <1>8, <2>1, <2>2 DEF ConnectDetach, TypeOK
<1>9. CASE ConnectAttach
  <2>1. replies' \in SUBSET Messages
    BY <1>9, TypeRejected DEF ConnectAttach, TypeOK
  <2>2. queue' \in Seq(Messages) /\ closed' \in BOOLEAN
    BY <1>9, MessageTypes, EnqueueOneTypes, Zenon DEF ConnectAttach
  <2>3. worker' \in Workers
    <3>1. <<>> \in Seq(Commands) /\ NoValues \in AllValues
      BY MessageTypes
    <3> QED
      BY <1>9, <3>1 DEF ConnectAttach, NoWorker, Workers
  <2>4. sess' \in Sessions /\ handler' \in Handlers
    BY <1>9 DEF ConnectAttach, TypeOK, Sessions, Handlers
  <2> QED
    BY <1>9, <2>1, <2>2, <2>3, <2>4, MessageTypes DEF ConnectAttach, TypeOK
<1>10. CASE FinishPLCConnect
  <2>1. queue' \in Seq(Messages) /\ closed' \in BOOLEAN
    <3>1. Snapshot(store) \in Messages
      BY MessageTypes DEF TypeOK
    <3>2. /\ <<>> \o <<State, Snapshot(store)>> \in Seq(Messages)
          /\ <<State>> \o <<State, Snapshot(store)>> \in Seq(Messages)
      BY <3>1, MessageTypes
    <3>3. \/ enqueue(<<>> \o <<State, Snapshot(store)>>)
          \/ enqueue(<<State>> \o <<State, Snapshot(store)>>)
          \/ UNCHANGED <<queue, closed>>
      BY <1>10, Zenon DEF FinishPLCConnect
    <3> QED
      BY <3>2, <3>3, EnqueueTypes
  <2>2. sess' \in Sessions
    BY <1>10 DEF FinishPLCConnect, TypeOK, Sessions
  <2>3. ghost' \in Ghosts
    BY <1>10 DEF FinishPLCConnect, TypeOK, Ghosts
  <2> QED
    BY <1>10, <2>1, <2>2, <2>3 DEF FinishPLCConnect, TypeOK
<1>11. CASE SnapshotGet
  BY <1>11, TypeCountEvent DEF SnapshotGet, TypeOK, Handlers
<1>12. CASE SnapshotSend
  <2>1. queue' \in Seq(Messages) /\ closed' \in BOOLEAN
    <3>1. Snapshot(handler.values) \in Messages
      BY TypeFacts, MessageTypes
    <3> QED
      BY <1>12, <3>1, EnqueueOneTypes, Zenon DEF SnapshotSend
  <2>2. ghost' \in Ghosts
    BY <1>12 DEF SnapshotSend, Unsent, TypeOK, Ghosts
  <2> QED
    BY <1>12, <2>1, <2>2, MessageTypes DEF SnapshotSend, TypeOK, Handlers
<1>13. ASSUME NEW v \in CommandValues, PointCommand(v) PROVE TypeOK'
  <2>1. used.commands + 1 \in Nat /\ v \in Values
    BY TypeFacts, FeedAssumption
  <2>2. queue' \in Seq(Messages) /\ closed' \in BOOLEAN
    <3>1. Result(used.commands + 1, FALSE, NoValues) \in Messages
      BY <2>1, MessageTypes
    <3>2. enqueue(<<Result(used.commands + 1, FALSE, NoValues)>>) \/ UNCHANGED <<queue, closed>>
      BY <1>13, Zenon DEF PointCommand
    <3> QED
      BY <3>1, <3>2, EnqueueOneTypes, Zenon
  <2>3. worker' \in Workers
    <3>1. Append(worker.commands, [id |-> used.commands + 1, value |-> v]) \in Seq(Commands)
      BY <2>1, TypeFacts DEF Commands
    <3> QED
      BY <1>13, <3>1 DEF PointCommand, TypeOK, Workers
  <2>4. page' \in Pages
    <3>1. page.values[Written] \in PointValue
      BY TypeFacts, FeedAssumption DEF AllValues
    <3> QED
      BY <1>13, <2>1, <3>1 DEF PointCommand, TypeOK, Pages
  <2>5. used' \in [commands : Nat, events : Nat] /\ ghost' \in Ghosts
    <3>1. used' \in [commands : Nat, events : Nat]
      BY <1>13 DEF PointCommand, TypeOK
    <3>2. ghost' \in Ghosts
      <4>1. ghost' = [ghost EXCEPT !.missed = Written \in ghost.unsent]
        BY <1>13 DEF PointCommand
      <4>2. (Written \in ghost.unsent) \in BOOLEAN /\ ghost \in Ghosts
        BY DEF TypeOK
      <4>3. \A g \in Ghosts, b \in BOOLEAN : [g EXCEPT !.missed = b] \in Ghosts
        BY DEF Ghosts
      <4> QED
        BY <4>1, <4>2, <4>3
    <3> QED
      BY <3>1, <3>2
  <2> QED
    BY <1>13, <2>2, <2>3, <2>4, <2>5 DEF PointCommand, TypeOK
<1>14. ASSUME NEW r \in replies, SendReply(r) PROVE TypeOK'
  <2>1. queue' \in Seq(Messages) /\ closed' \in BOOLEAN
    <3>1. r \in Messages
      BY DEF TypeOK
    <3> QED
      BY <1>14, <3>1, EnqueueOneTypes, Zenon DEF SendReply
  <2> QED
    BY <1>14, <2>1 DEF SendReply, TypeOK
<1>15. CASE StopDetach
  BY <1>15 DEF StopDetach, TypeOK, Handlers, Sessions
<1>16. CASE StopClear
  <2>1. replies' \in SUBSET Messages
    BY <1>16, TypeRejected DEF StopClear, TypeOK
  <2>2. worker' \in Workers
    BY <1>16, MessageTypes DEF StopClear, NoWorker, Workers
  <2>3. handler' \in Handlers
    BY <1>16 DEF StopClear, TypeOK, Handlers
  <2> QED
    BY <1>16, <2>1, <2>2, <2>3, MessageTypes DEF StopClear, TypeOK
<1>17. CASE ConnectionBreaks
  <2>1. <<>> \in Seq(Messages) /\ TRUE \in BOOLEAN
    OBVIOUS
  <2> QED
    BY <1>17, <2>1 DEF ConnectionBreaks, TypeOK
<1>18. CASE Deliver
  <2>1. Head(queue) \in Messages /\ Tail(queue) \in Seq(Messages)
    BY <1>18 DEF Deliver, TypeOK
  <2>2. page' \in Pages
    <3> DEFINE m == Head(queue)
               values == IF m.type = "snapshot" THEN m.values
                         ELSE [p \in Points |-> IF p \in DOMAIN m.values THEN m.values[p] ELSE page.values[p]]
    <3>1. values \in AllValues
      <4>0. m \in Messages
        BY <2>1
      <4> HIDE DEF m
      <4>1. \A p \in DOMAIN m.values : m.values[p] \in PointValue
        BY <4>0, MessageFields
      <4>2. m.type = "snapshot" => m.values \in AllValues
        BY <4>0, MessageFields
      <4> QED
        BY <4>1, <4>2, TypeFacts DEF AllValues
    <3>2. values[Written] \in PointValue
      BY <3>1, FeedAssumption DEF AllValues
    <3> HIDE DEF values
    <3>3. receive(m) \in Pages
      BY <2>1, MessageTypes DEF receive, TypeOK, Pages
    <3>4. [page EXCEPT !.values = values,
                       !.shown = IF page.pending = 0 THEN @ ELSE @ \cup {values[Written]}] \in Pages
      BY <3>1, <3>2 DEF TypeOK, Pages
    <3> QED
      BY <1>18, <3>3, <3>4 DEF Deliver, Received, values, TypeOK
  <2>3. ghost' \in Ghosts
    BY <1>18, <2>1, MessageFields DEF Deliver, TypeOK, Ghosts
  <2> QED
    BY <1>18, <2>1, <2>2, <2>3 DEF Deliver, TypeOK
<1>19. CASE CommandTimesOut
  BY <1>19 DEF CommandTimesOut, TypeOK, Pages
<1>20. CASE PageCloses
  BY <1>20, MessageTypes DEF PageCloses, TypeOK, Pages
<1>21. CASE UNCHANGED vars
  BY <1>21 DEF vars, TypeOK
<1> QED
  BY <1>1, <1>2, <1>3, <1>4, <1>5, <1>6, <1>7, <1>8, <1>9, <1>10, <1>11, <1>12, <1>13, <1>14, <1>15,
     <1>16, <1>17, <1>18, <1>19, <1>20, <1>21 DEF Next

-----------------------------------------------------------------------------
(* What sending does to the queue. *)

\* No command result, nothing the page shows.
NoResult(ms) == \A i \in DOMAIN ms : ms[i].type # "result" /\ ms[i].id = 0
Silent(ms) == \A i \in DOMAIN ms : ms[i].type \notin {"snapshot", "changed"}

\* The places of a longer queue.
LEMMA Concat ==
    ASSUME NEW q \in Seq(Messages), NEW ms \in Seq(Messages)
    PROVE  LET r == q \o ms
           IN  /\ Len(r) = Len(q) + Len(ms) /\ Len(q) \in Nat /\ Len(ms) \in Nat
               /\ DOMAIN r = 1..Len(r) /\ DOMAIN q = 1..Len(q) /\ DOMAIN ms = 1..Len(ms)
               /\ \A i \in DOMAIN q : i \in DOMAIN r /\ r[i] = q[i]
               /\ \A i \in DOMAIN r : i \notin DOMAIN q => i - Len(q) \in DOMAIN ms /\ r[i] = ms[i - Len(q)] /\ i > Len(q)
               /\ \A i \in DOMAIN ms : Len(q) + i \in DOMAIN r /\ r[Len(q) + i] = ms[i]
  OBVIOUS

\* The messages that announce a state, if any.
LEMMA StateMessages ==
    ASSUME NEW ms, ms \in {<<>>, <<State>>}
    PROVE  ms \in Seq(Messages) /\ NoResult(ms) /\ Silent(ms)
<1>1. State \in Messages /\ State.type = "state" /\ State.id = 0
  BY MessageTypes DEF State, Message
<1>2. CASE ms = <<>>
  BY <1>2 DEF NoResult, Silent
<1>3. CASE ms = <<State>>
  BY <1>1, <1>3 DEF NoResult, Silent
<1> QED
  BY <1>2, <1>3

\* Nothing sent.
LEMMA ConcatNone ==
    ASSUME NEW q \in Seq(Messages)
    PROVE  q \o <<>> = q
  OBVIOUS

\* One message sent.
LEMMA OneMessage ==
    ASSUME NEW m \in Messages
    PROVE  <<m>> \in Seq(Messages) /\ Len(<<m>>) = 1 /\ <<m>>[1] = m /\ DOMAIN <<m>> = {1}
  OBVIOUS

\* What does not carry the point does not change where it ends ...
LEMMA EndsKept ==
    ASSUME NEW q \in Seq(Messages), NEW ms \in Seq(Messages), NEW s, NEW p, NEW v,
           \A i \in DOMAIN ms : ~Carries(ms[i], p),
           Ends(q, s, p, v)
    PROVE  Ends(q \o ms, s, p, v)
<1> DEFINE r == q \o ms
<1>1. /\ Len(q) \in Nat /\ DOMAIN r = 1..Len(r) /\ DOMAIN q = 1..Len(q)
      /\ \A i \in DOMAIN q : i \in DOMAIN r /\ r[i] = q[i]
      /\ \A i \in DOMAIN r : i \notin DOMAIN q => ~Carries(r[i], p)
  BY Concat
<1> HIDE DEF r
<1>2. Ends(r, s, p, v)
  BY <1>1 DEF Ends
<1> QED
  BY <1>2 DEF r

\* ... and what ends with a message that carries it ends there.
LEMMA EndsNew ==
    ASSUME NEW q \in Seq(Messages), NEW ms \in Seq(Messages), NEW s, NEW p, NEW v,
           ms # <<>>, Carries(ms[Len(ms)], p), ms[Len(ms)].values[p] = v
    PROVE  Ends(q \o ms, s, p, v)
<1> DEFINE r == q \o ms
<1>1. /\ Len(r) \in Nat /\ DOMAIN r = 1..Len(r) /\ Len(r) \in DOMAIN r /\ r[Len(r)] = ms[Len(ms)]
  BY Concat
<1> HIDE DEF r
<1>2. Ends(r, s, p, v)
  BY <1>1 DEF Ends
<1> QED
  BY <1>2 DEF r

\* A delivered message is shown, and the others end as before.
LEMMA EndsTail ==
    ASSUME NEW q \in Seq(Messages), NEW s, NEW t, NEW p, NEW v, q # <<>>,
           t[p] = IF Carries(q[1], p) THEN q[1].values[p] ELSE s[p],
           Ends(q, s, p, v)
    PROVE  Ends(Tail(q), t, p, v)
<1> DEFINE r == Tail(q)
<1>1. /\ Len(q) \in Nat /\ DOMAIN r = 1..Len(r) /\ DOMAIN q = 1..Len(q) /\ Len(r) = Len(q) - 1
      /\ \A i \in DOMAIN r : r[i] = q[i + 1]
      /\ \A i \in DOMAIN q : i # 1 => i - 1 \in DOMAIN r /\ r[i - 1] = q[i]
  OBVIOUS
<1> HIDE DEF r
<1>2. CASE \A i \in DOMAIN q : ~Carries(q[i], p)
  <2>1. 1 \in DOMAIN q
    BY <1>1
  <2>2. t[p] = v
    BY <1>2, <2>1 DEF Ends
  <2>3. \A i \in DOMAIN r : ~Carries(r[i], p)
    BY <1>1, <1>2
  <2> QED
    BY <2>2, <2>3 DEF Ends, r
<1>3. CASE \E i \in DOMAIN q : /\ Carries(q[i], p) /\ q[i].values[p] = v
                              /\ \A j \in DOMAIN q : j > i => ~Carries(q[j], p)
  <2>1. PICK i \in DOMAIN q : /\ Carries(q[i], p) /\ q[i].values[p] = v
                             /\ \A j \in DOMAIN q : j > i => ~Carries(q[j], p)
    BY <1>3
  <2>2. CASE i = 1
    <3>1. t[p] = v
      BY <2>1, <2>2
    <3>2. \A j \in DOMAIN r : ~Carries(r[j], p)
      BY <1>1, <2>1, <2>2
    <3> QED
      BY <3>1, <3>2 DEF Ends, r
  <2>3. CASE i # 1
    <3>1. i - 1 \in DOMAIN r /\ Carries(r[i - 1], p) /\ r[i - 1].values[p] = v
      BY <1>1, <2>1, <2>3
    <3>2. \A j \in DOMAIN r : j > i - 1 => ~Carries(r[j], p)
      BY <1>1, <2>1
    <3> QED
      BY <3>1, <3>2 DEF Ends, r
  <2> QED
    BY <2>2, <2>3
<1> QED
  BY <1>2, <1>3 DEF Ends

-----------------------------------------------------------------------------
(* What a step does not disturb. *)

\* The commands, when only other messages are sent.
LEMMA CommandFrame ==
    ASSUME TypeOK, TypeOK', NumberInv, OnceInv, PlaceInv,
           NEW ms \in Seq(Messages), NoResult(ms), queue' = queue \o ms,
           worker'.commands = worker.commands, worker'.cmd = worker.cmd, replies' = replies,
           ghost'.answered = ghost.answered, used'.commands = used.commands,
           page'.pending \in {0, page.pending}
    PROVE  NumberInv' /\ OnceInv' /\ PlaceInv'
<1>1. /\ \A i \in DOMAIN queue : i \in DOMAIN queue' /\ queue'[i] = queue[i]
      /\ \A i \in DOMAIN queue' : i \notin DOMAIN queue => queue'[i].type # "result" /\ queue'[i].id = 0
  <2>1. queue \in Seq(Messages)
    BY DEF TypeOK
  <2> QED
    BY <2>1, Concat DEF NoResult
<1>2. used.commands \in Nat
  BY TypeFacts
<1>3. NumberInv'
  BY <1>1, <1>2 DEF NumberInv
<1>4. OnceInv'
  BY <1>1 DEF OnceInv
<1>5. PlaceInv'
  <2>1. SUFFICES ASSUME NEW id \in 1..used.commands PROVE OnePlace(id)'
    BY DEF PlaceInv
  <2>2. OnePlace(id) /\ id # 0
    BY <1>2 DEF PlaceInv
  <2>3. /\ Waits(id)' <=> Waits(id)
        /\ InHand(id)' <=> InHand(id)
        /\ Replied(id)' <=> Replied(id)
        /\ Answered(id)' <=> Answered(id)
    BY DEF Waits, InHand, Replied, Answered
  <2>4. Queued(id)' <=> Queued(id)
    BY <1>1, <2>2 DEF Queued
  <2> QED
    BY <2>2, <2>3, <2>4 DEF OnePlace
<1> QED
  BY <1>3, <1>4, <1>5

\* What was confirmed, when no answer but a refusal is added.
LEMMA ConfirmFrame ==
    ASSUME TypeOK, TypeOK', ConfirmInv,
           NEW ms \in Seq(Messages), \A i \in DOMAIN ms : ms[i].type = "result" => ~ms[i].ok, queue' = queue \o ms,
           \A m \in replies' : m \in replies \/ ~m.ok,
           ghost.succeeded \subseteq ghost'.succeeded
    PROVE  ConfirmInv'
<1>1. /\ \A i \in DOMAIN queue : i \in DOMAIN queue' /\ queue'[i] = queue[i]
      /\ \A i \in DOMAIN queue' : i \notin DOMAIN queue => (queue'[i].type = "result" => ~queue'[i].ok)
  <2>1. queue \in Seq(Messages)
    BY DEF TypeOK
  <2> QED
    BY <2>1, Concat
<1> QED
  BY <1>1 DEF ConfirmInv

\* Where the values end, when the store stands still and nothing shown is sent.
LEMMA FollowFrame ==
    ASSUME TypeOK, TypeOK', FollowInv,
           NEW ms \in Seq(Messages), Silent(ms), queue' = queue \o ms,
           store' = store, page'.values = page.values, ghost.unsent \subseteq ghost'.unsent,
           sess'.broadcasts => sess.broadcasts,
           \A p \in Points : AboutToSend(p) => AboutToSend(p)'
    PROVE  FollowInv'
<1> SUFFICES ASSUME NEW p \in Points, p \notin ghost'.unsent
             PROVE  \/ AboutToSend(p)'
                    \/ Ends(queue', page'.values, p, store'[p])
                    \/ ~sess'.broadcasts /\ store'[p] = Absent
  BY DEF FollowInv
<1>1. \A i \in DOMAIN ms : ~Carries(ms[i], p)
  BY DEF Silent, Carries
<1>2. Ends(queue, page.values, p, store[p]) => Ends(queue', page'.values, p, store'[p])
  BY <1>1, EndsKept DEF TypeOK
<1> QED
  BY <1>2 DEF FollowInv

\* What was seen, when no result is sent that says done.
LEMMA ShownFrame ==
    ASSUME TypeOK, TypeOK', ShownInv,
           NEW ms \in Seq(Messages), \A i \in DOMAIN ms : ms[i].type = "result" => ~ms[i].ok, queue' = queue \o ms,
           \A m \in replies' : m \in replies \/ ~m.ok,
           page' = page, ghost.missed => ghost'.missed
    PROVE  ShownInv'
<1>1. /\ \A i \in DOMAIN queue : i \in DOMAIN queue' /\ queue'[i] = queue[i]
      /\ \A i \in DOMAIN queue' : i \notin DOMAIN queue => (queue'[i].type = "result" => ~queue'[i].ok)
      /\ Len(queue) \in Nat /\ Len(queue') \in Nat /\ Len(queue) <= Len(queue')
      /\ DOMAIN queue = 1..Len(queue) /\ DOMAIN queue' = 1..Len(queue')
  <2>1. queue \in Seq(Messages)
    BY DEF TypeOK
  <2> QED
    BY <2>1, Concat
<1>2. \A v : Seen(v, Len(queue)) => Seen(v, Len(queue))'
  BY <1>1 DEF Seen
<1>3. \A v : \A i \in DOMAIN queue : Seen(v, i) => Seen(v, i)'
  BY <1>1 DEF Seen
<1> QED
  BY <1>1, <1>2, <1>3 DEF ShownInv

-----------------------------------------------------------------------------
(* The steps, while the connection lasts. *)

\* A message that did not close the client is in the queue.
LEMMA Sent ==
    ASSUME TypeOK, ~closed', NEW m \in Messages, enqueue(<<m>>)
    PROVE  queue' = queue \o <<m>>
<1>1. <<m>> \in Seq(Messages) /\ queue \in Seq(Messages) /\ closed \in BOOLEAN
  BY OneMessage DEF TypeOK
<1> QED
  BY <1>1, EnqueueFacts, Zenon

\* The PLC's program moves, or the page asks for something the queue does not see.
LEMMA QuietStep ==
    ASSUME IInv, TypeOK', ~closed,
           \/ \E m \in Moves : PlcMoves(m[1], m[2])
           \/ SnapshotGet
    PROVE  OpenInv'
<1>1. UNCHANGED <<worker, store, sess, replies, queue, page, ghost>> /\ used'.commands = used.commands
  BY TypeCountEvent DEF PlcMoves, SnapshotGet, IInv
<1>2. handler'.pc # "stopping"
  BY DEF PlcMoves, SnapshotGet, IInv, OpenInv
<1>3. OpenInv
  BY DEF IInv
<1>4. HandInv' /\ NumberInv' /\ OnceInv' /\ PlaceInv'
  BY <1>1, <1>3 DEF OpenInv, HandInv, NumberInv, OnceInv, PlaceInv, OnePlace, Waits, InHand, Replied, Queued, Answered
<1>5. ConfirmInv' /\ FollowInv' /\ StoredInv' /\ FeedbackInv' /\ ShownInv'
  BY <1>1, <1>3 DEF OpenInv, ConfirmInv, FollowInv, AboutToSend, StoredInv, FeedbackInv, ShownInv, Seen
<1> QED
  BY <1>2, <1>4, <1>5 DEF OpenInv

\* A scan ends.
LEMMA ScanStep ==
    ASSUME IInv, TypeOK', ~closed, ScanOk \/ ScanLost
    PROVE  OpenInv'
<1>0. OpenInv /\ TypeOK
  BY DEF IInv
<1>1. PICK vs \in AllValues, lost \in BOOLEAN :
         /\ Scanned(vs, lost)
         /\ \A p \in Points : vs[p].quality = IF lost THEN "stale" ELSE "good"
  <2>1. CASE ScanOk
    <3>1. [p \in Points |-> [value |-> plc[p], quality |-> "good"]] \in AllValues
      BY <1>0 DEF TypeOK, AllValues, PointValue
    <3> QED
      BY <2>1, <3>1 DEF ScanOk
  <2>2. CASE ScanLost
    <3>1. \A r \in PointValue : LET s == [r EXCEPT !.quality = "stale"] IN s \in PointValue /\ s.quality = "stale"
      BY DEF PointValue
    <3>2. \A p \in Points : worker.last[p] \in PointValue
      BY <1>0, TypeFacts DEF AllValues
    <3>3. [p \in Points |-> [worker.last[p] EXCEPT !.quality = "stale"]] \in AllValues
      BY <3>1, <3>2 DEF AllValues
    <3> DEFINE vs == [p \in Points |-> [worker.last[p] EXCEPT !.quality = "stale"]]
    <3>4. \A p \in Points : vs[p].quality = "stale"
      BY <3>1, <3>2
    <3>5. Scanned(vs, TRUE)
      BY <2>2 DEF ScanLost
    <3> HIDE DEF vs
    <3>6. vs \in AllValues
      BY <3>3 DEF vs
    <3> QED
      BY <3>4, <3>5, <3>6
  <2> QED
    BY <2>1, <2>2
<1>2. /\ UNCHANGED <<store, sess, replies, queue, page, handler>>
      /\ used'.commands = used.commands
      /\ worker.pc \in {"scan", "idle"}
  BY <1>0, TypeCountEvent DEF ScanOk, ScanLost, ReadyToScan
<1>3. /\ worker'.pc = IF sess.attached THEN "update" ELSE "scanned"
      /\ worker'.why = worker.why /\ worker'.cmd = worker.cmd /\ worker'.commands = worker.commands
      /\ worker'.err = worker.err
      /\ worker'.last = vs /\ worker'.lost = lost
  BY <1>0, <1>1 DEF Scanned, TypeOK, Workers
<1>4. /\ ghost'.unsent = ghost.unsent /\ ghost'.succeeded = ghost.succeeded /\ ghost'.answered = ghost.answered
      /\ ghost'.missed = (ghost.missed \/ ~sess.attached)
  BY <1>0, <1>1 DEF Scanned, TypeOK, Ghosts
<1>5. queue' = queue \o <<>> /\ <<>> \in Seq(Messages) /\ NoResult(<<>>) /\ Silent(<<>>)
  BY <1>0, <1>2, ConcatNone, StateMessages DEF TypeOK
<1>6. worker.pc = "idle" => worker.why # "confirm"
  BY <1>0 DEF OpenInv, HandInv
<1>7. HandInv'
  BY <1>0, <1>3 DEF OpenInv, HandInv
<1>8. NumberInv' /\ OnceInv' /\ PlaceInv'
  BY <1>0, <1>2, <1>3, <1>4, <1>5, CommandFrame DEF OpenInv
<1>9. ConfirmInv'
  BY <1>0, <1>2, <1>4 DEF OpenInv, ConfirmInv
<1>10. FollowInv'
  <2>1. \A p \in Points : ~AboutToSend(p)
    BY <1>2 DEF AboutToSend
  <2> QED
    BY <1>0, <1>2, <1>4, <1>5, <2>1, FollowFrame DEF OpenInv
<1>11. StoredInv'
  BY <1>0, <1>1, <1>2, <1>3 DEF OpenInv, StoredInv
<1>12. FeedbackInv'
  BY <1>0, <1>1, <1>2, <1>3, <1>4, FeedAssumption DEF OpenInv, FeedbackInv
<1>13. ShownInv'
  BY <1>0, <1>2, <1>4 DEF OpenInv, ShownInv, Seen
<1> QED
  BY <1>0, <1>2, <1>7, <1>8, <1>9, <1>10, <1>11, <1>12, <1>13 DEF OpenInv

\* The store takes the values of a scan.
LEMMA StoreStep ==
    ASSUME IInv, TypeOK', ~closed, StoreUpdate
    PROVE  OpenInv'
<1>0. OpenInv /\ TypeOK
  BY DEF IInv
<1>1. UNCHANGED <<sess, replies, queue, page, handler, used>> /\ worker.pc = "update"
  BY DEF StoreUpdate
<1>2. PICK D \in SUBSET Points, S \in SUBSET Points :
        /\ \A p \in Points : store'[p] = IF p \in S THEN worker.last[p] ELSE store[p]
        /\ D = {p \in S : ~sameDisplayState(store[p], worker.last[p])}
        /\ \/ /\ S = Points
              /\ worker' = [worker EXCEPT !.pc = IF D = {} THEN "scanned" ELSE "send", !.changed = D]
              /\ ghost' = IF worker.flag THEN ghost ELSE Unsent(ghost.unsent \cup D)
           \/ /\ \E p \in Points : worker.last[p].value = Invalid
              /\ worker' = [worker EXCEPT !.pc = "scanned", !.err = TRUE]
              /\ ghost' = [Unsent(ghost.unsent \cup D) EXCEPT !.swallowed = @ \cup D]
  <2> DEFINE refused == {p \in Points : worker.last[p].value = Invalid}
             Differs(p) == ~sameDisplayState(store[p], worker.last[p])
             Stored(S) == [p \in Points |-> IF p \in S THEN worker.last[p] ELSE store[p]]
             E == {p \in Points : Differs(p)}
             F(S) == {p \in S : Differs(p)}
  <2>1. CASE /\ store' = Stored(Points)
             /\ worker' = [worker EXCEPT !.pc = IF E = {} THEN "scanned" ELSE "send", !.changed = E]
             /\ ghost' = IF worker.flag THEN ghost ELSE Unsent(ghost.unsent \cup E)
    <3> DEFINE S == Points
               D == E
    <3>1. /\ \A p \in Points : store'[p] = IF p \in S THEN worker.last[p] ELSE store[p]
          /\ D = {p \in S : ~sameDisplayState(store[p], worker.last[p])}
          /\ D \in SUBSET Points
      BY <2>1
    <3> QED
      BY <2>1, <3>1
  <2>2. CASE \E S \in SUBSET (Points \ refused) :
               /\ store' = Stored(S)
               /\ ghost' = [Unsent(ghost.unsent \cup F(S)) EXCEPT !.swallowed = @ \cup F(S)]
               /\ refused # {}
               /\ worker' = [worker EXCEPT !.pc = "scanned", !.err = TRUE]
    <3>1. PICK S \in SUBSET (Points \ refused) :
               /\ store' = Stored(S)
               /\ ghost' = [Unsent(ghost.unsent \cup F(S)) EXCEPT !.swallowed = @ \cup F(S)]
               /\ refused # {}
               /\ worker' = [worker EXCEPT !.pc = "scanned", !.err = TRUE]
      BY <2>2
    <3> DEFINE D == F(S)
    <3>2. /\ \A p \in Points : store'[p] = IF p \in S THEN worker.last[p] ELSE store[p]
          /\ D = {p \in S : ~sameDisplayState(store[p], worker.last[p])}
          /\ D \in SUBSET Points /\ S \in SUBSET Points
          /\ \E p \in Points : worker.last[p].value = Invalid
      BY <3>1
    <3> QED
      BY <3>1, <3>2
  <2> QED
    BY <2>1, <2>2 DEF StoreUpdate
<1>3. /\ worker'.pc \in {"scanned", "send"}
      /\ worker'.why = worker.why /\ worker'.cmd = worker.cmd /\ worker'.commands = worker.commands
      /\ worker'.last = worker.last /\ worker'.lost = worker.lost /\ worker'.flag = worker.flag
  BY <1>0, <1>2 DEF TypeOK, Workers
<1>4. \/ S = Points /\ worker'.changed = D /\ (D # {} => worker'.pc = "send")
      \/ worker'.err /\ \E p \in Points : worker.last[p].value = Invalid
  BY <1>0, <1>2 DEF TypeOK, Workers
<1>5. \A p \in Points : store'[p] = store[p] \/ p \in D
  <2>1. \A r, t \in PointValue : sameDisplayState(r, t) => r = t
    BY DEF sameDisplayState, PointValue
  <2>2. \A p \in Points : store[p] \in PointValue /\ worker.last[p] \in PointValue
    BY <1>0, TypeFacts DEF TypeOK, AllValues
  <2> QED
    BY <1>2, <2>1, <2>2
<1>6. /\ ghost'.succeeded = ghost.succeeded /\ ghost'.answered = ghost.answered
      /\ \/ /\ worker.flag /\ S = Points /\ worker'.changed = D /\ (D # {} => worker'.pc = "send")
            /\ ghost'.unsent = ghost.unsent /\ ghost'.missed = ghost.missed
         \/ ghost'.unsent = ghost.unsent \cup D /\ ghost'.missed = (ghost.missed \/ Written \in ghost.unsent \cup D)
  <2>1. \A g \in Ghosts, E \in SUBSET Points, b \in BOOLEAN :
           LET h == [g EXCEPT !.unsent = E, !.missed = b]
               k == [h EXCEPT !.swallowed = @ \cup D]
           IN  /\ h.succeeded = g.succeeded /\ h.answered = g.answered /\ h.unsent = E /\ h.missed = b
               /\ k.succeeded = g.succeeded /\ k.answered = g.answered /\ k.unsent = E /\ k.missed = b
    BY DEF Ghosts
  <2>2. /\ ghost \in Ghosts /\ ghost.unsent \cup D \in SUBSET Points
        /\ (ghost.missed \/ Written \in ghost.unsent \cup D) \in BOOLEAN
    BY <1>0, TypeFacts DEF TypeOK
  <2>3. \/ /\ worker.flag /\ S = Points /\ worker'.changed = D /\ (D # {} => worker'.pc = "send")
           /\ ghost' = ghost
        \/ ghost' = Unsent(ghost.unsent \cup D)
        \/ ghost' = [Unsent(ghost.unsent \cup D) EXCEPT !.swallowed = @ \cup D]
    BY <1>0, <1>2 DEF TypeOK, Workers
  <2>4. CASE ghost' = Unsent(ghost.unsent \cup D)
    BY <2>1, <2>2, <2>4 DEF Unsent
  <2>5. CASE ghost' = [Unsent(ghost.unsent \cup D) EXCEPT !.swallowed = @ \cup D]
    BY <2>1, <2>2, <2>5 DEF Unsent
  <2> QED
    BY <2>3, <2>4, <2>5
<1>7. queue' = queue \o <<>> /\ <<>> \in Seq(Messages) /\ NoResult(<<>>) /\ Silent(<<>>)
  BY <1>0, <1>1, ConcatNone, StateMessages DEF TypeOK
<1>8. HandInv'
  BY <1>0, <1>1, <1>3 DEF OpenInv, HandInv
<1>9. NumberInv' /\ OnceInv' /\ PlaceInv'
  BY <1>0, <1>1, <1>3, <1>6, <1>7, CommandFrame DEF OpenInv
<1>10. ConfirmInv'
  BY <1>0, <1>1, <1>6 DEF OpenInv, ConfirmInv
<1>11. FollowInv'
  <2> SUFFICES ASSUME NEW p \in Points, p \notin ghost'.unsent
               PROVE  \/ AboutToSend(p)'
                      \/ Ends(queue, page.values, p, store'[p])
                      \/ ~sess.broadcasts /\ store'[p] = Absent
    BY <1>1 DEF FollowInv
  <2>1. CASE p \in D
    <3>1. worker.flag /\ worker'.changed = D /\ worker'.pc = "send"
      BY <1>6, <2>1
    <3> QED
      BY <1>3, <2>1, <3>1 DEF AboutToSend
  <2>2. CASE p \notin D
    <3>1. store'[p] = store[p] /\ p \notin ghost.unsent
      BY <1>5, <1>6, <2>2
    <3> QED
      BY <1>0, <1>1, <3>1 DEF OpenInv, FollowInv, AboutToSend
  <2> QED
    BY <2>1, <2>2
<1>12. StoredInv'
  <2>1. S = Points => store' = worker'.last
    BY <1>0, <1>2, <1>3, TypeFacts DEF TypeOK, AllValues
  <2> QED
    BY <1>0, <1>1, <1>2, <1>3, <2>1 DEF OpenInv, StoredInv
<1>13. FeedbackInv'
  BY <1>0, <1>1, <1>2, <1>3, <1>4, <1>6, FeedAssumption DEF OpenInv, FeedbackInv
<1>14. ShownInv'
  BY <1>0, <1>1, <1>6 DEF OpenInv, ShownInv, Seen
<1> QED
  BY <1>0, <1>1, <1>8, <1>9, <1>10, <1>11, <1>12, <1>13, <1>14 DEF OpenInv

\* The changes are broadcast, and the alarms recorded.
LEMMA ApplyStep ==
    ASSUME IInv, TypeOK', ~closed, ~closed', ApplyValues
    PROVE  OpenInv'
<1>0. OpenInv /\ TypeOK
  BY DEF IInv
<1> DEFINE m == Message("changed", [p \in worker.changed |-> store[p]], 0, TRUE)
<1>1. UNCHANGED <<store, replies, page, handler, used>> /\ worker.pc = "send"
  BY DEF ApplyValues
<1>2. /\ worker'.pc = "scanned"
      /\ worker'.why = worker.why /\ worker'.cmd = worker.cmd /\ worker'.commands = worker.commands
      /\ worker'.last = worker.last /\ worker'.lost = worker.lost /\ worker'.err = worker.err
  BY <1>0 DEF ApplyValues, TypeOK, Workers
<1>3. sess'.attached = sess.attached /\ sess'.broadcasts = sess.broadcasts
  BY <1>0 DEF ApplyValues, RecordAlarmChanges, TypeOK, Sessions
<1>4. /\ ghost'.succeeded = ghost.succeeded /\ ghost'.answered = ghost.answered /\ ghost'.missed = ghost.missed
      /\ \/ ghost'.unsent = ghost.unsent
         \/ worker.flag /\ ghost'.unsent = ghost.unsent \ worker.changed
  <2>1. CASE UNCHANGED ghost
    BY <2>1
  <2>2. CASE RecordAlarmChanges
    <3>1. PICK kept \in SUBSET Transitions :
             ghost' = [ghost EXCEPT !.unsent = IF worker.flag THEN @ \ worker.changed ELSE @,
                                    !.swallowed = @ \ worker.changed,
                                    !.dropped = @ \/ kept # Transitions]
      BY <2>2 DEF RecordAlarmChanges, AppendRecords
    <3> QED
      BY <1>0, <3>1 DEF TypeOK, Ghosts
  <2> QED
    BY <2>1, <2>2 DEF ApplyValues
<1>5. /\ m \in Messages /\ m.type = "changed" /\ m.id = 0
      /\ \A p \in worker.changed : p \in DOMAIN m.values /\ m.values[p] = store[p]
      /\ DOMAIN m.values = worker.changed
  <2>1. [p \in worker.changed |-> store[p]] \in [worker.changed -> PointValue]
    BY <1>0, TypeFacts DEF TypeOK, AllValues
  <2>2. worker.changed \in SUBSET Points
    BY <1>0, TypeFacts
  <2> QED
    BY <2>1, <2>2, MessageTypes DEF Message
<1>6. IF worker.flag THEN queue' = queue \o <<m>> ELSE queue' = queue \o <<>>
  <2>1. CASE worker.flag
    <3>1. enqueue(<<m>>)
      BY <2>1 DEF ApplyValues
    <3> HIDE DEF m
    <3> QED
      BY <1>0, <1>5, <2>1, <3>1, Sent
  <2>2. CASE ~worker.flag
    BY <1>0, <2>2, ConcatNone DEF ApplyValues, TypeOK
  <2> QED
    BY <2>1, <2>2
<1> HIDE DEF m
<1>7. PICK ms \in Seq(Messages) :
        /\ queue' = queue \o ms /\ NoResult(ms)
        /\ IF worker.flag THEN ms = <<m>> ELSE ms = <<>>
  <2>1. NoResult(<<m>>) /\ <<m>> \in Seq(Messages)
    BY <1>5, OneMessage DEF NoResult
  <2>2. NoResult(<<>>) /\ <<>> \in Seq(Messages)
    BY StateMessages
  <2> QED
    BY <1>6, <2>1, <2>2
<1>8. HandInv'
  BY <1>0, <1>1, <1>2 DEF OpenInv, HandInv
<1>9. NumberInv' /\ OnceInv' /\ PlaceInv'
  BY <1>0, <1>1, <1>2, <1>4, <1>7, CommandFrame DEF OpenInv
<1>10. ConfirmInv'
  BY <1>0, <1>1, <1>4, <1>7, ConfirmFrame DEF OpenInv, NoResult
<1>11. FollowInv'
  <2> SUFFICES ASSUME NEW p \in Points, p \notin ghost'.unsent
               PROVE  \/ Ends(queue', page.values, p, store[p])
                      \/ ~sess.broadcasts /\ store[p] = Absent
    BY <1>1, <1>3 DEF FollowInv
  <2>0. queue \in Seq(Messages)
    BY <1>0 DEF TypeOK
  <2>1. CASE worker.flag /\ p \in worker.changed
    <3>1. ms # <<>> /\ Carries(ms[Len(ms)], p) /\ ms[Len(ms)].values[p] = store[p]
      <4>1. ms = <<m>> /\ Len(ms) = 1 /\ ms[1] = m
        BY <1>5, <1>7, <2>1, OneMessage
      <4>2. ms # <<>>
        BY <4>1
      <4>3. Carries(m, p) /\ m.values[p] = store[p]
        BY <1>5, <2>1 DEF Carries
      <4> QED
        BY <4>1, <4>2, <4>3
    <3> QED
      BY <1>7, <2>0, <3>1, EndsNew
  <2>2. CASE ~(worker.flag /\ p \in worker.changed)
    <3>1. \A i \in DOMAIN ms : ~Carries(ms[i], p)
      BY <1>5, <1>7, <2>2, OneMessage DEF Carries
    <3>2. p \notin ghost.unsent /\ ~AboutToSend(p)
      BY <1>4, <2>2 DEF AboutToSend
    <3>3. Ends(queue, page.values, p, store[p]) => Ends(queue', page.values, p, store[p])
      BY <1>7, <2>0, <3>1, EndsKept
    <3> QED
      BY <1>0, <3>2, <3>3 DEF OpenInv, FollowInv
  <2> QED
    BY <2>1, <2>2
<1>12. StoredInv'
  BY <1>0, <1>1, <1>2, <1>3 DEF OpenInv, StoredInv
<1>13. FeedbackInv'
  BY <1>0, <1>1, <1>2, <1>4 DEF OpenInv, FeedbackInv
<1>14. ShownInv'
  BY <1>0, <1>1, <1>4, <1>7, ShownFrame DEF OpenInv, NoResult
<1> QED
  BY <1>0, <1>1, <1>8, <1>9, <1>10, <1>11, <1>12, <1>13, <1>14 DEF OpenInv

\* A worker gives a command's answer to its reply goroutine, or has none to give.
LEMMA AfterScanStep ==
    ASSUME IInv, TypeOK', ~closed, ~closed', AfterScan
    PROVE  OpenInv'
<1>0. OpenInv /\ TypeOK
  BY DEF IInv
<1> DEFINE failed == worker.err \/ worker.lost
           r == Result(worker.cmd, ~failed, worker.last)
<1>1. UNCHANGED <<store, page, handler, used>> /\ worker.pc = "scanned"
  BY DEF AfterScan
<1>2. /\ worker'.pc = "idle" /\ worker'.why = "poll" /\ worker'.cmd = 0 /\ worker'.commands = worker.commands
      /\ worker'.last = worker.last /\ worker'.lost = worker.lost /\ worker'.err = FALSE
  BY <1>0 DEF AfterScan, TypeOK, Workers
<1>3. sess'.attached = sess.attached /\ sess'.broadcasts = sess.broadcasts
  BY <1>0 DEF AfterScan, TypeOK, Sessions
<1>4. /\ r \in Messages /\ r.type = "result" /\ r.id = worker.cmd /\ r.values = worker.last
      /\ r.ok => ~worker.err /\ ~worker.lost
  BY <1>0, TypeFacts, MessageTypes DEF Result, Message
<1>5. replies' = IF worker.cmd # 0 THEN replies \cup {r} ELSE replies
  BY <1>0 DEF AfterScan, OpenInv, HandInv
<1>6. /\ ghost'.unsent = ghost.unsent /\ ghost'.missed = ghost.missed /\ ghost'.answered = ghost.answered
      /\ ghost.succeeded \subseteq ghost'.succeeded
      /\ worker.cmd # 0 /\ r.ok => worker.cmd \in ghost'.succeeded
  <2>1. ghost' = IF worker.why = "confirm" /\ ~failed
                 THEN [ghost EXCEPT !.succeeded = @ \cup {worker.cmd}] ELSE ghost
    BY DEF AfterScan
  <2>2. ghost \in Ghosts /\ (worker.cmd # 0 => worker.why = "confirm")
    BY <1>0 DEF OpenInv, HandInv, TypeOK
  <2>3. r.ok => ~failed
    BY <1>4
  <2> HIDE DEF failed, r
  <2> QED
    BY <2>1, <2>2, <2>3 DEF Ghosts
<1> HIDE DEF r
<1>7. PICK ms \in Seq(Messages) : queue' = queue \o ms /\ NoResult(ms) /\ Silent(ms)
  <2>1. enqueue(<<State>>) \/ UNCHANGED queue
    BY Zenon DEF AfterScan
  <2>2. queue' = queue \o <<State>> \/ queue' = queue \o <<>>
    <3>1. State \in Messages
      BY MessageTypes
    <3> QED
      BY <1>0, <2>1, <3>1, Sent, ConcatNone DEF TypeOK
  <2> QED
    BY <2>2, StateMessages
<1>8. /\ \A i \in DOMAIN queue : i \in DOMAIN queue' /\ queue'[i] = queue[i]
      /\ \A i \in DOMAIN queue' : i \notin DOMAIN queue => queue'[i].type # "result" /\ queue'[i].id = 0
      /\ Len(queue) \in Nat /\ Len(queue') \in Nat /\ Len(queue) <= Len(queue')
      /\ DOMAIN queue = 1..Len(queue) /\ DOMAIN queue' = 1..Len(queue')
  <2>1. queue \in Seq(Messages)
    BY <1>0 DEF TypeOK
  <2> QED
    BY <1>7, <2>1, Concat DEF NoResult
<1>9. used.commands \in Nat /\ worker.cmd \in Nat
  BY <1>0, TypeFacts
<1>10. HandInv'
  BY <1>2 DEF HandInv
<1>11. NumberInv'
  BY <1>0, <1>1, <1>2, <1>4, <1>5, <1>6, <1>8, <1>9 DEF OpenInv, NumberInv
<1>12. OnceInv'
  <2>1. worker.cmd # 0 => \A m \in replies : m.id # worker.cmd
    BY <1>0, <1>9 DEF OpenInv, NumberInv, PlaceInv, OnePlace, InHand, Replied
  <2> QED
    BY <1>0, <1>2, <1>4, <1>5, <1>8, <2>1 DEF OpenInv, OnceInv
<1>13. PlaceInv'
  <2>1. SUFFICES ASSUME NEW id \in 1..used.commands PROVE OnePlace(id)'
    BY <1>1 DEF PlaceInv
  <2>2. OnePlace(id) /\ id # 0
    BY <1>0, <1>9 DEF OpenInv, PlaceInv
  <2>3. /\ Waits(id)' <=> Waits(id)
        /\ ~InHand(id)'
        /\ Answered(id)' <=> Answered(id)
    BY <1>2, <1>6, <2>2 DEF Waits, InHand, Answered
  <2>4. Queued(id)' <=> Queued(id)
    BY <1>8, <2>2 DEF Queued
  <2>5. Replied(id)' <=> Replied(id) \/ InHand(id)
    BY <1>4, <1>5, <2>2 DEF Replied, InHand
  <2> QED
    BY <2>2, <2>3, <2>4, <2>5 DEF OnePlace
<1>14. ConfirmInv'
  BY <1>0, <1>4, <1>5, <1>6, <1>8 DEF OpenInv, ConfirmInv
<1>15. FollowInv'
  <2>1. \A p \in Points : ~AboutToSend(p)
    BY <1>1 DEF AboutToSend
  <2> QED
    BY <1>0, <1>1, <1>3, <1>6, <1>7, <2>1, FollowFrame DEF OpenInv
<1>16. StoredInv'
  BY <1>0, <1>1, <1>2, <1>3 DEF OpenInv, StoredInv
<1>17. FeedbackInv'
  BY <1>0, <1>1, <1>2, <1>6 DEF OpenInv, FeedbackInv
<1>18. ShownInv'
  <2>1. ASSUME page.pending # 0, ~ghost.missed, worker.cmd = page.pending, r.ok
        PROVE  Seen(r.values[Written], Len(queue))
    <3>1. store[Written] = worker.last[Written] /\ store[Written].quality # "none" /\ Written \notin ghost.unsent
      BY <1>0, <1>1, <1>4, <2>1 DEF OpenInv, FeedbackInv
    <3>2. store[Written] # Absent
      BY <3>1 DEF Absent
    <3>3. Ends(queue, page.values, Written, store[Written])
      BY <1>0, <1>1, <3>1, <3>2, FeedAssumption DEF OpenInv, FollowInv, AboutToSend
    <3>4. page.values[Written] \in page.shown
      BY <1>0, <2>1 DEF OpenInv, ShownInv
    <3> QED
      BY <1>4, <1>8, <3>1, <3>3, <3>4 DEF Ends, Seen
  <2>2. \A v : Seen(v, Len(queue)) => Seen(v, Len(queue))'
    BY <1>1, <1>8 DEF Seen
  <2>3. \A v : \A i \in DOMAIN queue : Seen(v, i) => Seen(v, i)'
    BY <1>1, <1>8 DEF Seen
  <2> QED
    BY <1>0, <1>1, <1>4, <1>5, <1>6, <1>8, <2>1, <2>2, <2>3 DEF OpenInv, ShownInv
<1> QED
  BY <1>0, <1>1, <1>10, <1>11, <1>12, <1>13, <1>14, <1>15, <1>16, <1>17, <1>18 DEF OpenInv

\* The worker takes the first waiting command.
LEMMA ExecuteStep ==
    ASSUME IInv, TypeOK', ~closed, Execute
    PROVE  OpenInv'
<1>0. OpenInv /\ TypeOK
  BY DEF IInv
<1> DEFINE c == worker.commands
<1>1. UNCHANGED <<store, sess, replies, queue, page, handler, used, ghost>> /\ worker.pc = "idle"
  BY DEF Execute
<1>2. /\ worker'.pc = "scan" /\ worker'.why = "confirm" /\ worker'.cmd = Head(c).id /\ worker'.commands = Tail(c)
      /\ worker'.last = worker.last /\ worker'.lost = worker.lost /\ worker'.err = worker.err
  BY <1>0 DEF Execute, TypeOK, Workers
<1>3. /\ 1 \in DOMAIN c /\ Head(c) = c[1] /\ DOMAIN Tail(c) = 1..(Len(c) - 1) /\ DOMAIN c = 1..Len(c) /\ Len(c) \in Nat
      /\ \A i \in DOMAIN Tail(c) : Tail(c)[i] = c[i + 1]
      /\ \A i \in DOMAIN c : i # 1 => i - 1 \in DOMAIN Tail(c)
  <2>1. c \in Seq(Commands) /\ c # <<>>
    BY <1>0, TypeFacts DEF Execute
  <2> QED
    BY <2>1
<1> HIDE DEF c
<1>4. /\ \A i \in DOMAIN c : c[i].id \in 1..used.commands
      /\ \A i, j \in DOMAIN c : c[i].id = c[j].id => i = j
  BY <1>0 DEF OpenInv, NumberInv, OnceInv, c
<1>5. used.commands \in Nat /\ worker.cmd = 0
  BY <1>0, <1>1, TypeFacts DEF OpenInv, HandInv
<1>6. HandInv'
  BY <1>2, <1>3, <1>4, <1>5 DEF HandInv
<1>7. NumberInv'
  BY <1>0, <1>1, <1>2, <1>3, <1>4, <1>5 DEF OpenInv, NumberInv
<1>8. OnceInv'
  <2>1. \A i, j \in DOMAIN Tail(c) : Tail(c)[i].id = Tail(c)[j].id => i = j
    BY <1>3, <1>4
  <2> QED
    BY <1>0, <1>1, <1>2, <2>1 DEF OpenInv, OnceInv
<1>9. PlaceInv'
  <2>1. SUFFICES ASSUME NEW id \in 1..used.commands PROVE OnePlace(id)'
    BY <1>1 DEF PlaceInv
  <2>2. OnePlace(id) /\ id # 0
    BY <1>0, <1>5 DEF OpenInv, PlaceInv
  <2>3. /\ Queued(id)' <=> Queued(id)
        /\ Replied(id)' <=> Replied(id)
        /\ Answered(id)' <=> Answered(id)
    BY <1>1 DEF Queued, Replied, Answered
  <2>4. Waits(id)' <=> \E i \in DOMAIN Tail(c) : Tail(c)[i].id = id
    BY <1>2 DEF Waits
  <2>5. InHand(id)' <=> c[1].id = id
    BY <1>2, <1>3 DEF InHand
  <2>6. Waits(id) <=> \E i \in DOMAIN c : c[i].id = id
    BY DEF Waits, c
  <2>7. Waits(id) <=> Waits(id)' \/ InHand(id)'
    BY <1>3, <2>4, <2>5, <2>6
  <2>8. ~(Waits(id)' /\ InHand(id)')
    BY <1>3, <1>4, <2>4, <2>5
  <2>9. ~InHand(id)
    BY <1>5, <2>2 DEF InHand
  <2> QED
    BY <2>2, <2>3, <2>7, <2>8, <2>9 DEF OnePlace
<1>10. ConfirmInv'
  BY <1>0, <1>1 DEF OpenInv, ConfirmInv
<1>11. FollowInv'
  BY <1>0, <1>1 DEF OpenInv, FollowInv, AboutToSend
<1>12. StoredInv' /\ FeedbackInv'
  BY <1>0, <1>1, <1>2 DEF OpenInv, StoredInv, FeedbackInv
<1>13. ShownInv'
  BY <1>0, <1>1 DEF OpenInv, ShownInv, Seen
<1> QED
  BY <1>0, <1>1, <1>6, <1>7, <1>8, <1>9, <1>10, <1>11, <1>12, <1>13 DEF OpenInv

\* A connect begins, with the previous worker still running.
LEMMA DetachStep ==
    ASSUME IInv, TypeOK', ~closed, ConnectDetach
    PROVE  OpenInv'
<1>0. OpenInv /\ TypeOK
  BY DEF IInv
<1>1. UNCHANGED <<worker, store, replies, queue, page, ghost>> /\ used'.commands = used.commands
  BY <1>0, TypeCountEvent DEF ConnectDetach
<1>2. handler'.pc # "stopping" /\ ~sess'.attached /\ ~sess'.broadcasts
  BY <1>0 DEF ConnectDetach, TypeOK, Handlers, Sessions
<1>3. HandInv' /\ NumberInv' /\ OnceInv' /\ PlaceInv'
  BY <1>0, <1>1 DEF OpenInv, HandInv, NumberInv, OnceInv, PlaceInv, OnePlace, Waits, InHand, Replied, Queued, Answered
<1>4. ConfirmInv' /\ FollowInv' /\ StoredInv' /\ FeedbackInv' /\ ShownInv'
  BY <1>0, <1>1, <1>2 DEF OpenInv, ConfirmInv, FollowInv, AboutToSend, StoredInv, FeedbackInv, ShownInv, Seen
<1> QED
  BY <1>2, <1>3, <1>4 DEF OpenInv

\* The new worker starts; the previous one has refused the commands it still held.
LEMMA AttachStep ==
    ASSUME IInv, TypeOK', ~closed, ~closed', ConnectAttach
    PROVE  OpenInv'
<1>0. OpenInv /\ TypeOK
  BY DEF IInv
<1>1. UNCHANGED <<page, used, ghost>> /\ worker.pc \in {"none", "idle"}
  BY DEF ConnectAttach, Resting
<1>2. /\ worker'.pc = "scan" /\ worker'.why = "initial" /\ worker'.cmd = 0 /\ worker'.commands = <<>>
      /\ worker'.lost = FALSE
  BY DEF ConnectAttach, NoWorker
<1>3. sess'.attached /\ ~sess'.broadcasts /\ handler'.pc = "idle"
  BY <1>0 DEF ConnectAttach, TypeOK, Sessions, Handlers
<1>4. \A p \in Points : store'[p] = Absent
  BY DEF ConnectAttach, NoValues
<1>5. \A m : m \in replies' <=> m \in replies \/ m \in Rejected
  BY DEF ConnectAttach
<1>6. /\ \A m \in Rejected : m.type = "result" /\ ~m.ok /\ \E i \in DOMAIN worker.commands : m.id = worker.commands[i].id
      /\ \A i \in DOMAIN worker.commands : \E m \in Rejected : m.id = worker.commands[i].id
      /\ \A m, n \in Rejected : m.id = n.id => m = n
  <2>1. \A id : LET m == Result(id, FALSE, NoValues) IN m.type = "result" /\ m.ok = FALSE /\ m.id = id
    BY DEF Result, Message
  <2>2. /\ \A m \in Rejected : \E i \in DOMAIN worker.commands : m = Result(worker.commands[i].id, FALSE, NoValues)
        /\ \A i \in DOMAIN worker.commands : Result(worker.commands[i].id, FALSE, NoValues) \in Rejected
    BY DEF Rejected
  <2>3. \A m \in Rejected : m = Result(m.id, FALSE, NoValues)
    BY <2>1, <2>2
  <2>4. \A m \in Rejected : m.type = "result" /\ ~m.ok
    BY <2>1, <2>3
  <2>5. \A m \in Rejected : \E i \in DOMAIN worker.commands : m.id = worker.commands[i].id
    BY <2>1, <2>2
  <2>6. \A i \in DOMAIN worker.commands : \E m \in Rejected : m.id = worker.commands[i].id
    BY <2>1, <2>2
  <2>7. \A m, n \in Rejected : m.id = n.id => m = n
    BY <2>3
  <2> QED
    BY <2>4, <2>5, <2>6, <2>7
<1>7. PICK ms \in Seq(Messages) : queue' = queue \o ms /\ NoResult(ms) /\ Silent(ms)
  <2>1. enqueue(<<State>>) /\ State \in Messages
    BY MessageTypes DEF ConnectAttach
  <2> QED
    BY <1>0, <2>1, Sent, StateMessages
<1>8. /\ \A i \in DOMAIN queue : i \in DOMAIN queue' /\ queue'[i] = queue[i]
      /\ \A i \in DOMAIN queue' : i \notin DOMAIN queue => queue'[i].type # "result" /\ queue'[i].id = 0
  <2>1. queue \in Seq(Messages)
    BY <1>0 DEF TypeOK
  <2> QED
    BY <1>7, <2>1, Concat DEF NoResult
<1>9. used.commands \in Nat /\ worker.cmd = 0
  BY <1>0, <1>1, TypeFacts DEF OpenInv, HandInv
<1>10. DOMAIN worker'.commands = {}
  BY <1>2
<1>11. HandInv'
  BY <1>2 DEF HandInv
<1>12. NumberInv'
  BY <1>0, <1>1, <1>2, <1>5, <1>6, <1>8, <1>9, <1>10 DEF OpenInv, NumberInv
<1>13. OnceInv'
  <2>1. \A m \in replies, n \in Rejected : m.id # n.id
    BY <1>0, <1>6, <1>9 DEF OpenInv, NumberInv, PlaceInv, OnePlace, Waits, Replied
  <2>2. \A m, n \in replies' : m.id = n.id => m = n
    BY <1>0, <1>5, <1>6, <2>1 DEF OpenInv, OnceInv
  <2>3. \A i, j \in DOMAIN queue' : queue'[i].id = queue'[j].id /\ queue'[i].id # 0 => i = j
    BY <1>0, <1>8 DEF OpenInv, OnceInv
  <2> QED
    BY <1>10, <2>2, <2>3 DEF OnceInv
<1>14. PlaceInv'
  <2>1. SUFFICES ASSUME NEW id \in 1..used.commands PROVE OnePlace(id)'
    BY <1>1 DEF PlaceInv
  <2>2. OnePlace(id) /\ id # 0
    BY <1>0, <1>9 DEF OpenInv, PlaceInv
  <2>3. ~Waits(id)' /\ ~InHand(id)' /\ ~InHand(id) /\ (Answered(id)' <=> Answered(id))
    BY <1>1, <1>2, <1>9, <1>10, <2>2 DEF Waits, InHand, Answered
  <2>4. Queued(id)' <=> Queued(id)
    BY <1>8, <2>2 DEF Queued
  <2>5. Replied(id)' <=> Replied(id) \/ Waits(id)
    BY <1>5, <1>6 DEF Replied, Waits
  <2> QED
    BY <2>2, <2>3, <2>4, <2>5 DEF OnePlace
<1>15. ConfirmInv'
  BY <1>0, <1>1, <1>5, <1>6, <1>8 DEF OpenInv, ConfirmInv
<1>16. FollowInv'
  BY <1>3, <1>4 DEF FollowInv
<1>17. StoredInv' /\ FeedbackInv'
  BY <1>0, <1>1, <1>2, <1>3 DEF OpenInv, StoredInv, FeedbackInv
<1>18. ShownInv'
  <2>1. \A i \in DOMAIN ms : ms[i].type = "result" => ~ms[i].ok
    BY <1>7 DEF NoResult
  <2>2. \A m \in replies' : m \in replies \/ ~m.ok
    BY <1>5, <1>6
  <2> QED
    BY <1>0, <1>1, <1>7, <2>1, <2>2, ShownFrame DEF OpenInv
<1> QED
  BY <1>3, <1>11, <1>12, <1>13, <1>14, <1>15, <1>16, <1>17, <1>18 DEF OpenInv

\* The first scan of a connection is done: the snapshot, and broadcasts begin.
LEMMA FinishStep ==
    ASSUME IInv, TypeOK', ~closed, ~closed', FinishPLCConnect
    PROVE  OpenInv'
<1>0. OpenInv /\ TypeOK
  BY DEF IInv
<1>1. UNCHANGED <<worker, store, replies, page, handler, used>>
  BY DEF FinishPLCConnect
<1>2. CASE ~sess.attached
  <2>1. UNCHANGED <<sess, queue, ghost>>
    BY <1>2, Zenon DEF FinishPLCConnect
  <2>2. HandInv' /\ NumberInv' /\ OnceInv' /\ PlaceInv'
    BY <1>0, <1>1, <2>1 DEF OpenInv, HandInv, NumberInv, OnceInv, PlaceInv, OnePlace, Waits, InHand, Replied, Queued, Answered
  <2>3. ConfirmInv' /\ FollowInv' /\ StoredInv' /\ FeedbackInv' /\ ShownInv'
    BY <1>0, <1>1, <2>1 DEF OpenInv, ConfirmInv, FollowInv, AboutToSend, StoredInv, FeedbackInv, ShownInv, Seen
  <2> QED
    BY <1>0, <1>1, <2>2, <2>3 DEF OpenInv
<1>3. CASE sess.attached
  <2> DEFINE m == Snapshot(store)
  <2>1. sess'.attached
    BY <1>0, <1>3 DEF FinishPLCConnect, TypeOK, Sessions
  <2>2. /\ ghost'.unsent = {} /\ ghost'.missed = ghost.missed
        /\ ghost'.answered = ghost.answered /\ ghost'.succeeded = ghost.succeeded
    BY <1>0, <1>3 DEF FinishPLCConnect, TypeOK, Ghosts
  <2>3. m \in Messages /\ m.type = "snapshot" /\ m.id = 0 /\ m.values = store
    BY <1>0, MessageTypes DEF Snapshot, Message, TypeOK
  <2>4. State \in Messages /\ State.type = "state" /\ State.id = 0
    BY MessageTypes DEF State, Message
  <2> HIDE DEF m
  <2>5. PICK ms \in Seq(Messages) : /\ queue' = queue \o ms /\ NoResult(ms)
                                   /\ ms # <<>> /\ ms[Len(ms)] = m
    <3> DEFINE a == <<>> \o <<State, m>>
               b == <<State>> \o <<State, m>>
    <3>1. /\ a \in Seq(Messages) /\ Len(a) = 2 /\ a[1] = State /\ a[2] = m /\ DOMAIN a = 1..2
          /\ b \in Seq(Messages) /\ Len(b) = 3 /\ b[1] = State /\ b[2] = State /\ b[3] = m /\ DOMAIN b = 1..3
      BY <2>3, <2>4
    <3>2. enqueue(a) \/ enqueue(b)
      BY <1>3, Zenon DEF FinishPLCConnect, m
    <3> HIDE DEF a, b
    <3>3. NoResult(a) /\ NoResult(b)
      BY <2>3, <2>4, <3>1 DEF NoResult
    <3>4. queue \in Seq(Messages) /\ closed \in BOOLEAN
      BY <1>0 DEF TypeOK
    <3>5. queue' = queue \o a \/ queue' = queue \o b
      BY <3>1, <3>2, <3>4, EnqueueFacts, Zenon
    <3>6. a # <<>> /\ b # <<>>
      <4>1. Len(a) # Len(<<>>) /\ Len(b) # Len(<<>>)
        BY <3>1
      <4> QED
        BY <4>1, Zenon
    <3> QED
      BY <3>1, <3>3, <3>5, <3>6
  <2>6. HandInv'
    BY <1>0, <1>1 DEF OpenInv, HandInv
  <2>7. NumberInv' /\ OnceInv' /\ PlaceInv'
    BY <1>0, <1>1, <2>2, <2>5, CommandFrame DEF OpenInv
  <2>8. ConfirmInv'
    BY <1>0, <1>1, <2>2, <2>5, ConfirmFrame DEF OpenInv, NoResult
  <2>9. FollowInv'
    <3>1. ASSUME NEW p \in Points PROVE Ends(queue', page.values, p, store[p])
      <4>1. Carries(m, p) /\ m.values[p] = store[p]
        BY <1>0, <2>3 DEF Carries, TypeOK, AllValues
      <4>2. queue \in Seq(Messages)
        BY <1>0 DEF TypeOK
      <4> QED
        BY <2>5, <4>1, <4>2, EndsNew
    <3> QED
      BY <1>1, <3>1 DEF FollowInv
  <2>10. StoredInv' /\ FeedbackInv'
    BY <1>0, <1>1, <1>3, <2>1, <2>2 DEF OpenInv, StoredInv, FeedbackInv
  <2>11. ShownInv'
    <3>1. \A i \in DOMAIN ms : ms[i].type = "result" => ~ms[i].ok
      BY <2>5 DEF NoResult
    <3> QED
      BY <1>0, <1>1, <2>2, <2>5, <3>1, ShownFrame DEF OpenInv
  <2> QED
    BY <1>0, <1>1, <2>6, <2>7, <2>8, <2>9, <2>10, <2>11 DEF OpenInv
<1> QED
  BY <1>2, <1>3

\* A snapshot read before is sent.
LEMMA SnapshotStep ==
    ASSUME IInv, TypeOK', ~closed, ~closed', SnapshotSend
    PROVE  OpenInv'
<1>0. OpenInv /\ TypeOK
  BY DEF IInv
<1> DEFINE m == Snapshot(handler.values)
           soon == IF worker.pc = "send" /\ worker.flag THEN worker.changed ELSE {}
           behind == {p \in Points : handler.values[p] # store[p]} \ soon
<1>1. UNCHANGED <<worker, store, sess, replies, page, used>> /\ handler'.pc = "idle"
  BY DEF SnapshotSend
<1>2. /\ ghost'.unsent = behind /\ (ghost.missed => ghost'.missed) /\ (~ghost'.missed => Written \notin behind)
      /\ ghost'.answered = ghost.answered /\ ghost'.succeeded = ghost.succeeded
  <2>1. ghost' = [ghost EXCEPT !.unsent = behind, !.missed = @ \/ Written \in behind]
    BY DEF SnapshotSend, Unsent
  <2> HIDE DEF behind
  <2> QED
    BY <1>0, <2>1 DEF TypeOK, Ghosts
<1>3. m \in Messages /\ m.type = "snapshot" /\ m.id = 0 /\ m.values = handler.values /\ m.values \in AllValues
  BY <1>0, TypeFacts, MessageTypes DEF Snapshot, Message
<1>4. enqueue(<<m>>)
  BY DEF SnapshotSend
<1> HIDE DEF m
<1>5. PICK ms \in Seq(Messages) : queue' = queue \o ms /\ NoResult(ms) /\ ms = <<m>> /\ Len(ms) = 1 /\ ms[1] = m
  <2>1. NoResult(<<m>>)
    BY <1>3, OneMessage DEF NoResult
  <2> QED
    BY <1>0, <1>3, <1>4, <2>1, OneMessage, Sent
<1>6. HandInv'
  BY <1>0, <1>1 DEF OpenInv, HandInv
<1>7. NumberInv' /\ OnceInv' /\ PlaceInv'
  BY <1>0, <1>1, <1>2, <1>5, CommandFrame DEF OpenInv
<1>8. ConfirmInv'
  BY <1>0, <1>1, <1>2, <1>5, ConfirmFrame DEF OpenInv, NoResult
<1>9. FollowInv'
  <2> SUFFICES ASSUME NEW p \in Points, p \notin behind
               PROVE  AboutToSend(p) \/ Ends(queue', page.values, p, store[p])
    BY <1>1, <1>2 DEF FollowInv, AboutToSend
  <2>1. CASE p \in soon
    BY <2>1 DEF AboutToSend
  <2>2. CASE handler.values[p] = store[p]
    <3>1. Carries(ms[Len(ms)], p) /\ ms[Len(ms)].values[p] = store[p]
      BY <1>3, <1>5, <2>2 DEF Carries, AllValues
    <3>2. queue \in Seq(Messages) /\ ms # <<>>
      BY <1>0, <1>5 DEF TypeOK
    <3> QED
      BY <1>5, <3>1, <3>2, EndsNew
  <2> QED
    BY <2>1, <2>2
<1>10. StoredInv' /\ FeedbackInv'
  BY <1>0, <1>1, <1>2 DEF OpenInv, StoredInv, FeedbackInv
<1>11. ShownInv'
  <2>1. \A i \in DOMAIN ms : ms[i].type = "result" => ~ms[i].ok
    BY <1>5 DEF NoResult
  <2> QED
    BY <1>0, <1>1, <1>2, <1>5, <2>1, ShownFrame DEF OpenInv
<1> QED
  BY <1>1, <1>6, <1>7, <1>8, <1>9, <1>10, <1>11 DEF OpenInv

\* The page sends a command: it waits for the worker, or is refused at once.
LEMMA CommandStep ==
    ASSUME IInv, TypeOK', ~closed, ~closed', NEW v \in CommandValues, PointCommand(v)
    PROVE  OpenInv'
<1>0. OpenInv /\ TypeOK
  BY DEF IInv
<1> DEFINE n == used.commands + 1
           r == Result(n, FALSE, NoValues)
           c == worker.commands
<1>1. UNCHANGED <<store, sess, replies, handler>>
  BY DEF PointCommand
<1>2. used'.commands = n /\ n \in Nat /\ n # 0 /\ used.commands \in Nat /\ 1..n = 1..used.commands \cup {n} /\ n \notin 1..used.commands
  BY <1>0, TypeFacts DEF PointCommand, TypeOK
<1>3. page'.pending = n /\ page'.shown = {page.values[Written]} /\ page'.values = page.values
  BY <1>0 DEF PointCommand, TypeOK, Pages
<1>4. /\ ghost'.unsent = ghost.unsent /\ ghost'.answered = ghost.answered /\ ghost'.succeeded = ghost.succeeded
      /\ ghost'.missed = (Written \in ghost.unsent)
  BY <1>0 DEF PointCommand, TypeOK, Ghosts
<1>5. r \in Messages /\ r.type = "result" /\ r.id = n /\ r.ok = FALSE
  BY <1>2, MessageTypes DEF Result, Message
<1>6. \/ /\ worker' = [worker EXCEPT !.commands = Append(c, [id |-> n, value |-> v])]
         /\ queue' = queue
      \/ worker' = worker /\ enqueue(<<r>>)
  BY Zenon DEF PointCommand
<1>7. /\ worker'.pc = worker.pc /\ worker'.why = worker.why /\ worker'.cmd = worker.cmd /\ worker'.flag = worker.flag
      /\ worker'.changed = worker.changed /\ worker'.last = worker.last /\ worker'.lost = worker.lost
      /\ worker'.err = worker.err
  BY <1>0, <1>6 DEF TypeOK, Workers
<1> HIDE DEF r
<1>8. PICK ms \in Seq(Messages), new \in BOOLEAN :
         /\ queue' = queue \o ms
         /\ ms = IF new THEN <<r>> ELSE <<>>
         /\ worker'.commands = IF new THEN c ELSE Append(c, [id |-> n, value |-> v])
  <2>1. CASE worker' = [worker EXCEPT !.commands = Append(c, [id |-> n, value |-> v])] /\ queue' = queue
    <3>1. worker'.commands = Append(c, [id |-> n, value |-> v])
      BY <1>0, <2>1 DEF TypeOK, Workers
    <3>2. queue' = queue \o <<>> /\ <<>> \in Seq(Messages)
      BY <1>0, <2>1, ConcatNone DEF TypeOK
    <3> QED
      BY <3>1, <3>2
  <2>2. CASE worker' = worker /\ enqueue(<<r>>)
    BY <1>0, <1>5, <2>2, OneMessage, Sent
  <2> QED
    BY <1>6, <2>1, <2>2
<1>9. /\ \A i \in DOMAIN queue : i \in DOMAIN queue' /\ queue'[i] = queue[i]
      /\ \A i \in DOMAIN queue' : i \notin DOMAIN queue => new /\ queue'[i] = r
      /\ new => \E i \in DOMAIN queue' : i \notin DOMAIN queue
      /\ \A i, j \in DOMAIN queue' : i \notin DOMAIN queue /\ j \notin DOMAIN queue => i = j
      /\ DOMAIN queue = 1..Len(queue) /\ Len(queue) \in Nat
  <2>1. queue \in Seq(Messages)
    BY <1>0 DEF TypeOK
  <2>2. CASE new
    <3>1. ms = <<r>> /\ Len(ms) = 1 /\ ms[1] = r
      BY <1>5, <1>8, <2>2, OneMessage
    <3>2. /\ \A i \in DOMAIN queue : i \in DOMAIN queue' /\ queue'[i] = queue[i]
          /\ DOMAIN queue = 1..Len(queue) /\ Len(queue) \in Nat
          /\ DOMAIN queue' = 1..(Len(queue) + 1)
          /\ queue'[Len(queue) + 1] = r
      BY <1>8, <2>1, <3>1, Concat
    <3> QED
      BY <2>2, <3>2
  <2>3. CASE ~new
    <3>1. queue' = queue
      BY <1>8, <2>1, <2>3, ConcatNone
    <3> QED
      BY <2>1, <2>3, <3>1
  <2> QED
    BY <2>2, <2>3
<1>10. LET d == worker'.commands
       IN  /\ \A i \in DOMAIN c : i \in DOMAIN d /\ d[i] = c[i]
           /\ \A i \in DOMAIN d : i \notin DOMAIN c => ~new /\ d[i].id = n
           /\ ~new => \E i \in DOMAIN d : i \notin DOMAIN c
           /\ \A i, j \in DOMAIN d : i \notin DOMAIN c /\ j \notin DOMAIN c => i = j
  <2>1. c \in Seq(Commands)
    BY <1>0, TypeFacts
  <2>2. CASE new
    BY <1>8, <2>2
  <2>3. CASE ~new
    <3> DEFINE e == [id |-> n, value |-> v]
               d == Append(c, e)
    <3>1. e \in Commands /\ e.id = n
      BY <1>2, FeedAssumption DEF Commands
    <3> HIDE DEF e
    <3>2. /\ DOMAIN d = 1..(Len(c) + 1) /\ DOMAIN c = 1..Len(c) /\ Len(c) \in Nat
          /\ \A i \in DOMAIN c : d[i] = c[i]
          /\ d[Len(c) + 1] = e
      BY <2>1, <3>1
    <3> QED
      BY <1>8, <2>3, <3>1, <3>2 DEF e
  <2> QED
    BY <2>2, <2>3
<1> HIDE DEF n, c
<1>11. /\ \A i \in DOMAIN c : c[i].id \in 1..used.commands
       /\ \A m \in replies : m.id \in 1..used.commands
       /\ \A i \in DOMAIN queue : queue[i].id # n
       /\ ghost.answered \subseteq 1..used.commands /\ worker.cmd \in 0..used.commands
  BY <1>0, <1>2 DEF OpenInv, NumberInv, c
<1>12. HandInv'
  BY <1>0, <1>7 DEF OpenInv, HandInv
<1>13. NumberInv'
  <2>1. \A i \in DOMAIN worker'.commands : worker'.commands[i].id \in 1..n
    BY <1>2, <1>10, <1>11
  <2>2. \A m \in replies' : m.type = "result" /\ m.id \in 1..n
    BY <1>0, <1>1, <1>2 DEF OpenInv, NumberInv
  <2>3. \A i \in DOMAIN queue' : IF queue'[i].type = "result" THEN queue'[i].id \in 1..n ELSE queue'[i].id = 0
    BY <1>0, <1>2, <1>5, <1>9 DEF OpenInv, NumberInv
  <2>4. worker'.cmd \in 0..n /\ page'.pending \in 0..n /\ ghost'.answered \subseteq 1..n
    BY <1>2, <1>3, <1>4, <1>7, <1>11
  <2> QED
    BY <1>2, <2>1, <2>2, <2>3, <2>4 DEF NumberInv
<1>14. OnceInv'
  <2>1. \A i, j \in DOMAIN worker'.commands : worker'.commands[i].id = worker'.commands[j].id => i = j
    <3>1. \A i, j \in DOMAIN c : c[i].id = c[j].id => i = j
      BY <1>0 DEF OpenInv, OnceInv, c
    <3>2. \A i \in DOMAIN c : c[i].id # n
      BY <1>2, <1>11
    <3> QED
      BY <1>10, <3>1, <3>2
  <2>2. \A i, j \in DOMAIN queue' : queue'[i].id = queue'[j].id /\ queue'[i].id # 0 => i = j
    BY <1>0, <1>5, <1>9, <1>11 DEF OpenInv, OnceInv
  <2> QED
    BY <1>0, <1>1, <2>1, <2>2 DEF OpenInv, OnceInv
<1>15. PlaceInv'
  <2>1. SUFFICES ASSUME NEW id \in 1..n PROVE OnePlace(id)'
    BY <1>2 DEF PlaceInv
  <2>2. /\ Replied(id)' <=> Replied(id)
        /\ InHand(id)' <=> InHand(id)
        /\ Answered(id)' <=> Answered(id)
    BY <1>1, <1>4, <1>7 DEF Replied, InHand, Answered
  <2>3. Queued(id)' <=> Queued(id) \/ (new /\ id = n)
    BY <1>5, <1>9 DEF Queued
  <2>4. Waits(id)' <=> Waits(id) \/ (~new /\ id = n)
    BY <1>10 DEF Waits, c
  <2>5. CASE id = n
    <3>1. ~Waits(id) /\ ~InHand(id) /\ ~Replied(id) /\ ~Queued(id) /\ ~Answered(id)
      BY <1>2, <1>11, <2>5 DEF Waits, InHand, Replied, Queued, Answered, c
    <3> QED
      BY <2>2, <2>3, <2>4, <2>5, <3>1 DEF OnePlace
  <2>6. CASE id # n
    <3>1. OnePlace(id)
      BY <1>0, <1>2, <2>6 DEF OpenInv, PlaceInv
    <3> QED
      BY <2>2, <2>3, <2>4, <2>6, <3>1 DEF OnePlace
  <2> QED
    BY <2>5, <2>6
<1>16. ConfirmInv'
  BY <1>0, <1>1, <1>4, <1>5, <1>9 DEF OpenInv, ConfirmInv
<1>17. FollowInv'
  <2>1. Silent(ms)
    BY <1>5, <1>8, OneMessage, StateMessages DEF Silent
  <2>2. \A p \in Points : AboutToSend(p) => AboutToSend(p)'
    BY <1>7 DEF AboutToSend
  <2> QED
    BY <1>0, <1>1, <1>3, <1>4, <1>8, <2>1, <2>2, FollowFrame DEF OpenInv
<1>18. StoredInv'
  BY <1>0, <1>1, <1>7 DEF OpenInv, StoredInv
<1>19. FeedbackInv'
  <2>1. worker'.cmd # 0 => worker'.cmd # page'.pending
    BY <1>2, <1>3, <1>7, <1>11
  <2>2. ~ghost'.missed => Written \notin ghost'.unsent
    BY <1>4
  <2>3. worker'.pc \in {"update", "send", "scanned"} => worker'.last[Written].quality # "none"
    BY <1>0, <1>7 DEF OpenInv, FeedbackInv
  <2> QED
    BY <2>1, <2>2, <2>3 DEF FeedbackInv
<1>20. ShownInv'
  BY <1>1, <1>2, <1>3, <1>5, <1>9, <1>11 DEF ShownInv
<1> QED
  BY <1>0, <1>1, <1>12, <1>13, <1>14, <1>15, <1>16, <1>17, <1>18, <1>19, <1>20 DEF OpenInv

\* A reply goroutine sends its result.
LEMMA ReplyStep ==
    ASSUME IInv, TypeOK', ~closed, ~closed', NEW r \in replies, SendReply(r)
    PROVE  OpenInv'
<1>0. OpenInv /\ TypeOK
  BY DEF IInv
<1>1. UNCHANGED <<worker, store, sess, handler, page, used, ghost>> /\ \A m : m \in replies' <=> m \in replies /\ m # r
  BY DEF SendReply
<1>2. r \in Messages /\ r.type = "result" /\ r.id \in 1..used.commands /\ used.commands \in Nat
  BY <1>0, TypeFacts DEF OpenInv, NumberInv, TypeOK
<1>3. queue' = queue \o <<r>>
  BY <1>0, <1>2, Sent DEF SendReply
<1>4. /\ \A i \in DOMAIN queue : i \in DOMAIN queue' /\ queue'[i] = queue[i]
      /\ DOMAIN queue = 1..Len(queue) /\ Len(queue) \in Nat
      /\ DOMAIN queue' = 1..(Len(queue) + 1) /\ Len(queue') = Len(queue) + 1
      /\ queue'[Len(queue) + 1] = r
  <2>1. queue \in Seq(Messages) /\ <<r>> \in Seq(Messages) /\ Len(<<r>>) = 1 /\ <<r>>[1] = r /\ DOMAIN <<r>> = {1}
    BY <1>0, <1>2, OneMessage DEF TypeOK
  <2> QED
    BY <1>3, <2>1, Concat
<1>5. \A i \in DOMAIN queue' : i \in DOMAIN queue \/ (i = Len(queue) + 1 /\ queue'[i] = r)
  BY <1>4
<1>6. HandInv'
  BY <1>0, <1>1 DEF OpenInv, HandInv
<1>7. NumberInv'
  BY <1>0, <1>1, <1>2, <1>4, <1>5 DEF OpenInv, NumberInv
<1>8. OnceInv'
  <2>1. \A i \in DOMAIN queue : queue[i].id # r.id
    BY <1>0, <1>2 DEF OpenInv, PlaceInv, OnePlace, Replied, Queued
  <2>2. \A i, j \in DOMAIN queue' : queue'[i].id = queue'[j].id /\ queue'[i].id # 0 => i = j
    BY <1>0, <1>4, <1>5, <2>1 DEF OpenInv, OnceInv
  <2> QED
    BY <1>0, <1>1, <2>2 DEF OpenInv, OnceInv
<1>9. PlaceInv'
  <2>1. SUFFICES ASSUME NEW id \in 1..used.commands PROVE OnePlace(id)'
    BY <1>1 DEF PlaceInv
  <2>2. OnePlace(id)
    BY <1>0 DEF OpenInv, PlaceInv
  <2>3. /\ Waits(id)' <=> Waits(id)
        /\ InHand(id)' <=> InHand(id)
        /\ Answered(id)' <=> Answered(id)
    BY <1>1 DEF Waits, InHand, Answered
  <2>4. Queued(id)' <=> Queued(id) \/ id = r.id
    BY <1>4, <1>5 DEF Queued
  <2>5. Replied(id)' <=> Replied(id) /\ id # r.id
    BY <1>0, <1>1 DEF Replied, OpenInv, OnceInv
  <2>6. id = r.id => Replied(id)
    BY DEF Replied
  <2> QED
    BY <2>2, <2>3, <2>4, <2>5, <2>6 DEF OnePlace
<1>10. ConfirmInv'
  BY <1>0, <1>1, <1>4, <1>5 DEF OpenInv, ConfirmInv
<1>11. FollowInv'
  <2>1. Silent(<<r>>) /\ <<r>> \in Seq(Messages)
    BY <1>2, OneMessage DEF Silent
  <2>2. \A p \in Points : AboutToSend(p) => AboutToSend(p)'
    BY <1>1 DEF AboutToSend
  <2> QED
    BY <1>0, <1>1, <1>3, <2>1, <2>2, FollowFrame DEF OpenInv
<1>12. StoredInv' /\ FeedbackInv'
  BY <1>0, <1>1 DEF OpenInv, StoredInv, FeedbackInv
<1>13. ShownInv'
  <2>1. \A v : Seen(v, Len(queue)) => Seen(v, Len(queue))'
    BY <1>1, <1>4 DEF Seen
  <2>2. \A v : \A i \in DOMAIN queue : Seen(v, i) => Seen(v, i)'
    BY <1>1, <1>4 DEF Seen
  <2>3. SUFFICES ASSUME page.pending # 0
                 PROVE  /\ page.values[Written] \in page.shown
                        /\ ~ghost.missed =>
                             /\ \A m \in replies' : m.ok /\ m.id = page.pending => Seen(m.values[Written], Len(queue))'
                             /\ \A i \in DOMAIN queue' :
                                   queue'[i].type = "result" /\ queue'[i].ok /\ queue'[i].id = page.pending
                                   => Seen(queue[i].values[Written], i)'
    BY <1>1 DEF ShownInv
  <2>4. /\ page.values[Written] \in page.shown
        /\ ~ghost.missed =>
              /\ \A m \in replies : m.ok /\ m.id = page.pending => Seen(m.values[Written], Len(queue))
              /\ \A i \in DOMAIN queue : queue[i].type = "result" /\ queue[i].ok /\ queue[i].id = page.pending
                                         => Seen(queue[i].values[Written], i)
    BY <1>0, <2>3 DEF OpenInv, ShownInv
  <2>5. ASSUME ~ghost.missed, NEW i \in DOMAIN queue',
               queue'[i].type = "result", queue'[i].ok, queue'[i].id = page.pending
        PROVE  Seen(queue[i].values[Written], i)'
    <3>1. CASE i \in DOMAIN queue
      BY <1>4, <2>2, <2>4, <2>5, <3>1
    <3>2. CASE i = Len(queue) + 1 /\ queue'[i] = r
      <4>1. Seen(r.values[Written], Len(queue))
        BY <2>4, <2>5, <3>2
      <4> QED
        BY <1>1, <1>4, <3>2, <4>1 DEF Seen
    <3> QED
      BY <1>5, <3>1, <3>2
  <2> QED
    BY <1>1, <2>1, <2>4, <2>5
<1> QED
  BY <1>0, <1>1, <1>6, <1>7, <1>8, <1>9, <1>10, <1>11, <1>12, <1>13 DEF OpenInv

\* The page gives a command up.
LEMMA TimeoutStep ==
    ASSUME IInv, TypeOK', ~closed, CommandTimesOut
    PROVE  OpenInv'
<1>0. OpenInv /\ TypeOK
  BY DEF IInv
<1>1. UNCHANGED <<worker, store, sess, replies, queue, handler, used, ghost>>
  BY DEF CommandTimesOut
<1>2. page'.pending = 0 /\ page'.values = page.values
  BY <1>0 DEF CommandTimesOut, TypeOK, Pages
<1>3. HandInv' /\ OnceInv' /\ PlaceInv'
  BY <1>0, <1>1 DEF OpenInv, HandInv, OnceInv, PlaceInv, OnePlace, Waits, InHand, Replied, Queued, Answered
<1>4. NumberInv'
  <2>1. used.commands \in Nat
    BY <1>0, TypeFacts
  <2> QED
    BY <1>0, <1>1, <1>2, <2>1 DEF OpenInv, NumberInv
<1>5. ConfirmInv' /\ FollowInv' /\ StoredInv' /\ FeedbackInv' /\ ShownInv'
  BY <1>0, <1>1, <1>2 DEF OpenInv, ConfirmInv, FollowInv, AboutToSend, StoredInv, FeedbackInv, ShownInv
<1> QED
  BY <1>0, <1>1, <1>3, <1>4, <1>5 DEF OpenInv

\* What the page makes of the first message of the queue.
LEMMA DeliverFacts ==
    ASSUME TypeOK, Deliver
    PROVE  LET m == queue[1]
           IN  /\ 1 \in DOMAIN queue /\ m \in Messages /\ queue' = Tail(queue) /\ queue # <<>>
               /\ \A p \in Points : page'.values[p] = IF Carries(m, p) THEN m.values[p] ELSE page.values[p]
               /\ IF m.type = "result" /\ m.id = page.pending
                  THEN /\ page'.pending = 0
                       /\ page'.confirmed = IF m.ok THEN page.confirmed \cup {m.id} ELSE page.confirmed
                  ELSE page'.pending = page.pending /\ page'.confirmed = page.confirmed
               /\ page.pending # 0 => page.shown \subseteq page'.shown
               /\ page.pending # 0 /\ Carries(m, Written) => m.values[Written] \in page'.shown
               /\ ghost'.answered = IF m.type = "result" THEN ghost.answered \cup {m.id} ELSE ghost.answered
               /\ ghost'.unsent = ghost.unsent /\ ghost'.missed = ghost.missed /\ ghost'.succeeded = ghost.succeeded
<1> DEFINE m == Head(queue)
           values == IF m.type = "snapshot" THEN m.values
                     ELSE [p \in Points |-> IF p \in DOMAIN m.values THEN m.values[p] ELSE page.values[p]]
<1>1. /\ m = queue[1] /\ m \in Messages /\ 1 \in DOMAIN queue
      /\ queue' = Tail(queue) /\ queue # <<>>
  <2>1. queue \in Seq(Messages) /\ queue # <<>>
    BY DEF Deliver, TypeOK
  <2> QED
    BY <2>1 DEF Deliver
<1>2. page' = CASE m.type \in {"snapshot", "changed"} ->
                     [page EXCEPT !.values = values,
                                  !.shown = IF page.pending = 0 THEN @ ELSE @ \cup {values[Written]}]
                [] m.type = "result" -> receive(m)
                [] OTHER -> page
  BY DEF Deliver, Received
<1>3. /\ ghost'.answered = IF m.type = "result" THEN ghost.answered \cup {m.id} ELSE ghost.answered
      /\ ghost'.unsent = ghost.unsent /\ ghost'.missed = ghost.missed /\ ghost'.succeeded = ghost.succeeded
  BY DEF Deliver, TypeOK, Ghosts
<1> HIDE DEF m
<1>4. ASSUME m.type \in {"snapshot", "changed"}, NEW p \in Points
      PROVE  values[p] = IF Carries(m, p) THEN m.values[p] ELSE page.values[p]
  <2>1. m.type = "snapshot" => p \in DOMAIN m.values
    BY <1>1, MessageFields DEF AllValues
  <2> QED
    BY <1>4, <2>1 DEF Carries
<1> HIDE DEF values
<1>5. CASE m.type \in {"snapshot", "changed"}
  <2>1. page' = [page EXCEPT !.values = values,
                             !.shown = IF page.pending = 0 THEN @ ELSE @ \cup {values[Written]}]
    BY <1>2, <1>5
  <2>2. /\ page'.values = values /\ page'.pending = page.pending /\ page'.confirmed = page.confirmed
        /\ page'.shown = IF page.pending = 0 THEN page.shown ELSE page.shown \cup {values[Written]}
    BY <2>1 DEF TypeOK, Pages
  <2>3. \A p \in Points : page'.values[p] = IF Carries(m, p) THEN m.values[p] ELSE page.values[p]
    BY <1>4, <1>5, <2>2
  <2>4. values[Written] = IF Carries(m, Written) THEN m.values[Written] ELSE page.values[Written]
    BY <1>4, <1>5, FeedAssumption
  <2> QED
    BY <1>1, <1>3, <1>5, <2>2, <2>3, <2>4
<1>6. CASE m.type = "result"
  <2>1. page' = receive(m) /\ \A p \in Points : ~Carries(m, p)
    BY <1>2, <1>6 DEF Carries
  <2>2. ~Carries(m, Written)
    BY <1>6 DEF Carries
  <2>3. /\ page'.values = page.values /\ page'.shown = page.shown
        /\ IF m.id = page.pending
           THEN /\ page'.pending = 0
                /\ page'.confirmed = IF m.ok THEN page.confirmed \cup {m.id} ELSE page.confirmed
           ELSE page'.pending = page.pending /\ page'.confirmed = page.confirmed
    BY <2>1 DEF receive, TypeOK, Pages
  <2> QED
    BY <1>1, <1>3, <1>6, <2>1, <2>2, <2>3
<1>7. CASE m.type = "state"
  <2>1. page' = page /\ ~Carries(m, Written) /\ \A p \in Points : ~Carries(m, p)
    BY <1>2, <1>7 DEF Carries
  <2> QED
    BY <1>1, <1>3, <1>7, <2>1
<1> QED
  BY <1>1, <1>5, <1>6, <1>7, MessageFields

\* The page gets the next message.
LEMMA DeliverStep ==
    ASSUME IInv, TypeOK', ~closed, Deliver
    PROVE  OpenInv'
<1>0. OpenInv /\ TypeOK
  BY DEF IInv
<1> DEFINE m == queue[1]
<1>1. UNCHANGED <<worker, store, sess, replies, handler, used>>
  BY DEF Deliver
<1>2. /\ 1 \in DOMAIN queue /\ m \in Messages /\ queue' = Tail(queue) /\ queue # <<>>
      /\ \A p \in Points : page'.values[p] = IF Carries(m, p) THEN m.values[p] ELSE page.values[p]
      /\ page'.pending = IF m.type = "result" /\ m.id = page.pending THEN 0 ELSE page.pending
      /\ page.pending # 0 => page.shown \subseteq page'.shown
      /\ page.pending # 0 /\ Carries(m, Written) => m.values[Written] \in page'.shown
      /\ ghost'.answered = IF m.type = "result" THEN ghost.answered \cup {m.id} ELSE ghost.answered
      /\ ghost'.unsent = ghost.unsent /\ ghost'.missed = ghost.missed /\ ghost'.succeeded = ghost.succeeded
  BY <1>0, DeliverFacts
<1>3. /\ DOMAIN queue = 1..Len(queue) /\ Len(queue) \in Nat /\ Len(queue') = Len(queue) - 1
      /\ DOMAIN queue' = 1..Len(queue')
      /\ \A i \in DOMAIN queue' : i + 1 \in DOMAIN queue /\ queue'[i] = queue[i + 1]
      /\ \A i \in DOMAIN queue : i # 1 => i - 1 \in DOMAIN queue' /\ queue'[i - 1] = queue[i]
  <2>1. queue \in Seq(Messages)
    BY <1>0 DEF TypeOK
  <2> QED
    BY <1>2, <2>1
<1>4. used.commands \in Nat /\ IF m.type = "result" THEN m.id \in 1..used.commands ELSE m.id = 0
  BY <1>0, <1>2, TypeFacts DEF OpenInv, NumberInv
<1> HIDE DEF m
<1>5. HandInv'
  BY <1>0, <1>1 DEF OpenInv, HandInv
<1>6. NumberInv'
  <2>1. \A i \in DOMAIN queue' : IF queue'[i].type = "result" THEN queue'[i].id \in 1..used.commands ELSE queue'[i].id = 0
    BY <1>0, <1>3 DEF OpenInv, NumberInv
  <2>2. page'.pending \in 0..used.commands /\ ghost'.answered \subseteq 1..used.commands
    BY <1>0, <1>2, <1>4 DEF OpenInv, NumberInv
  <2> QED
    BY <1>0, <1>1, <2>1, <2>2 DEF OpenInv, NumberInv
<1>7. OnceInv'
  <2>1. \A i, j \in DOMAIN queue' : queue'[i].id = queue'[j].id /\ queue'[i].id # 0 => i = j
    BY <1>0, <1>3 DEF OpenInv, OnceInv
  <2> QED
    BY <1>0, <1>1, <2>1 DEF OpenInv, OnceInv
<1>8. PlaceInv'
  <2>1. SUFFICES ASSUME NEW id \in 1..used.commands PROVE OnePlace(id)'
    BY <1>1 DEF PlaceInv
  <2>2. OnePlace(id) /\ id # 0
    BY <1>0, <1>4 DEF OpenInv, PlaceInv
  <2>3. /\ Waits(id)' <=> Waits(id)
        /\ InHand(id)' <=> InHand(id)
        /\ Replied(id)' <=> Replied(id)
    BY <1>1 DEF Waits, InHand, Replied
  <2>4. Answered(id)' <=> Answered(id) \/ id = m.id
    BY <1>2, <1>4, <2>2 DEF Answered
  <2>5. id = m.id => Queued(id)
    BY <1>2 DEF Queued, m
  <2>6. Queued(id)' <=> Queued(id) /\ id # m.id
    <3>1. \A i \in DOMAIN queue : i # 1 /\ queue[i].id = id => id # m.id
      BY <1>0, <1>2, <2>2 DEF OpenInv, OnceInv, m
    <3>2. Queued(id) /\ id # m.id => \E i \in DOMAIN queue : i # 1 /\ queue[i].id = id
      BY DEF Queued, m
    <3>3. (\E i \in DOMAIN queue' : queue'[i].id = id) <=> (\E i \in DOMAIN queue : i # 1 /\ queue[i].id = id)
      BY <1>3
    <3> QED
      BY <3>1, <3>2, <3>3 DEF Queued
  <2> QED
    BY <2>2, <2>3, <2>4, <2>5, <2>6 DEF OnePlace
<1>9. ConfirmInv'
  BY <1>0, <1>1, <1>2, <1>3 DEF OpenInv, ConfirmInv
<1>10. FollowInv'
  <2> SUFFICES ASSUME NEW p \in Points, p \notin ghost.unsent
               PROVE  \/ AboutToSend(p)
                      \/ Ends(queue', page'.values, p, store[p])
                      \/ ~sess.broadcasts /\ store[p] = Absent
    BY <1>1, <1>2 DEF FollowInv, AboutToSend
  <2>1. queue \in Seq(Messages)
    BY <1>0 DEF TypeOK
  <2>2. page'.values[p] = IF Carries(queue[1], p) THEN queue[1].values[p] ELSE page.values[p]
    BY <1>2 DEF m
  <2>3. Ends(queue, page.values, p, store[p]) => Ends(queue', page'.values, p, store[p])
    BY <1>2, <2>1, <2>2, EndsTail
  <2> QED
    BY <1>0, <2>3 DEF OpenInv, FollowInv
<1>11. StoredInv'
  BY <1>0, <1>1 DEF OpenInv, StoredInv
<1>12. FeedbackInv'
  BY <1>0, <1>1, <1>2 DEF OpenInv, FeedbackInv
<1>13. ShownInv'
  <2> SUFFICES ASSUME page'.pending # 0 PROVE ShownInv'
    BY DEF ShownInv
  <2>1. page'.pending = page.pending /\ page.pending # 0
    BY <1>2
  <2>2. /\ page.values[Written] \in page.shown
        /\ ~ghost.missed =>
              /\ \A r \in replies : r.ok /\ r.id = page.pending => Seen(r.values[Written], Len(queue))
              /\ \A i \in DOMAIN queue : queue[i].type = "result" /\ queue[i].ok /\ queue[i].id = page.pending
                                         => Seen(queue[i].values[Written], i)
    BY <1>0, <2>1 DEF OpenInv, ShownInv
  <2>3. ASSUME NEW v, NEW i \in Nat, Seen(v, i)
        PROVE  v \in page'.shown \/ \E j \in DOMAIN queue' : j <= i - 1 /\ Carries(queue'[j], Written) /\ queue'[j].values[Written] = v
    <3>1. CASE v \in page.shown
      BY <1>2, <2>1, <3>1
    <3>2. CASE \E j \in DOMAIN queue : j <= i /\ Carries(queue[j], Written) /\ queue[j].values[Written] = v
      <4>1. PICK j \in DOMAIN queue : j <= i /\ Carries(queue[j], Written) /\ queue[j].values[Written] = v
        BY <3>2
      <4>2. CASE j = 1
        BY <1>2, <2>1, <4>1, <4>2 DEF m
      <4>3. CASE j # 1
        BY <1>3, <4>1, <4>3
      <4> QED
        BY <4>2, <4>3
    <3> QED
      BY <2>3, <3>1, <3>2 DEF Seen
  <2>4. page'.values[Written] \in page'.shown
    BY <1>2, <2>1, <2>2, FeedAssumption
  <2>5. ASSUME ~ghost.missed, NEW r \in replies, r.ok, r.id = page.pending
        PROVE  Seen(r.values[Written], Len(queue))'
    <3> DEFINE v == r.values[Written]
    <3>1. Seen(v, Len(queue)) /\ Len(queue) \in Nat
      BY <1>3, <2>2, <2>5
    <3> HIDE DEF v
    <3>2. v \in page'.shown \/ \E j \in DOMAIN queue' : j <= Len(queue) - 1 /\ Carries(queue'[j], Written) /\ queue'[j].values[Written] = v
      BY <2>3, <3>1
    <3>3. Seen(v, Len(queue))'
      BY <1>3, <3>2 DEF Seen
    <3> QED
      BY <3>3 DEF v
  <2>6. ASSUME ~ghost.missed, NEW i \in DOMAIN queue',
               queue'[i].type = "result", queue'[i].ok, queue'[i].id = page.pending
        PROVE  Seen(queue[i].values[Written], i)'
    <3>1. i \in Nat /\ i + 1 \in Nat /\ (i + 1) - 1 = i
      BY <1>3
    <3>2. Seen(queue[i + 1].values[Written], i + 1)
      BY <1>3, <2>2, <2>6
    <3> DEFINE v == queue[i + 1].values[Written]
    <3>3. v = queue'[i].values[Written]
      BY <1>3
    <3>4. Seen(v, i + 1)
      BY <3>2
    <3> HIDE DEF v
    <3>5. v \in page'.shown \/ \E j \in DOMAIN queue' : j <= (i + 1) - 1 /\ Carries(queue'[j], Written) /\ queue'[j].values[Written] = v
      BY <2>3, <3>1, <3>4
    <3> QED
      BY <3>1, <3>3, <3>5 DEF Seen
  <2> QED
    BY <1>1, <1>2, <2>1, <2>4, <2>5, <2>6 DEF ShownInv
<1> QED
  BY <1>0, <1>1, <1>5, <1>6, <1>7, <1>8, <1>9, <1>10, <1>11, <1>12, <1>13 DEF OpenInv

-----------------------------------------------------------------------------
(* The inductive invariant. *)

\* The invariant holds initially ...
LEMMA FeedInit == Init => IInv
<1> SUFFICES ASSUME Init PROVE IInv
  OBVIOUS
<1>1. /\ worker = NoWorker /\ store = NoValues /\ replies = {} /\ queue = <<>>
      /\ page.values = NoValues /\ page.pending = 0 /\ page.confirmed = {}
      /\ used.commands = 0 /\ ghost.unsent = {} /\ ghost.answered = {} /\ ghost.missed = FALSE
      /\ sess.attached = FALSE /\ sess.broadcasts = FALSE /\ handler.pc = "idle"
  BY DEF Init
<1>2. /\ worker.pc = "none" /\ worker.why = "poll" /\ worker.cmd = 0 /\ worker.commands = <<>>
      /\ worker.lost = FALSE
  BY <1>1 DEF NoWorker
<1>3. DOMAIN queue = {} /\ DOMAIN worker.commands = {}
  BY <1>1, <1>2
<1>4. HandInv /\ NumberInv /\ OnceInv /\ PlaceInv /\ ConfirmInv
  BY <1>1, <1>2, <1>3 DEF HandInv, NumberInv, OnceInv, PlaceInv, ConfirmInv
<1>5. FollowInv
  BY <1>1 DEF FollowInv, NoValues
<1>6. StoredInv /\ FeedbackInv /\ ShownInv
  BY <1>1, <1>2 DEF StoredInv, FeedbackInv, ShownInv
<1>7. TypeOK /\ ConfirmedByWorker
  BY <1>1, TypeInit DEF ConfirmedByWorker
<1> QED
  BY <1>1, <1>4, <1>5, <1>6, <1>7 DEF IInv, OpenInv

\* A closed client stays closed.
LEMMA StaysClosed == TypeOK /\ [Next]_vars /\ closed => closed'
<1> SUFFICES ASSUME TypeOK, [Next]_vars, closed PROVE closed'
  OBVIOUS
<1>1. ASSUME NEW ms, enqueue(ms) PROVE closed'
  BY <1>1, Zenon DEF enqueue
<1>2. CASE UNCHANGED closed
  BY <1>2
<1>3. CASE ApplyValues \/ AfterScan \/ ConnectAttach \/ FinishPLCConnect \/ SnapshotSend
  BY <1>1, <1>2, <1>3, Zenon DEF ApplyValues, AfterScan, ConnectAttach, FinishPLCConnect, SnapshotSend
<1>4. ASSUME NEW v \in CommandValues, PointCommand(v) PROVE closed'
  BY <1>4, Zenon DEF PointCommand
<1>5. ASSUME NEW r \in replies, SendReply(r) PROVE closed'
  BY <1>1, <1>5, Zenon DEF SendReply
<1>6. CASE ConnectionBreaks
  BY <1>6 DEF ConnectionBreaks
<1>7. ASSUME NEW m \in Moves, PlcMoves(m[1], m[2]) PROVE closed'
  BY <1>7 DEF PlcMoves
<1>8. CASE ScanOk \/ ScanLost \/ StoreUpdate \/ Execute \/ ConnectDetach \/ SnapshotGet
  BY <1>2, <1>8 DEF ScanOk, ScanLost, StoreUpdate, Execute, ConnectDetach, SnapshotGet
<1>9. CASE StopDetach \/ StopClear \/ Deliver \/ CommandTimesOut \/ PageCloses \/ UNCHANGED vars
  BY <1>2, <1>9 DEF StopDetach, StopClear, Deliver, CommandTimesOut, PageCloses, vars
<1> QED
  BY <1>3, <1>4, <1>5, <1>6, <1>7, <1>8, <1>9 DEF Next

\* The page's confirmed commands grow only with a delivered result.
LEMMA ConfirmedStep ==
    ASSUME TypeOK, [Next]_vars
    PROVE  Deliver \/ page'.confirmed = page.confirmed
<1>1. CASE UNCHANGED page
  BY <1>1
<1>2. ASSUME NEW v \in CommandValues, PointCommand(v) PROVE page'.confirmed = page.confirmed
  BY <1>2 DEF PointCommand, TypeOK, Pages
<1>3. CASE CommandTimesOut \/ PageCloses
  BY <1>3 DEF CommandTimesOut, PageCloses, TypeOK, Pages
<1>4. ASSUME NEW r \in replies, SendReply(r) PROVE UNCHANGED page
  BY <1>4 DEF SendReply
<1>5. ASSUME NEW m \in Moves, PlcMoves(m[1], m[2]) PROVE UNCHANGED page
  BY <1>5 DEF PlcMoves
<1>6. CASE ScanOk \/ ScanLost \/ StoreUpdate \/ ApplyValues \/ AfterScan \/ Execute
  BY <1>1, <1>6 DEF ScanOk, ScanLost, StoreUpdate, ApplyValues, AfterScan, Execute
<1>7. CASE ConnectDetach \/ ConnectAttach \/ FinishPLCConnect \/ SnapshotGet \/ SnapshotSend
  BY <1>1, <1>7 DEF ConnectDetach, ConnectAttach, FinishPLCConnect, SnapshotGet, SnapshotSend
<1>8. CASE StopDetach \/ StopClear \/ ConnectionBreaks \/ UNCHANGED vars
  BY <1>1, <1>8 DEF StopDetach, StopClear, ConnectionBreaks, vars
<1> QED
  BY <1>2, <1>3, <1>4, <1>5, <1>6, <1>7, <1>8 DEF Next

\* What is known to have succeeded stays known.
LEMMA SucceededStep ==
    ASSUME TypeOK, [Next]_vars
    PROVE  ghost.succeeded \subseteq ghost'.succeeded
<1>0. ghost \in Ghosts
  BY DEF TypeOK
<1>1. CASE UNCHANGED ghost
  BY <1>1
<1>2. CASE ScanOk \/ ScanLost
  BY <1>0, <1>2 DEF ScanOk, ScanLost, Scanned, Ghosts
<1>3. CASE StoreUpdate
  <2>1. \/ ghost' = ghost
        \/ \E D : ghost' = Unsent(ghost.unsent \cup D)
        \/ \E D : ghost' = [Unsent(ghost.unsent \cup D) EXCEPT !.swallowed = @ \cup D]
    BY <1>3 DEF StoreUpdate
  <2> QED
    BY <1>0, <2>1 DEF Unsent, Ghosts
<1>4. CASE ApplyValues
  <2>1. CASE RecordAlarmChanges
    BY <1>0, <2>1 DEF RecordAlarmChanges, AppendRecords, Ghosts
  <2> QED
    BY <1>1, <1>4, <2>1 DEF ApplyValues
<1>5. CASE AfterScan
  BY <1>0, <1>5 DEF AfterScan, Ghosts
<1>6. CASE FinishPLCConnect
  BY <1>0, <1>6 DEF FinishPLCConnect, Ghosts
<1>7. CASE SnapshotSend
  BY <1>0, <1>7 DEF SnapshotSend, Unsent, Ghosts
<1>8. ASSUME NEW v \in CommandValues, PointCommand(v) PROVE ghost.succeeded \subseteq ghost'.succeeded
  BY <1>0, <1>8 DEF PointCommand, Ghosts
<1>9. CASE Deliver
  BY <1>0, <1>9 DEF Deliver, Ghosts
<1>10. ASSUME NEW r \in replies, SendReply(r) PROVE UNCHANGED ghost
  BY <1>10 DEF SendReply
<1>11. ASSUME NEW m \in Moves, PlcMoves(m[1], m[2]) PROVE UNCHANGED ghost
  BY <1>11 DEF PlcMoves
<1>12. CASE Execute \/ ConnectDetach \/ ConnectAttach \/ SnapshotGet \/ StopDetach \/ StopClear
  BY <1>1, <1>12 DEF Execute, ConnectDetach, ConnectAttach, SnapshotGet, StopDetach, StopClear
<1>13. CASE ConnectionBreaks \/ CommandTimesOut \/ PageCloses \/ UNCHANGED vars
  BY <1>1, <1>13 DEF ConnectionBreaks, CommandTimesOut, PageCloses, vars
<1> QED
  BY <1>2, <1>3, <1>4, <1>5, <1>6, <1>7, <1>8, <1>9, <1>10, <1>11, <1>12, <1>13 DEF Next

\* ... every step keeps it ...
LEMMA FeedStep == IInv /\ [Next]_vars => IInv'
<1> SUFFICES ASSUME IInv, [Next]_vars PROVE IInv'
  OBVIOUS
<1>1. TypeOK /\ TypeOK'
  BY TypeStep DEF IInv
<1>2. ConfirmedByWorker'
  <2>1. ghost.succeeded \subseteq ghost'.succeeded
    BY <1>1, SucceededStep
  <2>2. CASE page'.confirmed = page.confirmed
    BY <2>1, <2>2 DEF IInv, ConfirmedByWorker
  <2>3. CASE Deliver
    <3>1. OpenInv
      BY <2>3 DEF IInv, Deliver
    <3>2. queue[1].type = "result" /\ queue[1].ok => queue[1].id \in ghost.succeeded
      BY <1>1, <2>3, <3>1, DeliverFacts DEF OpenInv, ConfirmInv
    <3>3. page'.confirmed = page.confirmed \/ (queue[1].type = "result" /\ queue[1].ok /\ page'.confirmed = page.confirmed \cup {queue[1].id})
      BY <1>1, <2>3, DeliverFacts
    <3> QED
      BY <2>1, <3>2, <3>3 DEF IInv, ConfirmedByWorker
  <2> QED
    BY <1>1, <2>2, <2>3, ConfirmedStep
<1>3. ASSUME ~closed' PROVE OpenInv'
  <2>0. ~closed /\ OpenInv
    BY <1>1, <1>3, StaysClosed DEF IInv
  <2>1. CASE (\E m \in Moves : PlcMoves(m[1], m[2])) \/ SnapshotGet
    BY <1>1, <2>0, <2>1, QuietStep
  <2>2. CASE ScanOk \/ ScanLost
    BY <1>1, <2>0, <2>2, ScanStep
  <2>3. CASE StoreUpdate
    BY <1>1, <2>0, <2>3, StoreStep
  <2>4. CASE ApplyValues
    BY <1>1, <1>3, <2>0, <2>4, ApplyStep
  <2>5. CASE AfterScan
    BY <1>1, <1>3, <2>0, <2>5, AfterScanStep
  <2>6. CASE Execute
    BY <1>1, <2>0, <2>6, ExecuteStep
  <2>7. CASE ConnectDetach
    BY <1>1, <2>0, <2>7, DetachStep
  <2>8. CASE ConnectAttach
    BY <1>1, <1>3, <2>0, <2>8, AttachStep
  <2>9. CASE FinishPLCConnect
    BY <1>1, <1>3, <2>0, <2>9, FinishStep
  <2>10. CASE SnapshotSend
    BY <1>1, <1>3, <2>0, <2>10, SnapshotStep
  <2>11. ASSUME NEW v \in CommandValues, PointCommand(v) PROVE OpenInv'
    BY <1>1, <1>3, <2>0, <2>11, CommandStep
  <2>12. ASSUME NEW r \in replies, SendReply(r) PROVE OpenInv'
    BY <1>1, <1>3, <2>0, <2>12, ReplyStep
  <2>13. CASE Deliver
    BY <1>1, <2>0, <2>13, DeliverStep
  <2>14. CASE CommandTimesOut
    BY <1>1, <2>0, <2>14, TimeoutStep
  <2>15. ~StopDetach /\ ~StopClear /\ ~PageCloses /\ ~ConnectionBreaks
    BY <1>3, <2>0 DEF StopDetach, StopClear, PageCloses, ConnectionBreaks, OpenInv
  <2>16. CASE UNCHANGED vars
    <3>1. UNCHANGED <<worker, store, sess, handler, replies, queue, page, used, ghost>>
      BY <2>16 DEF vars
    <3>2. HandInv' /\ NumberInv' /\ OnceInv' /\ PlaceInv'
      BY <2>0, <3>1 DEF OpenInv, HandInv, NumberInv, OnceInv, PlaceInv, OnePlace, Waits, InHand, Replied, Queued, Answered
    <3>3. ConfirmInv' /\ FollowInv' /\ StoredInv' /\ FeedbackInv' /\ ShownInv'
      BY <2>0, <3>1 DEF OpenInv, ConfirmInv, FollowInv, AboutToSend, StoredInv, FeedbackInv, ShownInv, Seen
    <3> QED
      BY <2>0, <3>1, <3>2, <3>3 DEF OpenInv
  <2> QED
    BY <2>1, <2>2, <2>3, <2>4, <2>5, <2>6, <2>7, <2>8, <2>9, <2>10, <2>11, <2>12, <2>13, <2>14, <2>15, <2>16
    DEF Next
<1> QED
  BY <1>1, <1>2, <1>3 DEF IInv

\* ... so it holds always.
LEMMA FeedInvariant == Spec => []IInv
  BY FeedInit, FeedStep, PTL DEF Spec

-----------------------------------------------------------------------------
(* The properties. *)

\* Once everything sent has arrived the page shows what the store holds, except for
\* the points in ghost.unsent (applyValues, finishPLCConnect, wsClient.enqueue).
THEOREM FeedPageFollowsStore == Spec => []PageFollowsStore
<1>1. IInv => PageFollowsStore
  <2> SUFFICES ASSUME IInv, Quiet, sess.broadcasts, NEW p \in Points, p \notin ghost.unsent
               PROVE  page.values[p] = store[p]
    BY DEF PageFollowsStore
  <2>1. Ends(queue, page.values, p, store[p])
    BY DEF Quiet, IInv, OpenInv, FollowInv, AboutToSend
  <2>2. DOMAIN queue = {}
    BY DEF Quiet
  <2> QED
    BY <2>1, <2>2 DEF Ends
<1> QED
  BY <1>1, FeedInvariant, PTL

\* After a reported loss the page shows no value as good, unless it missed the update
\* or a register held something Update refuses (staleValues, sameDisplayState).
THEOREM FeedLossIsShown == Spec => []LossIsShown
<1>1. IInv => LossIsShown
  <2> SUFFICES ASSUME IInv, Quiet, sess.broadcasts, worker.pc = "idle", worker.lost,
                      \A p \in Points : worker.last[p].value # Invalid,
                      NEW p \in Points, p \notin ghost.unsent
               PROVE  page.values[p].quality # "good"
    BY DEF LossIsShown
  <2>1. Ends(queue, page.values, p, store[p])
    BY DEF Quiet, IInv, OpenInv, FollowInv, AboutToSend
  <2>2. page.values[p] = store[p]
    <3>1. DOMAIN queue = {}
      BY DEF Quiet
    <3> QED
      BY <2>1, <3>1 DEF Ends
  <2>3. store = worker.last /\ worker.last[p].quality = "stale"
    BY DEF Quiet, IInv, OpenInv, StoredInv
  <2> QED
    BY <2>2, <2>3
<1> QED
  BY <1>1, FeedInvariant, PTL

\* A command the page takes as done was confirmed by the worker, whatever late
\* results arrive during later commands (PointCommandReceipt).
THEOREM FeedConfirmedByWorker == Spec => []ConfirmedByWorker
<1>1. IInv => ConfirmedByWorker
  BY DEF IInv
<1> QED
  BY <1>1, FeedInvariant, PTL

\* Every command sent is in exactly one place on the way to its answer, as long as
\* the connection lasts (TrySubmit, reply, rejectQueued, the reply goroutines).
THEOREM FeedEveryCommandAnsweredOnce == Spec => []EveryCommandAnsweredOnce
<1>1. IInv => EveryCommandAnsweredOnce
  <2> SUFFICES ASSUME IInv, ~closed, NEW id \in 1..used.commands
               PROVE  Cardinality({i \in DOMAIN worker.commands : worker.commands[i].id = id})
                      + Cardinality({m \in replies : m.id = id})
                      + Cardinality({i \in DOMAIN queue : queue[i].id = id})
                      + (IF worker.cmd = id THEN 1 ELSE 0)
                      + (IF id \in ghost.answered THEN 1 ELSE 0) = 1
    BY DEF EveryCommandAnsweredOnce
  <2> DEFINE W == {i \in DOMAIN worker.commands : worker.commands[i].id = id}
             R == {m \in replies : m.id = id}
             Q == {i \in DOMAIN queue : queue[i].id = id}
  <2>1. OnceInv /\ OnePlace(id) /\ id # 0
    <3>1. used.commands \in Nat
      BY TypeFacts DEF IInv
    <3> QED
      BY <3>1 DEF IInv, OpenInv, PlaceInv
  <2>2. ASSUME NEW S, \A x, y \in S : x = y
        PROVE  Cardinality(S) = IF S = {} THEN 0 ELSE 1
    <3>1. CASE S = {}
      BY <3>1, FS_EmptySet
    <3>2. CASE S # {}
      <4>1. PICK x \in S : TRUE
        BY <3>2
      <4>2. S = {x}
        BY <2>2, <4>1
      <4> QED
        BY <3>2, <4>2, FS_Singleton
    <3> QED
      BY <3>1, <3>2
  <2>3. Cardinality(W) = IF Waits(id) THEN 1 ELSE 0
    <3>1. /\ \A x, y \in W : x = y
          /\ Waits(id) <=> W # {}
      BY <2>1 DEF OnceInv, Waits
    <3> HIDE DEF W
    <3> QED
      BY <2>2, <3>1
  <2>4. Cardinality(R) = IF Replied(id) THEN 1 ELSE 0
    <3>1. /\ \A x, y \in R : x = y
          /\ Replied(id) <=> R # {}
      BY <2>1 DEF OnceInv, Replied
    <3> HIDE DEF R
    <3> QED
      BY <2>2, <3>1
  <2>5. Cardinality(Q) = IF Queued(id) THEN 1 ELSE 0
    <3>1. /\ \A x, y \in Q : x = y
          /\ Queued(id) <=> Q # {}
      BY <2>1 DEF OnceInv, Queued
    <3> HIDE DEF Q
    <3> QED
      BY <2>2, <3>1
  <2> HIDE DEF W, R, Q
  <2>6. Cardinality(W) + Cardinality(R) + Cardinality(Q) + (IF worker.cmd = id THEN 1 ELSE 0)
        + (IF id \in ghost.answered THEN 1 ELSE 0) = 1
    BY <2>1, <2>3, <2>4, <2>5 DEF OnePlace, InHand, Answered
  <2> QED
    BY <2>6 DEF W, R, Q
<1> QED
  BY <1>1, FeedInvariant, PTL

\* When the page takes a command as done it has shown the feedback that confirmed
\* it: a result never overtakes the change it reports (handleCommand, the reply
\* goroutine of handlePointCommand).
THEOREM FeedConfirmedWasShown == Spec => ConfirmedWasShown
<1> DEFINE A == \A id \in page'.confirmed \ page.confirmed :
                   ghost.missed \/ Head(queue).values[Written] \in page.shown
<1>1. ASSUME IInv, [Next]_vars PROVE [A]_vars
  <2> SUFFICES ASSUME NEW id \in page'.confirmed \ page.confirmed, ~ghost.missed
               PROVE  Head(queue).values[Written] \in page.shown
    OBVIOUS
  <2>1. TypeOK /\ Deliver
    BY <1>1, ConfirmedStep DEF IInv
  <2>2. OpenInv
    BY <1>1, <2>1 DEF IInv, Deliver
  <2>3. /\ 1 \in DOMAIN queue /\ queue # <<>>
        /\ queue[1].type = "result" /\ queue[1].ok /\ queue[1].id = page.pending
    BY <2>1, DeliverFacts
  <2>4. Head(queue) = queue[1]
    BY <2>1, <2>3 DEF TypeOK
  <2>5. page.pending # 0
    <3>1. used.commands \in Nat
      BY <2>1, TypeFacts
    <3> QED
      BY <2>2, <2>3, <3>1 DEF OpenInv, NumberInv
  <2>6. Seen(queue[1].values[Written], 1)
    BY <2>2, <2>3, <2>5 DEF OpenInv, ShownInv
  <2>7. ~\E i \in DOMAIN queue : i <= 1 /\ Carries(queue[i], Written)
    <3>1. DOMAIN queue = 1..Len(queue) /\ Len(queue) \in Nat
      BY <2>1, TypeFacts
    <3>2. ~Carries(queue[1], Written)
      BY <2>3 DEF Carries
    <3> QED
      BY <3>1, <3>2
  <2> QED
    BY <2>4, <2>6, <2>7 DEF Seen
<1>2. Spec => [][A]_vars
  BY <1>1, FeedInvariant, PTL DEF Spec
<1> QED
  BY <1>2 DEF ConfirmedWasShown

-----------------------------------------------------------------------------
(* Reading the alarm history. *)

\* A set of naturals that is not empty has a least element: the form in which induction is used here.
LEMMA Least ==
    ASSUME NEW T \in SUBSET Nat, T # {}
    PROVE  \E x \in T : \A y \in T : x <= y
<1> DEFINE R == OpToRel(<, Nat)
<1>1. IsWellFoundedOn(R, Nat)
  BY NatLessThanWellFounded
<1> HIDE DEF R
<1>2. \E x \in T : \A y \in T : ~(<<y, x>> \in R)
  BY <1>1, WFMin
<1>3. \A x, y \in Nat : y < x => <<y, x>> \in R
  BY DEF R, OpToRel
<1>4. PICK x \in T : \A y \in T : ~(<<y, x>> \in R)
  BY <1>2
<1>5. ASSUME NEW y \in T PROVE x <= y
  <2>1. ~(y < x)
    BY <1>3, <1>4
  <2>2. x \in Nat /\ y \in Nat
    OBVIOUS
  <2> QED
    BY <2>1, <2>2
<1> QED
  BY <1>5

\* What is left of a sequence behind place a.
Rest(s, a) == SubSeq(s, a + 1, Len(s))

\* Its length and elements.
LEMMA RestFacts ==
    ASSUME NEW S, NEW s \in Seq(S), NEW a \in 0..Len(s)
    PROVE  /\ Rest(s, a) \in Seq(S) /\ Len(Rest(s, a)) = Len(s) - a
           /\ \A i \in 1 .. Len(s) - a : Rest(s, a)[i] = s[a + i]
           /\ Rest(s, 0) = s
<1>1. Len(s) \in Nat /\ \A i \in 1..Len(s) : s[i] \in S
  OBVIOUS
<1>2. a + 1 \in Int /\ Len(s) \in Int /\ \A i \in a + 1 .. Len(s) : s[i] \in S
  BY <1>1
<1>3. /\ SubSeq(s, a + 1, Len(s)) \in Seq(S)
      /\ Len(SubSeq(s, a + 1, Len(s))) = IF a + 1 <= Len(s) THEN Len(s) - (a + 1) + 1 ELSE 0
      /\ \A i \in 1 .. Len(s) - (a + 1) + 1 : SubSeq(s, a + 1, Len(s))[i] = s[a + 1 + i - 1]
  BY <1>2, SubSeqProperties
<1>4. SubSeq(s, 1, Len(s)) = s
  BY SubSeqFull
<1>5. Rest(s, 0) = s
  BY <1>4 DEF Rest
<1>6. Rest(s, a) = SubSeq(s, a + 1, Len(s))
  BY DEF Rest
<1> DEFINE r == Rest(s, a)
<1>7. /\ r \in Seq(S) /\ Len(r) = IF a + 1 <= Len(s) THEN Len(s) - (a + 1) + 1 ELSE 0
      /\ \A i \in 1 .. Len(s) - (a + 1) + 1 : r[i] = s[a + 1 + i - 1]
  BY <1>3, <1>6
<1> HIDE DEF r
<1>8. Len(r) = Len(s) - a
  BY <1>1, <1>7
<1>9. ASSUME NEW i \in 1 .. Len(s) - a PROVE r[i] = s[a + i]
  <2>1. i \in 1 .. Len(s) - (a + 1) + 1 /\ a + 1 + i - 1 = a + i
    BY <1>1
  <2> QED
    BY <1>7, <2>1
<1> QED
  BY <1>5, <1>7, <1>8, <1>9 DEF r

\* A page of at least one record, then what is left behind it.
LEMMA PageFacts ==
    ASSUME history \in Seq(Records), NEW limit \in Nat, limit > 0, NEW after \in 0..Len(history)
    PROVE  /\ List(after, limit).hasMore <=> after + limit < Len(history)
           /\ List(after, limit).nextCursor = after + limit
           /\ after + limit < Len(history) => List(after, limit).records \o Rest(history, after + limit) = Rest(history, after)
           /\ ~(after + limit < Len(history)) => List(after, limit).records \o <<>> = Rest(history, after)
<1> DEFINE L == Len(history)
           end == IF after + limit < L THEN after + limit + 1 ELSE L
           found == SubSeq(history, after + 1, end)
<1>1. L \in Nat /\ \A i \in 1..L : history[i] \in Records
  OBVIOUS
<1>2. end \in Nat /\ end <= L /\ after <= end
  BY <1>1
<1>3. found \in Seq(Records) /\ Len(found) = end - after /\ \A i \in 1 .. end - after : found[i] = history[after + i]
  <2>1. after + 1 \in Int /\ end \in Int /\ \A i \in after + 1 .. end : history[i] \in Records
    BY <1>1, <1>2
  <2> HIDE DEF end
  <2>2. /\ found \in Seq(Records) /\ Len(found) = IF after + 1 <= end THEN end - (after + 1) + 1 ELSE 0
        /\ \A i \in 1 .. end - (after + 1) + 1 : found[i] = history[after + 1 + i - 1]
    BY <2>1, SubSeqProperties
  <2> QED
    BY <1>2, <2>2
<1>4. List(after, limit) = [records |-> IF Len(found) > limit THEN SubSeq(found, 1, limit) ELSE found,
                           hasMore |-> Len(found) > limit, nextCursor |-> after + limit]
  BY DEF List
<1>5. List(after, limit).nextCursor = after + limit
  BY <1>4
<1> HIDE DEF found
<1>6. Len(found) > limit <=> after + limit < L
  BY <1>1, <1>3
<1>7. List(after, limit).hasMore <=> after + limit < L
  <2>1. List(after, limit).hasMore = (Len(found) > limit)
    BY <1>4
  <2> QED
    BY <1>6, <2>1, Zenon
<1>8. ASSUME after + limit < L
      PROVE  List(after, limit).records \o Rest(history, after + limit) = Rest(history, after)
  <2> DEFINE r == SubSeq(found, 1, limit)
             t == Rest(history, after + limit)
  <2>1. List(after, limit).records = r
    BY <1>4, <1>6, <1>8
  <2>2. r \in Seq(Records) /\ Len(r) = limit /\ \A i \in 1..limit : r[i] = history[after + i]
    <3>1. Len(found) = limit + 1 /\ \A i \in 1..limit : found[i] \in Records /\ found[i] = history[after + i]
      BY <1>1, <1>3, <1>8
    <3>2. /\ r \in Seq(Records) /\ Len(r) = (IF 1 <= limit THEN limit - 1 + 1 ELSE 0)
          /\ \A i \in 1 .. limit - 1 + 1 : r[i] = found[1 + i - 1]
      BY <3>1, SubSeqProperties
    <3> HIDE DEF r
    <3> QED
      BY <3>1, <3>2
  <2>3. t \in Seq(Records) /\ Len(t) = L - (after + limit) /\ \A i \in 1 .. L - (after + limit) : t[i] = history[after + limit + i]
    <3>1. after + limit \in 0..Len(history)
      BY <1>1, <1>8
    <3> QED
      BY <3>1, RestFacts
  <2>4. Rest(history, after) \in Seq(Records) /\ Len(Rest(history, after)) = L - after
        /\ \A i \in 1 .. L - after : Rest(history, after)[i] = history[after + i]
    BY <1>1, RestFacts
  <2> HIDE DEF r, t
  <2>5. /\ r \o t \in Seq(Records) /\ Len(r \o t) = Len(r) + Len(t)
        /\ \A i \in 1 .. Len(r) + Len(t) : (r \o t)[i] = IF i <= Len(r) THEN r[i] ELSE t[i - Len(r)]
    <3>1. r \in Seq(Records) /\ t \in Seq(Records)
      BY <2>2, <2>3
    <3> QED
      BY <3>1, ConcatProperties
  <2>6. Len(r \o t) = L - after
    BY <1>1, <2>2, <2>3, <2>5
  <2>7. ASSUME NEW i \in 1 .. L - after PROVE (r \o t)[i] = history[after + i]
    <3>1. CASE i <= limit
      BY <1>1, <2>2, <2>3, <2>5, <3>1
    <3>2. CASE i > limit
      <4>1. i - limit \in 1 .. L - (after + limit) /\ after + limit + (i - limit) = after + i
        BY <1>1, <3>2
      <4> QED
        BY <1>1, <2>2, <2>3, <2>5, <3>2, <4>1
    <3>3. i <= limit \/ i > limit
      <4>1. i \in Int
        OBVIOUS
      <4> QED
        BY <4>1
    <3> QED
      BY <3>1, <3>2, <3>3, Zenon
  <2>8. r \o t = Rest(history, after)
    BY <1>1, <2>4, <2>5, <2>6, <2>7, SeqEqual
  <2> QED
    BY <2>1, <2>8 DEF t
<1>9. ASSUME ~(after + limit < L)
      PROVE  List(after, limit).records \o <<>> = Rest(history, after)
  <2>1. List(after, limit).records = found
    BY <1>4, <1>6, <1>9
  <2>2. end = L
    BY <1>9
  <2>3. found = Rest(history, after)
    BY <2>2 DEF found, Rest
  <2> QED
    BY <1>3, <2>1, <2>3, ConcatEmptySeq
<1> QED
  BY <1>5, <1>7, <1>8, <1>9

\* A function that reads on as ReadInPages does.
ReadsOn(f, limit) ==
    f = [after \in 0..Len(history) |->
            List(after, limit).records \o IF List(after, limit).hasMore THEN f[List(after, limit).nextCursor] ELSE <<>>]

\* Followed from any cursor, the pages give what is behind it.
LEMMA ReadsRest ==
    ASSUME history \in Seq(Records), NEW limit \in Nat, limit > 0, NEW f, ReadsOn(f, limit)
    PROVE  \A after \in 0..Len(history) : f[after] = Rest(history, after)
<1> DEFINE L == Len(history)
           T == {n \in 0..L : f[L - n] # Rest(history, L - n)}
<1>1. L \in Nat
  OBVIOUS
<1>2. \A after \in 0..L : f[after] = List(after, limit).records \o IF after + limit < L THEN f[after + limit] ELSE <<>>
  <2> SUFFICES ASSUME NEW after \in 0..L
               PROVE  f[after] = List(after, limit).records \o IF after + limit < L THEN f[after + limit] ELSE <<>>
    OBVIOUS
  <2>1. (List(after, limit).hasMore <=> after + limit < L) /\ List(after, limit).nextCursor = after + limit
    BY PageFacts
  <2>2. f[after] = List(after, limit).records \o IF List(after, limit).hasMore THEN f[List(after, limit).nextCursor] ELSE <<>>
    BY DEF ReadsOn
  <2> QED
    BY <2>1, <2>2
<1>3. T = {}
  <2> SUFFICES ASSUME T # {} PROVE FALSE
    OBVIOUS
  <2>1. T \in SUBSET Nat
    BY <1>1
  <2>2. PICK n \in T : \A k \in T : n <= k
    <3> HIDE DEF T
    <3> QED
      BY <2>1, Least
  <2> DEFINE a == L - n
  <2>3. a \in 0..L /\ f[a] # Rest(history, a)
    BY <1>1, <2>2
  <2>4. CASE a + limit < L
    <3>1. n - limit \in 0..L /\ n - limit < n /\ L - (n - limit) = a + limit
      BY <1>1, <2>2, <2>4
    <3>2. n - limit \notin T
      <4>1. n \in Int /\ ~(n <= n - limit)
        BY <1>1, <2>2
      <4> QED
        BY <2>2, <4>1
    <3>3. f[a + limit] = Rest(history, a + limit)
      BY <3>1, <3>2
    <3> HIDE DEF a, T
    <3>4. f[a] = List(a, limit).records \o Rest(history, a + limit)
      BY <1>2, <2>3, <2>4, <3>3
    <3> QED
      BY <2>3, <2>4, <3>4, PageFacts
  <2>5. CASE ~(a + limit < L)
    <3> HIDE DEF a, T
    <3>1. f[a] = List(a, limit).records \o <<>>
      BY <1>2, <2>3, <2>5
    <3> QED
      BY <2>3, <2>5, <3>1, PageFacts
  <2> QED
    BY <2>4, <2>5
<1>4. ASSUME NEW after \in 0..L PROVE f[after] = Rest(history, after)
  <2>1. L - after \in 0..L /\ L - (L - after) = after
    BY <1>1
  <2>2. L - after \notin T
    BY <1>3
  <2> QED
    BY <2>1, <2>2
<1> QED
  BY <1>4

\* A reader who follows the cursors gets the whole history in order, whatever the
\* size of a page (Store.List, Service.List).
LEMMA PagesAreComplete ==
    ASSUME history \in Seq(Records), NEW limit \in Nat, limit > 0
    PROVE  ReadInPages(limit) = history
<1> DEFINE g == [after \in 0..Len(history) |-> Rest(history, after)]
           page1(f, after) == List(after, limit).records \o IF List(after, limit).hasMore THEN f[List(after, limit).nextCursor] ELSE <<>>
<1>0. Len(history) \in Nat
  OBVIOUS
<1>1. ReadsOn(g, limit)
  <2>1. ASSUME NEW after \in 0..Len(history)
        PROVE  g[after] = page1(g, after)
    <3>1. (List(after, limit).hasMore <=> after + limit < Len(history)) /\ List(after, limit).nextCursor = after + limit
      BY PageFacts
    <3>2. CASE after + limit < Len(history)
      <4>1. g[after + limit] = Rest(history, after + limit) /\ g[after] = Rest(history, after)
        BY <1>0, <3>2
      <4>2. page1(g, after) = List(after, limit).records \o Rest(history, after + limit)
        BY <3>1, <3>2, <4>1
      <4> QED
        BY <3>2, <4>1, <4>2, PageFacts
    <3>3. CASE ~(after + limit < Len(history))
      <4>1. page1(g, after) = List(after, limit).records \o <<>>
        BY <3>1, <3>3
      <4>2. g[after] = Rest(history, after)
        OBVIOUS
      <4> QED
        BY <3>3, <4>1, <4>2, PageFacts
    <3> QED
      BY <3>2, <3>3
  <2>2. g = [after \in 0..Len(history) |-> g[after]]
    OBVIOUS
  <2> HIDE DEF g
  <2> QED
    BY <2>1, <2>2 DEF ReadsOn
<1> DEFINE from == CHOOSE f : f = [after \in 0..Len(history) |->
                      LET p == List(after, limit) IN p.records \o IF p.hasMore THEN f[p.nextCursor] ELSE <<>>]
<1>2. ReadInPages(limit) = from[0]
  BY DEF ReadInPages
<1>3. \E f : ReadsOn(f, limit)
  BY <1>1
<1>4. ReadsOn(from, limit)
  BY <1>3, Zenon DEF ReadsOn
<1> HIDE DEF from
<1>5. from[0] = Rest(history, 0)
  BY <1>0, <1>4, ReadsRest
<1>6. Rest(history, 0) = history
  BY <1>0, RestFacts
<1> QED
  BY <1>2, <1>5, <1>6

-----------------------------------------------------------------------------
(* Writing the alarm history. *)

\* PlacesOf, RaisedBefore and Alternates of any sequence of records.
Places(h, p) == {i \in DOMAIN h : h[i].point = p}
Raised(h, p, i) ==
    \E j \in Places(h, p) : /\ j < i /\ h[j].kind = "RAISED"
                            /\ \A k \in Places(h, p) : k < i => k <= j
Alternating(h, p) == \A i \in Places(h, p) : h[i].kind = IF Raised(h, p, i) THEN "CLEARED" ELSE "RAISED"

\* The records o in the order in which they are stored: all of them, each once.
LEMMA OrderFacts ==
    ASSUME NEW kept \in SUBSET Records, IsFiniteSet(kept),
           NEW o \in [1 .. Cardinality(kept) -> kept], {o[i] : i \in DOMAIN o} = kept
    PROVE  /\ o \in Seq(Records) /\ DOMAIN o = 1..Len(o)
           /\ \A i \in 1..Len(o) : o[i] \in kept
           /\ \A i, j \in 1..Len(o) : o[i] = o[j] => i = j
           /\ \A r \in kept : \E i \in 1..Len(o) : o[i] = r
<1> DEFINE n == Cardinality(kept)
<1>1. n \in Nat
  BY FS_CardinalityType
<1>2. IsFiniteSet(1..n) /\ Cardinality(1..n) = n
  BY <1>1, FS_Interval
<1>3. \A r \in kept : \E i \in 1..n : o[i] = r
  OBVIOUS
<1>4. o \in Surjection(1..n, kept)
  BY <1>3 DEF Surjection
<1>5. o \in Injection(1..n, kept)
  BY <1>2, <1>4, FS_Surjection
<1>6. \A i, j \in 1..n : o[i] = o[j] => i = j
  BY <1>5 DEF Injection, IsInjective
<1> HIDE DEF n
<1>7. o \in Seq(kept)
  BY <1>1, SeqDef DEF n
<1>8. o \in Seq(Records)
  BY <1>7, SeqMonotonic
<1>9. DOMAIN o = 1..Len(o) /\ DOMAIN o = 1..n
  BY <1>7, LenProperties DEF n
<1> QED
  BY <1>3, <1>6, <1>8, <1>9

\* A history h with the records o behind it.
LEMMA LongerHistory ==
    ASSUME NEW h \in Seq(Records), NEW o \in Seq(Records)
    PROVE  /\ h \o o \in Seq(Records) /\ Len(h) \in Nat /\ Len(o) \in Nat
           /\ Len(h \o o) = Len(h) + Len(o) /\ DOMAIN (h \o o) = 1 .. Len(h) + Len(o)
           /\ DOMAIN h = 1..Len(h) /\ DOMAIN o = 1..Len(o)
           /\ \A i \in 1..Len(h) : (h \o o)[i] = h[i]
           /\ \A i \in 1..Len(o) : (h \o o)[Len(h) + i] = o[i]
<1>1. /\ h \o o \in Seq(Records) /\ Len(h \o o) = Len(h) + Len(o)
      /\ \A i \in 1 .. Len(h) + Len(o) : (h \o o)[i] = IF i <= Len(h) THEN h[i] ELSE o[i - Len(h)]
  BY ConcatProperties
<1>2. /\ Len(h) \in Nat /\ Len(o) \in Nat /\ DOMAIN h = 1..Len(h) /\ DOMAIN o = 1..Len(o)
      /\ DOMAIN (h \o o) = 1..Len(h \o o)
  BY <1>1, LenProperties
<1>3. ASSUME NEW i \in 1..Len(h) PROVE (h \o o)[i] = h[i]
  BY <1>1, <1>2
<1>4. ASSUME NEW i \in 1..Len(o) PROVE (h \o o)[Len(h) + i] = o[i]
  <2>1. Len(h) + i \in 1 .. Len(h) + Len(o) /\ ~(Len(h) + i <= Len(h)) /\ (Len(h) + i) - Len(h) = i
    BY <1>2
  <2> QED
    BY <1>1, <2>1
<1> QED
  BY <1>1, <1>2, <1>3, <1>4

\* What was recorded before does not change.
LEMMA PastIsKept ==
    ASSUME NEW h \in Seq(Records), NEW o \in Seq(Records), NEW p
    PROVE  /\ \A i \in 1..Len(h) : i \in Places(h \o o, p) <=> i \in Places(h, p)
           /\ \A i \in 1 .. Len(h) + 1 : Raised(h \o o, p, i) <=> Raised(h, p, i)
<1> DEFINE g == h \o o
           L == Len(h)
<1>1. /\ L \in Nat /\ Len(o) \in Nat /\ DOMAIN g = 1 .. L + Len(o) /\ DOMAIN h = 1..L
      /\ \A i \in 1..L : g[i] = h[i]
  BY LongerHistory
<1> HIDE DEF g, L
<1>2. \A i \in 1..L : i \in Places(g, p) <=> i \in Places(h, p)
  BY <1>1 DEF Places
<1>3. Places(h, p) \subseteq 1..L /\ Places(g, p) \subseteq 1 .. L + Len(o)
  BY <1>1 DEF Places
<1>4. ASSUME NEW i \in 1 .. L + 1 PROVE Raised(g, p, i) <=> Raised(h, p, i)
  <2>1. \A j \in Places(g, p) : j < i => j \in Places(h, p) /\ g[j] = h[j]
    BY <1>1, <1>2, <1>3
  <2>2. \A j \in Places(h, p) : j \in Places(g, p) /\ g[j] = h[j]
    BY <1>1, <1>2, <1>3
  <2>3. ASSUME Raised(g, p, i) PROVE Raised(h, p, i)
    BY <2>1, <2>2, <2>3 DEF Raised
  <2>4. ASSUME Raised(h, p, i) PROVE Raised(g, p, i)
    BY <2>1, <2>2, <2>4 DEF Raised
  <2> QED
    BY <2>3, <2>4, Zenon
<1> QED
  BY <1>2, <1>4 DEF g, L

\* No record of p is added.
LEMMA NoNewRecord ==
    ASSUME NEW h \in Seq(Records), NEW o \in Seq(Records), NEW p,
           \A m \in 1..Len(o) : o[m].point # p, Alternating(h, p)
    PROVE  /\ Alternating(h \o o, p)
           /\ Raised(h \o o, p, Len(h \o o) + 1) <=> Raised(h, p, Len(h) + 1)
<1> DEFINE g == h \o o
           L == Len(h)
<1>1. /\ L \in Nat /\ Len(o) \in Nat /\ Len(g) = L + Len(o) /\ DOMAIN g = 1 .. L + Len(o) /\ DOMAIN h = 1..L
      /\ \A i \in 1..L : g[i] = h[i]
      /\ \A i \in 1..Len(o) : g[L + i] = o[i]
  BY LongerHistory
<1>2. /\ \A i \in 1..L : i \in Places(g, p) <=> i \in Places(h, p)
      /\ \A i \in 1 .. L + 1 : Raised(g, p, i) <=> Raised(h, p, i)
  BY PastIsKept
<1> HIDE DEF g, L
<1>3. ASSUME NEW i \in Places(g, p) PROVE i \in 1..L
  <2>1. i \in 1 .. L + Len(o) /\ g[i].point = p
    BY <1>1 DEF Places
  <2>2. CASE i > L
    <3>1. i - L \in 1..Len(o) /\ L + (i - L) = i
      BY <1>1, <2>1, <2>2
    <3> QED
      BY <1>1, <2>1, <3>1
  <2> QED
    BY <1>1, <2>1, <2>2
<1>4. Alternating(g, p)
  <2> SUFFICES ASSUME NEW i \in Places(g, p)
               PROVE  g[i].kind = IF Raised(g, p, i) THEN "CLEARED" ELSE "RAISED"
    BY DEF Alternating
  <2>1. i \in 1..L /\ i \in 1 .. L + 1 /\ i \in Places(h, p)
    BY <1>1, <1>2, <1>3
  <2>2. h[i].kind = IF Raised(h, p, i) THEN "CLEARED" ELSE "RAISED"
    BY <2>1 DEF Alternating
  <2> QED
    BY <1>1, <1>2, <2>1, <2>2
<1>5. Raised(g, p, Len(g) + 1) <=> Raised(g, p, L + 1)
  <2>1. \A j \in Places(g, p) : j \in Int /\ j < L + 1 /\ j < Len(g) + 1
    BY <1>1, <1>3
  <2> QED
    BY <2>1 DEF Raised
<1>6. L + 1 \in 1 .. L + 1
  BY <1>1
<1> QED
  BY <1>2, <1>4, <1>5, <1>6 DEF g, L

\* One record of p is added, the other kind than the latest.
LEMMA NewRecord ==
    ASSUME NEW h \in Seq(Records), NEW o \in Seq(Records), NEW p,
           NEW m \in 1..Len(o), \A l \in 1..Len(o) : o[l].point = p <=> l = m,
           o[m].kind = IF Raised(h, p, Len(h) + 1) THEN "CLEARED" ELSE "RAISED",
           Alternating(h, p)
    PROVE  /\ Alternating(h \o o, p)
           /\ Raised(h \o o, p, Len(h \o o) + 1) <=> o[m].kind = "RAISED"
<1> DEFINE g == h \o o
           L == Len(h)
<1>1. /\ L \in Nat /\ Len(o) \in Nat /\ Len(g) = L + Len(o) /\ DOMAIN g = 1 .. L + Len(o) /\ DOMAIN h = 1..L
      /\ \A i \in 1..L : g[i] = h[i]
      /\ \A i \in 1..Len(o) : g[L + i] = o[i]
  BY LongerHistory
<1>2. /\ \A i \in 1..L : i \in Places(g, p) <=> i \in Places(h, p)
      /\ \A i \in 1 .. L + 1 : Raised(g, p, i) <=> Raised(h, p, i)
  BY PastIsKept
<1>0. o[m].kind = IF Raised(h, p, L + 1) THEN "CLEARED" ELSE "RAISED"
  OBVIOUS
<1> HIDE DEF g, L
<1>3. ASSUME NEW i \in Places(g, p) PROVE i \in 1..L \/ i = L + m
  <2>1. i \in 1 .. L + Len(o) /\ g[i].point = p
    BY <1>1 DEF Places
  <2>2. CASE i > L
    <3>1. i - L \in 1..Len(o) /\ L + (i - L) = i
      BY <1>1, <2>1, <2>2
    <3>2. i - L = m
      BY <1>1, <2>1, <3>1
    <3> QED
      BY <3>1, <3>2
  <2> QED
    BY <1>1, <2>1, <2>2
<1>4. L + m \in Places(g, p) /\ g[L + m] = o[m] /\ L + m \in Int /\ L + m > L
  <2>1. L + m \in 1 .. L + Len(o)
    BY <1>1
  <2> QED
    BY <1>1, <2>1 DEF Places
<1>5. Raised(g, p, L + m) <=> Raised(g, p, L + 1)
  <2>1. \A j \in Places(g, p) : j < L + m <=> j < L + 1
    BY <1>1, <1>3, <1>4
  <2> QED
    BY <2>1 DEF Raised
<1>6. L + 1 \in 1 .. L + 1
  BY <1>1
<1>7. Alternating(g, p)
  <2> SUFFICES ASSUME NEW i \in Places(g, p)
               PROVE  g[i].kind = IF Raised(g, p, i) THEN "CLEARED" ELSE "RAISED"
    BY DEF Alternating
  <2>1. CASE i \in 1..L
    <3>0. i \in Places(h, p)
      BY <1>2, <2>1
    <3>1. i \in 1 .. L + 1 /\ i \in Places(h, p)
      BY <1>1, <2>1, <3>0
    <3>2. h[i].kind = IF Raised(h, p, i) THEN "CLEARED" ELSE "RAISED"
      BY <3>1 DEF Alternating
    <3> QED
      BY <1>1, <1>2, <2>1, <3>1, <3>2
  <2>2. CASE i = L + m
    BY <1>0, <1>2, <1>4, <1>5, <1>6, <2>2
  <2> QED
    BY <1>3, <2>1, <2>2
<1>8. Raised(g, p, Len(g) + 1) <=> o[m].kind = "RAISED"
  <2>1. \A j \in Places(g, p) : j \in Int /\ j < Len(g) + 1 /\ j <= L + m
    BY <1>1, <1>3, <1>4
  <2>2. ASSUME Raised(g, p, Len(g) + 1) PROVE o[m].kind = "RAISED"
    <3>1. PICK j \in Places(g, p) : g[j].kind = "RAISED" /\ \A k \in Places(g, p) : k <= j
      BY <2>1, <2>2 DEF Raised
    <3>2. j = L + m
      BY <1>4, <2>1, <3>1
    <3> QED
      BY <1>4, <3>1, <3>2
  <2>3. ASSUME o[m].kind = "RAISED" PROVE Raised(g, p, Len(g) + 1)
    BY <1>4, <2>1, <2>3 DEF Raised
  <2> QED
    BY <2>2, <2>3
<1> QED
  BY <1>7, <1>8 DEF g

\* PlacesOf, RaisedBefore and Alternates in terms of these ...
LEMMA HistoryTerms ==
    /\ \A p : Alternates(p) <=> Alternating(history, p)
    /\ \A p : LastIsRaised(p) <=> Raised(history, p, Len(history) + 1)
  BY DEF Alternates, LastIsRaised, Alternating, PlacesOf, RaisedBefore, Places, Raised

\* ... and in the state after a step.
LEMMA HistoryTermsNext ==
    /\ \A p : Alternates(p)' <=> Alternating(history', p)
    /\ \A p : LastIsRaised(p)' <=> Raised(history', p, Len(history') + 1)
  BY DEF Alternates, LastIsRaised, Alternating, PlacesOf, RaisedBefore, Places, Raised

\* The transitions among the changes: one of each alarm whose state is new.
LEMMA TransitionFacts ==
    ASSUME TypeOK
    PROVE  /\ Transitions \subseteq Records /\ IsFiniteSet(Transitions)
           /\ \A r \in Transitions :
                 /\ r.point \in worker.changed /\ store[r.point].quality = "good"
                 /\ r.kind = IF alarmActive(store[r.point]) THEN "RAISED" ELSE "CLEARED"
                 /\ ~(alarmActive(store[r.point]) <=> sess.alarms[r.point] = "active")
           /\ \A p \in worker.changed \cap Alarms :
                 store[p].quality = "good" /\ ~(alarmActive(store[p]) <=> sess.alarms[p] = "active")
                 => \E r \in Transitions : r.point = p
           /\ \A r, s \in Transitions : r.point = s.point => r = s
<1> DEFINE New == {q \in worker.changed \cap Alarms :
                     store[q].quality = "good" /\ (alarmActive(store[q]) # (sess.alarms[q] = "active"))}
           rec(p) == [point |-> p, kind |-> IF alarmActive(store[p]) THEN "RAISED" ELSE "CLEARED"]
<1>1. Transitions = {rec(p) : p \in New}
  BY DEF Transitions
<1>2. \A p \in New : /\ p \in worker.changed /\ p \in Alarms /\ store[p].quality = "good"
                     /\ ~(alarmActive(store[p]) <=> sess.alarms[p] = "active")
  BY DEF alarmActive
<1>3. \A p \in worker.changed \cap Alarms :
        store[p].quality = "good" /\ ~(alarmActive(store[p]) <=> sess.alarms[p] = "active") => p \in New
  BY DEF alarmActive
<1>4. \A p : rec(p).point = p /\ rec(p).kind = IF alarmActive(store[p]) THEN "RAISED" ELSE "CLEARED"
  OBVIOUS
<1>5. \A p \in Alarms : rec(p) \in Records
  BY DEF Records
<1> HIDE DEF New, rec
<1>6. \A r \in Transitions : r.point \in New /\ r = rec(r.point)
  BY <1>1, <1>4
<1>7. Transitions \subseteq Records
  BY <1>1, <1>2, <1>5
<1>8. \A r, s \in Transitions : r.point = s.point => r = s
  BY <1>6
<1>9. IsFiniteSet(Transitions)
  <2> DEFINE f == [r \in Transitions |-> r.point]
  <2>1. IsFiniteSet(Alarms)
    BY FeedAssumption, FS_Subset
  <2>2. f \in [Transitions -> Alarms]
    BY <1>2, <1>6
  <2>3. f \in Injection(Transitions, Alarms)
    BY <1>8, <2>2 DEF Injection, IsInjective
  <2> QED
    BY <2>1, <2>3, FS_Injection
<1>10. \A r \in Transitions :
          /\ r.point \in worker.changed /\ store[r.point].quality = "good"
          /\ r.kind = IF alarmActive(store[r.point]) THEN "RAISED" ELSE "CLEARED"
          /\ ~(alarmActive(store[r.point]) <=> sess.alarms[r.point] = "active")
  BY <1>2, <1>4, <1>6
<1>11. \A p \in worker.changed \cap Alarms :
          store[p].quality = "good" /\ ~(alarmActive(store[p]) <=> sess.alarms[p] = "active")
          => \E r \in Transitions : r.point = p
  BY <1>1, <1>3, <1>4
<1> QED
  BY <1>7, <1>8, <1>9, <1>10, <1>11

\* What recording the alarm changes does to the session's alarms and the history.
LEMMA RecordingFacts ==
    ASSUME TypeOK, history \in Seq(Records), RecordAlarmChanges
    PROVE  /\ sess'.current = sess.current
           /\ \A p \in Alarms :
                 sess'.alarms[p] = IF p \notin worker.changed \/ store[p].quality # "good" THEN sess.alarms[p]
                                   ELSE IF alarmActive(store[p]) THEN "active" ELSE "normal"
           /\ ghost'.swallowed = ghost.swallowed \ worker.changed
           /\ \E o \in Seq(Records) :
                 /\ history' = history \o o
                 /\ ~ghost'.dropped =>
                      /\ ~ghost.dropped
                      /\ \A i \in 1..Len(o) : o[i] \in Transitions
                      /\ \A i, j \in 1..Len(o) : o[i] = o[j] => i = j
                      /\ \A r \in Transitions : \E i \in 1..Len(o) : o[i] = r
<1>1. sess \in Sessions /\ ghost \in Ghosts
  BY DEF TypeOK
<1>2. /\ sess'.current = sess.current
      /\ \A p \in Alarms :
           sess'.alarms[p] = IF p \notin worker.changed \/ store[p].quality # "good" THEN sess.alarms[p]
                             ELSE IF alarmActive(store[p]) THEN "active" ELSE "normal"
  <2> DEFINE alarms == [p \in Alarms |-> IF p \notin worker.changed \/ store[p].quality # "good" THEN sess.alarms[p]
                                        ELSE IF alarmActive(store[p]) THEN "active" ELSE "normal"]
  <2>1. sess' = [sess EXCEPT !.alarms = alarms]
    BY DEF RecordAlarmChanges
  <2>2. \A p \in Alarms : alarms[p] = IF p \notin worker.changed \/ store[p].quality # "good" THEN sess.alarms[p]
                                      ELSE IF alarmActive(store[p]) THEN "active" ELSE "normal"
    OBVIOUS
  <2> HIDE DEF alarms
  <2>3. sess'.current = sess.current /\ sess'.alarms = alarms
    BY <1>1, <2>1 DEF Sessions
  <2> QED
    BY <2>2, <2>3
<1>3. PICK kept \in SUBSET Transitions :
        /\ \E order \in {o \in [1 .. Cardinality(kept) -> kept] : {o[i] : i \in DOMAIN o} = kept} :
              history' = history \o order
        /\ ghost' = [ghost EXCEPT !.unsent = IF worker.flag THEN @ \ worker.changed ELSE @,
                                  !.swallowed = @ \ worker.changed,
                                  !.dropped = @ \/ kept # Transitions]
  BY DEF RecordAlarmChanges, AppendRecords
<1>4. ghost'.swallowed = ghost.swallowed \ worker.changed /\ ghost'.dropped = (ghost.dropped \/ kept # Transitions)
  BY <1>1, <1>3 DEF Ghosts
<1>5. PICK o \in [1 .. Cardinality(kept) -> kept] : {o[i] : i \in DOMAIN o} = kept /\ history' = history \o o
  BY <1>3
<1>6. kept \in SUBSET Records /\ IsFiniteSet(kept)
  BY TransitionFacts, FS_Subset
<1>7. /\ o \in Seq(Records)
      /\ \A i \in 1..Len(o) : o[i] \in kept
      /\ \A i, j \in 1..Len(o) : o[i] = o[j] => i = j
      /\ \A r \in kept : \E i \in 1..Len(o) : o[i] = r
  BY <1>5, <1>6, OrderFacts
<1>8. ~ghost'.dropped => ~ghost.dropped /\ kept = Transitions
  BY <1>4, Zenon
<1> QED
  BY <1>2, <1>4, <1>5, <1>7, <1>8

-----------------------------------------------------------------------------
(* The invariant of the alarm history. *)

\* The history is empty at first, and no alarm known.
LEMMA RecordInit == Init => RecordInv
<1> SUFFICES ASSUME Init PROVE RecordInv
  OBVIOUS
<1>1. history = <<>> /\ store = NoValues /\ sess.alarms = [p \in Alarms |-> "unknown"]
  BY DEF Init
<1>2. history \in Seq(Records) /\ DOMAIN history = {}
  BY <1>1
<1>3. \A p : PlacesOf(p) = {}
  BY <1>2 DEF PlacesOf
<1>4. \A p : Alternates(p) /\ ~LastIsRaised(p)
  BY <1>3 DEF Alternates, LastIsRaised, RaisedBefore
<1>5. \A p \in Alarms : sess.alarms[p] # "active"
  BY <1>1
<1>6. \A p \in Alarms : store[p].quality # "good"
  BY <1>1, FeedAssumption DEF NoValues, Absent
<1> QED
  BY <1>2, <1>4, <1>5, <1>6 DEF RecordInv

\* The second part of the invariant: history and session agree.
Recorded == \A p \in Alarms : Alternates(p) /\ (LastIsRaised(p) <=> sess.alarms[p] = "active")

\* The third part of the invariant for one alarm: store and session agree.
Known(p) ==
    store[p].quality = "good" =>
        \/ worker.pc = "send" /\ p \in worker.changed
        \/ alarmActive(store[p]) <=> sess.alarms[p] = "active"

\* The parts of the invariant, in the two states of a step.
LEMMA RecordParts ==
    /\ RecordInv <=> /\ history \in Seq(Records)
                     /\ ~ghost.dropped => Recorded
                     /\ sess.current => \A p \in Alarms \ ghost.swallowed : Known(p)
    /\ RecordInv' <=> /\ history' \in Seq(Records)
                      /\ ~ghost'.dropped => Recorded'
                      /\ sess'.current => \A p \in Alarms \ ghost'.swallowed : Known(p)'
  BY DEF RecordInv, Recorded, Known

\* A step that writes no record and forgets no alarm.
LEMMA RecordedFrame ==
    ASSUME Recorded, history' = history, sess'.alarms = sess.alarms
    PROVE  Recorded'
  BY DEF Recorded, Alternates, LastIsRaised, PlacesOf, RaisedBefore

\* A step that leaves history, store and alarms alone.
LEMMA RecordFrame ==
    ASSUME RecordInv, history' = history, store' = store, sess'.alarms = sess.alarms,
           sess'.current => sess.current,
           ghost'.dropped = ghost.dropped, ghost'.swallowed = ghost.swallowed,
           worker.pc = "send" => worker'.pc = "send" /\ worker'.changed = worker.changed
    PROVE  RecordInv'
<1>1. Recorded => Recorded'
  BY RecordedFrame
<1>2. \A p \in Alarms : Known(p) => Known(p)'
  BY DEF Known, alarmActive
<1> QED
  BY <1>1, <1>2, RecordParts, Zenon

\* ApplyValues: every change becomes known, and a record if it is a transition.
LEMMA RecordApply ==
    ASSUME TypeOK, RecordInv, ApplyValues
    PROVE  RecordInv'
<1>1. store' = store /\ worker.pc = "send" /\ worker'.pc = "scanned"
  BY DEF ApplyValues, TypeOK, Workers
<1>2. CASE ~sess.current /\ UNCHANGED <<sess, history, ghost>>
  <2>1. Recorded => Recorded'
    BY <1>2, RecordedFrame
  <2> QED
    BY <1>2, <2>1, RecordParts, Zenon
<1>3. CASE RecordAlarmChanges
  <2>0. history \in Seq(Records) /\ sess.current
    BY <1>3 DEF RecordInv, RecordAlarmChanges
  <2>1. /\ \A p \in Alarms :
              sess'.alarms[p] = IF p \notin worker.changed \/ store[p].quality # "good" THEN sess.alarms[p]
                                ELSE IF alarmActive(store[p]) THEN "active" ELSE "normal"
        /\ ghost'.swallowed = ghost.swallowed \ worker.changed
    BY <1>3, <2>0, RecordingFacts
  <2>2. PICK o \in Seq(Records) :
          /\ history' = history \o o
          /\ ~ghost'.dropped =>
               /\ ~ghost.dropped
               /\ \A i \in 1..Len(o) : o[i] \in Transitions
               /\ \A i, j \in 1..Len(o) : o[i] = o[j] => i = j
               /\ \A r \in Transitions : \E i \in 1..Len(o) : o[i] = r
    BY <1>3, <2>0, RecordingFacts
  <2>3. history' \in Seq(Records)
    BY <2>0, <2>2, LongerHistory
  <2>4. ASSUME NEW p \in Alarms \ ghost'.swallowed PROVE Known(p)'
    <3>1. CASE p \in worker.changed
      BY <1>1, <2>1, <3>1 DEF Known, alarmActive
    <3>2. CASE p \notin worker.changed
      <4>1. p \in Alarms \ ghost.swallowed /\ sess'.alarms[p] = sess.alarms[p]
        BY <2>1, <3>2
      <4>2. Known(p)
        BY <2>0, <4>1, RecordParts
      <4> QED
        BY <1>1, <3>2, <4>1, <4>2 DEF Known, alarmActive
    <3> QED
      BY <3>1, <3>2
  <2>5. ASSUME ~ghost'.dropped, NEW p \in Alarms
        PROVE  Alternates(p)' /\ (LastIsRaised(p)' <=> sess'.alarms[p] = "active")
    <3>1. /\ ~ghost.dropped
          /\ \A i \in 1..Len(o) : o[i] \in Transitions
          /\ \A i, j \in 1..Len(o) : o[i] = o[j] => i = j
          /\ \A r \in Transitions : \E i \in 1..Len(o) : o[i] = r
      BY <2>2, <2>5
    <3>2. Alternates(p) /\ (LastIsRaised(p) <=> sess.alarms[p] = "active")
      BY <3>1 DEF RecordInv
    <3>3. Alternating(history, p) /\ (Raised(history, p, Len(history) + 1) <=> sess.alarms[p] = "active")
      BY <3>2, HistoryTerms
    <3>4. /\ \A r \in Transitions :
               /\ r.point \in worker.changed /\ store[r.point].quality = "good"
               /\ r.kind = IF alarmActive(store[r.point]) THEN "RAISED" ELSE "CLEARED"
               /\ ~(alarmActive(store[r.point]) <=> sess.alarms[r.point] = "active")
          /\ p \in worker.changed /\ store[p].quality = "good" /\ ~(alarmActive(store[p]) <=> sess.alarms[p] = "active")
             => \E r \in Transitions : r.point = p
          /\ \A r, s \in Transitions : r.point = s.point => r = s
      BY TransitionFacts
    <3>5. CASE \E r \in Transitions : r.point = p
      <4>1. PICK r \in Transitions : r.point = p
        BY <3>5
      <4>2. PICK m \in 1..Len(o) : o[m] = r
        BY <3>1
      <4>3. \A l \in 1..Len(o) : o[l].point = p <=> l = m
        BY <3>1, <3>4, <4>1, <4>2
      <4>4. /\ p \in worker.changed /\ store[p].quality = "good"
            /\ o[m].kind = IF alarmActive(store[p]) THEN "RAISED" ELSE "CLEARED"
            /\ ~(alarmActive(store[p]) <=> sess.alarms[p] = "active")
        BY <3>4, <4>1, <4>2
      <4>5. o[m].kind = IF Raised(history, p, Len(history) + 1) THEN "CLEARED" ELSE "RAISED"
        BY <3>3, <4>4, Zenon
      <4>6. /\ Alternating(history \o o, p)
            /\ Raised(history \o o, p, Len(history \o o) + 1) <=> o[m].kind = "RAISED"
        BY <2>0, <3>3, <4>3, <4>5, NewRecord
      <4>7. o[m].kind = "RAISED" <=> sess'.alarms[p] = "active"
        BY <2>1, <4>4
      <4> QED
        BY <2>2, <4>6, <4>7, HistoryTermsNext
    <3>6. CASE ~\E r \in Transitions : r.point = p
      <4>1. \A m \in 1..Len(o) : o[m].point # p
        BY <3>1, <3>6
      <4>2. /\ Alternating(history \o o, p)
            /\ Raised(history \o o, p, Len(history \o o) + 1) <=> Raised(history, p, Len(history) + 1)
        BY <2>0, <3>3, <4>1, NoNewRecord
      <4>3. sess'.alarms[p] = "active" <=> sess.alarms[p] = "active"
        BY <2>1, <3>4, <3>6
      <4> QED
        BY <2>2, <3>3, <4>2, <4>3, HistoryTermsNext
    <3> QED
      BY <3>5, <3>6
  <2>6. ~ghost'.dropped => Recorded'
    BY <2>5 DEF Recorded
  <2> QED
    BY <2>3, <2>4, <2>6, RecordParts
<1> QED
  BY <1>2, <1>3 DEF ApplyValues

\* StoreUpdate: what changes in the store is about to be recorded, or swallowed.
LEMMA RecordStore ==
    ASSUME TypeOK, RecordInv, StoreUpdate
    PROVE  RecordInv'
<1> DEFINE Differs(p) == ~sameDisplayState(store[p], worker.last[p])
<1>1. history' = history /\ sess' = sess /\ worker.pc = "update" /\ worker \in Workers /\ ghost \in Ghosts
  BY DEF StoreUpdate, TypeOK
<1>2. \A p \in Points : ~Differs(p) => worker.last[p] = store[p]
  <2>1. \A p \in Points : worker.last[p] \in PointValue /\ store[p] \in PointValue
    BY DEF TypeOK, Workers, AllValues
  <2>2. \A a, b \in PointValue : a.value = b.value /\ a.quality = b.quality => b = a
    BY DEF PointValue
  <2> QED
    BY <2>1, <2>2 DEF sameDisplayState
<1>3. Recorded => Recorded'
  BY <1>1, RecordedFrame
<1>4. CASE /\ store' = [p \in Points |-> IF p \in Points THEN worker.last[p] ELSE store[p]]
           /\ LET changed == {p \in Points : Differs(p)}
              IN  /\ worker' = [worker EXCEPT !.pc = IF changed = {} THEN "scanned" ELSE "send", !.changed = changed]
                  /\ ghost' = IF worker.flag THEN ghost ELSE Unsent(ghost.unsent \cup changed)
  <2>1. ghost'.dropped = ghost.dropped /\ ghost'.swallowed = ghost.swallowed
    BY <1>1, <1>4 DEF Unsent, Ghosts
  <2>2. /\ worker'.changed = {p \in Points : Differs(p)}
        /\ worker'.changed # {} => worker'.pc = "send"
    <3> DEFINE D == {p \in Points : Differs(p)}
    <3>1. worker' = [worker EXCEPT !.pc = IF D = {} THEN "scanned" ELSE "send", !.changed = D]
      BY <1>4
    <3> HIDE DEF D
    <3>2. worker'.changed = D /\ worker'.pc = IF D = {} THEN "scanned" ELSE "send"
      BY <1>1, <3>1 DEF Workers
    <3> QED
      BY <3>2 DEF D
  <2>3. ASSUME NEW p \in Alarms, Known(p) PROVE Known(p)'
    <3>1. p \in Points /\ store'[p] = worker.last[p]
      BY <1>4, FeedAssumption
    <3>2. CASE Differs(p)
      BY <2>2, <3>1, <3>2 DEF Known
    <3>3. CASE ~Differs(p)
      <4>1. store'[p] = store[p]
        BY <1>2, <3>1, <3>3
      <4> QED
        BY <1>1, <2>3, <4>1 DEF Known, alarmActive
    <3> QED
      BY <3>2, <3>3
  <2> QED
    BY <1>1, <1>3, <2>1, <2>3, RecordParts, Zenon
<1>5. CASE /\ \E S \in SUBSET Points :
                 /\ store' = [p \in Points |-> IF p \in S THEN worker.last[p] ELSE store[p]]
                 /\ LET swallowed == {p \in S : Differs(p)}
                    IN  ghost' = [Unsent(ghost.unsent \cup swallowed) EXCEPT !.swallowed = @ \cup swallowed]
  <2>1. PICK S \in SUBSET Points :
          /\ store' = [p \in Points |-> IF p \in S THEN worker.last[p] ELSE store[p]]
          /\ ghost' = [Unsent(ghost.unsent \cup {p \in S : Differs(p)}) EXCEPT !.swallowed = @ \cup {p \in S : Differs(p)}]
    BY <1>5
  <2>2. ghost'.dropped = ghost.dropped /\ ghost'.swallowed = ghost.swallowed \cup {p \in S : Differs(p)}
    <3> DEFINE D == {p \in S : Differs(p)}
    <3>1. ghost' = [Unsent(ghost.unsent \cup D) EXCEPT !.swallowed = @ \cup D]
      BY <2>1
    <3> HIDE DEF D
    <3>2. ghost'.dropped = ghost.dropped /\ ghost'.swallowed = ghost.swallowed \cup D
      BY <1>1, <3>1 DEF Unsent, Ghosts
    <3> QED
      BY <3>2 DEF D
  <2>3. ASSUME NEW p \in Alarms \ ghost'.swallowed, Known(p) PROVE Known(p)'
    <3>1. p \in Points /\ store'[p] = IF p \in S THEN worker.last[p] ELSE store[p]
      BY <2>1, FeedAssumption
    <3>2. p \in S => ~Differs(p)
      BY <2>2
    <3>3. store'[p] = store[p]
      BY <1>2, <3>1, <3>2
    <3> QED
      BY <1>1, <2>3, <3>3 DEF Known, alarmActive
  <2>4. Alarms \ ghost'.swallowed \subseteq Alarms \ ghost.swallowed
    BY <2>2
  <2> QED
    BY <1>1, <1>3, <2>2, <2>3, <2>4, RecordParts
<1> QED
  BY <1>4, <1>5 DEF StoreUpdate

\* Every step keeps the invariant.
LEMMA RecordStep == TypeOK /\ RecordInv /\ [Next]_vars => RecordInv'
<1> SUFFICES ASSUME TypeOK, RecordInv, [Next]_vars PROVE RecordInv'
  OBVIOUS
<1>0. worker \in Workers /\ sess \in Sessions /\ ghost \in Ghosts
  BY DEF TypeOK
<1>1. CASE UNCHANGED <<history, store, sess, worker, ghost>>
  BY <1>1, RecordFrame
<1>2. CASE \E m \in Moves : PlcMoves(m[1], m[2])
  BY <1>1, <1>2 DEF PlcMoves
<1>3. CASE ScanOk \/ ScanLost
  <2>1. history' = history /\ store' = store /\ sess' = sess /\ worker.pc # "send"
    BY <1>3 DEF ScanOk, ScanLost, ReadyToScan
  <2>2. ghost'.dropped = ghost.dropped /\ ghost'.swallowed = ghost.swallowed
    BY <1>0, <1>3 DEF ScanOk, ScanLost, Scanned, Ghosts
  <2> QED
    BY <2>1, <2>2, RecordFrame
<1>4. CASE StoreUpdate
  BY <1>4, RecordStore
<1>5. CASE ApplyValues
  BY <1>5, RecordApply
<1>6. CASE AfterScan
  <2>1. history' = history /\ store' = store /\ worker.pc # "send"
    BY <1>6 DEF AfterScan
  <2>2. sess'.alarms = sess.alarms /\ sess'.current = sess.current
    BY <1>0, <1>6 DEF AfterScan, Sessions
  <2>3. ghost'.dropped = ghost.dropped /\ ghost'.swallowed = ghost.swallowed
    BY <1>0, <1>6 DEF AfterScan, Ghosts
  <2> QED
    BY <2>1, <2>2, <2>3, RecordFrame
<1>7. CASE Execute
  <2>1. history' = history /\ store' = store /\ sess' = sess /\ ghost' = ghost /\ worker.pc # "send"
    BY <1>7 DEF Execute
  <2> QED
    BY <2>1, RecordFrame
<1>8. CASE ConnectDetach \/ StopDetach
  <2>1. history' = history /\ store' = store /\ worker' = worker /\ ghost' = ghost
    BY <1>8 DEF ConnectDetach, StopDetach
  <2>2. sess'.alarms = sess.alarms /\ (sess'.current => sess.current)
    BY <1>0, <1>8 DEF ConnectDetach, StopDetach, Sessions
  <2> QED
    BY <2>1, <2>2, RecordFrame
<1>9. CASE ConnectAttach \/ StopClear
  <2>1. history' = history /\ store' = NoValues /\ ghost' = ghost
    BY <1>9 DEF ConnectAttach, StopClear
  <2>2. sess'.alarms = sess.alarms
    BY <1>0, <1>9 DEF ConnectAttach, StopClear, Sessions
  <2>3. Recorded => Recorded'
    BY <2>1, <2>2, RecordedFrame
  <2>4. \A p \in Alarms : Known(p)'
    BY <2>1, FeedAssumption DEF Known, NoValues, Absent
  <2> QED
    BY <2>1, <2>3, <2>4, RecordParts
<1>10. CASE FinishPLCConnect
  <2>1. history' = history /\ store' = store /\ worker' = worker
    BY <1>10 DEF FinishPLCConnect
  <2>2. sess'.alarms = sess.alarms /\ sess'.current = sess.current
    BY <1>0, <1>10 DEF FinishPLCConnect, Sessions
  <2>3. ghost'.dropped = ghost.dropped /\ ghost'.swallowed = ghost.swallowed
    BY <1>0, <1>10 DEF FinishPLCConnect, Ghosts
  <2> QED
    BY <2>1, <2>2, <2>3, RecordFrame
<1>11. CASE SnapshotSend
  <2>1. history' = history /\ store' = store /\ worker' = worker /\ sess' = sess
    BY <1>11 DEF SnapshotSend
  <2>2. ghost'.dropped = ghost.dropped /\ ghost'.swallowed = ghost.swallowed
    BY <1>0, <1>11 DEF SnapshotSend, Unsent, Ghosts
  <2> QED
    BY <2>1, <2>2, RecordFrame
<1>12. ASSUME NEW v \in CommandValues, PointCommand(v) PROVE RecordInv'
  <2>1. history' = history /\ store' = store /\ sess' = sess
    BY <1>12 DEF PointCommand
  <2>2. worker'.pc = worker.pc /\ worker'.changed = worker.changed
    <3>1. \A w \in Workers : \A c : [w EXCEPT !.commands = c].pc = w.pc /\ [w EXCEPT !.commands = c].changed = w.changed
      BY DEF Workers
    <3>2. worker' = worker \/ \E c : worker' = [worker EXCEPT !.commands = c]
      BY <1>12, Zenon DEF PointCommand
    <3> QED
      BY <1>0, <3>1, <3>2
  <2>3. ghost'.dropped = ghost.dropped /\ ghost'.swallowed = ghost.swallowed
    BY <1>0, <1>12 DEF PointCommand, Ghosts
  <2> QED
    BY <2>1, <2>2, <2>3, RecordFrame
<1>13. CASE Deliver
  <2>1. history' = history /\ store' = store /\ worker' = worker /\ sess' = sess
    BY <1>13 DEF Deliver
  <2>2. ghost'.dropped = ghost.dropped /\ ghost'.swallowed = ghost.swallowed
    BY <1>0, <1>13 DEF Deliver, Ghosts
  <2> QED
    BY <2>1, <2>2, RecordFrame
<1>14. CASE SnapshotGet \/ ConnectionBreaks \/ CommandTimesOut \/ PageCloses
  BY <1>1, <1>14 DEF SnapshotGet, ConnectionBreaks, CommandTimesOut, PageCloses
<1>15. ASSUME NEW r \in replies, SendReply(r) PROVE RecordInv'
  BY <1>1, <1>15 DEF SendReply
<1>16. CASE UNCHANGED vars
  BY <1>1, <1>16 DEF vars
<1> QED
  BY <1>2, <1>3, <1>4, <1>5, <1>6, <1>7, <1>8, <1>9, <1>10, <1>11, <1>12, <1>13, <1>14, <1>15, <1>16 DEF Next

\* The invariant holds always.
LEMMA RecordInvariant == Spec => [](TypeOK /\ RecordInv)
<1>1. Init => TypeOK /\ RecordInv
  BY TypeInit, RecordInit
<1>2. TypeOK /\ RecordInv /\ [Next]_vars => TypeOK' /\ RecordInv'
  BY TypeStep, RecordStep
<1> QED
  BY <1>1, <1>2, PTL DEF Spec

\* As long as every record could be stored, the alarm history alternates between
\* raised and cleared and ends with the alarm state the store holds, except for a
\* swallowed change; read in pages it is complete (recordAlarmChanges, Store.List).
THEOREM FeedHistoryAgreesWithStore == Spec => []HistoryAgreesWithStore
<1>1. TypeOK /\ RecordInv => HistoryAgreesWithStore
  <2> SUFFICES ASSUME TypeOK, RecordInv PROVE HistoryAgreesWithStore
    OBVIOUS
  <2>1. \A limit \in 1..2 : ReadInPages(limit) = history
    <3>1. \A limit \in 1..2 : limit \in Nat /\ limit > 0
      OBVIOUS
    <3> QED
      BY <3>1, PagesAreComplete DEF RecordInv
  <2>2. ASSUME ~ghost.dropped, NEW p \in Alarms
        PROVE  /\ \A i \in PlacesOf(p) : history[i].kind = IF RaisedBefore(p, i) THEN "CLEARED" ELSE "RAISED"
               /\ LastIsRaised(p) <=> sess.alarms[p] = "active"
    BY <2>2 DEF RecordInv, Alternates
  <2>3. ASSUME ~ghost.dropped, NEW p \in Alarms, sess.current, worker.pc = "idle", p \notin ghost.swallowed,
               store[p].quality = "good"
        PROVE  LastIsRaised(p) = alarmActive(store[p])
    <3>1. alarmActive(store[p]) <=> sess.alarms[p] = "active"
      BY <2>3 DEF RecordInv
    <3>2. LastIsRaised(p) \in BOOLEAN /\ alarmActive(store[p]) \in BOOLEAN
      BY DEF LastIsRaised, RaisedBefore, alarmActive
    <3> QED
      BY <2>2, <2>3, <3>1, <3>2
  <2> QED
    BY <2>1, <2>2, <2>3 DEF HistoryAgreesWithStore
<1> QED
  BY <1>1, RecordInvariant, PTL

\* A reader who follows the cursors gets the whole alarm history in order, for every
\* size of a page, and whatever was dropped (Store.List, Service.List).
THEOREM FeedPagesAreComplete == Spec => [](\A limit \in Nat \ {0} : ReadInPages(limit) = history)
<1>1. RecordInv => \A limit \in Nat \ {0} : ReadInPages(limit) = history
  BY PagesAreComplete DEF RecordInv
<1> QED
  BY <1>1, RecordInvariant, PTL
=============================================================================
