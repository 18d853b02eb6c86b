--------------------------- MODULE Easy521Proofs ---------------------------
(***************************************************************************)
(* Proofs about the Modbus client, for every set of calls, every length of *)
(* a span, every modulus of the transaction id and any number of           *)
(* connections.                                                            *)
(***************************************************************************)
EXTENDS Easy521, SequenceTheorems, TLAPS

-----------------------------------------------------------------------------
(* The inductive invariant. *)

Expected == [id |-> sent, pdu |-> frame, call |-> call]

\* A connection carries at most one unserved frame.  The open one is empty between
\* exchanges; during one it carries the frame or its answer.
LineInv ==
    /\ \A k \in Connections : k > conns => pending[k] = <<>> /\ answers[k] = <<>>
    /\ \A k \in Connections : Len(pending[k]) <= 1
    /\ conn # 0 /\ phase # "wait" => pending[conn] = <<>> /\ answers[conn] = <<>>
    /\ phase = "wait" =>
          /\ conn # 0
          /\ \/ pending[conn] = <<Expected>> /\ answers[conn] = <<>>
             \/ /\ pending[conn] = <<>>
                /\ Len(answers[conn]) = 1
                /\ Head(answers[conn]).id = sent
                /\ Head(answers[conn]).call = call

\* A frame belongs to a call that was begun, no two to the same one, and one of the
\* running call only while the client waits for it; a call that succeeded has none.
CallInv ==
    /\ phase # "idle" => call # 0
    /\ ok => call # 0
    /\ \A k \in Connections : pending[k] # <<>> =>
          /\ Head(pending[k]).call <= call
          /\ Head(pending[k]).call = call => (phase = "wait" /\ k = conn) \/ (phase = "idle" /\ ~ok)
    /\ \A j, k \in Connections : pending[j] # <<>> /\ pending[k] # <<>>
                                  /\ Head(pending[j]).call = Head(pending[k]).call => j = k

\* The frame in hand is one its call may send.
FrameInv ==
    phase # "idle" =>
        /\ args \in Calls
        /\ args.kind = "read" => frame.fn = "fc03"
        /\ args.kind = "single" => frame.fn = "fc06" /\ frame.word = args.word
        /\ args.kind = "mask" => frame.fn \in {"fc03", "fc06", "fc22"} /\ frame.word = args.word
        /\ args.kind = "multi" => \/ frame.fn = "fc10"
                                  \/ frame.fn = "fc06" /\ \E i \in 1..Len(Span) : Span[i] = frame.word

\* The words of its span a call has written before the frame in hand.
Before(w) ==
    args.kind = "multi" /\ frame.fn = "fc06" /\ \E i, j \in 1..Len(Span) :
        i < j /\ Span[i] = w /\ Span[j] = frame.word
Count(b) == IF b THEN 1 ELSE 0

\* What the running call has done to the PLC so far; a frame not served yet has done
\* nothing.
EffectInv ==
    /\ \A n \in 1..MaxCalls, w \in Words : n > call => effects[n][w] = 0
    /\ \A k \in Connections : pending[k] # <<>> =>
          \A w \in Writes(Head(pending[k]).pdu) : effects[Head(pending[k]).call][w] = 0
    /\ phase = "send" \/ (phase = "wait" /\ (pending[conn] # <<>> \/ Head(answers[conn]).kind \in {"refused", "illegal"})) =>
          \A w \in Words : effects[call][w] = Count(Before(w))
    /\ phase = "wait" /\ pending[conn] = <<>> /\ Head(answers[conn]).kind \in {"ok", "garbled"} =>
          \A w \in Words : effects[call][w] = Count(w \in Writes(frame) \/ Before(w))

\* A PDU that leaves the program's bits and the span whole wherever the PLC has the
\* function for it.
Harmless(pdu) ==
    /\ "fc22" \in supports /\ BitWord \in Writes(pdu) => pdu.fn = "fc22" /\ pdu.bit \in HmiBits
    /\ "fc10" \in supports /\ (\E i \in 1..Len(Span) : Span[i] \in Writes(pdu)) => pdu.fn = "fc10"

\* The client falls back only from a function the PLC does not have.
FallbackInv ==
    /\ maskWriteUnsupported => "fc22" \notin supports
    /\ writeMultipleUnsupported => "fc10" \notin supports
    /\ phase = "wait" /\ pending[conn] = <<>> /\ Head(answers[conn]).kind = "illegal" => frame.fn \notin supports
    /\ phase # "idle" /\ args.kind = "mask" =>
          (frame.fn # "fc22" => "fc22" \notin supports) /\ frame.bit = args.bit
    /\ phase # "idle" /\ args.kind = "multi" /\ frame.fn # "fc10" => "fc10" \notin supports
    /\ \A k \in Connections : pending[k] # <<>> => Harmless(Head(pending[k]).pdu)

LineIInv == TypeOK /\ LineInv /\ CallInv /\ FrameInv
IInv == LineIInv /\ EffectInv /\ FallbackInv /\ WritesAtMostOnce /\ FallbackOnlyWhenUnsupported

-----------------------------------------------------------------------------
(* Sequences of at most one element, and transaction ids. *)

LEMMA OneElement ==
  ASSUME NEW S, NEW s \in Seq(S), s # <<>>, Len(s) <= 1
  PROVE  s = <<Head(s)>> /\ Len(s) = 1 /\ Tail(s) = <<>> /\ Head(s) \in S /\ s[1] = Head(s)
<1>1. Len(s) = 1
  <2>1. Len(s) \in Nat \ {0}
    BY EmptySeq, Zenon
  <2> QED
    BY <2>1
<1>2. Head(s) \in S /\ s[1] = Head(s)
  BY <1>1, HeadTailProperties
<1>3. Len(Tail(s)) = 0 /\ Tail(s) \in Seq(S)
  BY <1>1, HeadTailProperties
<1>4. s = <<Head(s)>>
  BY <1>1, <1>2, SeqEqual
<1> QED
  BY <1>1, <1>2, <1>3, <1>4, EmptySeq

LEMMA Singleton ==
  ASSUME NEW S, NEW e \in S
  PROVE  /\ Append(<<>>, e) = <<e>> /\ <<e>> \in Seq(S) /\ Len(<<e>>) = 1
         /\ Head(<<e>>) = e /\ Tail(<<e>>) = <<>> /\ <<e>> # <<>> /\ Len(<<>>) = 0
OBVIOUS

LEMMA FreshType == TypeOK => freshID \in 1..(IdModulus - 1)
BY ClientAssumption DEF TypeOK, freshID

-----------------------------------------------------------------------------
(* Type correctness, one lemma per action. *)

LEMMA NoArgsType == NoArgs \in [kind : {"read", "single", "multi", "mask"}, word : Words,
                                value : SUBSET Bits, bit : Bits, target : BOOLEAN]
BY ClientAssumption, CallAssumption DEF NoArgs

LEMMA ArgsType == TypeOK => args \in [kind : {"read", "single", "multi", "mask"}, word : Words,
                                      value : SUBSET Bits, bit : Bits, target : BOOLEAN]
BY NoArgsType, ClientAssumption DEF TypeOK

LEMMA SpanType == Len(Span) \in Nat \ {0} /\ \A i \in 1..Len(Span) : Span[i] \in Words
BY ClientAssumption, CallAssumption

LEMMA FirstFrameType ==
  ASSUME NEW c \in [kind : {"read", "single", "multi", "mask"}, word : Words,
                    value : SUBSET Bits, bit : Bits, target : BOOLEAN]
  PROVE  FirstFrame(c) \in Frame
BY SpanType DEF FirstFrame, Frame, Functions

LEMMA PduType ==
  ASSUME TypeOK, NEW fn \in Functions, NEW word \in Words, NEW value \in SUBSET Bits
  PROVE  Pdu(fn, word, value) \in Frame
BY ArgsType DEF Pdu, Frame

LEMMA MaskedType ==
  ASSUME NEW S, NEW word \in SUBSET S, NEW bit \in S, NEW target
  PROVE  Masked(word, bit, target) \in SUBSET S
BY DEF Masked

LEMMA InitType == Init => TypeOK
<1> SUFFICES ASSUME Init PROVE TypeOK
  OBVIOUS
<1>1. frame \in Frame
  BY NoArgsType, FirstFrameType DEF Init
<1>2. sent \in 0..(IdModulus - 1) /\ nextID \in 1..(IdModulus - 1)
  BY ClientAssumption DEF Init
<1>3. effects \in [1..MaxCalls -> [Words -> Nat]] /\ mem \in [Words -> SUBSET Bits]
  BY DEF Init
<1>4. conn \in 0..conns /\ conns \in 0..MaxConns /\ call \in 0..MaxCalls
  BY ClientAssumption DEF Init
<1>5. /\ pending \in [Connections -> Seq([id : 1..(IdModulus - 1), pdu : Frame, call : 1..MaxCalls])]
      /\ answers \in [Connections -> Seq(Answer)]
  BY DEF Init
<1> QED
  BY <1>1, <1>2, <1>3, <1>4, <1>5 DEF Init, TypeOK, Functions, SimulatorFunctions

LEMMA BeginType == ASSUME TypeOK, NEW c \in Calls, Begin(c) PROVE TypeOK'
<1>1. frame' \in Frame
  BY ClientAssumption, FirstFrameType DEF Begin
<1>2. call' \in 0..MaxCalls
  BY ClientAssumption DEF Begin, TypeOK
<1> QED
  BY <1>1, <1>2 DEF TypeOK, Begin, plcVars

LEMMA ClosedType == TypeOK => 0 \in 0..conns
BY ClientAssumption DEF TypeOK

LEMMA SendFailsType == ASSUME TypeOK, SendFails PROVE TypeOK'
BY FreshType, ClosedType DEF TypeOK, SendFails, plcVars, Fails

LEMMA TimeoutType == ASSUME TypeOK, Timeout PROVE TypeOK'
BY ClosedType DEF TypeOK, Timeout, plcVars, Fails

LEMMA SendType == ASSUME TypeOK, CallInv, Send PROVE TypeOK'
<1>1. conn' \in 0..conns' /\ conns' \in 0..MaxConns /\ conn' \in Connections
  <2>1. MaxConns \in Nat /\ conn \in 0..conns /\ conns \in 0..MaxConns
    BY ClientAssumption DEF TypeOK
  <2>2. \/ conn # 0 /\ conn' = conn /\ conns' = conns
        \/ conns < MaxConns /\ conn' = conns + 1 /\ conns' = conns + 1
    BY DEF Send
  <2> QED
    BY <2>1, <2>2 DEF Connections
<1>2. nextID' \in 1..(IdModulus - 1) /\ sent' \in 0..(IdModulus - 1)
  BY FreshType, ClientAssumption DEF Send
<1>2a. call \in 1..MaxCalls
  BY ClientAssumption DEF TypeOK, CallInv, Send
<1>3. [id |-> freshID, pdu |-> frame, call |-> call] \in [id : 1..(IdModulus - 1), pdu : Frame, call : 1..MaxCalls]
  BY <1>2a, FreshType DEF TypeOK, Send
<1>4. pending' \in [Connections -> Seq([id : 1..(IdModulus - 1), pdu : Frame, call : 1..MaxCalls])]
  <2> DEFINE T == [id : 1..(IdModulus - 1), pdu : Frame, call : 1..MaxCalls]
  <2> DEFINE e == [id |-> freshID, pdu |-> frame, call |-> call]
  <2>1. pending[conn'] \in Seq(T) /\ e \in T
    BY <1>1, <1>3 DEF TypeOK
  <2> HIDE DEF T, e
  <2>2. Append(pending[conn'], e) \in Seq(T)
    BY <2>1
  <2>3. pending \in [Connections -> Seq(T)] /\ pending' = [pending EXCEPT ![conn'] = Append(@, e)]
    BY DEF TypeOK, Send, T, e
  <2>4. pending' \in [Connections -> Seq(T)]
    BY <1>1, <2>2, <2>3
  <2> QED
    BY <2>4 DEF T
<1> QED
  BY <1>1, <1>2, <1>4 DEF TypeOK, Send

LEMMA AfterAnswerType ==
  ASSUME TypeOK, NEW data \in SUBSET Bits, AfterAnswer(data)
  PROVE  phase' \in {"idle", "send", "wait"} /\ frame' \in Frame /\ ok' \in BOOLEAN
<1>1. Masked(data, args.bit, args.target) \in SUBSET Bits
  BY ArgsType, MaskedType
<1>2. Pdu("fc06", args.word, Masked(data, args.bit, args.target)) \in Frame
  BY <1>1, ArgsType, PduType DEF Functions
<1>3. \A i \in 1..Len(Span) : Pdu("fc06", Span[i], args.value) \in Frame
  BY ArgsType, PduType, SpanType DEF Functions
<1> QED
  BY <1>2, <1>3 DEF AfterAnswer, Continues, Succeeds, TypeOK

LEMMA ReceiveType == ASSUME TypeOK, LineInv, Receive PROVE TypeOK'
<1>1. conn \in Connections
  BY ClientAssumption DEF TypeOK, LineInv, Receive, Connections
<1> DEFINE a == Head(answers[conn])
<1>2. a \in Answer /\ Tail(answers[conn]) \in Seq(Answer)
  BY <1>1 DEF TypeOK, Receive
<1>3. CASE a.kind = "ok" /\ AfterAnswer(a.data) /\ answers' = [answers EXCEPT ![conn] = Tail(@)]
           /\ UNCHANGED <<conn, maskWriteUnsupported, writeMultipleUnsupported>>
  <2>1. phase' \in {"idle", "send", "wait"} /\ frame' \in Frame /\ ok' \in BOOLEAN
    BY <1>2, <1>3, AfterAnswerType DEF Answer
  <2> QED
    BY <1>1, <1>2, <1>3, <2>1 DEF TypeOK, Receive
<1>4. CASE /\ conn' = 0 /\ UNCHANGED answers
           /\ maskWriteUnsupported' = (maskWriteUnsupported \/ frame.fn = "fc22")
           /\ writeMultipleUnsupported' = (writeMultipleUnsupported \/ frame.fn = "fc10")
           /\ Continues(IF frame.fn = "fc22" THEN Pdu("fc03", args.word, {})
                        ELSE Pdu("fc06", Span[1], args.value))
  <2>1. Pdu("fc03", args.word, {}) \in Frame /\ Pdu("fc06", Span[1], args.value) \in Frame
    BY ArgsType, PduType, SpanType DEF Functions
  <2> QED
    BY <1>4, <2>1, ClosedType DEF TypeOK, Receive, Continues
<1>5. CASE conn' = 0 /\ Fails /\ UNCHANGED <<answers, maskWriteUnsupported, writeMultipleUnsupported>>
  BY <1>5, ClosedType DEF TypeOK, Receive, Fails
<1> QED
  BY <1>3, <1>4, <1>5 DEF Receive

LEMMA ServeType == ASSUME TypeOK, NEW k \in Connections, serveConnection(k) PROVE TypeOK'
<1> DEFINE f == Head(pending[k])
<1>1. f \in [id : 1..(IdModulus - 1), pdu : Frame, call : 1..MaxCalls]
      /\ Tail(pending[k]) \in Seq([id : 1..(IdModulus - 1), pdu : Frame, call : 1..MaxCalls])
  BY HeadTailProperties DEF TypeOK, serveConnection
<1>2. f.pdu \in Frame /\ f.call \in 1..MaxCalls /\ f.id \in 0..(IdModulus - 1)
  BY <1>1, ClientAssumption
<1>3. readRegister(f.pdu) \in SUBSET Bits /\ Written(f.pdu) \in SUBSET Bits
  <2>1. mem[f.pdu.word] \in SUBSET Bits /\ f.pdu.bit \in Bits /\ f.pdu.value \in SUBSET Bits
    BY <1>2 DEF TypeOK, Frame
  <2> QED
    BY <2>1, MaskedType DEF readRegister, Written, maskWrite
<1>4. PICK kind \in handlePDU(f.pdu) :
              /\ answers' = IF k = conn
                            THEN [answers EXCEPT ![k] = Append(@, [id |-> f.id, kind |-> kind,
                                                                   data |-> readRegister(f.pdu), call |-> f.call])]
                            ELSE answers
              /\ IF kind \in {"ok", "garbled"}
                 THEN /\ mem' = [w \in Words |-> IF w \in Writes(f.pdu) THEN Written(f.pdu) ELSE mem[w]]
                      /\ effects' = [effects EXCEPT ![f.call] =
                                        [w \in Words |-> IF w \in Writes(f.pdu) THEN @[w] + 1 ELSE @[w]]]
                 ELSE UNCHANGED <<mem, effects>>
  BY DEF serveConnection
<1>5. kind \in {"ok", "refused", "illegal", "garbled"}
  BY <1>4 DEF handlePDU
<1>6. answers' \in [Connections -> Seq(Answer)]
  <2>1. [id |-> f.id, kind |-> kind, data |-> readRegister(f.pdu), call |-> f.call] \in Answer
    BY <1>2, <1>3, <1>5 DEF Answer
  <2> QED
    BY <1>4, <2>1 DEF TypeOK
<1>7. mem' \in [Words -> SUBSET Bits]
  BY <1>3, <1>4 DEF TypeOK
<1>8. effects' \in [1..MaxCalls -> [Words -> Nat]]
  <2>1. effects[f.call] \in [Words -> Nat]
    BY <1>2 DEF TypeOK
  <2>2. [w \in Words |-> IF w \in Writes(f.pdu) THEN effects[f.call][w] + 1 ELSE effects[f.call][w]] \in [Words -> Nat]
    BY <2>1
  <2> QED
    BY <1>2, <1>4, <2>2 DEF TypeOK
<1>9. pending' \in [Connections -> Seq([id : 1..(IdModulus - 1), pdu : Frame, call : 1..MaxCalls])]
  BY <1>1 DEF TypeOK, serveConnection
<1> QED
  BY <1>6, <1>7, <1>8, <1>9 DEF TypeOK, serveConnection, clientVars

LEMMA ProgramType == ASSUME TypeOK, NEW b \in ProgramBits, ProgramMoves(b) PROVE TypeOK'
<1>1. mem' \in [Words -> SUBSET Bits]
  BY MaskedType, ClientAssumption DEF TypeOK, ProgramMoves, ProgramBits
<1>2. program' \in SUBSET ProgramBits
  BY MaskedType DEF TypeOK, ProgramMoves
<1> QED
  BY <1>1, <1>2 DEF TypeOK, ProgramMoves, clientVars

-----------------------------------------------------------------------------
(* What is on the connections. *)

FrameOnLine == [id : 1..(IdModulus - 1), pdu : Frame, call : 1..MaxCalls]

LEMMA OpenConnection == TypeOK /\ conn # 0 => conn \in Connections /\ conn <= conns
BY ClientAssumption DEF TypeOK, Connections

LEMMA PendingHead ==
  ASSUME TypeOK, LineInv, NEW k \in Connections, pending[k] # <<>>
  PROVE  /\ pending[k] = <<Head(pending[k])>> /\ Tail(pending[k]) = <<>>
         /\ Head(pending[k]) \in FrameOnLine
BY OneElement DEF TypeOK, LineInv, FrameOnLine

LEMMA AnswerHead ==
  ASSUME TypeOK, LineInv, Receive
  PROVE  /\ conn \in Connections /\ pending[conn] = <<>>
         /\ Len(answers[conn]) = 1 /\ Tail(answers[conn]) = <<>>
         /\ Head(answers[conn]) \in Answer
         /\ Head(answers[conn]).id = sent /\ Head(answers[conn]).call = call
<1>1. conn \in Connections
  BY OpenConnection DEF LineInv, Receive
<1>2. pending[conn] = <<>> /\ Len(answers[conn]) = 1
      /\ Head(answers[conn]).id = sent /\ Head(answers[conn]).call = call
  BY DEF LineInv, Receive
<1>3. answers[conn] \in Seq(Answer) /\ answers[conn] # <<>> /\ Len(answers[conn]) <= 1
  BY <1>1, <1>2 DEF TypeOK, Receive
<1> QED
  BY <1>1, <1>2, <1>3, OneElement

LEMMA InitLine == Init => LineInv /\ CallInv /\ FrameInv
BY DEF Init, LineInv, CallInv, FrameInv

LEMMA BeginLine == ASSUME LineIInv, NEW c \in Calls, Begin(c) PROVE LineInv' /\ CallInv'
<1>1. LineInv'
  BY DEF LineIInv, LineInv, Begin, plcVars
<1>2. \A k \in Connections : pending[k] # <<>> => Head(pending[k]).call <= call /\ Head(pending[k]).call \in Nat
  BY PendingHead, ClientAssumption DEF LineIInv, CallInv, FrameOnLine
<1>3. call' = call + 1 /\ call \in Nat /\ phase' = "send" /\ UNCHANGED <<pending, ok, conn>>
  BY ClientAssumption DEF LineIInv, TypeOK, Begin, plcVars
<1>4. \A k \in Connections : pending'[k] # <<>> => Head(pending'[k]).call <= call' /\ Head(pending'[k]).call # call'
  BY <1>2, <1>3
<1>5. CallInv'
  BY <1>3, <1>4 DEF LineIInv, CallInv
<1> QED
  BY <1>1, <1>5

LEMMA SendFailsLine == ASSUME LineIInv, SendFails PROVE LineInv' /\ CallInv'
BY DEF LineIInv, LineInv, CallInv, SendFails, plcVars, Fails

LEMMA TimeoutLine == ASSUME LineIInv, Timeout PROVE LineInv' /\ CallInv'
BY DEF LineIInv, LineInv, CallInv, Timeout, plcVars, Fails

\* A frame is sent on a connection that carries nothing.
LEMMA SendingLine ==
  ASSUME LineIInv, Send
  PROVE  /\ conn' \in Connections /\ pending[conn'] = <<>> /\ answers[conn'] = <<>> /\ conns' >= conns /\ conn' # 0
         /\ conns \in Nat /\ conns' \in Nat /\ conn' <= conns'
<1>1. CASE conn # 0
  <2>1. conn' = conn /\ conns' = conns /\ phase = "send"
    BY <1>1, Zenon DEF Send
  <2>2. conn \in Connections /\ conn <= conns
    BY <1>1, OpenConnection DEF LineIInv
  <2>3. conns \in Nat
    BY ClientAssumption DEF LineIInv, TypeOK
  <2> QED
    BY <1>1, <2>1, <2>2, <2>3 DEF LineIInv, LineInv
<1>2. CASE conn = 0
  <2>1. conns + 1 \in Connections /\ conns \in Nat /\ conn' = conns + 1 /\ conns' = conns + 1
    BY <1>2, ClientAssumption DEF LineIInv, TypeOK, Send, Connections
  <2> QED
    BY <2>1 DEF LineIInv, LineInv
<1> QED
  BY <1>1, <1>2

LEMMA SendLine == ASSUME LineIInv, Send PROVE LineInv' /\ CallInv'
<1> DEFINE e == [id |-> freshID, pdu |-> frame, call |-> call]
<1>1. conn' \in Connections /\ pending[conn'] = <<>> /\ answers[conn'] = <<>> /\ conns' >= conns /\ conn' # 0
      /\ conns \in Nat /\ conns' \in Nat /\ conn' <= conns'
  BY SendingLine
<1>2. pending' = [pending EXCEPT ![conn'] = <<e>>] /\ pending \in [Connections -> Seq(FrameOnLine)]
  <2>1. pending' = [pending EXCEPT ![conn'] = Append(<<>>, e)]
    BY <1>1 DEF Send
  <2>2. Append(<<>>, e) = <<e>>
    OBVIOUS
  <2> QED
    BY <2>1, <2>2 DEF LineIInv, TypeOK, FrameOnLine
<1>3. Expected' = e
  BY DEF Expected, Send
<1> HIDE DEF e
<1>4. Len(<<e>>) = 1 /\ Head(<<e>>) = e /\ <<e>> # <<>>
  OBVIOUS
<1>5. LineInv'
  BY <1>1, <1>2, <1>3, <1>4 DEF LineIInv, LineInv, Send, Connections
<1>6. e.call = call
  BY DEF e
<1>7. \A k \in Connections : k # conn' => pending'[k] = pending[k]
  BY <1>1, <1>2
<1>8. Head(pending'[conn']) = e
  BY <1>1, <1>2, <1>4
<1>9. \A k \in Connections : pending[k] # <<>> => Head(pending[k]).call # call
  BY DEF LineIInv, CallInv, Send
<1>9a. call' = call /\ ok' = ok /\ phase' = "wait" /\ call \in Nat /\ call # 0
  BY ClientAssumption DEF LineIInv, TypeOK, CallInv, Send
<1>9b. \A k \in Connections : pending'[k] # <<>> =>
          /\ Head(pending'[k]).call <= call'
          /\ Head(pending'[k]).call = call' => k = conn'
  BY <1>6, <1>7, <1>8, <1>9, <1>9a DEF LineIInv, CallInv
<1>9c. \A j, k \in Connections : pending'[j] # <<>> /\ pending'[k] # <<>>
                                  /\ Head(pending'[j]).call = Head(pending'[k]).call => j = k
  <2> SUFFICES ASSUME NEW j \in Connections, NEW k \in Connections, pending'[j] # <<>>, pending'[k] # <<>>,
                      Head(pending'[j]).call = Head(pending'[k]).call, j # k
               PROVE  FALSE
    OBVIOUS
  <2>1. CASE j # conn' /\ k # conn'
    BY <2>1, <1>7 DEF LineIInv, CallInv
  <2>2. CASE j = conn'
    BY <2>2, <1>6, <1>7, <1>8, <1>9
  <2>3. CASE k = conn'
    BY <2>3, <1>6, <1>7, <1>8, <1>9
  <2> QED
    BY <2>1, <2>2, <2>3
<1>10. CallInv'
  BY <1>9a, <1>9b, <1>9c DEF CallInv
<1> QED
  BY <1>5, <1>10

LEMMA ReceiveLine == ASSUME LineIInv, Receive PROVE LineInv' /\ CallInv'
<1> DEFINE a == Head(answers[conn])
<1>1. /\ conn \in Connections /\ pending[conn] = <<>> /\ Tail(answers[conn]) = <<>> /\ a.id = sent
  BY AnswerHead DEF LineIInv
<1>2. UNCHANGED <<pending, conns, call>> /\ phase = "wait" /\ phase' \in {"idle", "send"}
  BY DEF Receive, AfterAnswer, Continues, Succeeds, Fails
<1>3. \A k \in Connections : pending[k] # <<>> => Head(pending[k]).call # call
  BY <1>1, <1>2 DEF LineIInv, CallInv
<1>4. ok' = FALSE \/ ok' = TRUE \/ ok' = ok
  BY DEF Receive, AfterAnswer, Continues, Succeeds, Fails
<1>5. CallInv'
  BY <1>2, <1>3, <1>4 DEF LineIInv, CallInv
<1>6. \/ conn' = conn /\ answers' = [answers EXCEPT ![conn] = <<>>]
      \/ conn' = 0 /\ answers' = answers
  BY <1>1 DEF Receive
<1>7. LineInv'
  BY <1>1, <1>2, <1>6 DEF LineIInv, TypeOK, LineInv
<1> QED
  BY <1>5, <1>7

LEMMA ServeLine == ASSUME LineIInv, NEW k \in Connections, serveConnection(k) PROVE LineInv' /\ CallInv'
<1> DEFINE f == Head(pending[k])
<1>1. pending[k] = <<f>> /\ Tail(pending[k]) = <<>> /\ f \in FrameOnLine /\ pending[k] # <<>>
  BY PendingHead DEF LineIInv, serveConnection
<1>2. pending' = [pending EXCEPT ![k] = <<>>] /\ pending \in [Connections -> Seq(FrameOnLine)]
  BY <1>1 DEF serveConnection, LineIInv, TypeOK, FrameOnLine
<1>3. UNCHANGED clientVars
  BY DEF serveConnection
<1>4. \A j \in Connections : pending'[j] # <<>> => pending'[j] = pending[j] /\ j # k
  BY <1>2
<1>5. CallInv'
  BY <1>3, <1>4 DEF LineIInv, CallInv, clientVars
<1>6. PICK e : /\ e.id = f.id /\ e.call = f.call
               /\ answers' = IF k = conn THEN [answers EXCEPT ![k] = Append(@, e)] ELSE answers
  <2>1. PICK kind \in handlePDU(f.pdu) :
              answers' = IF k = conn
                         THEN [answers EXCEPT ![k] = Append(@, [id |-> f.id, kind |-> kind,
                                                                data |-> readRegister(f.pdu), call |-> f.call])]
                         ELSE answers
    BY DEF serveConnection
  <2> WITNESS [id |-> f.id, kind |-> kind, data |-> readRegister(f.pdu), call |-> f.call]
  <2> QED
    BY <2>1
<1>7. CASE k = conn
  <2>1. phase = "wait" /\ f = Expected /\ answers[conn] = <<>>
    BY <1>1, <1>7, OpenConnection DEF LineIInv, LineInv, Connections
  <2>2. answers' = [answers EXCEPT ![k] = <<e>>] /\ answers \in [Connections -> Seq(Answer)]
    BY <1>6, <1>7, <2>1 DEF LineIInv, TypeOK
  <2>3. e.id = sent /\ e.call = call
    BY <1>6, <2>1 DEF Expected
  <2>4. k <= conns /\ conn # 0
    BY <1>7, OpenConnection DEF LineIInv, LineInv, Connections
  <2>5. /\ UNCHANGED <<conn, conns, phase, sent, call>>
        /\ pending'[conn] = <<>> /\ answers'[conn] = <<e>>
        /\ \A j \in Connections : j # k => pending'[j] = pending[j] /\ answers'[j] = answers[j]
    BY <1>2, <1>3, <1>7, <2>2 DEF clientVars
  <2>6. Len(<<e>>) = 1 /\ Head(<<e>>) = e /\ Len(<<>>) = 0
    OBVIOUS
  <2>7. \A j \in Connections : j > conns => j # k
    BY <2>4, ClientAssumption DEF LineIInv, TypeOK, Connections
  <2> HIDE DEF f
  <2>8. LineInv'
    BY <1>7, <2>1, <2>3, <2>4, <2>5, <2>6, <2>7 DEF LineIInv, LineInv
  <2> QED
    BY <1>5, <2>8
<1>8. CASE k # conn
  <2>1. answers' = answers
    BY <1>6, <1>8
  <2>2. conn # 0 => pending'[conn] = pending[conn]
    BY <1>2, <1>8, OpenConnection DEF LineIInv
  <2> QED
    BY <1>2, <1>3, <1>4, <1>5, <2>1, <2>2, EmptySeq DEF LineIInv, LineInv, clientVars, Expected
<1> QED
  BY <1>7, <1>8

LEMMA ProgramLine ==
  ASSUME LineIInv, NEW b \in ProgramBits, ProgramMoves(b) PROVE LineInv' /\ CallInv' /\ FrameInv'
BY DEF LineIInv, LineInv, CallInv, FrameInv, Expected, ProgramMoves, clientVars

-----------------------------------------------------------------------------
(* The frame in hand. *)

LEMMA FirstFrameFits ==
  ASSUME NEW c \in Calls
  PROVE  /\ c.kind \in {"read", "single", "multi", "mask"}
         /\ c.kind = "read" => FirstFrame(c).fn = "fc03"
         /\ c.kind = "single" => FirstFrame(c).fn = "fc06" /\ FirstFrame(c).word = c.word
         /\ c.kind = "mask" => /\ FirstFrame(c).fn = IF maskWriteUnsupported THEN "fc03" ELSE "fc22"
                               /\ FirstFrame(c).word = c.word
                               /\ FirstFrame(c).bit = c.bit
         /\ c.kind = "multi" => /\ FirstFrame(c).fn = IF writeMultipleUnsupported THEN "fc06" ELSE "fc10"
                                /\ FirstFrame(c).word = Span[1]
BY ClientAssumption DEF FirstFrame

LEMMA BeginFrame == ASSUME LineIInv, NEW c \in Calls, Begin(c) PROVE FrameInv'
BY FirstFrameFits, SpanType DEF Begin, FrameInv

LEMMA ReceiveFrame == ASSUME LineIInv, Receive PROVE FrameInv'
<1> SUFFICES ASSUME phase' # "idle" PROVE FrameInv'
  BY DEF FrameInv
<1> DEFINE a == Head(answers[conn])
<1>1. args \in Calls /\ args.kind \in {"read", "single", "multi", "mask"} /\ UNCHANGED args
  BY ClientAssumption DEF LineIInv, FrameInv, Receive
<1>2. frame.fn = "fc22" => args.kind = "mask"
  BY <1>1 DEF LineIInv, FrameInv, Receive
<1>3. frame.fn = "fc10" => args.kind = "multi"
  BY <1>1 DEF LineIInv, FrameInv, Receive
<1>4. CASE AfterAnswer(a.data)
  BY <1>1, <1>4 DEF AfterAnswer, Succeeds, Continues, Pdu, FrameInv
<1>5. CASE FallsBack(a) /\ Continues(IF frame.fn = "fc22" THEN Pdu("fc03", args.word, {})
                                     ELSE Pdu("fc06", Span[1], args.value))
  BY <1>1, <1>2, <1>3, <1>5, SpanType DEF FallsBack, Continues, Pdu, FrameInv
<1> QED
  BY <1>4, <1>5 DEF Receive, Fails

-----------------------------------------------------------------------------
(* What the running call has done to the PLC. *)

LEMMA WritesOf ==
  ASSUME NEW pdu, pdu.fn \in Functions
  PROVE  /\ pdu.fn = "fc03" => Writes(pdu) = {}
         /\ pdu.fn = "fc10" => Writes(pdu) = {Span[i] : i \in 1..Len(Span)}
         /\ pdu.fn \in {"fc06", "fc22"} => Writes(pdu) = {pdu.word}
BY DEF Writes, Functions

LEMMA WritesType == ASSUME NEW pdu \in Frame PROVE Writes(pdu) \subseteq Words
<1>1. pdu.fn \in Functions /\ pdu.word \in Words
  BY DEF Frame
<1>2. pdu.fn \in {"fc03", "fc10"} \/ pdu.fn \in {"fc06", "fc22"}
  BY <1>1 DEF Functions
<1> QED
  BY <1>1, <1>2, WritesOf, SpanType

\* No word is written by the frame in hand that the call has written before it.
LEMMA NotBefore ==
  ASSUME LineIInv, phase # "idle"
  PROVE  \A w \in Writes(frame) : ~Before(w)
<1> SUFFICES ASSUME NEW w \in Writes(frame), Before(w) PROVE FALSE
  OBVIOUS
<1>1. frame.fn = "fc06" /\ \E i, j \in 1..Len(Span) : i < j /\ Span[i] = w /\ Span[j] = frame.word
  BY DEF Before
<1>2. w = frame.word
  BY <1>1, WritesOf DEF Functions
<1> QED
  BY <1>1, <1>2, CallAssumption, SpanType

\* At the head of the span, and outside span writes, nothing was written before.
LEMMA NothingBefore ==
  ASSUME NEW w, args.kind # "multi" \/ frame.fn # "fc06" \/ frame.word = Span[1]
  PROVE  ~Before(w)
<1> SUFFICES ASSUME Before(w) PROVE FALSE
  OBVIOUS
<1>1. PICK i \in 1..Len(Span), j \in 1..Len(Span) : i < j /\ Span[j] = frame.word
  BY DEF Before
<1>2. frame.word = Span[1] /\ 1 \in 1..Len(Span)
  BY SpanType DEF Before
<1> QED
  BY <1>1, <1>2, CallAssumption

LEMMA InitEffects == Init => EffectInv /\ WritesAtMostOnce
<1> SUFFICES ASSUME Init PROVE EffectInv /\ WritesAtMostOnce
  OBVIOUS
<1>1. \A n \in 1..MaxCalls, w \in Words : effects[n][w] = 0
  BY DEF Init
<1>2. \A k \in Connections : pending[k] = <<>>
  BY DEF Init
<1> QED
  BY <1>1, <1>2 DEF Init, EffectInv, WritesAtMostOnce

EffIInv == LineIInv /\ EffectInv /\ WritesAtMostOnce

LEMMA BeginEffects == ASSUME EffIInv, NEW c \in Calls, Begin(c) PROVE EffectInv' /\ WritesAtMostOnce'
<1>1. call' = call + 1 /\ call' \in 1..MaxCalls /\ call \in Nat /\ phase' = "send" /\ UNCHANGED <<pending, effects>>
  BY ClientAssumption DEF EffIInv, LineIInv, TypeOK, Begin, plcVars
<1>2. \A w : ~Before(w)'
  <2>1. args' = c /\ frame' = FirstFrame(c)
    BY DEF Begin
  <2>2. args'.kind # "multi" \/ frame'.fn # "fc06" \/ frame'.word = Span[1]
    BY <2>1, FirstFrameFits
  <2> SUFFICES ASSUME NEW w, Before(w)' PROVE FALSE
    OBVIOUS
  <2>3. PICK i \in 1..Len(Span), j \in 1..Len(Span) : i < j /\ Span[j] = frame'.word
    BY DEF Before
  <2>4. frame'.word = Span[1] /\ 1 \in 1..Len(Span)
    BY <2>2, SpanType DEF Before
  <2> QED
    BY <2>3, <2>4, CallAssumption
<1>3. \A w \in Words : effects'[call'][w] = 0
  BY <1>1 DEF EffIInv, EffectInv
<1>4. \A n \in 1..MaxCalls : n > call' => n > call
  BY <1>1
<1>5. \A w : Count(Before(w))' = 0
  BY <1>2 DEF Count
<1> QED
  BY <1>1, <1>3, <1>4, <1>5 DEF EffIInv, EffectInv, WritesAtMostOnce

LEMMA FailEffects ==
  ASSUME EffIInv, phase' = "idle", ok' = FALSE, UNCHANGED <<pending, effects, call>>
  PROVE  EffectInv' /\ WritesAtMostOnce'
BY DEF EffIInv, EffectInv, WritesAtMostOnce

LEMMA SendEffects == ASSUME EffIInv, LineInv', Send PROVE EffectInv' /\ WritesAtMostOnce'
<1> DEFINE e == [id |-> freshID, pdu |-> frame, call |-> call]
<1>1. phase = "send" /\ phase' = "wait" /\ UNCHANGED <<effects, call, frame, args, ok>>
  BY DEF Send
<1>2. conn' \in Connections /\ pending[conn'] = <<>>
  BY SendingLine DEF EffIInv
<1>3. pending'[conn'] = <<e>> /\ \A k \in Connections : k # conn' => pending'[k] = pending[k]
  BY <1>2 DEF Send, EffIInv, LineIInv, TypeOK
<1>4. \A w : Before(w)' = Before(w)
  BY <1>1 DEF Before
<1>5. \A w \in Words : effects[call][w] = Count(Before(w))
  BY <1>1 DEF EffIInv, EffectInv
<1>6. Writes(frame) \subseteq Words
  BY WritesType DEF EffIInv, LineIInv, TypeOK
<1>7. \A w \in Writes(frame) : effects[call][w] = 0
  BY <1>1, <1>5, <1>6, NotBefore DEF EffIInv, Count
<1> HIDE DEF e
<1>8. Head(<<e>>) = e /\ <<e>> # <<>>
  OBVIOUS
<1>9. e.pdu = frame /\ e.call = call
  BY DEF e
<1>10. \A k \in Connections : pending'[k] # <<>> =>
          \A w \in Writes(Head(pending'[k]).pdu) : effects[Head(pending'[k]).call][w] = 0
  BY <1>3, <1>7, <1>8, <1>9 DEF EffIInv, EffectInv
<1>11. Count(TRUE) = 1 /\ Count(FALSE) = 0
  BY DEF Count
<1>12. \A w \in Words : effects'[call'][w] = Count(Before(w))'
  BY <1>1, <1>4, <1>5, <1>11 DEF Count
<1>13. EffectInv'
  BY <1>1, <1>3, <1>8, <1>10, <1>12 DEF EffIInv, EffectInv, Writes
<1>14. WritesAtMostOnce'
  BY <1>1 DEF EffIInv, WritesAtMostOnce
<1> QED
  BY <1>13, <1>14

\* The next register of a span: what was written before it is what was written
\* before the last one, and the last one.
LEMMA NextBefore ==
  ASSUME args.kind = "multi", frame.fn = "fc06", UNCHANGED args, frame'.fn = "fc06",
         NEW j \in 1..Len(Span), Span[j] = frame.word,
         NEW i \in 1..Len(Span), Span[i] = frame'.word, i - 1 = j
  PROVE  \A w : Before(w)' <=> (w \in Writes(frame) \/ Before(w))
<1> TAKE w
<1>1. Writes(frame) = {frame.word}
  BY WritesOf DEF Functions
<1>2. Before(w)' <=> \E h \in 1..Len(Span) : h < i /\ Span[h] = w
  BY CallAssumption DEF Before
<1>3. Before(w) <=> \E h \in 1..Len(Span) : h < j /\ Span[h] = w
  BY CallAssumption DEF Before
<1>4. \A h \in 1..Len(Span) : h < i <=> h < j \/ h = j
  BY SpanType
<1> QED
  BY <1>1, <1>2, <1>3, <1>4

LEMMA AnsweredEffects ==
  ASSUME EffIInv, Receive, Head(answers[conn]).kind = "ok", AfterAnswer(Head(answers[conn]).data)
  PROVE  /\ phase' = "send" => \A w \in Words : effects[call][w] = Count(Before(w))'
         /\ phase' = "idle" =>
               \A w \in Words : effects[call][w] = IF args.kind = "read" THEN 0
                                                   ELSE IF args.kind = "multi"
                                                   THEN IF \E i \in 1..Len(Span) : Span[i] = w THEN 1 ELSE 0
                                                   ELSE IF w = args.word THEN 1 ELSE 0
<1>0. TypeOK /\ LineInv /\ CallInv /\ FrameInv /\ phase = "wait" /\ UNCHANGED args
  BY DEF EffIInv, LineIInv, Receive
<1>1. \A w \in Words : effects[call][w] = Count(w \in Writes(frame) \/ Before(w))
  BY <1>0, AnswerHead DEF EffIInv, EffectInv
<1>2. args.kind \in {"read", "single", "multi", "mask"} /\ frame.fn \in Functions
  BY <1>0, ArgsType DEF TypeOK, Frame
<1>3. Count(TRUE) = 1 /\ Count(FALSE) = 0
  BY DEF Count
<1>4. CASE args.kind = "mask" /\ frame.fn = "fc03"
  <2>1. phase' = "send" /\ frame'.fn = "fc06"
    BY <1>4 DEF AfterAnswer, Continues, Succeeds, Pdu
  <2>2. \A w : w \notin Writes(frame) /\ ~Before(w) /\ ~Before(w)'
    BY <1>0, <1>4, WritesOf DEF Functions, Before
  <2> QED
    BY <1>1, <2>1, <2>2 DEF Count
<1>5. CASE args.kind = "multi" /\ frame.fn = "fc06" /\ phase' = "send"
  <2>1. PICK i \in 1..Len(Span) : /\ i - 1 \in {n \in 1..Len(Span) : Span[n] = frame.word}
                                  /\ frame' = Pdu("fc06", Span[i], args.value)
    BY <1>5 DEF AfterAnswer, Continues, Succeeds
  <2>2. i - 1 \in 1..Len(Span) /\ Span[i - 1] = frame.word /\ frame'.fn = "fc06" /\ frame'.word = Span[i]
    BY <2>1 DEF Pdu
  <2>3. \A w : Before(w)' <=> (w \in Writes(frame) \/ Before(w))
    BY <1>0, <1>5, <2>2, NextBefore
  <2> QED
    BY <1>1, <1>5, <2>3 DEF Count
<1>6. CASE args.kind = "multi" /\ frame.fn = "fc06" /\ phase' # "send"
  <2>1. {i \in 1..Len(Span) : i - 1 \in {n \in 1..Len(Span) : Span[n] = frame.word}} = {}
    BY <1>6 DEF AfterAnswer, Continues, Succeeds
  <2>2. PICK j \in 1..Len(Span) : Span[j] = frame.word
    BY <1>0, <1>6 DEF FrameInv
  <2>3. j = Len(Span)
    <3> SUFFICES ASSUME j # Len(Span) PROVE FALSE
      OBVIOUS
    <3>1. j + 1 \in 1..Len(Span) /\ (j + 1) - 1 = j
      BY SpanType
    <3> QED
      BY <2>1, <2>2, <3>1
  <2>4. \A w : (w \in Writes(frame) \/ Before(w)) <=> \E i \in 1..Len(Span) : Span[i] = w
    <3>1. \A w : Before(w) <=> \E i \in 1..Len(Span) : i < j /\ Span[i] = w
      BY <1>6, <2>2, CallAssumption DEF Before
    <3>2. \A i \in 1..Len(Span) : i < j \/ i = j
      BY <2>3, SpanType
    <3>3. Writes(frame) = {frame.word}
      BY <1>6, WritesOf DEF Functions
    <3> QED
      BY <2>2, <3>1, <3>2, <3>3
  <2> QED
    BY <1>1, <1>6, <2>4 DEF Count
<1>7. CASE args.kind = "multi" /\ frame.fn # "fc06"
  <2>1. phase' = "idle" /\ frame.fn = "fc10"
    BY <1>0, <1>7 DEF AfterAnswer, Continues, Succeeds, FrameInv
  <2>2. \A w : (w \in Writes(frame) \/ Before(w)) <=> \E i \in 1..Len(Span) : Span[i] = w
    BY <2>1, WritesOf DEF Before, Functions
  <2> QED
    BY <1>1, <1>7, <2>1, <2>2 DEF Count
<1>8. CASE args.kind = "read"
  <2>1. phase' = "idle" /\ frame.fn = "fc03"
    BY <1>0, <1>8 DEF AfterAnswer, Continues, Succeeds, FrameInv
  <2>2. \A w : ~(w \in Writes(frame) \/ Before(w))
    BY <1>8, <2>1, WritesOf DEF Before, Functions
  <2> QED
    BY <1>1, <1>8, <2>1, <2>2 DEF Count
<1>9. CASE args.kind = "single" \/ (args.kind = "mask" /\ frame.fn # "fc03")
  <2>1. phase' = "idle" /\ frame.fn \in {"fc06", "fc22"} /\ frame.word = args.word
    BY <1>0, <1>9 DEF AfterAnswer, Continues, Succeeds, FrameInv
  <2>2. \A w : (w \in Writes(frame) \/ Before(w)) <=> w = args.word
    BY <1>9, <2>1, WritesOf DEF Before, Functions
  <2> QED
    BY <1>1, <1>9, <2>1, <2>2 DEF Count
<1> QED
  BY <1>2, <1>4, <1>5, <1>6, <1>7, <1>8, <1>9

LEMMA FallbackEffects ==
  ASSUME EffIInv, Receive, FallsBack(Head(answers[conn])),
         Continues(IF frame.fn = "fc22" THEN Pdu("fc03", args.word, {}) ELSE Pdu("fc06", Span[1], args.value))
  PROVE  phase' = "send" /\ \A w \in Words : effects[call][w] = Count(Before(w))'
<1>0. TypeOK /\ LineInv /\ phase = "wait" /\ UNCHANGED args
  BY DEF EffIInv, LineIInv, Receive
<1>1. \A w \in Words : effects[call][w] = Count(Before(w))
  BY <1>0, AnswerHead DEF EffIInv, EffectInv, FallsBack
<1>2. \A w : ~Before(w)
  BY DEF Before, FallsBack
<1>3. frame'.fn # "fc06" \/ (frame'.fn = "fc06" /\ frame'.word = Span[1])
  BY DEF Continues, Pdu
<1>4. \A w : ~Before(w)'
  <2> SUFFICES ASSUME NEW w, Before(w)' PROVE FALSE
    OBVIOUS
  <2>1. PICK i \in 1..Len(Span), j \in 1..Len(Span) : i < j /\ Span[j] = frame'.word /\ frame'.fn = "fc06"
    BY DEF Before
  <2>2. frame'.word = Span[1] /\ 1 \in 1..Len(Span)
    BY <1>3, <2>1, SpanType
  <2> QED
    BY <2>1, <2>2, CallAssumption
<1> QED
  BY <1>1, <1>2, <1>4 DEF Count, Continues

LEMMA ReceiveEffects == ASSUME EffIInv, Receive PROVE EffectInv' /\ WritesAtMostOnce'
<1> DEFINE a == Head(answers[conn])
<1>1. UNCHANGED <<pending, effects, call, args>>
  BY DEF Receive
<1>2. CASE a.kind = "ok" /\ AfterAnswer(a.data)
  <2>1. phase' \in {"idle", "send"}
    BY <1>2 DEF AfterAnswer, Continues, Succeeds
  <2> QED
    BY <1>1, <1>2, <2>1, AnsweredEffects DEF EffIInv, EffectInv, WritesAtMostOnce
<1>3. CASE FallsBack(a) /\ Continues(IF frame.fn = "fc22" THEN Pdu("fc03", args.word, {})
                                     ELSE Pdu("fc06", Span[1], args.value))
  BY <1>1, <1>3, FallbackEffects DEF EffIInv, EffectInv, WritesAtMostOnce
<1>4. CASE Fails
  BY <1>1, <1>4, FailEffects DEF Fails
<1> QED
  BY <1>2, <1>3, <1>4 DEF Receive

\* What serving a frame does, with the names the proofs use.
LEMMA Serving ==
  ASSUME LineIInv, NEW k \in Connections, serveConnection(k)
  PROVE  LET f == Head(pending[k])
         IN  /\ pending[k] # <<>> /\ f \in FrameOnLine
             /\ pending'[k] = <<>> /\ \A j \in Connections : j # k => pending'[j] = pending[j]
             /\ UNCHANGED <<supports, program, clientVars>>
             /\ k = conn => phase = "wait" /\ f = Expected
             /\ \E kind \in handlePDU(f.pdu) :
                   /\ k = conn => Head(answers'[conn]).kind = kind
                   /\ k # conn => answers' = answers
                   /\ kind \in {"ok", "garbled"} =>
                         /\ mem' = [w \in Words |-> IF w \in Writes(f.pdu) THEN Written(f.pdu) ELSE mem[w]]
                         /\ \A n \in 1..MaxCalls, w \in Words :
                               effects'[n][w] = IF n = f.call /\ w \in Writes(f.pdu) THEN effects[n][w] + 1
                                                ELSE effects[n][w]
                   /\ kind \notin {"ok", "garbled"} => UNCHANGED <<mem, effects>>
<1> DEFINE f == Head(pending[k])
<1>1. pending[k] = <<f>> /\ Tail(pending[k]) = <<>> /\ f \in FrameOnLine /\ pending[k] # <<>>
  BY PendingHead DEF LineIInv, serveConnection
<1>2. pending'[k] = <<>> /\ \A j \in Connections : j # k => pending'[j] = pending[j]
  BY <1>1 DEF serveConnection, LineIInv, TypeOK
<1>3. UNCHANGED <<supports, program, clientVars>> /\ conn' = conn
  BY DEF serveConnection, clientVars
<1>4. k = conn => phase = "wait" /\ f = Expected /\ answers[conn] = <<>>
  BY <1>1, OpenConnection DEF LineIInv, LineInv, Connections
<1>5. PICK kind \in handlePDU(f.pdu) :
              /\ answers' = IF k = conn
                            THEN [answers EXCEPT ![k] = Append(@, [id |-> f.id, kind |-> kind,
                                                                   data |-> readRegister(f.pdu), call |-> f.call])]
                            ELSE answers
              /\ IF kind \in {"ok", "garbled"}
                 THEN /\ mem' = [w \in Words |-> IF w \in Writes(f.pdu) THEN Written(f.pdu) ELSE mem[w]]
                      /\ effects' = [effects EXCEPT ![f.call] =
                                        [w \in Words |-> IF w \in Writes(f.pdu) THEN @[w] + 1 ELSE @[w]]]
                 ELSE UNCHANGED <<mem, effects>>
  BY DEF serveConnection
<1>6. k = conn => Head(answers'[conn]).kind = kind
  <2> DEFINE e == [id |-> f.id, kind |-> kind, data |-> readRegister(f.pdu), call |-> f.call]
  <2>1. k = conn => answers'[conn] = Append(<<>>, e)
    BY <1>4, <1>5 DEF LineIInv, TypeOK
  <2>2. e.kind = kind
    OBVIOUS
  <2> HIDE DEF e
  <2>3. Head(Append(<<>>, e)) = e
    OBVIOUS
  <2> QED
    BY <2>1, <2>2, <2>3
<1>7. kind \in {"ok", "garbled"} =>
         \A n \in 1..MaxCalls, w \in Words :
            effects'[n][w] = IF n = f.call /\ w \in Writes(f.pdu) THEN effects[n][w] + 1 ELSE effects[n][w]
  <2> SUFFICES ASSUME kind \in {"ok", "garbled"}, NEW n \in 1..MaxCalls, NEW w \in Words
               PROVE  effects'[n][w] = IF n = f.call /\ w \in Writes(f.pdu) THEN effects[n][w] + 1
                                       ELSE effects[n][w]
    OBVIOUS
  <2> DEFINE row == [v \in Words |-> IF v \in Writes(f.pdu) THEN effects[f.call][v] + 1 ELSE effects[f.call][v]]
  <2>1. effects' = [effects EXCEPT ![f.call] = row] /\ DOMAIN effects = 1..MaxCalls
    BY <1>5 DEF LineIInv, TypeOK
  <2>2. row[w] = IF w \in Writes(f.pdu) THEN effects[f.call][w] + 1 ELSE effects[f.call][w]
    OBVIOUS
  <2> HIDE DEF row, f
  <2>3. effects'[n] = IF n = f.call THEN row ELSE effects[n]
    BY <2>1
  <2> QED
    BY <2>2, <2>3
<1>8. kind \in {"ok", "garbled"} =>
         mem' = [w \in Words |-> IF w \in Writes(f.pdu) THEN Written(f.pdu) ELSE mem[w]]
  BY <1>5
<1>9. kind \notin {"ok", "garbled"} => UNCHANGED <<mem, effects>>
  BY <1>5
<1>10. k # conn => answers' = answers
  BY <1>5
<1>11. \E kind_1 \in handlePDU(f.pdu) :
          /\ k = conn => Head(answers'[conn]).kind = kind_1
          /\ k # conn => answers' = answers
          /\ kind_1 \in {"ok", "garbled"} =>
                /\ mem' = [w \in Words |-> IF w \in Writes(f.pdu) THEN Written(f.pdu) ELSE mem[w]]
                /\ \A n \in 1..MaxCalls, w \in Words :
                      effects'[n][w] = IF n = f.call /\ w \in Writes(f.pdu) THEN effects[n][w] + 1
                                       ELSE effects[n][w]
          /\ kind_1 \notin {"ok", "garbled"} => UNCHANGED <<mem, effects>>
  <2> HIDE DEF f
  <2> WITNESS kind \in handlePDU(f.pdu)
  <2> QED
    BY <1>6, <1>7, <1>8, <1>9, <1>10
<1> QED
  BY <1>1, <1>2, <1>3, <1>4, <1>11

LEMMA ServeEffects ==
  ASSUME EffIInv, NEW k \in Connections, serveConnection(k) PROVE EffectInv' /\ WritesAtMostOnce'
<1> DEFINE f == Head(pending[k])
<1>0. LineIInv
  BY DEF EffIInv
<1>1. /\ pending[k] # <<>> /\ f \in FrameOnLine
      /\ pending'[k] = <<>> /\ \A j \in Connections : j # k => pending'[j] = pending[j]
      /\ UNCHANGED <<conn, phase, call, args, frame, ok>>
      /\ k = conn => phase = "wait" /\ f = Expected
  BY <1>0, Serving DEF clientVars
<1>2. PICK kind \in handlePDU(f.pdu) :
                   /\ k = conn => Head(answers'[conn]).kind = kind
                   /\ k # conn => answers' = answers
                   /\ kind \in {"ok", "garbled"} =>
                         \A n \in 1..MaxCalls, w \in Words :
                               effects'[n][w] = IF n = f.call /\ w \in Writes(f.pdu) THEN effects[n][w] + 1
                                                ELSE effects[n][w]
                   /\ kind \notin {"ok", "garbled"} => UNCHANGED effects
  BY <1>0, Serving
<1>3. f.call \in 1..MaxCalls /\ f.call <= call /\ f.pdu \in Frame /\ call \in Nat
  BY <1>0, <1>1, ClientAssumption DEF FrameOnLine, LineIInv, CallInv, TypeOK
<1>4. \A w \in Writes(f.pdu) : effects[f.call][w] = 0 /\ w \in Words
  BY <1>1, <1>3, WritesType DEF EffIInv, EffectInv
<1>5. f.call = call => (phase = "wait" /\ k = conn) \/ (phase = "idle" /\ ~ok)
  BY <1>0, <1>1 DEF LineIInv, CallInv
<1>6. \A j \in Connections : pending[j] # <<>> /\ j # k => Head(pending[j]).call # f.call
  BY <1>0, <1>1 DEF LineIInv, CallInv
<1>7. \A n \in 1..MaxCalls, w \in Words : n # f.call => effects'[n][w] = effects[n][w]
  BY <1>2
<1> HIDE DEF f
<1>8. \A n \in 1..MaxCalls, w \in Words : effects'[n][w] <= 1
  <2> SUFFICES ASSUME NEW n \in 1..MaxCalls, NEW w \in Words PROVE effects'[n][w] <= 1
    OBVIOUS
  <2>1. effects[n][w] <= 1
    BY DEF EffIInv, WritesAtMostOnce
  <2>2. CASE n = f.call /\ w \in Writes(f.pdu)
    BY <1>2, <1>4, <2>1, <2>2
  <2>3. CASE ~(n = f.call /\ w \in Writes(f.pdu))
    BY <1>2, <2>1, <2>3
  <2> QED
    BY <2>2, <2>3
<1>9. call # f.call /\ call # 0 => \A w \in Words : effects'[call][w] = effects[call][w]
  BY <1>7, ClientAssumption DEF EffIInv, LineIInv, TypeOK
<1>10. WritesAtMostOnce'
  BY <1>0, <1>1, <1>5, <1>8, <1>9 DEF EffIInv, LineIInv, CallInv, WritesAtMostOnce
<1>11. \A n \in 1..MaxCalls, w \in Words : n > call => effects'[n][w] = 0
  <2>1. \A n \in 1..MaxCalls : n > call => n # f.call
    BY <1>3
  <2> QED
    BY <1>7, <2>1 DEF EffIInv, EffectInv
<1>12. \A j \in Connections : pending'[j] # <<>> =>
          \A w \in Writes(Head(pending'[j]).pdu) : effects'[Head(pending'[j]).call][w] = 0
  <2> SUFFICES ASSUME NEW j \in Connections, pending'[j] # <<>>,
                      NEW w \in Writes(Head(pending'[j]).pdu)
               PROVE  effects'[Head(pending'[j]).call][w] = 0
    OBVIOUS
  <2>1. j # k /\ pending'[j] = pending[j]
    BY <1>1
  <2>2. Head(pending[j]) \in FrameOnLine
    BY <1>0, <2>1, PendingHead DEF LineIInv
  <2>3. w \in Words /\ Head(pending[j]).call \in 1..MaxCalls /\ effects[Head(pending[j]).call][w] = 0
    BY <2>1, <2>2, WritesType DEF FrameOnLine, EffIInv, EffectInv
  <2> QED
    BY <1>6, <1>7, <2>1, <2>3
<1>13. \A w : Before(w)' = Before(w)
  BY <1>1 DEF Before
<1>14. \A w : Count(Before(w))' = Count(Before(w))
         /\ Count(w \in Writes(frame) \/ Before(w))' = Count(w \in Writes(frame) \/ Before(w))
  BY <1>1, <1>13 DEF Count, Writes
<1>15. CASE k # conn
  <2>1. phase # "idle" => /\ call # f.call /\ call # 0
                          /\ conn # 0 => conn \in Connections /\ pending'[conn] = pending[conn]
                          /\ answers' = answers
    BY <1>0, <1>1, <1>2, <1>5, <1>15, OpenConnection DEF LineIInv, CallInv
  <2>2. phase = "wait" => conn # 0
    BY <1>0 DEF LineIInv, LineInv
  <2> QED
    BY <1>1, <1>9, <1>10, <1>11, <1>12, <1>14, <2>1, <2>2 DEF EffIInv, EffectInv
<1>16. CASE k = conn
  <2>1. phase = "wait" /\ f.pdu = frame /\ f.call = call
    BY <1>1, <1>16 DEF Expected
  <2>2. \A w \in Words : effects[call][w] = Count(Before(w))
    BY <1>1, <1>16, <2>1 DEF EffIInv, EffectInv
  <2>3. \A w \in Writes(frame) : ~Before(w)
    BY <1>0, <2>1, NotBefore
  <2>4. kind \in {"ok", "garbled"} =>
           \A w \in Words : effects'[call][w] = Count(w \in Writes(frame) \/ Before(w))
    BY <1>2, <1>3, <1>4, <2>1, <2>2, <2>3 DEF Count
  <2>5. kind \notin {"ok", "garbled"} => \A w \in Words : effects'[call][w] = Count(Before(w))
    BY <1>2, <2>2
  <2>6. Head(answers'[conn]).kind = kind /\ pending'[conn] = <<>>
    BY <1>1, <1>2, <1>16
  <2> QED
    BY <1>1, <1>10, <1>11, <1>12, <1>14, <2>1, <2>4, <2>5, <2>6 DEF EffectInv
<1> QED
  BY <1>15, <1>16

-----------------------------------------------------------------------------
(* The fallbacks. *)

FallIInv == LineIInv /\ FallbackInv /\ FallbackOnlyWhenUnsupported

\* Words of calls of different kinds are different words.
LEMMA FrameHarmless == ASSUME FallIInv, phase # "idle" PROVE Harmless(frame)
<1>0. frame \in Frame /\ frame.fn \in Functions
  BY DEF FallIInv, LineIInv, TypeOK, Frame
<1>1. args \in Calls /\ args.kind \in {"read", "single", "multi", "mask"}
  BY ClientAssumption DEF FallIInv, LineIInv, FrameInv
<1>2. CASE args.kind = "read"
  BY <1>0, <1>2, WritesOf DEF FallIInv, LineIInv, FrameInv, Harmless
<1>3. CASE args.kind = "single"
  <2>1. Writes(frame) = {args.word}
    BY <1>0, <1>3, WritesOf DEF FallIInv, LineIInv, FrameInv
  <2> QED
    BY <1>1, <1>3, <2>1, CallAssumption DEF Harmless
<1>4. CASE args.kind = "mask"
  <2>1. frame.fn \in {"fc03", "fc06", "fc22"} /\ frame.word = args.word /\ frame.bit = args.bit
    BY <1>4 DEF FallIInv, LineIInv, FrameInv, FallbackInv
  <2>2. Writes(frame) \subseteq {args.word}
    BY <1>0, <2>1, WritesOf
  <2>3. frame.fn # "fc22" => "fc22" \notin supports
    BY <1>4 DEF FallIInv, FallbackInv
  <2>4. \A i \in 1..Len(Span) : Span[i] \notin Writes(frame)
    BY <1>1, <1>4, <2>2, CallAssumption
  <2>5. BitWord \in Writes(frame) => frame.bit \in HmiBits
    BY <1>1, <1>4, <2>1, <2>2, CallAssumption
  <2> QED
    BY <2>3, <2>4, <2>5 DEF Harmless
<1>5. CASE args.kind = "multi"
  <2>1. \A w \in Writes(frame) : \E i \in 1..Len(Span) : w = Span[i]
    <3>1. CASE frame.fn = "fc10"
      BY <1>0, <3>1, WritesOf
    <3>2. CASE frame.fn = "fc06" /\ \E i \in 1..Len(Span) : Span[i] = frame.word
      BY <1>0, <3>2, WritesOf
    <3> QED
      BY <1>5, <3>1, <3>2 DEF FallIInv, LineIInv, FrameInv
  <2>2. BitWord \notin Writes(frame)
    BY <2>1, ClientAssumption
  <2>3. frame.fn # "fc10" => "fc10" \notin supports
    BY <1>5 DEF FallIInv, FallbackInv
  <2> QED
    BY <2>2, <2>3 DEF Harmless
<1> QED
  BY <1>1, <1>2, <1>3, <1>4, <1>5

LEMMA InitFallback == Init => FallbackInv /\ FallbackOnlyWhenUnsupported
<1> SUFFICES ASSUME Init PROVE FallbackInv /\ FallbackOnlyWhenUnsupported
  OBVIOUS
<1>1. \A k \in Connections : pending[k] = <<>>
  BY DEF Init
<1>2. mem[BitWord] = {} /\ \A i \in 1..Len(Span) : mem[Span[i]] = {}
  BY SpanType, ClientAssumption DEF Init
<1> QED
  BY <1>1, <1>2 DEF Init, FallbackInv, FallbackOnlyWhenUnsupported

LEMMA BeginFallback ==
  ASSUME FallIInv, NEW c \in Calls, Begin(c) PROVE FallbackInv' /\ FallbackOnlyWhenUnsupported'
<1>1. /\ UNCHANGED <<mem, supports, pending, program, maskWriteUnsupported, writeMultipleUnsupported>>
      /\ phase' = "send" /\ args' = c /\ frame' = FirstFrame(c)
  BY DEF Begin, plcVars
<1>2. FallbackOnlyWhenUnsupported'
  BY <1>1 DEF FallIInv, FallbackOnlyWhenUnsupported
<1>3. \A k \in Connections : pending'[k] # <<>> => Harmless(Head(pending[k]).pdu)'
  BY <1>1 DEF FallIInv, FallbackInv, Harmless, Writes
<1> QED
  BY <1>1, <1>2, <1>3, FirstFrameFits DEF FallIInv, FallbackInv

\* A call that failed leaves only frames behind.
LEMMA FailFallback ==
  ASSUME FallIInv, phase' = "idle",
         UNCHANGED <<mem, supports, pending, program, maskWriteUnsupported, writeMultipleUnsupported>>
  PROVE  FallbackInv' /\ FallbackOnlyWhenUnsupported'
<1>1. FallbackOnlyWhenUnsupported'
  BY DEF FallIInv, FallbackOnlyWhenUnsupported
<1>2. \A k \in Connections : pending'[k] # <<>> => Harmless(Head(pending[k]).pdu)'
  BY DEF FallIInv, FallbackInv, Harmless, Writes
<1> QED
  BY <1>1, <1>2 DEF FallIInv, FallbackInv

LEMMA SendFallback == ASSUME FallIInv, Send PROVE FallbackInv' /\ FallbackOnlyWhenUnsupported'
<1> DEFINE e == [id |-> freshID, pdu |-> frame, call |-> call]
<1>1. /\ phase = "send" /\ phase' = "wait"
      /\ UNCHANGED <<mem, supports, program, args, frame, maskWriteUnsupported, writeMultipleUnsupported>>
  BY DEF Send
<1>2. conn' \in Connections /\ pending[conn'] = <<>>
  BY SendingLine DEF FallIInv
<1>3. pending'[conn'] = <<e>> /\ \A k \in Connections : k # conn' => pending'[k] = pending[k]
  BY <1>2 DEF Send, FallIInv, LineIInv, TypeOK
<1>4. e.pdu = frame
  OBVIOUS
<1> HIDE DEF e
<1>5. Head(<<e>>) = e /\ <<e>> # <<>>
  OBVIOUS
<1>6. \A pdu : Harmless(pdu)' <=> Harmless(pdu)
  BY <1>1 DEF Harmless, Writes
<1>7. \A k \in Connections : pending'[k] # <<>> => Harmless(Head(pending'[k]).pdu)
  BY <1>1, <1>3, <1>4, <1>5, FrameHarmless DEF FallIInv, FallbackInv
<1>8. FallbackOnlyWhenUnsupported'
  BY <1>1 DEF FallIInv, FallbackOnlyWhenUnsupported
<1> QED
  BY <1>1, <1>3, <1>5, <1>6, <1>7, <1>8 DEF FallIInv, FallbackInv

LEMMA ReceiveFallback == ASSUME FallIInv, Receive PROVE FallbackInv' /\ FallbackOnlyWhenUnsupported'
<1> DEFINE a == Head(answers[conn])
<1>1. UNCHANGED <<mem, supports, pending, program, args>> /\ phase = "wait"
  BY DEF Receive
<1>2. FallbackOnlyWhenUnsupported'
  BY <1>1 DEF FallIInv, FallbackOnlyWhenUnsupported
<1>3. \A k \in Connections : pending'[k] # <<>> => Harmless(Head(pending[k]).pdu)'
  BY <1>1 DEF FallIInv, FallbackInv, Harmless, Writes
<1>4. CASE AfterAnswer(a.data) /\ UNCHANGED <<maskWriteUnsupported, writeMultipleUnsupported>>
  <2>1. phase' \in {"idle", "send"}
    BY <1>4 DEF AfterAnswer, Continues, Succeeds
  <2>2. phase' = "send" /\ args.kind = "mask" => frame.fn = "fc03" /\ frame'.fn = "fc06" /\ frame'.bit = args.bit
    BY <1>4 DEF AfterAnswer, Continues, Succeeds, Pdu
  <2>3. phase' = "send" /\ args.kind = "multi" => frame.fn = "fc06"
    BY <1>4 DEF AfterAnswer, Continues, Succeeds, Pdu
  <2> QED
    BY <1>1, <1>2, <1>3, <1>4, <2>1, <2>2, <2>3 DEF FallIInv, FallbackInv
<1>5. CASE /\ FallsBack(a)
           /\ maskWriteUnsupported' = (maskWriteUnsupported \/ frame.fn = "fc22")
           /\ writeMultipleUnsupported' = (writeMultipleUnsupported \/ frame.fn = "fc10")
           /\ Continues(IF frame.fn = "fc22" THEN Pdu("fc03", args.word, {}) ELSE Pdu("fc06", Span[1], args.value))
  <2>1. frame.fn \notin supports /\ frame.fn \in {"fc22", "fc10"} /\ phase' = "send"
    BY <1>1, <1>5, AnswerHead DEF FallIInv, LineIInv, FallbackInv, FallsBack, Continues
  <2>2. args.kind = "mask" => frame.fn = "fc22"
    BY <1>1, <2>1 DEF FallIInv, LineIInv, FrameInv
  <2>3. args.kind = "multi" => frame.fn = "fc10"
    BY <1>1, <2>1 DEF FallIInv, LineIInv, FrameInv
  <2>4. frame'.bit = args.bit
    BY <1>5 DEF Continues, Pdu
  <2> QED
    BY <1>1, <1>2, <1>3, <1>5, <2>1, <2>2, <2>3, <2>4 DEF FallIInv, FallbackInv
<1>6. CASE Fails /\ UNCHANGED <<maskWriteUnsupported, writeMultipleUnsupported>>
  BY <1>1, <1>6, FailFallback DEF Fails
<1> QED
  BY <1>4, <1>5, <1>6 DEF Receive

\* Serving a harmless frame keeps the program's bits and the span whole.
LEMMA ServeWhole ==
  ASSUME TypeOK, FallbackOnlyWhenUnsupported, NEW pdu \in Frame, Harmless(pdu), UNCHANGED <<supports, program>>,
         mem' = [w \in Words |-> IF w \in Writes(pdu) THEN Written(pdu) ELSE mem[w]]
  PROVE  FallbackOnlyWhenUnsupported'
<1>0. pdu.fn \in Functions
  BY DEF Frame
<1>1. ASSUME "fc22" \in supports PROVE mem'[BitWord] \cap ProgramBits = program
  <2>1. mem[BitWord] \cap ProgramBits = program /\ BitWord \in Words
    BY <1>1, ClientAssumption DEF FallbackOnlyWhenUnsupported
  <2>2. CASE BitWord \in Writes(pdu)
    <3>1. pdu.fn = "fc22" /\ pdu.bit \in HmiBits
      BY <1>1, <2>2 DEF Harmless
    <3>2. pdu.word = BitWord
      BY <1>0, <2>2, <3>1, WritesOf
    <3>3. mem'[BitWord] = Masked(mem[BitWord], pdu.bit, pdu.target)
      BY <2>1, <2>2, <3>1, <3>2 DEF Written, maskWrite
    <3>4. pdu.bit \notin ProgramBits
      BY <3>1 DEF ProgramBits
    <3> QED
      BY <2>1, <3>3, <3>4 DEF Masked
  <2>3. CASE BitWord \notin Writes(pdu)
    BY <2>1, <2>3
  <2> QED
    BY <2>2, <2>3
<1>2. ASSUME "fc10" \in supports PROVE \A i, j \in 1..Len(Span) : mem'[Span[i]] = mem'[Span[j]]
  <2>1. CASE \E i \in 1..Len(Span) : Span[i] \in Writes(pdu)
    <3>1. pdu.fn = "fc10"
      BY <1>2, <2>1 DEF Harmless
    <3>2. \A i \in 1..Len(Span) : Span[i] \in Writes(pdu)
      BY <1>0, <3>1, WritesOf
    <3> QED
      BY <3>2, SpanType
  <2>2. CASE ~\E i \in 1..Len(Span) : Span[i] \in Writes(pdu)
    BY <1>2, <2>2, SpanType DEF FallbackOnlyWhenUnsupported
  <2> QED
    BY <2>1, <2>2
<1> QED
  BY <1>1, <1>2 DEF FallbackOnlyWhenUnsupported

LEMMA ServeFallback ==
  ASSUME FallIInv, NEW k \in Connections, serveConnection(k)
  PROVE  FallbackInv' /\ FallbackOnlyWhenUnsupported'
<1> DEFINE f == Head(pending[k])
<1>0. LineIInv
  BY DEF FallIInv
<1>1. /\ pending[k] # <<>> /\ f \in FrameOnLine
      /\ pending'[k] = <<>> /\ \A j \in Connections : j # k => pending'[j] = pending[j]
      /\ UNCHANGED <<supports, program, conn, phase, args, frame, maskWriteUnsupported, writeMultipleUnsupported>>
      /\ k = conn => phase = "wait" /\ f = Expected
  BY <1>0, Serving DEF clientVars
<1>2. PICK kind \in handlePDU(f.pdu) :
                   /\ k = conn => Head(answers'[conn]).kind = kind
                   /\ k # conn => answers' = answers
                   /\ kind \in {"ok", "garbled"} =>
                         mem' = [w \in Words |-> IF w \in Writes(f.pdu) THEN Written(f.pdu) ELSE mem[w]]
                   /\ kind \notin {"ok", "garbled"} => UNCHANGED mem
  BY <1>0, Serving
<1>3. f.pdu \in Frame /\ Harmless(f.pdu)
  BY <1>1 DEF FallIInv, FallbackInv, FrameOnLine
<1>4. k = conn => f.pdu = frame
  BY <1>1 DEF Expected
<1> HIDE DEF f
<1>5. FallbackOnlyWhenUnsupported'
  <2>1. CASE kind \in {"ok", "garbled"}
    BY <1>1, <1>2, <1>3, <2>1, ServeWhole DEF FallIInv, LineIInv
  <2>2. CASE kind \notin {"ok", "garbled"}
    BY <1>1, <1>2, <2>2 DEF FallIInv, FallbackOnlyWhenUnsupported
  <2> QED
    BY <2>1, <2>2
<1>6. \A j \in Connections : pending'[j] # <<>> => Harmless(Head(pending[j]).pdu)'
  <2>1. \A pdu : Harmless(pdu)' <=> Harmless(pdu)
    BY <1>1 DEF Harmless, Writes
  <2> QED
    BY <1>1, <2>1 DEF FallIInv, FallbackInv
<1>7. phase = "wait" /\ pending'[conn] = <<>> /\ Head(answers'[conn]).kind = "illegal" => frame.fn \notin supports
  <2>1. CASE k = conn
    BY <1>2, <1>4, <2>1 DEF handlePDU
  <2>2. CASE k # conn
    <3>1. phase = "wait" => pending'[conn] = pending[conn]
      BY <1>0, <1>1, <2>2, OpenConnection DEF LineIInv, LineInv
    <3> QED
      BY <1>2, <2>2, <3>1 DEF FallIInv, FallbackInv
  <2> QED
    BY <2>1, <2>2
<1> QED
  BY <1>1, <1>5, <1>6, <1>7 DEF FallIInv, FallbackInv

LEMMA ProgramFallback ==
  ASSUME FallIInv, NEW b \in ProgramBits, ProgramMoves(b) PROVE FallbackInv' /\ FallbackOnlyWhenUnsupported'
<1>1. UNCHANGED <<supports, pending, answers, conn, phase, args, frame, maskWriteUnsupported, writeMultipleUnsupported>>
  BY DEF ProgramMoves, clientVars
<1>2. BitWord \in Words /\ \A i \in 1..Len(Span) : Span[i] \in Words /\ Span[i] # BitWord
  BY ClientAssumption, SpanType
<1>3. /\ mem'[BitWord] = Masked(mem[BitWord], b, b \notin mem[BitWord])
      /\ \A i \in 1..Len(Span) : mem'[Span[i]] = mem[Span[i]]
  BY <1>2 DEF ProgramMoves, FallIInv, LineIInv, TypeOK
<1>4. mem[BitWord] \cap ProgramBits = program => mem'[BitWord] \cap ProgramBits = program'
  BY <1>3 DEF ProgramMoves, Masked
<1>5. FallbackOnlyWhenUnsupported'
  BY <1>1, <1>3, <1>4 DEF FallIInv, FallbackOnlyWhenUnsupported
<1>6. \A k \in Connections : pending'[k] # <<>> => Harmless(Head(pending[k]).pdu)'
  BY <1>1 DEF FallIInv, FallbackInv, Harmless, Writes
<1> QED
  BY <1>1, <1>5, <1>6 DEF FallIInv, FallbackInv

-----------------------------------------------------------------------------
(* The theorems. *)

LEMMA InvInit == Init => IInv
BY InitType, InitLine, InitEffects, InitFallback DEF IInv, LineIInv

LEMMA InvParts == IInv => EffIInv /\ FallIInv /\ LineIInv /\ TypeOK /\ LineInv /\ CallInv
BY DEF IInv, EffIInv, FallIInv, LineIInv

LEMMA InvStep == IInv /\ [Next]_vars => IInv'
<1> SUFFICES ASSUME IInv, [Next]_vars PROVE IInv'
  OBVIOUS
<1> USE InvParts
<1>1. ASSUME NEW c \in Calls, Begin(c) PROVE IInv'
  BY <1>1, BeginType, BeginLine, BeginFrame, BeginEffects, BeginFallback DEF IInv, LineIInv
<1>2. CASE SendFails
  <2>1. phase' = "idle" /\ ok' = FALSE /\ UNCHANGED <<plcVars, call, maskWriteUnsupported, writeMultipleUnsupported>>
    BY <1>2 DEF SendFails, Fails
  <2>2. FrameInv'
    BY <2>1 DEF FrameInv
  <2> QED
    BY <1>2, <2>1, <2>2, SendFailsType, SendFailsLine, FailEffects, FailFallback DEF IInv, LineIInv, plcVars
<1>3. CASE Send
  <2>1. FrameInv'
    BY <1>3 DEF Send, IInv, LineIInv, FrameInv
  <2>2. LineInv' /\ CallInv'
    BY <1>3, SendLine
  <2> QED
    BY <1>3, <2>1, <2>2, SendType, SendEffects, SendFallback DEF IInv, LineIInv
<1>4. CASE Timeout
  <2>1. phase' = "idle" /\ ok' = FALSE /\ UNCHANGED <<plcVars, call, maskWriteUnsupported, writeMultipleUnsupported>>
    BY <1>4 DEF Timeout, Fails
  <2>2. FrameInv'
    BY <2>1 DEF FrameInv
  <2> QED
    BY <1>4, <2>1, <2>2, TimeoutType, TimeoutLine, FailEffects, FailFallback DEF IInv, LineIInv, plcVars
<1>5. CASE Receive
  BY <1>5, ReceiveType, ReceiveLine, ReceiveFrame, ReceiveEffects, ReceiveFallback DEF IInv, LineIInv
<1>6. ASSUME NEW k \in Connections, serveConnection(k) PROVE IInv'
  <2>1. FrameInv'
    BY <1>6 DEF serveConnection, clientVars, IInv, LineIInv, FrameInv
  <2> QED
    BY <1>6, <2>1, ServeType, ServeLine, ServeEffects, ServeFallback DEF IInv, LineIInv
<1>7. ASSUME NEW b \in ProgramBits, ProgramMoves(b) PROVE IInv'
  <2>1. EffectInv' /\ WritesAtMostOnce'
    BY <1>7 DEF ProgramMoves, clientVars, IInv, EffectInv, WritesAtMostOnce, Before, Count, Writes
  <2> QED
    BY <1>7, <2>1, ProgramType, ProgramLine, ProgramFallback DEF IInv, LineIInv
<1>8. CASE UNCHANGED vars
  <2>1. UNCHANGED <<mem, supports, pending, answers, effects, program, conn, conns, nextID, maskWriteUnsupported,
                    writeMultipleUnsupported, phase, call, args, frame, sent, ok>>
    BY <1>8 DEF vars, plcVars, clientVars
  <2>2. LineIInv'
    BY <2>1 DEF IInv, LineIInv, TypeOK, LineInv, CallInv, FrameInv, Expected
  <2>3. EffectInv' /\ WritesAtMostOnce'
    BY <2>1 DEF IInv, EffectInv, WritesAtMostOnce, Before, Count, Writes
  <2>4. FallbackInv' /\ FallbackOnlyWhenUnsupported'
    BY <2>1 DEF IInv, FallbackInv, FallbackOnlyWhenUnsupported, Harmless, Writes
  <2> QED
    BY <2>2, <2>3, <2>4 DEF IInv
<1> QED
  BY <1>1, <1>2, <1>3, <1>4, <1>5, <1>6, <1>7, <1>8 DEF Next

LEMMA InvAlways == Spec => []IInv
BY InvInit, InvStep, PTL DEF Spec

\* Every variable of the client keeps its type in every behaviour; no transaction id is
\* 0 and no connection number runs ahead of the dials, whatever IdModulus is.
THEOREM ClientTyped == Spec => []TypeOK
BY InvAlways, InvParts, PTL

\* The open connection carries the frame in hand or its answer and nothing else, so
\* exchange can never take a late answer for the answer of a later call, even with a
\* modulus so small that every second call repeats a transaction id.
THEOREM ClientConnectionIsClean == Spec => []ConnectionIsClean
<1>1. ASSUME IInv PROVE ConnectionIsClean
  <2> SUFFICES ASSUME conn # 0
               PROVE  /\ Len(pending[conn]) + Len(answers[conn]) = IF phase = "wait" THEN 1 ELSE 0
                      /\ \A i \in 1..Len(answers[conn]) : answers[conn][i].id = sent /\ answers[conn][i].call = call
    BY DEF ConnectionIsClean
  <2>0. conn \in Connections /\ answers[conn] \in Seq(Answer)
    BY <1>1, InvParts, OpenConnection DEF TypeOK
  <2>1. CASE phase # "wait"
    <3>1. pending[conn] = <<>> /\ answers[conn] = <<>>
      BY <1>1, <2>1, InvParts DEF LineInv
    <3> QED
      BY <2>1, <3>1
  <2>2. CASE phase = "wait" /\ pending[conn] = <<Expected>> /\ answers[conn] = <<>>
    BY <2>2
  <2>3. CASE phase = "wait" /\ pending[conn] = <<>> /\ Len(answers[conn]) = 1
             /\ Head(answers[conn]).id = sent /\ Head(answers[conn]).call = call
    BY <2>0, <2>3
  <2> QED
    BY <1>1, <2>1, <2>2, <2>3, InvParts DEF LineInv
<1> QED
  BY <1>1, InvAlways, PTL

\* The PLC performs each write of a call at most once, through every timeout, late
\* service and fallback, and exactly the writes of the call when it returns nil.
THEOREM ClientWritesAtMostOnce == Spec => []WritesAtMostOnce
<1>1. IInv => WritesAtMostOnce
  BY DEF IInv
<1> QED
  BY <1>1, InvAlways, PTL

\* MaskWriteBit and WriteMultipleRegisters fall back from FC22 and FC10 only on a PLC
\* without the function: on one that has it the program's bits of a shared word are
\* never overwritten and no span is ever half written.
THEOREM ClientFallsBackOnlyWhenUnsupported == Spec => []FallbackOnlyWhenUnsupported
<1>1. IInv => FallbackOnlyWhenUnsupported
  BY DEF IInv
<1> QED
  BY <1>1, InvAlways, PTL
=============================================================================
