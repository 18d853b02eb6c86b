------------------------------ MODULE Easy521 ------------------------------
(***************************************************************************)
(* The Modbus TCP client of the PLC worker (internal/easy521/client.go).   *)
(* One goroutine makes one call at a time; a call sends one frame, or      *)
(* several when the PLC refuses FC22 (bit writes fall back to FC03 + FC06) *)
(* or FC10 (register spans fall back to one FC06 per register).            *)
(*                                                                         *)
(* The other side: a connection is a FIFO of frames and a FIFO of answers, *)
(* the PLC serves a frame late, even after the client gave the connection  *)
(* up, refuses it, or answers with garbage, and its own program changes    *)
(* bits at any time.  It may be the simulator of tools/plc-simulator,      *)
(* which implements FC03 and FC22 only.                                    *)
(***************************************************************************)
EXTENDS Naturals, Sequences

CONSTANTS
    Bits,        \* the bits of a D word; a word is the set of its bits that are 1
    BitWord,     \* a D word shared by BOOL points of the HMI and of the PLC program
    Span,        \* the registers of one int32 or float32 point, in address order
    Words,       \* all D words
    HmiBits,     \* bits of BitWord the HMI writes; the program writes the others
    Calls,       \* the calls the worker makes
    IdModulus,   \* 2^16 in the code: transaction ids wrap around
    MaxCalls,    \* model bound on calls
    MaxConns     \* model bound on TCP connections

ASSUME ClientAssumption ==
    /\ HmiBits \subseteq Bits
    /\ Span \in Seq(Words)
    /\ BitWord \in Words
    /\ \A i \in 1..Len(Span) : Span[i] # BitWord
    /\ Calls \subseteq [kind : {"read", "single", "multi", "mask"}, word : Words, value : SUBSET Bits,
                        bit : Bits, target : BOOLEAN]
    /\ IdModulus \in Nat \ {0, 1}
    /\ MaxCalls \in Nat
    /\ MaxConns \in Nat

\* The points of a table lie apart: a word of the span or the shared word is
\* written by no other kind of call, and the HMI's bits are not the program's.
ASSUME CallAssumption ==
    /\ Bits # {}
    /\ Span # <<>>
    /\ \A i, j \in 1..Len(Span) : Span[i] = Span[j] => i = j
    /\ \A c \in Calls :
          /\ c.kind \in {"single", "mask"} => \A i \in 1..Len(Span) : Span[i] # c.word
          /\ c.kind = "single" => c.word # BitWord
          /\ c.kind = "mask" /\ c.word = BitWord => c.bit \in HmiBits

VARIABLES
    mem,       \* the PLC's D words (external)
    supports,  \* the functions the PLC implements besides FC03
    pending,   \* frames on their way to the PLC, per connection (external)
    answers,   \* answers on their way back, per connection (external)
    conn,      \* Client.conn, 0 when nil
    conns,     \* number of connections dialled, bounded by MaxConns
    nextID,    \* Client.nextID
    maskWriteUnsupported, writeMultipleUnsupported,
    phase,     \* "idle", about to "send" frame, or in exchange's "wait" for its answer
    call,      \* number of the running or last call, bounded by MaxCalls
    args,      \* its arguments
    frame,     \* the PDU being exchanged
    sent,      \* the transaction id it carries
    ok,        \* the last call returned nil
    effects,   \* history: how often the PLC wrote a word for a call
    program    \* history: the bits of BitWord as the PLC program last left them

plcVars == <<mem, supports, pending, answers, effects, program>>
clientVars == <<conn, conns, nextID, maskWriteUnsupported, writeMultipleUnsupported,
                phase, call, args, frame, sent, ok>>
vars == <<plcVars, clientVars>>

ProgramBits == Bits \ HmiBits
Functions == {"fc03", "fc06", "fc10", "fc22"}
SimulatorFunctions == {"fc22"}
Connections == 1..MaxConns

NoArgs == [kind |-> "read", word |-> BitWord, value |-> {}, bit |-> CHOOSE b \in Bits : TRUE, target |-> FALSE]
Pdu(fn, word, value) == [fn |-> fn, word |-> word, value |-> value, bit |-> args.bit, target |-> args.target]

\* A bit write of the word's current content: FC22's masks, and the fallback's
\* value |= mask and value &^= mask.
Masked(word, bit, target) == IF target THEN word \cup {bit} ELSE word \ {bit}

-----------------------------------------------------------------------------
(* The public calls. *)

\* The first PDU of a call, chosen by what the PLC has refused before.
FirstFrame(c) ==
    [fn |-> CASE c.kind = "read" -> "fc03"
              [] c.kind = "single" -> "fc06"
              [] c.kind = "multi" -> IF writeMultipleUnsupported THEN "fc06" ELSE "fc10"
              [] c.kind = "mask" -> IF maskWriteUnsupported THEN "fc03" ELSE "fc22",
     word |-> IF c.kind = "multi" THEN Span[1] ELSE c.word,
     value |-> c.value, bit |-> c.bit, target |-> c.target]

Begin(c) ==
    /\ phase = "idle"
    /\ call < MaxCalls
    /\ call' = call + 1
    /\ args' = c
    /\ frame' = FirstFrame(c)
    /\ phase' = "send"
    /\ UNCHANGED <<plcVars, conn, conns, nextID, maskWriteUnsupported, writeMultipleUnsupported, sent, ok>>

\* The call returns err, or nil; Close drops the connection with what is on it.
Fails == phase' = "idle" /\ ok' = FALSE /\ UNCHANGED frame
Succeeds == phase' = "idle" /\ ok' = TRUE /\ UNCHANGED frame
Continues(f) == phase' = "send" /\ frame' = f /\ UNCHANGED ok

\* nextID++, skipping 0 when it wraps.
freshID == IF (nextID + 1) % IdModulus = 0 THEN 1 ELSE (nextID + 1) % IdModulus

-----------------------------------------------------------------------------
(* exchange. *)

\* ensureConnection or the write of the frame fails.
SendFails ==
    /\ phase = "send"
    /\ conn' = 0
    /\ nextID' \in {nextID, freshID}
    /\ Fails
    /\ UNCHANGED <<plcVars, conns, maskWriteUnsupported, writeMultipleUnsupported, call, args, sent>>

\* The frame is written, on a fresh connection if there is none.
Send ==
    /\ phase = "send"
    /\ \/ conn # 0 /\ UNCHANGED <<conn, conns>>
       \/ conn = 0 /\ conns < MaxConns /\ conn' = conns + 1 /\ conns' = conns + 1
    /\ nextID' = freshID
    /\ sent' = freshID
    /\ pending' = [pending EXCEPT ![conn'] = Append(@, [id |-> freshID, pdu |-> frame, call |-> call])]
    /\ phase' = "wait"
    /\ UNCHANGED <<mem, supports, answers, effects, program, maskWriteUnsupported, writeMultipleUnsupported,
                   call, args, frame, ok>>

\* Mutant: the connection survives a deadline.
TimeoutKeepsConnection ==
    /\ phase = "wait"
    /\ Fails
    /\ UNCHANGED <<plcVars, conn, conns, nextID, maskWriteUnsupported, writeMultipleUnsupported, call, args, sent>>

\* Mutant: a call is tried again after a deadline.
TimeoutRetries ==
    /\ phase = "wait"
    /\ conn' = 0
    /\ Continues(frame)
    /\ UNCHANGED <<plcVars, conns, nextID, maskWriteUnsupported, writeMultipleUnsupported, call, args, sent>>

\* The deadline passes or the connection breaks: Close, and no retry.
Timeout ==
    /\ phase = "wait"
    /\ conn' = 0
    /\ Fails
    /\ UNCHANGED <<plcVars, conns, nextID, maskWriteUnsupported, writeMultipleUnsupported, call, args, sent>>

\* What follows a good answer to the frame: the second half of a bit write's
\* fallback, the next register of a span's fallback, or the end of the call.
AfterAnswer(data) ==
    LET written == {i \in 1..Len(Span) : Span[i] = frame.word}
        next == {i \in 1..Len(Span) : i - 1 \in written}
    IN  \/ /\ args.kind = "mask" /\ frame.fn = "fc03"
           /\ Continues(Pdu("fc06", args.word, Masked(data, args.bit, args.target)))
        \/ /\ args.kind = "multi" /\ frame.fn = "fc06" /\ next # {}
           /\ \E i \in next : Continues(Pdu("fc06", Span[i], args.value))
        \/ /\ args.kind = "mask" => frame.fn # "fc03"
           /\ args.kind = "multi" /\ frame.fn = "fc06" => next = {}
           /\ Succeeds

\* Mutant: every exception makes the client fall back.
FallsBackAlways(answer) == frame.fn \in {"fc22", "fc10"} /\ answer.kind \in {"illegal", "refused"}

\* isIllegalFunction, for the two functions that have a fallback.
FallsBack(answer) == frame.fn \in {"fc22", "fc10"} /\ answer.kind = "illegal"

\* An answer arrives.  Anything but a matching, normal answer closes the connection.
Receive ==
    /\ phase = "wait"
    /\ answers[conn] # <<>>
    /\ LET a == Head(answers[conn])
       IN  \/ /\ a.id = sent /\ a.kind = "ok"
              /\ answers' = [answers EXCEPT ![conn] = Tail(@)]
              /\ AfterAnswer(a.data)
              /\ UNCHANGED <<conn, maskWriteUnsupported, writeMultipleUnsupported>>
           \/ /\ a.id = sent /\ FallsBack(a)
              /\ conn' = 0
              /\ maskWriteUnsupported' = (maskWriteUnsupported \/ frame.fn = "fc22")
              /\ writeMultipleUnsupported' = (writeMultipleUnsupported \/ frame.fn = "fc10")
              /\ Continues(IF frame.fn = "fc22" THEN Pdu("fc03", args.word, {})
                           ELSE Pdu("fc06", Span[1], args.value))
              /\ UNCHANGED answers
           \/ /\ a.id # sent \/ (a.kind # "ok" /\ ~FallsBack(a))
              /\ conn' = 0
              /\ Fails
              /\ UNCHANGED <<answers, maskWriteUnsupported, writeMultipleUnsupported>>
    /\ UNCHANGED <<mem, supports, pending, effects, program, conns, nextID, call, args, sent>>

-----------------------------------------------------------------------------
(* The PLC.  FC03 and FC22 are served as by the repository's own Modbus      *)
(* server (tools/plc-simulator/server.go), which knows no other function; a *)
(* real PLC may also implement FC06 and FC10 (external).                    *)

\* read and maskWrite of the register store, each atomic under its lock.
readRegister(pdu) == mem[pdu.word]
maskWrite(pdu) == Masked(mem[pdu.word], pdu.bit, pdu.target)

Writes(pdu) == CASE pdu.fn = "fc03" -> {}
                 [] pdu.fn = "fc10" -> {Span[i] : i \in 1..Len(Span)}
                 [] OTHER -> {pdu.word}
Written(pdu) == IF pdu.fn = "fc22" THEN maskWrite(pdu) ELSE pdu.value

\* What the answer may be: an unknown function is an exception; a known one is
\* executed, refused for its address or value, or executed and answered with garbage.
handlePDU(pdu) == IF pdu.fn \in {"fc03"} \cup supports THEN {"ok", "refused", "garbled"} ELSE {"illegal"}

\* The PLC serves the oldest frame of a connection.  Answers on a closed connection
\* are lost.
serveConnection(k) ==
    /\ pending[k] # <<>>
    /\ pending' = [pending EXCEPT ![k] = Tail(@)]
    /\ LET f == Head(pending[k])
       IN  \E kind \in handlePDU(f.pdu) :
              /\ answers' = IF k = conn
                            THEN [answers EXCEPT ![k] = Append(@, [id |-> f.id, kind |-> kind,
                                                                   data |-> readRegister(f.pdu), call |-> f.call])]
                            ELSE answers
              /\ IF kind \in {"ok", "garbled"}
                 THEN /\ mem' = [w \in Words |-> IF w \in Writes(f.pdu) THEN Written(f.pdu) ELSE mem[w]]
                      /\ effects' = [effects EXCEPT ![f.call] =
                                        [w \in Words |-> IF w \in Writes(f.pdu) THEN @[w] + 1 ELSE @[w]]]
                 ELSE UNCHANGED <<mem, effects>>
    /\ UNCHANGED <<supports, program, clientVars>>

\* The PLC program changes one of its own bits of the shared word.
ProgramMoves(b) ==
    /\ mem' = [mem EXCEPT ![BitWord] = Masked(@, b, b \notin @)]
    /\ program' = Masked(program, b, b \notin mem[BitWord])
    /\ UNCHANGED <<supports, pending, answers, effects, clientVars>>

-----------------------------------------------------------------------------
Init ==
    /\ mem = [w \in Words |-> {}]
    /\ supports \in {{"fc06"} \cup more : more \in SUBSET {"fc10", "fc22"}} \cup {SimulatorFunctions}
    /\ pending = [k \in Connections |-> <<>>]
    /\ answers = [k \in Connections |-> <<>>]
    /\ conn = 0
    /\ conns = 0
    /\ nextID = 1
    /\ maskWriteUnsupported = FALSE
    /\ writeMultipleUnsupported = FALSE
    /\ phase = "idle"
    /\ call = 0
    /\ args = NoArgs
    /\ frame = FirstFrame(NoArgs)
    /\ sent = 0
    /\ ok = FALSE
    /\ effects = [n \in 1..MaxCalls |-> [w \in Words |-> 0]]
    /\ program = {}

Next ==
    \/ \E c \in Calls : Begin(c)
    \/ SendFails \/ Send \/ Timeout \/ Receive
    \/ \E k \in Connections : serveConnection(k)
    \/ \E b \in ProgramBits : ProgramMoves(b)

Spec == Init /\ [][Next]_vars

-----------------------------------------------------------------------------
(* What the client promises. *)

Frame == [fn : Functions, word : Words, value : SUBSET Bits, bit : Bits, target : BOOLEAN]
Answer == [id : 0..(IdModulus - 1), kind : {"ok", "refused", "illegal", "garbled"},
           data : SUBSET Bits, call : 1..MaxCalls]

\* Every variable keeps its type; in particular no transaction id is ever 0, also
\* after nextID wraps around (exchange).
TypeOK ==
    /\ mem \in [Words -> SUBSET Bits]
    /\ supports \subseteq Functions
    /\ pending \in [Connections -> Seq([id : 1..(IdModulus - 1), pdu : Frame, call : 1..MaxCalls])]
    /\ answers \in [Connections -> Seq(Answer)]
    /\ conn \in 0..conns
    /\ conns \in 0..MaxConns
    /\ nextID \in 1..(IdModulus - 1)
    /\ maskWriteUnsupported \in BOOLEAN /\ writeMultipleUnsupported \in BOOLEAN
    /\ phase \in {"idle", "send", "wait"}
    /\ call \in 0..MaxCalls
    /\ args \in Calls \cup {NoArgs}
    /\ frame \in Frame
    /\ sent \in 0..(IdModulus - 1)
    /\ ok \in BOOLEAN
    /\ effects \in [1..MaxCalls -> [Words -> Nat]]
    /\ program \subseteq ProgramBits

\* What is on the open connection belongs to the frame being exchanged: one frame or
\* one answer of this call while waiting, nothing otherwise.  So a late answer is
\* never taken for a later call's, even when transaction ids repeat (exchange's Close).
ConnectionIsClean ==
    conn # 0 =>
        /\ Len(pending[conn]) + Len(answers[conn]) = IF phase = "wait" THEN 1 ELSE 0
        /\ \A i \in 1..Len(answers[conn]) : answers[conn][i].id = sent /\ answers[conn][i].call = call

\* "never retries a write after a transport failure": the PLC performs each write of
\* a call at most once, fallbacks included, and exactly once when the call succeeds.
WritesAtMostOnce ==
    /\ \A n \in 1..MaxCalls, w \in Words : effects[n][w] <= 1
    /\ (phase = "idle" /\ ok) =>
          \A w \in Words : effects[call][w] = IF args.kind = "read" THEN 0
                                              ELSE IF args.kind = "multi"
                                              THEN IF \E i \in 1..Len(Span) : Span[i] = w THEN 1 ELSE 0
                                              ELSE IF w = args.word THEN 1 ELSE 0

\* With a PLC that implements FC22, writing a bit never undoes what the PLC program
\* did to its neighbours, and with one that implements FC10 no reader ever sees half
\* of a new int32 or float32 value, whatever else goes wrong: other exceptions, lost
\* and late answers do not make the client fall back (MaskWriteBit,
\* WriteMultipleRegisters).
FallbackOnlyWhenUnsupported ==
    /\ "fc22" \in supports => mem[BitWord] \cap ProgramBits = program
    /\ "fc10" \in supports => \A i, j \in 1..Len(Span) : mem[Span[i]] = mem[Span[j]]

\* The bits of the shared word that the HMI never addresses are always as the PLC
\* program left them: no bit write is a client-side read-modify-write.
NeighboursKept == mem[BitWord] \cap ProgramBits = program
=============================================================================
