---------------------------- MODULE MCPlcWorker ----------------------------
(***************************************************************************)
(* A worker built from an accepted point table, as plcworker.New does: a   *)
(* point of every write mode, two FC03 batches, write-only points that     *)
(* write through another, a point the PLC program moves, and an unknown    *)
(* point and one with blanks for a readPoint among the commands.  The      *)
(* table's own properties are checked on a PLC of 7 words of 3 bits.       *)
(***************************************************************************)
EXTENDS PlannedWorker

Level(on) == [kind |-> "bool", n |-> IF on THEN 1 ELSE 0]
Bit(id, word, bit, access, readPoint, writePoint, mode) ==
    [pointId |-> id, address |-> [word |-> word, bit |-> bit], type |-> "bool", access |-> access,
     readPoint |-> readPoint, writePoint |-> writePoint, writeMethod |-> "maskWrite",
     registerCount |-> 0, wordOrder |-> "", alarm |-> None,
     write |-> [kind |-> "write", mode |-> mode, activeValue |-> Level(TRUE),
                defaultValue |-> Level(FALSE), pulseMs |-> 0]]

MCTable == Normalize(
    <<Bit("start", 2, 0, "read_write", "start", "start", "pulse"),
      Bit("lamp", 0, 1, "read_write", "lamp", "lamp", "toggle"),
      Bit("jog", 4, 0, "write", "", "start", "momentary"),
      Bit("set", 4, 1, "write", "", "lamp", "set"),
      Bit("mute", 4, 2, "write", " ", "lamp", "set")>>)
Definition(id) == CHOOSE d \in Range(MCTable) : d.pointId = id
Shown(v) == IF v.n = 1 THEN "on" ELSE "off"
MCBatches == batchesOf(ReadableSpans(MCTable))

MCPoints == {"lamp", "start", "jog", "set", "mute"}
MCReadable == {"lamp", "start"}
MCNumeric == {}
MCMode == [lamp |-> "toggle", start |-> "pulse", jog |-> "momentary", set |-> "set", mute |-> "set"]
MCWritePoint == [lamp |-> "lamp", start |-> "start", jog |-> "start", set |-> "lamp", mute |-> "lamp"]
MCReadPoint == [lamp |-> "lamp", start |-> "start", jog |-> "", set |-> "", mute |-> " "]
MCActive == [lamp |-> "on", start |-> "on", jog |-> "on", set |-> "on", mute |-> "on"]
MCDefault == [lamp |-> "off", start |-> "off", jog |-> "off", set |-> "off", mute |-> "off"]
MCBatchOf == [lamp |-> 1, start |-> 2]

\* The worker's constants are what New derives from the accepted table.
ASSUME BuiltFromTable ==
    /\ Planned(MCTable)
    /\ MCPoints = {d.pointId : d \in Range(MCTable)}
    /\ MCReadable = {id \in MCPoints : Definition(id).access # "write"}
    /\ MCNumeric = {id \in MCPoints : Definition(id).type # "bool"}
    /\ MCMode = [id \in MCPoints |-> Definition(id).write.mode]
    /\ MCWritePoint = [id \in MCPoints |-> Definition(id).writePoint]
    /\ MCReadPoint = [id \in MCPoints |-> Definition(id).readPoint]
    /\ MCActive = [id \in MCPoints |-> Shown(Definition(id).write.activeValue)]
    /\ MCDefault = [id \in MCPoints |-> Shown(Definition(id).write.defaultValue)]
    /\ Batches = Len(MCBatches)
    /\ MCBatchOf = [id \in MCReadable |-> DecidingBatch(MCBatches, Span(Definition(id)))]

MCMoving == {"lamp"}
MCCommands ==
    {[point |-> "lamp", action |-> "toggle", value |-> "nil"],
     [point |-> "start", action |-> "pulse", value |-> "nil"],
     [point |-> "jog", action |-> "press", value |-> "nil"],
     [point |-> "set", action |-> "set", value |-> "on"],
     [point |-> "mute", action |-> "set", value |-> "on"],
     [point |-> "", action |-> "press", value |-> "nil"]}

\* Floating point of the narrower PLC: a float32 has a sign bit, two bits of
\* exponent, of which 3 means infinity or NaN, and three of mantissa.  Its
\* magnitude is counted in halves of the smallest one, so that a float64 may lie
\* between two of them, and shifted by one to leave room for both zeros.
Magnitude(b) ==
    LET mantissa == b % 8
        exponent == (b % 32) \div 8
    IN  CASE exponent = 0 -> 2 * mantissa
          [] exponent = 1 -> 2 * (8 + mantissa)
          [] exponent = 2 -> 4 * (8 + mantissa)
MCNotFinite == {b \in 0 .. 63 : b % 32 >= 24}
MCFloat64 == -67 .. 67 \ {0}
MCWiden == [b \in 0 .. 63 \ MCNotFinite |-> IF b < 32 THEN Magnitude(b) + 1 ELSE -(Magnitude(b) + 1)]

\* Round to nearest, ties to even; past half a step over the largest, infinity.
MCNarrow ==
    LET Abs(n) == IF n < 0 THEN -n ELSE n
        Off(q, b) == Abs(q - Magnitude(b))
        Nearest(q) == CHOOSE b \in 0 .. 23 : \A c \in 0 .. 23 \ {b} :
                          Off(q, b) < Off(q, c) \/ (Off(q, b) = Off(q, c) /\ b % 2 = 0)
        Rounded(q) == IF q >= 62 THEN 24 ELSE Nearest(q)
    IN  [x \in MCFloat64 |-> Rounded(Abs(x) - 1) + (IF x < 0 THEN 32 ELSE 0)]
=============================================================================
