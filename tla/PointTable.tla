----------------------------- MODULE PointTable -----------------------------
(***************************************************************************)
(* The point table of an HMI session: what runtimeconfig accepts           *)
(* (internal/runtimeconfig/config.go), how plcworker turns an accepted     *)
(* table into FC03 batches (buildPlan) and how it moves a value into and   *)
(* out of register words (numericWords, decodePointValue).                 *)
(*                                                                         *)
(* These are pure functions, so the module has no variables.  The widths   *)
(* are constants: the code has 16-bit words, 2^16 addresses and 125 words  *)
(* to a request; TLC checks every value and every layout of a narrower     *)
(* PLC.  So are the floating-point formats, of which the proofs use only    *)
(* that converting a float64 to float32 keeps the order of numbers and     *)
(* that a float32 is its own conversion.                                   *)
(***************************************************************************)
EXTENDS Integers, Sequences, FiniteSets, Functions

CONSTANTS
    WordSize,      \* 2^16 in the code: the values of a register word
    AddressSpace,  \* 2^16 in the code: D words of the PLC
    MaxRead,       \* 125 in the code: words of one FC03 request
    NotFinite,     \* the float32 patterns that are NaN or an infinity
    Float64,       \* the finite float64 numbers, numbered in their order (-0 before 0)
    Narrow,        \* Go's float32(x), as a bit pattern
    Widen          \* Go's float64(f) of a finite float32, by its bit pattern

Patterns == 0 .. WordSize * WordSize - 1
Finite == Patterns \ NotFinite

\* |x| <= math.MaxFloat32.
InFloat32Range(x) ==
    /\ \E b \in Finite : x <= Widen[b]
    /\ \E b \in Finite : Widen[b] <= x

ASSUME LayoutAssumption ==
    /\ WordSize \in Nat \ {0} /\ WordSize % 2 = 0
    /\ AddressSpace \in Nat \ {0}
    /\ MaxRead \in Nat \ {0, 1}   \* a two-word value fits one request
    /\ NotFinite \subseteq Patterns

\* What IEEE 754 says of the two conversions.
ASSUME FloatAssumption ==
    /\ Float64 \subseteq Int
    /\ Narrow \in [Float64 -> Patterns]
    /\ Widen \in [Finite -> Float64]
    /\ \A b \in Finite : Narrow[Widen[b]] = b
    /\ \A x \in Float64 : InFloat32Range(x) => Narrow[x] \in Finite
    /\ \A x, y \in Float64 :
          x <= y /\ InFloat32Range(x) /\ InFloat32Range(y) => Widen[Narrow[x]] <= Widen[Narrow[y]]

Types == {"bool", "int", "float", "string", "int16", "uint16", "int32", "float32"}
None == [kind |-> "nil"]

-----------------------------------------------------------------------------
(* Values, as [kind, n].  A number sent to an integer type is "number" when   *)
(* it is whole, "huge" when it is past every range as well; one sent to a     *)
(* float type is a "float64", n its place among them, or "notFinite".         *)

isInteger(v) == v.kind \in {"number", "huge"}
isNumber(v) == v.kind \in {"float64", "notFinite"}
Within(v, low, high) == v.kind = "number" /\ v.n >= low /\ v.n <= high

ValidateValue(type, v) ==
    \/ type = "bool" /\ v.kind = "bool"
    \/ type = "int" /\ isInteger(v)
    \/ type = "int16" /\ Within(v, -(WordSize \div 2), WordSize \div 2 - 1)
    \/ type = "uint16" /\ Within(v, 0, WordSize - 1)
    \/ type = "int32" /\ Within(v, -((WordSize * WordSize) \div 2), (WordSize * WordSize) \div 2 - 1)
    \/ type = "float" /\ isNumber(v)
    \/ type = "float32" /\ v.kind = "float64" /\ InFloat32Range(v.n)
    \/ type = "string" /\ v.kind = "string"

\* Go's conversions between signed and unsigned integers of the same width.
Unsigned(n, size) == n % size
Signed(n, size) == IF n >= size \div 2 THEN n - size ELSE n

\* Mutant: the two words of a high-low value are not swapped.
WordsLowFirst(bits, order) == <<bits % WordSize, bits \div WordSize>>

\* The two words of a 32-bit value in the configured order.
Words(bits, order) ==
    LET low == bits % WordSize
        high == bits \div WordSize
    IN  IF order = "low-high" THEN <<low, high>> ELSE <<high, low>>

\* The 32-bit value of two words read in the configured order.
Bits(words, order) ==
    IF order = "low-high" THEN words[2] * WordSize + words[1]
    ELSE words[1] * WordSize + words[2]

\* What writeRegisters sends for a value ValidateValue accepts.
numericWords(type, order, v) ==
    CASE type = "int16" -> <<Unsigned(v.n, WordSize)>>
      [] type = "uint16" -> <<v.n>>
      [] type = "int32" -> Words(Unsigned(v.n, WordSize * WordSize), order)
      [] type = "float32" -> Words(Narrow[v.n], order)

\* float64(math.Float32frombits(bits))
Number(bits) ==
    IF bits \in Finite THEN [kind |-> "float64", n |-> Widen[bits]]
    ELSE [kind |-> "notFinite", n |-> bits]

\* What a scan makes of the words of a point's span.
decodePointValue(type, order, words) ==
    CASE type = "int16" -> [kind |-> "number", n |-> Signed(words[1], WordSize)]
      [] type = "uint16" -> [kind |-> "number", n |-> words[1]]
      [] type = "int32" -> [kind |-> "number", n |-> Signed(Bits(words, order), WordSize * WordSize)]
      [] type = "float32" -> Number(Bits(words, order))

-----------------------------------------------------------------------------
(* One definition of the table.  Its address is the [word, bit] its text      *)
(* denotes, with bit = -1 for a register; its names are "" where left out     *)
(* and " " where they hold only blanks, which strings.TrimSpace removes.      *)

Blank(name) == name \in {"", " "}

validateRegisterLayout(d) ==
    CASE d.type \in {"int32", "float32"} -> d.registerCount = 2 /\ d.wordOrder \in {"low-high", "high-low"}
      [] d.type \in {"int16", "uint16"} -> d.registerCount = 1 /\ d.wordOrder = ""
      [] OTHER -> d.registerCount = 0 /\ d.wordOrder = ""

validateWriteMethod(d) ==
    \/ d.type = "bool" /\ d.writeMethod = "maskWrite"
    \/ d.type \in {"int16", "uint16"} /\ d.writeMethod = "fc06"
    \/ d.type \in {"int32", "float32"} /\ d.writeMethod = "fc10"

validateWrite(type, w) ==
    \/ w.kind = "write" /\ w.mode = "set"
    \/ /\ w.kind = "write"
       /\ w.mode \in {"pulse", "momentary", "toggle"}
       /\ ValidateValue(type, w.activeValue)
       /\ ValidateValue(type, w.defaultValue)
       /\ w.mode = "pulse" => w.pulseMs > 0
       /\ w.activeValue # w.defaultValue

validateAlarm(d) ==
    d.alarm # None =>
        /\ d.access # "write"
        /\ ValidateValue(d.type, d.alarm.normalValue)
        /\ ValidateValue(d.type, d.alarm.alarmValue)
        /\ d.alarm.normalValue # d.alarm.alarmValue

validatePoint(d) ==
    /\ ~Blank(d.pointId)
    /\ d.type \in Types
    /\ d.access \in {"read", "write", "read_write"}
    /\ (d.access = "write") = Blank(d.readPoint)
    /\ validateRegisterLayout(d)
    /\ IF d.access = "read"
       THEN d.writePoint = "" /\ d.writeMethod = "" /\ d.write = None
       ELSE ~Blank(d.writePoint) /\ validateWriteMethod(d) /\ validateWrite(d.type, d.write)
    /\ validateAlarm(d)

-----------------------------------------------------------------------------
(* The table. *)

Validate(table) ==
    /\ table # <<>>
    /\ \A i \in DOMAIN table : validatePoint(table[i])
    /\ \A i, j \in DOMAIN table : table[i].pointId = table[j].pointId => i = j
    /\ \A i \in DOMAIN table :
          LET d == table[i]
              Named(id) == {e \in Range(table) : e.pointId = id /\ e.type = d.type}
          IN  /\ d.access # "write" => \E r \in Named(d.readPoint) : r.access # "write"
              /\ d.access # "read" => \E w \in Named(d.writePoint) : w.access # "read"

\* Normalize: a pulse without a duration gets DefaultPulseMs before validation.
WithPulseDefault(d) ==
    IF d.write # None /\ d.write.mode = "pulse" /\ d.write.pulseMs = 0
    THEN [d EXCEPT !.write.pulseMs = 100]
    ELSE d
Normalize(table) == [i \in DOMAIN table |-> WithPulseDefault(table[i])]

-----------------------------------------------------------------------------
(* The scan plan. *)

\* parseBitAddress, parseRegisterAddress and the range check of a span.
planAddress(d) ==
    \/ /\ d.type = "bool"
       /\ d.address.word < AddressSpace /\ d.address.bit \in 0..15
       /\ d.access # "read" => d.writeMethod = "maskWrite"
    \/ /\ d.type \in {"int16", "uint16", "int32", "float32"}
       /\ d.address.word < AddressSpace /\ d.address.bit = -1
       /\ d.address.word + d.registerCount <= AddressSpace
       /\ d.access # "read" => d.writeMethod \in {"fc06", "fc10"}

\* The words a point occupies.
Span(d) == [word |-> d.address.word, count |-> IF d.type = "bool" THEN 1 ELSE d.registerCount]
Addresses(span) == {span.word + i : i \in 0 .. span.count - 1}

addressEnd(span) == (span.word + span.count - 1) % AddressSpace
maxWord(left, right) == IF left > right THEN left ELSE right

\* Mutant: one word more than FC03 can answer.
JoinsOneTooMany(batch, span) ==
    /\ span.word <= batch.last + 1
    /\ maxWord(batch.last, addressEnd(span)) - batch.first <= MaxRead

\* A span joins the batch being built: contiguous and within one request.
Joins(batch, span) ==
    /\ span.word <= batch.last + 1
    /\ maxWord(batch.last, addressEnd(span)) - batch.first + 1 <= MaxRead

BatchOfSpan(span) == [first |-> span.word, last |-> addressEnd(span)]

\* One turn of buildPlan's loop over the spans, which sort.Slice has ordered.
AddSpan(batches, span) ==
    IF batches = <<>> \/ ~Joins(batches[Len(batches)], span)
    THEN Append(batches, BatchOfSpan(span))
    ELSE [batches EXCEPT ![Len(batches)].last = maxWord(@, addressEnd(span))]

Before(left, right) ==
    \/ left.word < right.word
    \/ left.word = right.word /\ left.count < right.count

Sorted(spans) ==
    [i \in 1 .. Cardinality(spans) |->
        CHOOSE s \in spans : Cardinality({t \in spans : Before(t, s)}) = i - 1]

batchesOf(spans) ==
    LET sorted == Sorted(spans)
        plan[i \in 0 .. Len(sorted)] == IF i = 0 THEN <<>> ELSE AddSpan(plan[i - 1], sorted[i])
    IN  plan[Len(sorted)]

\* newReadBatch: the words of a request, counted in uint16.
WordsOf(batch) ==
    {(batch.first + i) % AddressSpace : i \in 0 .. (batch.last - batch.first) % AddressSpace}

ReadableSpans(table) == {Span(d) : d \in {e \in Range(table) : e.access # "write"}}

\* New: the table of a worker is accepted, every address is planned and every
\* writePoint is of the same kind.
Planned(table) ==
    /\ Validate(table)
    /\ \A d \in Range(table) : planAddress(d)
    /\ \A d \in Range(table) :
          d.access # "read" => \E w \in Range(table) : w.pointId = d.writePoint /\ w.type = d.type

\* The batch whose answer decides a point's value: the last one with its word.
DecidingBatch(batches, span) ==
    CHOOSE i \in DOMAIN batches :
        /\ span.word \in WordsOf(batches[i])
        /\ \A j \in DOMAIN batches : span.word \in WordsOf(batches[j]) => j <= i

-----------------------------------------------------------------------------
(* What is expected of them, for every input of the narrower PLC. *)

AllSpans == {s \in [word : 0 .. AddressSpace - 1, count : {1, 2}] : s.word + s.count <= AddressSpace}

\* However the readable points are laid out (overlaps, gaps, the end of the
\* address space), no request exceeds what FC03 carries or wraps around, the
\* requests together read exactly the configured words, and the request that
\* decides a point's value holds its whole span, so that a two-word value is
\* never put together from two answers (buildPlan, newReadBatch, goodValues).
PlansAreSound ==
    \A spans \in SUBSET AllSpans :
        LET batches == batchesOf(spans)
        IN  /\ \A i \in DOMAIN batches :
                  batches[i].first <= batches[i].last /\ Cardinality(WordsOf(batches[i])) <= MaxRead
            /\ UNION {WordsOf(b) : b \in Range(batches)} = UNION {Addresses(s) : s \in spans}
            /\ \A s \in spans : Addresses(s) \subseteq WordsOf(batches[DecidingBatch(batches, s)])

Layouts == {<<"int16", "">>, <<"uint16", "">>} \cup {"int32", "float32"} \X {"low-high", "high-low"}
NumberValues(type) ==
    IF type = "float32" THEN [kind : {"float64"}, n : Float64]
    ELSE [kind : {"number"}, n : -(WordSize * WordSize) .. WordSize * WordSize]

\* y is x rounded to a float32: none lies on the way from x to y.
RoundedTo(x, y) ==
    \A b \in Finite : ~(x <= Widen[b] /\ Widen[b] < y) /\ ~(y < Widen[b] /\ Widen[b] <= x)

\* Every value a command may carry is read back after it was written as a value
\* that is accepted and writes the same words again: an integer as itself, a
\* float32 point's number as the float32 next to it, so as itself exactly when a
\* float32 has that value (numericWords, decodePointValue, ValidateValue).
\* Whatever else the PLC holds is accepted and writes the same words again too;
\* only the float32 patterns that are no finite number are refused.
EncodingsRoundTrip ==
    \A layout \in Layouts :
        LET type == layout[1]
            order == layout[2]
            words == IF type \in {"int16", "uint16"} THEN [1..1 -> 0 .. WordSize - 1]
                     ELSE [1..2 -> 0 .. WordSize - 1]
            Sent(v) == numericWords(type, order, v)
            Read(w) == decodePointValue(type, order, w)
        IN  /\ \A v \in NumberValues(type) : ValidateValue(type, v) =>
                  IF type = "float32"
                  THEN Read(Sent(v)).kind = "float64" /\ RoundedTo(v.n, Read(Sent(v)).n)
                  ELSE Read(Sent(v)) = v
            /\ \A w \in words :
                  \/ ValidateValue(type, Read(w)) /\ Sent(Read(w)) = w
                  \/ type = "float32" /\ Bits(w, order) \in NotFinite /\ ~ValidateValue(type, Read(w))
=============================================================================
