------------------------ MODULE PlannedWorkerProofs ------------------------
(***************************************************************************)
(* Proofs about the point table for every width of a word, every pair of   *)
(* floating-point formats, every address space and every request size of   *)
(* at least two words, where TLC checks a PLC of 7 words of 3 bits.  The   *)
(* operators are pure, so each property of the running worker follows from *)
(* a statement without state: for buildPlan, from an invariant of its loop *)
(* over the sorted spans (LoopInv).                                        *)
(***************************************************************************)
EXTENDS PlannedWorker, TLAPS, FiniteSetTheorems, SequenceTheorems, WellFoundedInduction

-----------------------------------------------------------------------------
(* Words and values. *)

\* Division with a remainder.
LEMMA DivMod ==
    ASSUME NEW W \in Nat, W > 0, NEW b \in Int
    PROVE  b \div W \in Int /\ b % W \in 0 .. W - 1 /\ b = (b \div W) * W + (b % W)
  OBVIOUS

\* Quotient and remainder are determined by the number.
LEMMA DivModUnique ==
    ASSUME NEW W \in Int, W > 0, NEW q \in Int, NEW r \in Int, NEW a \in Int, NEW c \in Int,
           0 <= c, c < W, 0 <= r, r < W, a * W + c = q * W + r
    PROVE  a = q /\ c = r
  OBVIOUS

\* The parts of a number put together from them.
LEMMA PartsOf ==
    ASSUME NEW W \in Nat, W > 0, NEW a \in Nat, NEW c \in 0 .. W - 1
    PROVE  (a * W + c) \div W = a /\ (a * W + c) % W = c
<1> DEFINE b == a * W + c
<1>1. b \in Int
  OBVIOUS
<1> HIDE DEF b
<1> DEFINE q == b \div W
           r == b % W
<1>2. q \in Int /\ r \in Int /\ 0 <= r /\ r < W /\ b = q * W + r
  BY <1>1, DivMod
<1>3. W \in Int /\ a \in Int /\ c \in Int /\ 0 <= c /\ c < W
  OBVIOUS
<1>4. a * W + c = q * W + r
  BY <1>2 DEF b
<1> HIDE DEF q, r
<1>5. a = q /\ c = r
  BY <1>2, <1>3, <1>4, DivModUnique
<1> QED
  BY <1>5 DEF q, r, b

\* The high word of a double word is a word.
LEMMA HighWord ==
    ASSUME NEW W \in Nat, W > 0, NEW b \in 0 .. W * W - 1
    PROVE  b \div W \in 0 .. W - 1
<1> DEFINE q == b \div W
<1>1. q \in Int /\ b = q * W + (b % W) /\ b % W \in 0 .. W - 1
  BY DivMod
<1>2. W * W \in Int /\ q * W \in Int
  BY <1>1
<1> HIDE DEF q
<1>3. q >= W => q * W >= W * W
  BY <1>1
<1>4. q <= -1 => q * W <= -W
  BY <1>1
<1>5. q \in 0 .. W - 1
  BY <1>1, <1>2, <1>3, <1>4
<1> QED
  BY <1>5 DEF q

\* A word has an even number of values, and so has a double word.
LEMMA Sizes ==
    /\ WordSize \in Nat /\ WordSize >= 2
    /\ WordSize \div 2 \in Nat /\ WordSize = 2 * (WordSize \div 2)
    /\ WordSize * WordSize \in Nat /\ WordSize * WordSize >= 2
    /\ (WordSize * WordSize) \div 2 \in Nat /\ WordSize * WordSize = 2 * ((WordSize * WordSize) \div 2)
<1> DEFINE W == WordSize
           H == WordSize \div 2
<1>1. W \in Nat /\ W > 0 /\ W % 2 = 0
  BY LayoutAssumption
<1>2. H \in Nat /\ W = 2 * H /\ W >= 2
  BY <1>1
<1> HIDE DEF W, H
<1>3. W * W \in Nat /\ W * W >= 2 /\ H * W \in Nat /\ W * W = (H * W) * 2 + 0
  BY <1>2
<1>4. ((H * W) * 2 + 0) \div 2 = H * W
  BY <1>3
<1> QED
  BY <1>2, <1>3, <1>4 DEF W, H

\* Go's conversions between a signed and an unsigned integer undo each other.
LEMMA Halves ==
    ASSUME NEW size \in Nat, NEW h \in Nat, size = 2 * h, h > 0
    PROVE  /\ size \div 2 = h
           /\ \A n \in -h .. h - 1 :
                 Unsigned(n, size) \in 0 .. size - 1 /\ Signed(Unsigned(n, size), size) = n
           /\ \A n \in 0 .. size - 1 :
                 Signed(n, size) \in -h .. h - 1 /\ Unsigned(Signed(n, size), size) = n
<1>1. size \div 2 = h
  OBVIOUS
<1>2. \A n \in Int : n >= 0 /\ n < size => n % size = n
  OBVIOUS
<1>3. \A n \in Int : n < 0 /\ n >= -size => n % size = n + size
  OBVIOUS
<1>4. ASSUME NEW n \in -h .. h - 1
      PROVE  Unsigned(n, size) \in 0 .. size - 1 /\ Signed(Unsigned(n, size), size) = n
  BY <1>1, <1>2, <1>3 DEF Unsigned, Signed
<1>5. ASSUME NEW n \in 0 .. size - 1
      PROVE  Signed(n, size) \in -h .. h - 1 /\ Unsigned(Signed(n, size), size) = n
  BY <1>1, <1>2, <1>3 DEF Unsigned, Signed
<1> QED
  BY <1>1, <1>4, <1>5

\* The orders and the registers of a two-word value.
WordOrders == {"low-high", "high-low"}
TwoWords == [1..2 -> 0 .. WordSize - 1]

\* The two words of a value put together again.
LEMMA WordsThenBits ==
    ASSUME NEW b \in 0 .. WordSize * WordSize - 1, NEW order \in WordOrders
    PROVE  Words(b, order) \in TwoWords /\ Bits(Words(b, order), order) = b
<1> DEFINE low == b % WordSize
           high == b \div WordSize
<1>0. WordSize \in Nat /\ WordSize > 0 /\ b \in Int
  BY Sizes
<1>1. low \in 0 .. WordSize - 1 /\ high \in 0 .. WordSize - 1 /\ b = high * WordSize + low
  BY <1>0, DivMod, HighWord
<1>2. Words(b, order) = IF order = "low-high" THEN <<low, high>> ELSE <<high, low>>
  BY DEF Words
<1> HIDE DEF low, high
<1>3. Words(b, order) \in TwoWords
  BY <1>1, <1>2 DEF TwoWords
<1> QED
  BY <1>1, <1>2, <1>3 DEF Bits

\* The value of two words taken apart again.
LEMMA BitsThenWords ==
    ASSUME NEW w \in TwoWords, NEW order \in WordOrders
    PROVE  Bits(w, order) \in 0 .. WordSize * WordSize - 1 /\ Words(Bits(w, order), order) = w
<1>1. WordSize \in Nat /\ WordSize > 0
  BY Sizes
<1>2. w[1] \in 0 .. WordSize - 1 /\ w[2] \in 0 .. WordSize - 1 /\ w = <<w[1], w[2]>>
  BY DEF TwoWords
<1>3. ASSUME NEW a \in 0 .. WordSize - 1, NEW c \in 0 .. WordSize - 1
      PROVE  a * WordSize + c \in 0 .. WordSize * WordSize - 1
  <2>1. a * WordSize \in Nat /\ WordSize * WordSize \in Nat /\ a * WordSize <= (WordSize - 1) * WordSize
    BY <1>1
  <2>2. (WordSize - 1) * WordSize = WordSize * WordSize - WordSize
    BY <1>1
  <2> QED
    BY <1>1, <2>1, <2>2
<1>4. ASSUME NEW a \in 0 .. WordSize - 1, NEW c \in 0 .. WordSize - 1
      PROVE  (a * WordSize + c) \div WordSize = a /\ (a * WordSize + c) % WordSize = c
  BY <1>1, PartsOf
<1>5. CASE order = "low-high"
  BY <1>2, <1>3, <1>4, <1>5 DEF Bits, Words
<1>6. CASE order = "high-low"
  BY <1>2, <1>3, <1>4, <1>6 DEF Bits, Words
<1> QED
  BY <1>5, <1>6 DEF WordOrders

\* What EncodingsRoundTrip says of one layout.
WrittenReadsBack(type, order) ==
    \A v \in NumberValues(type) : ValidateValue(type, v) =>
        LET r == decodePointValue(type, order, numericWords(type, order, v))
        IN  IF type = "float32" THEN r.kind = "float64" /\ RoundedTo(v.n, r.n) ELSE r = v
ReadWritesBack(type, order, words) ==
    \A w \in words :
        LET v == decodePointValue(type, order, w)
        IN  \/ ValidateValue(type, v) /\ numericWords(type, order, v) = w
            \/ type = "float32" /\ Bits(w, order) \in NotFinite /\ ~ValidateValue(type, v)

OneWord == [1..1 -> 0 .. WordSize - 1]

\* The register of a one-word value.
LEMMA OneWordIsTuple == \A w \in OneWord : w = <<w[1]>> /\ w[1] \in 0 .. WordSize - 1
  BY DEF OneWord

\* A value of one kind is determined by its number.
LEMMA RecordIsItself ==
    ASSUME NEW k, NEW N, NEW v \in [kind : {k}, n : N]
    PROVE  v.n \in N /\ v.kind = k /\ v = [kind |-> k, n |-> v.n]
  OBVIOUS

\* EncodingsRoundTrip, one layout after another: uint16, one word.
LEMMA RoundTripUint16 ==
    ASSUME NEW order
    PROVE  WrittenReadsBack("uint16", order) /\ ReadWritesBack("uint16", order, OneWord)
<1>1. ASSUME NEW v \in NumberValues("uint16")
      PROVE  decodePointValue("uint16", order, numericWords("uint16", order, v)) = v
  <2>1. v = [kind |-> "number", n |-> v.n]
    BY RecordIsItself DEF NumberValues
  <2> QED
    BY <2>1 DEF decodePointValue, numericWords
<1>2. ASSUME NEW w \in OneWord
      PROVE  /\ ValidateValue("uint16", decodePointValue("uint16", order, w))
             /\ numericWords("uint16", order, decodePointValue("uint16", order, w)) = w
  BY Sizes, OneWordIsTuple DEF decodePointValue, numericWords, ValidateValue, Within
<1> QED
  BY <1>1, <1>2 DEF WrittenReadsBack, ReadWritesBack

\* int16: one word, signed.
LEMMA RoundTripInt16 ==
    ASSUME NEW order
    PROVE  WrittenReadsBack("int16", order) /\ ReadWritesBack("int16", order, OneWord)
<1> DEFINE half == WordSize \div 2
<1>1. /\ WordSize \in Nat /\ half \in Nat /\ WordSize = 2 * half /\ half > 0
  BY Sizes
<1>0. /\ \A v : numericWords("int16", order, v) = <<Unsigned(v.n, WordSize)>>
      /\ \A w : decodePointValue("int16", order, w) = [kind |-> "number", n |-> Signed(w[1], WordSize)]
      /\ \A v : ValidateValue("int16", v) <=> Within(v, -half, half - 1)
  BY DEF numericWords, decodePointValue, ValidateValue
<1> HIDE DEF half
<1>2. /\ \A n \in -half .. half - 1 : Signed(Unsigned(n, WordSize), WordSize) = n
      /\ \A n \in 0 .. WordSize - 1 :
            Signed(n, WordSize) \in -half .. half - 1 /\ Unsigned(Signed(n, WordSize), WordSize) = n
  BY <1>1, Halves
<1>3. ASSUME NEW v \in NumberValues("int16"), ValidateValue("int16", v)
      PROVE  decodePointValue("int16", order, numericWords("int16", order, v)) = v
  <2>1. v = [kind |-> "number", n |-> v.n] /\ v.n \in Int
    BY Sizes, RecordIsItself DEF NumberValues
  <2>2. v.n \in -half .. half - 1
    BY <1>0, <1>1, <1>3, <2>1 DEF Within
  <2> QED
    BY <1>0, <1>2, <2>1, <2>2
<1>4. ASSUME NEW w \in OneWord
      PROVE  /\ ValidateValue("int16", decodePointValue("int16", order, w))
             /\ numericWords("int16", order, decodePointValue("int16", order, w)) = w
  <2>1. decodePointValue("int16", order, w) = [kind |-> "number", n |-> Signed(w[1], WordSize)]
    BY <1>0
  <2>2. w[1] \in 0 .. WordSize - 1 /\ w = <<w[1]>>
    BY OneWordIsTuple
  <2>3. Signed(w[1], WordSize) \in -half .. half - 1 /\ Unsigned(Signed(w[1], WordSize), WordSize) = w[1]
    BY <1>2, <2>2
  <2>4. ValidateValue("int16", decodePointValue("int16", order, w))
    BY <1>0, <1>1, <2>1, <2>3 DEF Within
  <2>5. numericWords("int16", order, decodePointValue("int16", order, w)) = w
    BY <1>0, <2>1, <2>2, <2>3
  <2> QED
    BY <2>4, <2>5
<1> QED
  BY <1>3, <1>4 DEF WrittenReadsBack, ReadWritesBack

\* int32: two words, signed.
LEMMA RoundTripInt32 ==
    ASSUME NEW order \in WordOrders
    PROVE  WrittenReadsBack("int32", order) /\ ReadWritesBack("int32", order, TwoWords)
<1> DEFINE size == WordSize * WordSize
           half == size \div 2
<1>1. size \in Nat /\ half \in Nat /\ size = 2 * half /\ half > 0
  BY Sizes
<1>2. \A b \in 0 .. size - 1 : Words(b, order) \in TwoWords /\ Bits(Words(b, order), order) = b
  BY WordsThenBits
<1>3. \A w \in TwoWords : Bits(w, order) \in 0 .. size - 1 /\ Words(Bits(w, order), order) = w
  BY BitsThenWords
<1>4. /\ \A v : numericWords("int32", order, v) = Words(Unsigned(v.n, size), order)
      /\ \A w : decodePointValue("int32", order, w) = [kind |-> "number", n |-> Signed(Bits(w, order), size)]
      /\ \A v : ValidateValue("int32", v) <=> Within(v, -half, half - 1)
  BY DEF numericWords, decodePointValue, ValidateValue
<1>5. NumberValues("int32") = [kind : {"number"}, n : -size .. size]
  BY DEF NumberValues
<1> HIDE DEF half, size
<1>6. /\ \A n \in -half .. half - 1 :
            Unsigned(n, size) \in 0 .. size - 1 /\ Signed(Unsigned(n, size), size) = n
      /\ \A n \in 0 .. size - 1 :
            Signed(n, size) \in -half .. half - 1 /\ Unsigned(Signed(n, size), size) = n
  BY <1>1, Halves
<1>7. ASSUME NEW v \in NumberValues("int32"), ValidateValue("int32", v)
      PROVE  decodePointValue("int32", order, numericWords("int32", order, v)) = v
  <2>1. v = [kind |-> "number", n |-> v.n] /\ v.n \in Int
    <3>1. v \in [kind : {"number"}, n : -size .. size]
      BY <1>5
    <3>2. v = [kind |-> "number", n |-> v.n] /\ v.n \in -size .. size
      BY <3>1
    <3> QED
      BY <1>1, <3>2
  <2>2. v.n \in -half .. half - 1
    BY <1>1, <1>4, <1>7, <2>1 DEF Within
  <2> QED
    BY <1>2, <1>4, <1>6, <2>1, <2>2
<1>8. ASSUME NEW w \in TwoWords
      PROVE  /\ ValidateValue("int32", decodePointValue("int32", order, w))
             /\ numericWords("int32", order, decodePointValue("int32", order, w)) = w
  <2>1. Signed(Bits(w, order), size) \in -half .. half - 1
    BY <1>3, <1>6
  <2>2. Words(Unsigned(Signed(Bits(w, order), size), size), order) = w
    BY <1>3, <1>6
  <2> QED
    BY <1>1, <1>4, <2>1, <2>2 DEF Within
<1> QED
  BY <1>7, <1>8 DEF WrittenReadsBack, ReadWritesBack

\* A float64 that is converted to float32 and back is rounded: what is narrowed
\* keeps its order, and a float32 in between would have to be narrowed to itself.
LEMMA NarrowRounds ==
    ASSUME NEW x \in Float64, InFloat32Range(x)
    PROVE  Narrow[x] \in Finite /\ RoundedTo(x, Widen[Narrow[x]])
<1>1. Narrow[x] \in Finite
  BY FloatAssumption
<1>2. ASSUME NEW b \in Finite
      PROVE  Widen[b] \in Float64 /\ InFloat32Range(Widen[b]) /\ Narrow[Widen[b]] = b
  <2>1. Widen[b] \in Float64 /\ Widen[b] \in Int /\ Narrow[Widen[b]] = b
    BY FloatAssumption
  <2>2. Widen[b] <= Widen[b]
    BY <2>1
  <2> QED
    BY <2>1, <2>2 DEF InFloat32Range
<1>3. ASSUME NEW b \in Finite
      PROVE  /\ x <= Widen[b] => Widen[Narrow[x]] <= Widen[b]
             /\ Widen[b] <= x => Widen[b] <= Widen[Narrow[x]]
  BY <1>2, FloatAssumption
<1>4. Widen[Narrow[x]] \in Int /\ \A b \in Finite : Widen[b] \in Int
  BY <1>1, FloatAssumption
<1> QED
  BY <1>1, <1>3, <1>4 DEF RoundedTo

\* float32: two words, of the number rounded to a float32.
LEMMA RoundTripFloat32 ==
    ASSUME NEW order \in WordOrders
    PROVE  WrittenReadsBack("float32", order) /\ ReadWritesBack("float32", order, TwoWords)
<1>1. \A b \in Patterns : Words(b, order) \in TwoWords /\ Bits(Words(b, order), order) = b
  BY WordsThenBits DEF Patterns
<1>2. \A w \in TwoWords : Bits(w, order) \in Patterns /\ Words(Bits(w, order), order) = w
  BY BitsThenWords DEF Patterns
<1>3. /\ \A v : numericWords("float32", order, v) = Words(Narrow[v.n], order)
      /\ \A w : decodePointValue("float32", order, w) = Number(Bits(w, order))
      /\ \A v : ValidateValue("float32", v) <=> v.kind = "float64" /\ InFloat32Range(v.n)
  BY DEF numericWords, decodePointValue, ValidateValue
<1>4. NumberValues("float32") = [kind : {"float64"}, n : Float64]
  BY DEF NumberValues
<1>5. \A b \in Finite : b \in Patterns /\ Number(b) = [kind |-> "float64", n |-> Widen[b]]
  BY DEF Number, Finite
<1>6. ASSUME NEW v \in NumberValues("float32"), ValidateValue("float32", v)
      PROVE  LET r == decodePointValue("float32", order, numericWords("float32", order, v))
             IN  r.kind = "float64" /\ RoundedTo(v.n, r.n)
  <2>1. v.n \in Float64
    BY <1>4
  <2>2. Narrow[v.n] \in Finite /\ RoundedTo(v.n, Widen[Narrow[v.n]])
    BY <1>3, <1>6, <2>1, NarrowRounds
  <2>3. Bits(Words(Narrow[v.n], order), order) = Narrow[v.n]
    BY <1>1, <1>5, <2>2
  <2>4. decodePointValue("float32", order, numericWords("float32", order, v))
            = [kind |-> "float64", n |-> Widen[Narrow[v.n]]]
    BY <1>3, <1>5, <2>2, <2>3
  <2> QED
    BY <2>2, <2>4
<1>7. ASSUME NEW w \in TwoWords
      PROVE  LET v == decodePointValue("float32", order, w)
             IN  \/ ValidateValue("float32", v) /\ numericWords("float32", order, v) = w
                 \/ Bits(w, order) \in NotFinite /\ ~ValidateValue("float32", v)
  <2> DEFINE b == Bits(w, order)
  <2>1. b \in Patterns /\ Words(b, order) = w
    BY <1>2
  <2>2. decodePointValue("float32", order, w) = Number(b)
    BY <1>3
  <2> HIDE DEF b
  <2>3. CASE b \in Finite
    <3>1. Widen[b] \in Int /\ Narrow[Widen[b]] = b
      BY <2>3, FloatAssumption
    <3>2. Widen[b] <= Widen[b]
      BY <3>1
    <3>3. InFloat32Range(Widen[b])
      BY <2>3, <3>2 DEF InFloat32Range
    <3>4. decodePointValue("float32", order, w) = [kind |-> "float64", n |-> Widen[b]]
      BY <1>5, <2>2, <2>3
    <3> QED
      BY <1>3, <2>1, <3>1, <3>3, <3>4
  <2>4. CASE b \notin Finite
    <3>1. Number(b) = [kind |-> "notFinite", n |-> b]
      BY <2>4 DEF Number
    <3>2. ~ValidateValue("float32", Number(b))
      BY <1>3, <3>1
    <3> QED
      BY <2>1, <2>2, <2>4, <3>2 DEF Finite, b
  <2> QED
    BY <2>3, <2>4
<1> QED
  BY <1>6, <1>7 DEF WrittenReadsBack, ReadWritesBack

\* Every value a command may carry is read back as what it was rounded to, an integer
\* as itself, in either word order and whatever the width of a word and the two
\* floating-point formats (numericWords, decodePointValue, ValidateValue).
THEOREM EncodingIsFaithful == EncodingsRoundTrip
<1> DEFINE wordsOf(type) == IF type \in {"int16", "uint16"} THEN OneWord ELSE TwoWords
<1>1. ASSUME NEW layout \in Layouts
      PROVE  /\ WrittenReadsBack(layout[1], layout[2])
             /\ ReadWritesBack(layout[1], layout[2], wordsOf(layout[1]))
  <2>0. \/ layout[1] \in {"int16", "uint16"}
        \/ layout[1] \in {"int32", "float32"} /\ layout[2] \in WordOrders
    <3>1. CASE layout \in {"int32", "float32"} \X WordOrders
      BY <3>1
    <3>2. CASE layout = <<"int16", "">>
      <4>1. layout[1] = "int16"
        BY <3>2
      <4> QED
        BY <4>1
    <3>3. CASE layout = <<"uint16", "">>
      <4>1. layout[1] = "uint16"
        BY <3>3
      <4> QED
        BY <4>1
    <3> QED
      BY <3>1, <3>2, <3>3, Zenon DEF Layouts, WordOrders
  <2>1. CASE layout[1] = "int16"
    BY <2>1, RoundTripInt16
  <2>2. CASE layout[1] = "uint16"
    BY <2>2, RoundTripUint16
  <2>3. CASE layout[1] = "int32" /\ layout[2] \in WordOrders
    BY <2>3, RoundTripInt32
  <2>4. CASE layout[1] = "float32" /\ layout[2] \in WordOrders
    BY <2>4, RoundTripFloat32
  <2> QED
    BY <2>0, <2>1, <2>2, <2>3, <2>4
<1> QED
  BY <1>1 DEF EncodingsRoundTrip, WrittenReadsBack, ReadWritesBack, OneWord, TwoWords

\* The same of a running worker, at every confirming scan.
THEOREM ValuesSurvive == Spec => []ValuesRoundTrip
<1>1. ValuesRoundTrip
  BY EncodingIsFaithful DEF ValuesRoundTrip
<1> QED
  BY <1>1, PTL

-----------------------------------------------------------------------------
(* The scan plan: the spans sorted. *)

\* The words of a span within the address space: no wrap-around.
LEMMA SpanFacts ==
    ASSUME NEW s \in AllSpans
    PROVE  /\ s.word \in Nat /\ s.count \in {1, 2} /\ s.word + s.count <= AddressSpace
           /\ addressEnd(s) = s.word + s.count - 1
           /\ Addresses(s) = s.word .. s.word + s.count - 1
           /\ s = [word |-> s.word, count |-> s.count]
<1>0. AddressSpace \in Nat /\ AddressSpace > 0
  BY LayoutAssumption
<1>1. /\ s.word \in Nat /\ s.count \in {1, 2} /\ s.word + s.count <= AddressSpace
      /\ s = [word |-> s.word, count |-> s.count]
  BY <1>0 DEF AllSpans
<1>2. addressEnd(s) = s.word + s.count - 1
  <2>1. \A n \in Nat : n < AddressSpace => n % AddressSpace = n
    BY <1>0
  <2>2. s.word + s.count - 1 \in Nat /\ s.word + s.count - 1 < AddressSpace
    BY <1>0, <1>1
  <2> QED
    BY <2>1, <2>2 DEF addressEnd
<1>3. Addresses(s) = s.word .. s.word + s.count - 1
  <2>1. ASSUME NEW a \in Addresses(s) PROVE a \in s.word .. s.word + s.count - 1
    BY <1>1 DEF Addresses
  <2>2. ASSUME NEW a \in s.word .. s.word + s.count - 1 PROVE a \in Addresses(s)
    <3>1. a - s.word \in 0 .. s.count - 1 /\ a = s.word + (a - s.word)
      BY <1>1
    <3> QED
      BY <3>1 DEF Addresses
  <2> QED
    BY <2>1, <2>2
<1> QED
  BY <1>1, <1>2, <1>3

\* Before is a strict total order of the spans.
LEMMA BeforeOrders ==
    /\ \A s, t \in AllSpans : Before(s, t) => s # t /\ ~Before(t, s)
    /\ \A s, t, u \in AllSpans : Before(s, t) /\ Before(t, u) => Before(s, u)
    /\ \A s, t \in AllSpans : s = t \/ Before(s, t) \/ Before(t, s)
<1>1. \A s \in AllSpans : s.word \in Nat /\ s.count \in Nat /\ s = [word |-> s.word, count |-> s.count]
  BY SpanFacts
<1>2. \A s, t \in AllSpans : s.word = t.word /\ s.count = t.count => s = t
  BY <1>1
<1> QED
  BY <1>1, <1>2 DEF Before

\* A set of spans is finite.
LEMMA SpansAreFinite ==
    ASSUME NEW spans \in SUBSET AllSpans
    PROVE  IsFiniteSet(spans)
<1> DEFINE f == [s \in spans |-> 2 * s.word + s.count]
           T == 0 .. 2 * AddressSpace + 2
<1>0. AddressSpace \in Nat
  BY LayoutAssumption
<1>1. \A s \in spans : /\ s.word \in Nat /\ s.count \in {1, 2} /\ s.word + s.count <= AddressSpace
                       /\ s = [word |-> s.word, count |-> s.count]
  BY SpanFacts
<1>2. f \in [spans -> T]
  BY <1>0, <1>1
<1>3. \A s, t \in spans : f[s] = f[t] => s = t
  <2> SUFFICES ASSUME NEW s \in spans, NEW t \in spans, f[s] = f[t] PROVE s = t
    OBVIOUS
  <2>1. 2 * s.word + s.count = 2 * t.word + t.count
    OBVIOUS
  <2>2. s.word = t.word /\ s.count = t.count
    <3>1. \A a, b \in Nat : \A c, d \in {1, 2} : 2 * a + c = 2 * b + d => a = b /\ c = d
      OBVIOUS
    <3>2. s.word \in Nat /\ t.word \in Nat /\ s.count \in {1, 2} /\ t.count \in {1, 2}
      BY <1>1
    <3> QED
      BY <2>1, <3>1, <3>2
  <2> QED
    BY <1>1, <2>2
<1>4. f \in Injection(spans, T)
  BY <1>2, <1>3 DEF Injection, IsInjective
<1>5. IsFiniteSet(T)
  BY <1>0, FS_Interval
<1> QED
  BY <1>4, <1>5, FS_Injection

\* How many spans come before s.
Earlier(spans, s) == {t \in spans : Before(t, s)}
Rank(spans, s) == Cardinality(Earlier(spans, s))

\* A span has a higher rank than another exactly if it comes later.
LEMMA RankOrders ==
    ASSUME NEW spans \in SUBSET AllSpans, NEW s \in spans, NEW t \in spans, Before(s, t)
    PROVE  /\ Rank(spans, s) \in Nat /\ Rank(spans, t) \in Nat
           /\ Rank(spans, s) < Rank(spans, t)
<1>1. IsFiniteSet(spans)
  BY SpansAreFinite
<1>2. IsFiniteSet(Earlier(spans, s)) /\ IsFiniteSet(Earlier(spans, t))
  BY <1>1, FS_Subset DEF Earlier
<1>3. Earlier(spans, s) \subseteq Earlier(spans, t)
  BY BeforeOrders DEF Earlier
<1>4. s \in Earlier(spans, t) /\ s \notin Earlier(spans, s)
  BY BeforeOrders DEF Earlier
<1>5. /\ Cardinality(Earlier(spans, s)) \in Nat /\ Cardinality(Earlier(spans, t)) \in Nat
      /\ Cardinality(Earlier(spans, s)) <= Cardinality(Earlier(spans, t))
      /\ Cardinality(Earlier(spans, s)) # Cardinality(Earlier(spans, t))
  BY <1>2, <1>3, <1>4, FS_Subset, FS_CardinalityType
<1> QED
  BY <1>5 DEF Rank

\* Every place of the order is taken by exactly one span.
LEMMA RankIsPlace ==
    ASSUME NEW spans \in SUBSET AllSpans
    PROVE  /\ Cardinality(spans) \in Nat
           /\ \A s \in spans : Rank(spans, s) \in 0 .. Cardinality(spans) - 1
           /\ \A s, t \in spans : Rank(spans, s) = Rank(spans, t) => s = t
           /\ \A r \in 0 .. Cardinality(spans) - 1 : \E s \in spans : Rank(spans, s) = r
<1> DEFINE n == Cardinality(spans)
           f == [s \in spans |-> Rank(spans, s)]
<1>1. IsFiniteSet(spans) /\ n \in Nat
  BY SpansAreFinite, FS_CardinalityType
<1>2. ASSUME NEW s \in spans PROVE Rank(spans, s) \in 0 .. n - 1
  <2>1. Earlier(spans, s) \in SUBSET spans /\ s \notin Earlier(spans, s)
    BY BeforeOrders DEF Earlier
  <2>2. /\ IsFiniteSet(Earlier(spans, s))
        /\ Cardinality(Earlier(spans, s)) <= n /\ Cardinality(Earlier(spans, s)) # n
    BY <1>1, <2>1, FS_Subset
  <2>3. Cardinality(Earlier(spans, s)) \in Nat
    BY <2>2, FS_CardinalityType
  <2> QED
    BY <1>1, <2>2, <2>3 DEF Rank
<1>3. ASSUME NEW s \in spans, NEW t \in spans, Rank(spans, s) = Rank(spans, t) PROVE s = t
  <2>1. CASE Before(s, t)
    BY <1>3, <2>1, RankOrders
  <2>2. CASE Before(t, s)
    BY <1>3, <2>2, RankOrders
  <2> QED
    BY <2>1, <2>2, BeforeOrders
<1>4. f \in Injection(spans, 0 .. n - 1)
  BY <1>2, <1>3 DEF Injection, IsInjective
<1>5. IsFiniteSet(0 .. n - 1) /\ Cardinality(0 .. n - 1) = n
  BY <1>1, FS_Interval
<1>6. f \in Surjection(spans, 0 .. n - 1)
  BY <1>4, <1>5, FS_Injection
<1>7. \A r \in 0 .. n - 1 : \E s \in spans : f[s] = r
  BY <1>6 DEF Surjection
<1> QED
  BY <1>1, <1>2, <1>3, <1>7

\* Sorted lists every span once, in order.
LEMMA SortedFacts ==
    ASSUME NEW spans \in SUBSET AllSpans
    PROVE  /\ Sorted(spans) \in Seq(spans) /\ Len(Sorted(spans)) = Cardinality(spans)
           /\ \A s \in spans : \E i \in 1 .. Cardinality(spans) : Sorted(spans)[i] = s
           /\ \A i, j \in 1 .. Cardinality(spans) : i < j => Before(Sorted(spans)[i], Sorted(spans)[j])
<1> DEFINE n == Cardinality(spans)
           q == Sorted(spans)
<1>1. n \in Nat
  BY RankIsPlace
<1>2. \A i \in 1..n : q[i] = CHOOSE s \in spans : Rank(spans, s) = i - 1
  BY DEF Sorted, Rank, Earlier
<1>3. DOMAIN q = 1..n
  BY DEF Sorted
<1>4. ASSUME NEW i \in 1..n PROVE q[i] \in spans /\ Rank(spans, q[i]) = i - 1
  <2>1. i - 1 \in 0 .. n - 1
    BY <1>1
  <2>2. \E s \in spans : Rank(spans, s) = i - 1
    BY <2>1, RankIsPlace
  <2> QED
    BY <1>2, <2>2
<1>5. q = [i \in 1..n |-> q[i]]
  BY DEF Sorted
<1> HIDE DEF q, n
<1>6. q \in Seq(spans) /\ Len(q) = n
  <2>1. q \in [1..n -> spans]
    BY <1>4, <1>5
  <2> QED
    BY <1>1, <2>1
<1>7. ASSUME NEW s \in spans PROVE \E i \in 1..n : q[i] = s
  <2>1. Rank(spans, s) \in 0 .. n - 1
    BY RankIsPlace DEF n
  <2>2. Rank(spans, s) + 1 \in 1..n /\ (Rank(spans, s) + 1) - 1 = Rank(spans, s)
    BY <1>1, <2>1
  <2>3. q[Rank(spans, s) + 1] \in spans /\ Rank(spans, q[Rank(spans, s) + 1]) = Rank(spans, s)
    BY <1>4, <2>2
  <2>4. q[Rank(spans, s) + 1] = s
    BY <2>3, RankIsPlace
  <2> QED
    BY <2>2, <2>4
<1>8. ASSUME NEW i \in 1..n, NEW j \in 1..n, i < j PROVE Before(q[i], q[j])
  <2>1. q[i] \in spans /\ q[j] \in spans /\ Rank(spans, q[i]) = i - 1 /\ Rank(spans, q[j]) = j - 1
    BY <1>4
  <2>2. CASE q[i] = q[j]
    BY <1>1, <1>8, <2>1, <2>2
  <2>3. CASE Before(q[j], q[i])
    <3>1. Rank(spans, q[j]) < Rank(spans, q[i])
      BY <2>1, <2>3, RankOrders
    <3> QED
      BY <1>1, <1>8, <2>1, <3>1
  <2> QED
    BY <2>1, <2>2, <2>3, BeforeOrders
<1> QED
  BY <1>6, <1>7, <1>8 DEF q, n

-----------------------------------------------------------------------------
(* The scan plan: the loop over the sorted spans. *)

Batch == [first : Nat, last : Nat]
Interval(b) == b.first .. b.last

\* The batches after the first i spans: each within the address space and one
\* request; together they read the words of these spans; the one being built does
\* not begin behind the last span; and a batch with a span's first word has its
\* other word too, unless a later batch takes the span over.
Fits(b) == b.first <= b.last /\ b.last < AddressSpace /\ b.last - b.first + 1 <= MaxRead
Covers(batches, q, i) ==
    \A a \in Nat : (\E j \in 1 .. Len(batches) : a \in Interval(batches[j])) <=> (\E k \in 1..i : a \in Addresses(q[k]))
Whole(batches, s) ==
    \A j \in 1 .. Len(batches) :
        s.word \in Interval(batches[j]) =>
            \/ Addresses(s) \subseteq Interval(batches[j])
            \/ \E l \in 1 .. Len(batches) : l > j /\ s.word \in Interval(batches[l])
LoopInv(batches, q, i) ==
    /\ batches \in Seq(Batch)
    /\ \A j \in 1 .. Len(batches) : Fits(batches[j])
    /\ i > 0 => Len(batches) > 0 /\ batches[Len(batches)].first <= q[i].word
    /\ Covers(batches, q, i)
    /\ \A k \in 1..i : Whole(batches, q[k])

\* One turn that begins a new batch.
LEMMA NewBatch ==
    ASSUME NEW q \in Seq(AllSpans), NEW i \in Nat, i + 1 \in 1 .. Len(q),
           \A k \in 1..i : Before(q[k], q[i + 1]),
           NEW batches, LoopInv(batches, q, i)
    PROVE  LoopInv(Append(batches, BatchOfSpan(q[i + 1])), q, i + 1)
<1> DEFINE t == q[i + 1]
           new == BatchOfSpan(t)
           m == Len(batches)
           grown == Append(batches, new)
<1>1. t \in AllSpans /\ \A k \in 1..i : q[k] \in AllSpans /\ Before(q[k], t)
  OBVIOUS
<1>2. /\ t.word \in Nat /\ t.count \in {1, 2} /\ t.word + t.count <= AddressSpace
      /\ addressEnd(t) = t.word + t.count - 1 /\ Addresses(t) = t.word .. t.word + t.count - 1
  BY <1>1, SpanFacts
<1>3. \A k \in 1..i : /\ q[k].word \in Nat /\ q[k].count \in {1, 2}
                       /\ Addresses(q[k]) = q[k].word .. q[k].word + q[k].count - 1
  BY <1>1, SpanFacts
<1>4. AddressSpace \in Nat /\ MaxRead \in Nat /\ MaxRead >= 2
  BY LayoutAssumption
<1>5. new \in Batch /\ new.first = t.word /\ new.last = t.word + t.count - 1 /\ Fits(new)
  BY <1>2, <1>4 DEF BatchOfSpan, Batch, Fits
<1>6. Interval(new) = Addresses(t)
  BY <1>2, <1>5 DEF Interval
<1>7. batches \in Seq(Batch) /\ m \in Nat
  BY DEF LoopInv
<1> HIDE DEF new, t
<1>8. /\ grown \in Seq(Batch) /\ Len(grown) = m + 1 /\ grown[m + 1] = new
      /\ \A j \in 1..m : grown[j] = batches[j]
  BY <1>5, <1>7
<1> HIDE DEF m, grown
<1>9. \A j \in 1 .. m + 1 : Fits(grown[j])
  BY <1>5, <1>7, <1>8 DEF LoopInv, m
<1>10. Covers(grown, q, i + 1)
  <2> SUFFICES ASSUME NEW a \in Nat
               PROVE  (\E j \in 1 .. Len(grown) : a \in Interval(grown[j])) <=> (\E k \in 1 .. i + 1 : a \in Addresses(q[k]))
    BY DEF Covers
  <2>1. (\E j \in 1..m : a \in Interval(batches[j])) <=> (\E k \in 1..i : a \in Addresses(q[k]))
    BY DEF LoopInv, Covers, m
  <2>2. (\E j \in 1 .. Len(grown) : a \in Interval(grown[j]))
           <=> (\E j \in 1..m : a \in Interval(batches[j])) \/ a \in Interval(new)
    <3>1. Len(grown) = m + 1 /\ \A j \in 1 .. m + 1 : j \in 1..m \/ j = m + 1
      BY <1>7, <1>8
    <3>2. 1..m \subseteq 1 .. m + 1 /\ m + 1 \in 1 .. m + 1
      BY <1>7
    <3>3. grown[m + 1] = new /\ \A j \in 1..m : grown[j] = batches[j]
      BY <1>8
    <3> QED
      BY <3>1, <3>2, <3>3, Zenon
  <2>3. (\E k \in 1 .. i + 1 : a \in Addresses(q[k])) <=> (\E k \in 1..i : a \in Addresses(q[k])) \/ a \in Addresses(t)
    BY DEF t
  <2> QED
    BY <1>6, <2>1, <2>2, <2>3
<1>11. ASSUME NEW k \in 1..i PROVE Whole(grown, q[k])
  <2> SUFFICES ASSUME NEW j \in 1 .. m + 1, q[k].word \in Interval(grown[j])
               PROVE  \/ Addresses(q[k]) \subseteq Interval(grown[j])
                      \/ \E l \in 1 .. m + 1 : l > j /\ q[k].word \in Interval(grown[l])
    BY <1>8 DEF Whole
  <2>1. CASE j \in 1..m
    <3>1. \/ Addresses(q[k]) \subseteq Interval(batches[j])
          \/ \E l \in 1..m : l > j /\ q[k].word \in Interval(batches[l])
      BY <1>8, <2>1 DEF LoopInv, Whole, m
    <3> QED
      BY <1>7, <1>8, <2>1, <3>1
  <2>2. CASE j = m + 1
    <3>1. q[k].word \in Addresses(t)
      BY <1>6, <1>8, <2>2
    <3>2. q[k].word < t.word \/ (q[k].word = t.word /\ q[k].count < t.count)
      BY <1>1 DEF Before
    <3>3. Addresses(q[k]) \subseteq Addresses(t)
      BY <1>2, <1>3, <3>1, <3>2
    <3> QED
      BY <1>6, <1>8, <2>2, <3>3
  <2> QED
    BY <1>7, <2>1, <2>2
<1>12. Whole(grown, t)
  <2> SUFFICES ASSUME NEW j \in 1 .. m + 1, t.word \in Interval(grown[j])
               PROVE  \/ Addresses(t) \subseteq Interval(grown[j])
                      \/ \E l \in 1 .. m + 1 : l > j /\ t.word \in Interval(grown[l])
    BY <1>8 DEF Whole
  <2>1. CASE j \in 1..m
    <3>1. t.word \in Interval(grown[m + 1]) /\ m + 1 \in 1 .. m + 1 /\ m + 1 > j
      BY <1>2, <1>6, <1>7, <1>8, <2>1
    <3> QED
      BY <3>1
  <2>2. CASE j = m + 1
    BY <1>6, <1>8, <2>2
  <2> QED
    BY <1>7, <2>1, <2>2
<1>13. grown[Len(grown)].first <= q[i + 1].word /\ Len(grown) > 0
  BY <1>2, <1>5, <1>7, <1>8 DEF t
<1>14. \A k \in 1 .. i + 1 : Whole(grown, q[k])
  BY <1>11, <1>12 DEF t
<1> QED
  BY <1>8, <1>9, <1>10, <1>13, <1>14 DEF LoopInv, grown, new, t

\* One turn that extends the last batch.
LEMMA LongerBatch ==
    ASSUME NEW q \in Seq(AllSpans), NEW i \in Nat, i + 1 \in 1 .. Len(q), i > 0,
           \A k \in 1..i : Before(q[k], q[i + 1]),
           NEW batches, LoopInv(batches, q, i), Joins(batches[Len(batches)], q[i + 1])
    PROVE  LoopInv([batches EXCEPT ![Len(batches)].last = maxWord(@, addressEnd(q[i + 1]))], q, i + 1)
<1> DEFINE t == q[i + 1]
           m == Len(batches)
           old == batches[m]
           new == [old EXCEPT !.last = maxWord(@, addressEnd(t))]
           grown == [batches EXCEPT ![m] = new]
<1>1. t \in AllSpans /\ \A k \in 1..i : q[k] \in AllSpans /\ Before(q[k], t)
  OBVIOUS
<1>2. /\ t.word \in Nat /\ t.count \in {1, 2} /\ t.word + t.count <= AddressSpace
      /\ addressEnd(t) = t.word + t.count - 1 /\ Addresses(t) = t.word .. t.word + t.count - 1
  BY <1>1, SpanFacts
<1>3. \A k \in 1..i : /\ q[k].word \in Nat /\ q[k].count \in {1, 2}
                       /\ Addresses(q[k]) = q[k].word .. q[k].word + q[k].count - 1
                       /\ (q[k].word < t.word \/ (q[k].word = t.word /\ q[k].count < t.count))
  BY <1>1, SpanFacts DEF Before
<1>4. AddressSpace \in Nat /\ MaxRead \in Nat
  BY LayoutAssumption
<1>5. batches \in Seq(Batch) /\ m \in Nat /\ m > 0 /\ old \in Batch /\ Fits(old) /\ old.first <= q[i].word
  BY DEF LoopInv
<1>6. /\ t.word <= old.last + 1 /\ maxWord(old.last, addressEnd(t)) - old.first + 1 <= MaxRead
      /\ old.first \in Nat /\ old.last \in Nat /\ old.first <= t.word
      /\ old.first <= old.last /\ old.last < AddressSpace
  <2>1. Joins(old, t)
    OBVIOUS
  <2>2. old.first \in Nat /\ old.last \in Nat
    BY <1>5 DEF Batch
  <2>3. q[i].word <= t.word /\ q[i].word \in Nat
    BY <1>2, <1>3
  <2> HIDE DEF t, old
  <2> QED
    BY <1>2, <1>5, <2>1, <2>2, <2>3 DEF Joins, Fits
<1>7. grown = [batches EXCEPT ![Len(batches)].last = maxWord(@, addressEnd(q[i + 1]))]
  OBVIOUS
<1>8. new.first = old.first /\ new.last = maxWord(old.last, addressEnd(t)) /\ new \in Batch
  <2>1. maxWord(old.last, addressEnd(t)) \in Nat
    BY <1>2, <1>6 DEF maxWord
  <2> HIDE DEF old, t
  <2> QED
    BY <1>5, <2>1 DEF Batch
<1> HIDE DEF new, old, t
<1>9. /\ new.last \in Nat /\ new.last >= old.last /\ new.last >= t.word + t.count - 1
      /\ new.last = old.last \/ new.last = t.word + t.count - 1
      /\ Fits(new)
  <2> DEFINE e == t.word + t.count - 1
  <2>1. e \in Nat /\ e < AddressSpace /\ addressEnd(t) = e
    BY <1>2, <1>4
  <2> HIDE DEF e
  <2>2. new.last = IF old.last > e THEN old.last ELSE e
    BY <1>8, <2>1 DEF maxWord
  <2>3. new.last - old.first + 1 <= MaxRead
    BY <1>6, <1>8
  <2>4. new.last \in Nat /\ new.last >= old.last /\ new.last >= e /\ (new.last = old.last \/ new.last = e)
    BY <1>6, <2>1, <2>2
  <2>5. Fits(new)
    BY <1>4, <1>6, <1>8, <2>1, <2>3, <2>4 DEF Fits
  <2> QED
    BY <2>4, <2>5 DEF e
<1>10. /\ grown \in Seq(Batch) /\ Len(grown) = m /\ grown[m] = new
       /\ \A j \in 1..m : j # m => grown[j] = batches[j]
  BY <1>5, <1>8
<1>11. \A a \in Nat : a \in Interval(new) <=> a \in Interval(old) \/ a \in Addresses(t)
  <2> DEFINE e == t.word + t.count - 1
  <2>1. e \in Nat /\ e >= t.word /\ Addresses(t) = t.word .. e
    BY <1>2
  <2>2. new.last \in Nat /\ new.last >= old.last /\ new.last >= e /\ (new.last = old.last \/ new.last = e)
    BY <1>9
  <2> HIDE DEF e
  <2>3. Interval(new) = old.first .. new.last /\ Interval(old) = old.first .. old.last
    BY <1>8 DEF Interval
  <2>4. /\ t.word \in Nat /\ old.first \in Nat /\ old.last \in Nat
        /\ old.first <= t.word /\ t.word <= old.last + 1 /\ old.first <= old.last
    BY <1>2, <1>6
  <2>5. ASSUME NEW a \in Nat
        PROVE  (old.first <= a /\ a <= new.last) <=> (old.first <= a /\ a <= old.last) \/ (t.word <= a /\ a <= e)
    BY <2>1, <2>2, <2>4
  <2>6. ASSUME NEW a \in Nat
        PROVE  /\ a \in Interval(new) <=> (old.first <= a /\ a <= new.last)
               /\ a \in Interval(old) <=> (old.first <= a /\ a <= old.last)
               /\ a \in Addresses(t) <=> (t.word <= a /\ a <= e)
    BY <2>1, <2>2, <2>3, <2>4
  <2> QED
    BY <2>5, <2>6
<1>0. m \in 1..m /\ old = batches[m]
  BY <1>5 DEF old
<1> HIDE DEF m, grown
<1>12. \A j \in 1..m : Fits(grown[j])
  BY <1>9, <1>10 DEF LoopInv, m
<1>13. Covers(grown, q, i + 1)
  <2> SUFFICES ASSUME NEW a \in Nat
               PROVE  (\E j \in 1..m : a \in Interval(grown[j])) <=> (\E k \in 1 .. i + 1 : a \in Addresses(q[k]))
    BY <1>10 DEF Covers
  <2>1. (\E j \in 1..m : a \in Interval(batches[j])) <=> (\E k \in 1..i : a \in Addresses(q[k]))
    BY DEF LoopInv, Covers, m
  <2>2. (\E j \in 1..m : a \in Interval(grown[j]))
           <=> (\E j \in 1..m : a \in Interval(batches[j])) \/ a \in Addresses(t)
    BY <1>0, <1>10, <1>11
  <2>3. (\E k \in 1 .. i + 1 : a \in Addresses(q[k])) <=> (\E k \in 1..i : a \in Addresses(q[k])) \/ a \in Addresses(t)
    BY DEF t
  <2> QED
    BY <2>1, <2>2, <2>3
<1>14. ASSUME NEW k \in 1..i PROVE Whole(grown, q[k])
  <2> SUFFICES ASSUME NEW j \in 1..m, q[k].word \in Interval(grown[j])
               PROVE  \/ Addresses(q[k]) \subseteq Interval(grown[j])
                      \/ \E l \in 1..m : l > j /\ q[k].word \in Interval(grown[l])
    BY <1>10 DEF Whole
  <2>0. ASSUME NEW l \in 1..m, q[k].word \in Interval(batches[l]) PROVE q[k].word \in Interval(grown[l])
    BY <1>0, <1>3, <1>10, <1>11, <2>0
  <2>1. ASSUME q[k].word \in Interval(batches[j])
        PROVE  \/ Addresses(q[k]) \subseteq Interval(batches[j])
               \/ \E l \in 1..m : l > j /\ q[k].word \in Interval(batches[l])
    BY <2>1 DEF LoopInv, Whole, m
  <2>2. CASE j # m
    BY <1>10, <2>0, <2>1, <2>2
  <2>3. CASE j = m /\ q[k].word \in Interval(old)
    <3>1. Addresses(q[k]) \subseteq Interval(old)
      BY <1>0, <1>5, <2>1, <2>3
    <3>2. Addresses(q[k]) \subseteq Interval(new)
      BY <1>3, <1>11, <3>1
    <3> QED
      BY <1>10, <2>3, <3>2
  <2>4. CASE j = m /\ q[k].word \notin Interval(old)
    <3>1. q[k].word \in Addresses(t)
      BY <1>3, <1>10, <1>11, <2>4
    <3> DEFINE x == q[k].word
               c == q[k].count
    <3>2. /\ x \in Nat /\ c \in {1, 2} /\ Addresses(q[k]) = x .. x + c - 1
          /\ x < t.word \/ (x = t.word /\ c < t.count)
      BY <1>3
    <3>3. x \in t.word .. t.word + t.count - 1
      BY <1>2, <3>1
    <3> HIDE DEF x, c
    <3>4. x = t.word /\ c < t.count
      BY <1>2, <3>2, <3>3
    <3>5. x .. x + c - 1 \subseteq t.word .. t.word + t.count - 1
      BY <1>2, <3>2, <3>4
    <3>6. Addresses(q[k]) \subseteq Addresses(t)
      BY <1>2, <3>2, <3>5
    <3>7. Addresses(t) \subseteq Interval(new)
      BY <1>2, <1>11
    <3>8. Addresses(q[k]) \subseteq Interval(new)
      BY <3>6, <3>7, Zenon
    <3> QED
      BY <1>10, <2>4, <3>8
  <2> QED
    BY <2>2, <2>3, <2>4
<1>15. Whole(grown, t)
  <2> SUFFICES ASSUME NEW j \in 1..m, t.word \in Interval(grown[j])
               PROVE  \/ Addresses(t) \subseteq Interval(grown[j])
                      \/ \E l \in 1..m : l > j /\ t.word \in Interval(grown[l])
    BY <1>10 DEF Whole
  <2>1. Addresses(t) \subseteq Interval(new) /\ t.word \in Interval(new)
    BY <1>2, <1>11
  <2>2. CASE j = m
    BY <1>10, <2>1, <2>2
  <2>3. CASE j # m
    BY <1>0, <1>5, <1>10, <2>1, <2>3
  <2> QED
    BY <2>2, <2>3
<1>16. grown[Len(grown)].first <= q[i + 1].word /\ Len(grown) > 0
  BY <1>0, <1>5, <1>6, <1>8, <1>10 DEF t
<1>17. \A k \in 1 .. i + 1 : Whole(grown, q[k])
  BY <1>14, <1>15 DEF t
<1>18. LoopInv(grown, q, i + 1)
  BY <1>10, <1>12, <1>13, <1>16, <1>17 DEF LoopInv
<1> QED
  BY <1>7, <1>18

\* The loop's batches after every turn, as a function.
Turns(plan, q, n) == plan = [i \in 0..n |-> IF i = 0 THEN <<>> ELSE AddSpan(plan[i - 1], q[i])]

\* A set of naturals that is not empty has a least element: the form in which induction is used here.
LEMMA Least ==
    ASSUME NEW T \in SUBSET Nat, T # {}
    PROVE  \E x \in T : \A y \in T : x <= y
<1> DEFINE R == OpToRel(<, Nat)
<1>1. IsWellFoundedOn(R, Nat)
  BY NatLessThanWellFounded
<1> HIDE DEF R
<1>2. \E x \in T : \A y \in T : ~(<<y, x>> \in R)
  BY <1>1, WFMin
<1>3. \A x, y \in Nat : y < x => <<y, x>> \in R
  BY DEF R, OpToRel
<1>4. PICK x \in T : \A y \in T : ~(<<y, x>> \in R)
  BY <1>2
<1>5. ASSUME NEW y \in T PROVE x <= y
  <2>1. ~(y < x)
    BY <1>3, <1>4
  <2>2. x \in Nat /\ y \in Nat
    OBVIOUS
  <2> QED
    BY <2>1, <2>2
<1> QED
  BY <1>5

\* That function exists, for any number of turns.
LEMMA TurnsExist ==
    ASSUME NEW q
    PROVE  \A n \in Nat : \E g : Turns(g, q, n)
<1> DEFINE T == {n \in Nat : ~\E g : Turns(g, q, n)}
<1> SUFFICES ASSUME T # {} PROVE FALSE
  OBVIOUS
<1>1. PICK n \in T : \A k \in T : n <= k
  BY Least
<1>2. n # 0
  <2>1. Turns([k \in 0..0 |-> <<>>], q, 0)
    BY DEF Turns
  <2> QED
    BY <2>1
<1>3. n - 1 \in Nat /\ n - 1 \notin T
  BY <1>1, <1>2
<1>4. PICK g : Turns(g, q, n - 1)
  BY <1>3
<1> DEFINE h == [k \in 0..n |-> IF k = n THEN AddSpan(g[n - 1], q[n]) ELSE g[k]]
<1>5. \A k \in 0..(n - 1) : g[k] = IF k = 0 THEN <<>> ELSE AddSpan(g[k - 1], q[k])
  BY <1>3, <1>4 DEF Turns
<1>6. ASSUME NEW k \in 0..n PROVE h[k] = IF k = 0 THEN <<>> ELSE AddSpan(h[k - 1], q[k])
  <2>1. CASE k = 0
    BY <1>1, <1>2, <1>3, <1>5, <2>1
  <2>2. CASE k # 0
    <3>1. k - 1 \in 0..(n - 1) /\ k - 1 # n /\ k - 1 \in 0..n
      BY <1>1, <2>2
    <3>2. h[k - 1] = g[k - 1]
      BY <3>1
    <3> QED
      BY <1>1, <1>5, <2>2, <3>1, <3>2
  <2> QED
    BY <2>1, <2>2
<1>7. h = [k \in 0..n |-> h[k]]
  OBVIOUS
<1> HIDE DEF h
<1>8. h = [k \in 0..n |-> IF k = 0 THEN <<>> ELSE AddSpan(h[k - 1], q[k])]
  BY <1>6, <1>7
<1> QED
  BY <1>1, <1>8 DEF Turns

\* batchesOf is its last value.
LEMMA BatchesUnroll ==
    ASSUME NEW spans \in SUBSET AllSpans
    PROVE  \E g : Turns(g, Sorted(spans), Cardinality(spans)) /\ batchesOf(spans) = g[Cardinality(spans)]
<1> DEFINE q == Sorted(spans)
           n == Len(q)
           g == CHOOSE f : f = [i \in 0..n |-> IF i = 0 THEN <<>> ELSE AddSpan(f[i - 1], q[i])]
<1>1. batchesOf(spans) = g[n]
  BY DEF batchesOf
<1>2. n \in Nat /\ n = Cardinality(spans)
  BY SortedFacts, RankIsPlace
<1>3. \E f : f = [i \in 0..n |-> IF i = 0 THEN <<>> ELSE AddSpan(f[i - 1], q[i])]
  BY <1>2, TurnsExist DEF Turns
<1>4. g = [i \in 0..n |-> IF i = 0 THEN <<>> ELSE AddSpan(g[i - 1], q[i])]
  BY <1>3, Zenon
<1> QED
  BY <1>1, <1>2, <1>4 DEF Turns

\* The invariant holds after the last turn.
LEMMA LoopEnds ==
    ASSUME NEW spans \in SUBSET AllSpans
    PROVE  LoopInv(batchesOf(spans), Sorted(spans), Cardinality(spans))
<1> DEFINE q == Sorted(spans)
           n == Cardinality(spans)
<1>1. PICK g : Turns(g, q, n) /\ batchesOf(spans) = g[n]
  BY BatchesUnroll
<1>2. n \in Nat
  BY RankIsPlace
<1>3. /\ q \in Seq(AllSpans) /\ Len(q) = n
      /\ \A i, j \in 1..n : i < j => Before(q[i], q[j])
  BY SortedFacts
<1> HIDE DEF q, n
<1>4. g[0] = <<>> /\ \A i \in 1..n : g[i] = AddSpan(g[i - 1], q[i])
  BY <1>1, <1>2 DEF Turns
<1>5. LoopInv(<<>>, q, 0)
  <2>1. <<>> \in Seq(Batch) /\ Len(<<>>) = 0
    OBVIOUS
  <2> QED
    BY <2>1 DEF LoopInv, Covers
<1>6. ASSUME NEW i \in Nat, i + 1 \in 1..n, LoopInv(g[i], q, i) PROVE LoopInv(g[i + 1], q, i + 1)
  <2>1. g[i + 1] = AddSpan(g[i], q[i + 1])
    <3>1. (i + 1) - 1 = i
      OBVIOUS
    <3> QED
      BY <1>4, <1>6, <3>1
  <2>2. \A k \in 1..i : Before(q[k], q[i + 1])
    BY <1>2, <1>3, <1>6
  <2>3. CASE g[i] = <<>> \/ ~Joins(g[i][Len(g[i])], q[i + 1])
    <3>1. g[i + 1] = Append(g[i], BatchOfSpan(q[i + 1]))
      BY <2>1, <2>3 DEF AddSpan
    <3> QED
      BY <1>3, <1>6, <2>2, <3>1, NewBatch
  <2>4. CASE g[i] # <<>> /\ Joins(g[i][Len(g[i])], q[i + 1])
    <3>1. g[i + 1] = [g[i] EXCEPT ![Len(g[i])].last = maxWord(@, addressEnd(q[i + 1]))]
      BY <2>1, <2>4 DEF AddSpan
    <3>2. i > 0
      BY <1>4, <2>4
    <3> DEFINE b == g[i]
    <3>3. LoopInv(b, q, i) /\ Joins(b[Len(b)], q[i + 1]) /\ i + 1 \in 1 .. Len(q)
      BY <1>3, <1>6, <2>4
    <3> HIDE DEF b
    <3>4. LoopInv([b EXCEPT ![Len(b)].last = maxWord(@, addressEnd(q[i + 1]))], q, i + 1)
      BY <1>3, <2>2, <3>2, <3>3, LongerBatch
    <3> QED
      BY <3>1, <3>4 DEF b
  <2> QED
    BY <2>3, <2>4
<1> DEFINE T == {i \in 0..n : ~LoopInv(g[i], q, i)}
<1>7. T = {}
  <2> SUFFICES ASSUME T # {} PROVE FALSE
    OBVIOUS
  <2>1. T \in SUBSET Nat
    BY <1>2
  <2>2. PICK i \in T : \A k \in T : i <= k
    <3> HIDE DEF T
    <3> QED
      BY <2>1, Least
  <2>3. i # 0
    BY <1>4, <1>5
  <2>4. i - 1 \in 0..n /\ i - 1 \notin T
    BY <1>2, <2>2, <2>3
  <2>5. LoopInv(g[i - 1], q, i - 1) /\ i - 1 \in Nat /\ (i - 1) + 1 = i /\ i \in 1..n
    BY <1>2, <2>3, <2>4
  <2>6. LoopInv(g[i], q, i)
    BY <1>6, <2>5
  <2> QED
    BY <2>2, <2>6
<1>8. LoopInv(g[n], q, n)
  BY <1>2, <1>7
<1> QED
  BY <1>1, <1>8 DEF q, n

\* What newReadBatch makes of a batch that fits.
LEMMA RequestWords ==
    ASSUME NEW b \in Batch, Fits(b)
    PROVE  WordsOf(b) = Interval(b) /\ Cardinality(WordsOf(b)) <= MaxRead
<1>1. AddressSpace \in Nat /\ MaxRead \in Nat /\ b.first \in Nat /\ b.last \in Nat
  BY LayoutAssumption DEF Batch
<1>2. b.first <= b.last /\ b.last < AddressSpace /\ b.last - b.first + 1 <= MaxRead
  BY DEF Fits
<1>3. \A a \in Nat : a < AddressSpace => a % AddressSpace = a
  BY <1>1
<1>4. (b.last - b.first) % AddressSpace = b.last - b.first
  BY <1>1, <1>2, <1>3
<1>5. ASSUME NEW a \in WordsOf(b) PROVE a \in Interval(b)
  <2>1. PICK i \in 0 .. b.last - b.first : a = (b.first + i) % AddressSpace
    BY <1>4 DEF WordsOf
  <2>2. b.first + i \in Nat /\ b.first + i <= b.last
    BY <1>1
  <2>3. a = b.first + i
    BY <1>1, <1>2, <1>3, <2>1, <2>2
  <2> QED
    BY <1>1, <2>2, <2>3 DEF Interval
<1>6. ASSUME NEW a \in Interval(b) PROVE a \in WordsOf(b)
  <2>1. a \in Nat /\ a - b.first \in 0 .. b.last - b.first /\ b.first + (a - b.first) = a /\ a < AddressSpace
    BY <1>1, <1>2 DEF Interval
  <2>2. a = (b.first + (a - b.first)) % AddressSpace
    BY <1>3, <2>1
  <2> QED
    BY <1>4, <2>1, <2>2 DEF WordsOf
<1>7. WordsOf(b) = Interval(b)
  BY <1>5, <1>6
<1>8. Cardinality(Interval(b)) = b.last - b.first + 1
  <2>1. \A a, c \in Int : a <= c => Cardinality(a..c) = c - a + 1
    BY FS_Interval
  <2> DEFINE first == b.first
             final == b.last
  <2>2. first \in Int /\ final \in Int /\ first <= final /\ Interval(b) = first .. final
    BY <1>1, <1>2 DEF Interval
  <2> HIDE DEF first, final
  <2>3. Cardinality(first .. final) = final - first + 1
    BY <2>1, <2>2
  <2> QED
    BY <2>2, <2>3 DEF first, final
<1> QED
  BY <1>2, <1>7, <1>8

\* Every layout of the readable points gives a sound plan, whatever the size of the
\* address space and of a request (buildPlan, newReadBatch, goodValues).
THEOREM EveryPlanIsSound == PlansAreSound
<1> SUFFICES ASSUME NEW spans \in SUBSET AllSpans
             PROVE  LET batches == batchesOf(spans)
                    IN  /\ \A i \in DOMAIN batches :
                              batches[i].first <= batches[i].last /\ Cardinality(WordsOf(batches[i])) <= MaxRead
                        /\ UNION {WordsOf(b) : b \in Range(batches)} = UNION {Addresses(s) : s \in spans}
                        /\ \A s \in spans : Addresses(s) \subseteq WordsOf(batches[DecidingBatch(batches, s)])
  BY DEF PlansAreSound
<1> DEFINE batches == batchesOf(spans)
           m == Len(batches)
           q == Sorted(spans)
           n == Cardinality(spans)
<1>1. LoopInv(batches, q, n)
  BY LoopEnds
<1>2. /\ q \in Seq(spans) /\ Len(q) = n
      /\ \A s \in spans : \E k \in 1..n : q[k] = s
  BY SortedFacts
<1> HIDE DEF batches, q, n
<1>3. batches \in Seq(Batch) /\ m \in Nat /\ DOMAIN batches = 1..m
  BY <1>1 DEF LoopInv
<1>4. \A j \in 1..m : batches[j] \in Batch /\ Fits(batches[j])
  BY <1>1, <1>3 DEF LoopInv
<1>5. \A j \in 1..m : WordsOf(batches[j]) = Interval(batches[j]) /\ Cardinality(WordsOf(batches[j])) <= MaxRead
  BY <1>4, RequestWords
<1>6. \A a \in Nat : (\E j \in 1..m : a \in Interval(batches[j])) <=> (\E k \in 1..n : a \in Addresses(q[k]))
  BY <1>1 DEF LoopInv, Covers
<1>7. \A k \in 1..n : q[k] \in spans
  BY <1>2
<1>8. \A s \in spans : s.word \in Nat /\ Addresses(s) \subseteq Nat /\ s.word \in Addresses(s)
  <2> SUFFICES ASSUME NEW s \in spans
               PROVE  s.word \in Nat /\ Addresses(s) \subseteq Nat /\ s.word \in Addresses(s)
    OBVIOUS
  <2>1. s.word \in Nat /\ s.count \in {1, 2} /\ Addresses(s) = s.word .. s.word + s.count - 1
    BY SpanFacts
  <2> QED
    BY <2>1
<1>9. \A j \in 1..m : Interval(batches[j]) \subseteq Nat
  BY <1>4 DEF Batch, Interval
<1> HIDE DEF m
<1>10. UNION {WordsOf(b) : b \in Range(batches)} = UNION {Addresses(s) : s \in spans}
  <2>1. ASSUME NEW a \in UNION {WordsOf(b) : b \in Range(batches)}
        PROVE  a \in UNION {Addresses(s) : s \in spans}
    <3>1. PICK j \in 1..m : a \in Interval(batches[j])
      BY <1>3, <1>5 DEF Range
    <3>2. PICK k \in 1..n : a \in Addresses(q[k])
      BY <1>6, <1>9, <3>1
    <3> QED
      BY <1>7, <3>2
  <2>2. ASSUME NEW a \in UNION {Addresses(s) : s \in spans}
        PROVE  a \in UNION {WordsOf(b) : b \in Range(batches)}
    <3>1. PICK s \in spans : a \in Addresses(s)
      OBVIOUS
    <3>2. PICK k \in 1..n : q[k] = s
      BY <1>2
    <3>3. PICK j \in 1..m : a \in Interval(batches[j])
      BY <1>6, <1>8, <3>1, <3>2
    <3> QED
      BY <1>3, <1>5, <3>3 DEF Range
  <2> QED
    BY <2>1, <2>2
<1>11. ASSUME NEW s \in spans
       PROVE  Addresses(s) \subseteq WordsOf(batches[DecidingBatch(batches, s)])
  <2>1. PICK k \in 1..n : q[k] = s
    BY <1>2
  <2> DEFINE H == {j \in 1..m : s.word \in Interval(batches[j])}
             U == {m - j : j \in H}
  <2>2. H # {}
    BY <1>6, <1>8, <2>1
  <2>3. U \in SUBSET Nat /\ U # {}
    <3>1. m \in Nat
      BY <1>3
    <3> QED
      BY <2>2, <3>1
  <2>4. PICK u \in U : \A v \in U : u <= v
    <3> HIDE DEF U
    <3> QED
      BY <2>3, Least
  <2>5. PICK i \in H : u = m - i
    BY <2>4
  <2>6. \A j \in H : j <= i
    <3> SUFFICES ASSUME NEW j \in H PROVE j <= i
      OBVIOUS
    <3>1. m - j \in U
      OBVIOUS
    <3>2. m - i <= m - j
      BY <2>4, <2>5, <3>1
    <3>3. m \in Nat /\ i \in 1..m /\ j \in 1..m
      BY <1>3
    <3> QED
      BY <3>2, <3>3
  <2> DEFINE final == DecidingBatch(batches, s)
  <2>7. final \in 1..m /\ s.word \in Interval(batches[final]) /\ \A j \in H : j <= final
    <3>1. \E j \in DOMAIN batches :
             /\ s.word \in WordsOf(batches[j])
             /\ \A l \in DOMAIN batches : s.word \in WordsOf(batches[l]) => l <= j
      BY <1>3, <1>5, <2>5, <2>6
    <3>2. /\ final \in DOMAIN batches /\ s.word \in WordsOf(batches[final])
          /\ \A l \in DOMAIN batches : s.word \in WordsOf(batches[l]) => l <= final
      BY <3>1 DEF DecidingBatch
    <3> HIDE DEF final
    <3> QED
      BY <1>3, <1>5, <3>2
  <2>8. Whole(batches, s)
    BY <1>1, <2>1 DEF LoopInv
  <2> HIDE DEF final
  <2>9. Addresses(s) \subseteq Interval(batches[final]) \/ \E l \in H : l > final
    BY <2>7, <2>8 DEF Whole, m
  <2>10. Addresses(s) \subseteq Interval(batches[final])
    BY <1>3, <2>7, <2>9
  <2> QED
    BY <1>5, <2>7, <2>10 DEF final
<1>12. \A i \in DOMAIN batches : batches[i].first <= batches[i].last /\ Cardinality(WordsOf(batches[i])) <= MaxRead
  BY <1>3, <1>4, <1>5 DEF Fits
<1> QED
  BY <1>10, <1>11, <1>12 DEF batches

\* The same of a running worker: it starts on a sound plan.
THEOREM WorkerPlanIsSound == Spec => []PlanIsSound
<1>1. PlanIsSound
  BY EveryPlanIsSound DEF PlanIsSound
<1> QED
  BY <1>1, PTL
=============================================================================
