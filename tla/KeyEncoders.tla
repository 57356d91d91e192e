---------------------------- MODULE KeyEncoders -----------------------------
(***************************************************************************)
(* The key encoders of src/partition/KeyEncoder.js and CompoundEncoder.js: *)
(* pure functions between the values of a column and sequences of bytes.   *)
(* A byte has Base values (256), so that a TLC instance can do with small  *)
(* ones: every length and limit below is the code's, counted in bytes.     *)
(*                                                                         *)
(* A text is a sequence of characters 0 .. Base - 1, see Utf8.  A double   *)
(* is its rank: 0, 1, 2, ... are 0 and the positive doubles upwards, -1 is *)
(* -0, and -2, -3, ... are the negative doubles downwards.                 *)
(***************************************************************************)
EXTENDS Integers, Sequences, SequencesExt

CONSTANTS
  Base,     \* the number of values of a byte
  Radix,    \* the digits String(number) uses, ten
  Minus,    \* the code of "-"
  Zero,     \* the code of "0"; the other digits follow it
  Bom,      \* the byte order mark U+FEFF, a character
  Throws    \* what a decode gives that throws a RangeError

ASSUME BaseAssumption == Base \in Nat /\ Base >= 6 /\ Base % 2 = 0
ASSUME DigitsAssumption ==
  /\ {Radix, Minus, Zero} \subseteq Nat
  /\ Radix >= 2 /\ Minus < Zero /\ Zero + Radix <= Base \div 2
ASSUME BomAssumption == Bom \in Base \div 2 .. Base - 3

Bytes == 0 .. Base - 1

-----------------------------------------------------------------------------
\* compareBytes of KeyEncoder: the first byte that differs, or else the lengths.
Differences(a, b) ==
  {i \in 1 .. Len(a) : i <= Len(b) /\ a[i] # b[i]}

FirstDifference(a, b) ==
  CHOOSE i \in Differences(a, b) : \A j \in Differences(a, b) : i <= j

\* Mutant of CompareBytes: the lengths are not compared.
ComparePrefixes(a, b) ==
  IF Differences(a, b) = {} THEN 0
  ELSE a[FirstDifference(a, b)] - b[FirstDifference(a, b)]

CompareBytes(a, b) ==
  IF Differences(a, b) = {} THEN Len(a) - Len(b)
  ELSE a[FirstDifference(a, b)] - b[FirstDifference(a, b)]

-----------------------------------------------------------------------------
\* b to the power of n.
Power(b, n) ==
  LET power[i \in 0 .. n] == IF i = 0 THEN 1 ELSE power[i - 1] * b
  IN  power[n]

\* v without its last i digits to the base b, for i up to n.
Shifted(v, b, n) ==
  LET shifted[i \in 0 .. n] == IF i = 0 THEN v ELSE shifted[i - 1] \div b
  IN  shifted

\* The n low digits of v, in two's complement when v is negative.
Digits(v, b, n) == [i \in 1 .. n |-> Shifted(v, b, n)[n - i] % b]

\* The number that digits stand for.
Number(digits, b) ==
  LET number[i \in 0 .. Len(digits)] ==
        IF i = 0 THEN 0 ELSE number[i - 1] * b + digits[i]
  IN  number[Len(digits)]

\* A DataView writes and reads the most significant byte first.
BigEndian(v, n) == Digits(v, Base, n)

Unsigned(bytes) == Number(bytes, Base)

HalfRange(n) == Power(Base, n) \div 2

\* IntegerEncoder: setInt32 takes v modulo 2^32.
EncodeInteger(v) == BigEndian(0, 4) \o BigEndian(v, 4)

DecodeInteger(bytes) ==
  LET u == Unsigned(SubSeq(bytes, 5, 8))
  IN  IF u < HalfRange(4) THEN u ELSE u - Power(Base, 4)

\* RealEncoder: the sign bit, and the magnitude below it.
EncodeReal(r) == BigEndian(IF r >= 0 THEN r ELSE HalfRange(8) - 1 - r, 8)

\* Mutant of DecodeReal: the sign bit is read as part of a magnitude.
DecodeMagnitude(bytes) == Unsigned(bytes)

DecodeReal(bytes) ==
  LET u == Unsigned(bytes)
  IN  IF u < HalfRange(8) THEN u ELSE HalfRange(8) - 1 - u

\* TextEncoder: one byte below Base / 2; a lead byte and a continuation byte
\* stand for the longer encodings.  Base - 1 is a lone surrogate, encoded as
\* U+FFFD (Base - 2).
Utf8(c) ==
  CASE c < Base \div 2 -> << c >>
    [] c = Base - 1 -> << Base - 1, Base \div 2 >>
    [] OTHER -> << c + 1, Base \div 2 >>

EncodeText(text) == FlattenSeq([i \in 1 .. Len(text) |-> Utf8(text[i])])

\* TextDecoder: a lead byte and the continuation byte behind it make a
\* character, every other byte that is not below Base / 2 is read as U+FFFD, and
\* a byte order mark at the start is dropped.
Continues(bytes, i) ==
  /\ i \in 2 .. Len(bytes)
  /\ bytes[i] = Base \div 2 /\ bytes[i - 1] > Base \div 2

CharAt(bytes, i) ==
  CASE bytes[i] < Base \div 2 -> bytes[i]
    [] bytes[i] > Base \div 2 /\ Continues(bytes, i + 1) -> bytes[i] - 1
    [] OTHER -> Base - 2

Characters(bytes) ==
  LET text[i \in 0 .. Len(bytes)] ==
        IF i = 0 THEN << >>
        ELSE IF Continues(bytes, i) THEN text[i - 1]
        ELSE Append(text[i - 1], CharAt(bytes, i))
  IN  text[Len(bytes)]

StartsWithBom(text) == Len(text) > 0 /\ text[1] = Bom

DecodeText(bytes) ==
  LET text == Characters(bytes)
  IN  IF StartsWithBom(text) THEN Tail(text) ELSE text

\* NumericEncoder: String(n), and parseFloat.
NumDigits(n) ==
  CHOOSE d \in 1 .. n + 1 :
    n < Power(Radix, d) /\ (d = 1 \/ Power(Radix, d - 1) <= n)

Numeral(n) == [i \in 1 .. NumDigits(n) |-> Zero + Digits(n, Radix, NumDigits(n))[i]]

EncodeNumeric(n) == IF n < 0 THEN << Minus >> \o Numeral(-n) ELSE Numeral(n)

DecodeNumeric(bytes) ==
  LET Value(numeral) == Number([i \in 1 .. Len(numeral) |-> numeral[i] - Zero], Radix)
  IN  IF Len(bytes) > 0 /\ bytes[1] = Minus THEN -Value(Tail(bytes)) ELSE Value(bytes)

\* The values of a column, by its type.
Types == {"INTEGER", "REAL", "TEXT", "NUMERIC", "BLOB"}

ColumnValues(type) ==
  CASE type \in {"INTEGER", "NUMERIC"} -> Int
    [] type = "REAL"               -> -HalfRange(8) .. HalfRange(8) - 1
    [] type \in {"TEXT", "BLOB"}   -> Seq(Bytes)

\* The encoder of a column, by the column's type; BlobEncoder copies.
EncodeColumn(type, v) ==
  CASE type = "INTEGER" -> EncodeInteger(v)
    [] type = "REAL"    -> EncodeReal(v)
    [] type = "TEXT"    -> EncodeText(v)
    [] type = "NUMERIC" -> EncodeNumeric(v)
    [] type = "BLOB"    -> v

\* A DataView that is too short for a number throws.
DecodeColumn(type, bytes) ==
  CASE type \in {"INTEGER", "REAL"} /\ Len(bytes) < 8 -> Throws
    [] type = "INTEGER" /\ Len(bytes) >= 8 -> DecodeInteger(bytes)
    [] type = "REAL"    /\ Len(bytes) >= 8 -> DecodeReal(SubSeq(bytes, 1, 8))
    [] type = "TEXT"    -> DecodeText(bytes)
    [] type = "NUMERIC" -> DecodeNumeric(bytes)
    [] type = "BLOB"    -> bytes

-----------------------------------------------------------------------------
\* CompoundEncoder.encode: each column behind a length prefix of two bytes.
EncodeCompound(types, values) ==
  FlattenSeq([i \in 1 .. Len(types) |->
    LET encoded == EncodeColumn(types[i], values[i])
    IN  BigEndian(Len(encoded), 2) \o encoded])

\* Reading behind the end gives undefined, which the shift takes for 0.
ByteAt(bytes, i) == IF i <= Len(bytes) THEN bytes[i] ELSE 0

PrefixAt(bytes, offset) ==
  ByteAt(bytes, offset + 1) * Base + ByteAt(bytes, offset + 2)

\* Mutant of Offsets: the prefix itself is not skipped.
CloseOffsets(n, bytes) ==
  LET offset[i \in 0 .. n] ==
        IF i = 0 THEN 0 ELSE offset[i - 1] + PrefixAt(bytes, offset[i - 1])
  IN  offset

\* Where the first i of n columns end, by their prefixes.
Offsets(n, bytes) ==
  LET offset[i \in 0 .. n] ==
        IF i = 0 THEN 0 ELSE offset[i - 1] + 2 + PrefixAt(bytes, offset[i - 1])
  IN  offset

\* The slice of a column, cut off at the end of the bytes.
Slice(bytes, offset) ==
  LET end == offset + 2 + PrefixAt(bytes, offset)
  IN  SubSeq(bytes, offset + 3, IF end < Len(bytes) THEN end ELSE Len(bytes))

DecodeCompound(types, bytes) ==
  LET offset == Offsets(Len(types), bytes)
  IN  [i \in 1 .. Len(types) |-> DecodeColumn(types[i], Slice(bytes, offset[i - 1]))]

\* Mutant of CompareCompound: the keys are compared as they are, prefixes
\* included.
CompareWhole(n, a, b) == CompareBytes(a, b)

\* CompoundEncoder.compareBytes, of keys of n columns: the first column that
\* differs, or else a key with extra data counts as greater.
CompareCompound(n, a, b) ==
  LET atA == Offsets(n, a)
      atB == Offsets(n, b)
      Column(i) ==
        IF atA[i - 1] + 2 > Len(a) THEN -1
        ELSE IF atB[i - 1] + 2 > Len(b) THEN 1
        ELSE CompareBytes(Slice(a, atA[i - 1]), Slice(b, atB[i - 1]))
      i == SelectInSeq([j \in 1 .. n |-> Column(j)], LAMBDA c : c # 0)
  IN  CASE i # 0 -> Column(i)
        [] i = 0 /\ atA[n] < Len(a) -> 1
        [] i = 0 /\ atA[n] >= Len(a) /\ atB[n] < Len(b) -> -1
        [] OTHER -> 0

-----------------------------------------------------------------------------
\* An encoder is a compound one, or that of its only column.  Values are given
\* as a row of one value for each column.
IsEncoder(encoder) ==
  /\ encoder.compound \in BOOLEAN
  /\ encoder.columns \in Seq(Types)
  /\ Len(encoder.columns) > 0
  /\ ~ encoder.compound => Len(encoder.columns) = 1

\* A row with a value of the type of each column.  Of this the code checks only
\* that a compound value is an array with a value for each column: the encoders
\* coerce values of other types (setInt32, String, setFloat64), among them texts
\* in NUMERIC columns that are no number's own text, such as '1.50', which decode
\* to another key.  Those are left out.
IsRow(columns, values) ==
  /\ values = [i \in 1 .. Len(columns) |-> values[i]]
  /\ \A i \in 1 .. Len(columns) : values[i] \in ColumnValues(columns[i])

Encode(encoder, values) ==
  IF encoder.compound
  THEN EncodeCompound(encoder.columns, values)
  ELSE EncodeColumn(encoder.columns[1], values[1])

Decode(encoder, bytes) ==
  IF encoder.compound
  THEN DecodeCompound(encoder.columns, bytes)
  ELSE << DecodeColumn(encoder.columns[1], bytes) >>

Compare(encoder, a, b) ==
  IF encoder.compound
  THEN CompareCompound(Len(encoder.columns), a, b)
  ELSE CompareBytes(a, b)

-----------------------------------------------------------------------------
\* The encoder keeps a value whole: no column is too long for its length prefix,
\* no text starts with a byte order mark.
Regular(encoder, v) ==
  \A i \in 1 .. Len(v) :
    LET type == encoder.columns[i]
    IN  /\ encoder.compound => Len(EncodeColumn(type, v[i])) < Power(Base, 2)
        /\ type = "TEXT" => ~ StartsWithBom(v[i])

\* It is also the only value of its key: integers of 32 bits, texts without lone
\* surrogates.
Exact(encoder, v) ==
  /\ Regular(encoder, v)
  /\ \A i \in 1 .. Len(v) :
       LET type == encoder.columns[i]
       IN  /\ type = "INTEGER" => v[i] \in -HalfRange(4) .. HalfRange(4) - 1
           /\ type = "TEXT" => Base - 1 \notin Range(v[i])

\* It is also ordered like its key: no negative numbers, no numerals.
Ordered(encoder, v) ==
  /\ Exact(encoder, v)
  /\ \A i \in 1 .. Len(v) :
       LET type == encoder.columns[i]
       IN  /\ type # "NUMERIC"
           /\ type \in {"INTEGER", "REAL"} => v[i] >= 0

\* The order of values: column by column, texts and blobs like words.
Less(encoder, v, w) ==
  \E i \in 1 .. Len(v) :
    /\ IF encoder.columns[i] \in {"TEXT", "BLOB"}
       THEN CompareBytes(v[i], w[i]) < 0 ELSE v[i] < w[i]
    /\ \A j \in 1 .. i - 1 : v[j] = w[j]
=============================================================================
