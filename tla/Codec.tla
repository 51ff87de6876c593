------------------------------- MODULE Codec -------------------------------
(***************************************************************************)
(* AMQP basic types on the wire (pkg/protocol/amqp091/encode.go and        *)
(* decode.go) and the frame around them (frame.go).                        *)
(*                                                                         *)
(* Bytes are numbers below 256 and strings sequences of bytes.  A value of *)
(* a table is a record of its Go type k and its contents v: a number, the  *)
(* bytes of a string, or a table.  A float counts halves.  What a client   *)
(* encodes is a table as the sequence of its entries, in the order of the  *)
(* map's iteration; what the decoder returns is a function.  Tables within *)
(* tables are followed by recursive functions: of the depth where a client *)
(* encodes, of the bytes where the server decodes.                         *)
(***************************************************************************)
EXTENDS Integers, Sequences, SequencesExt

CONSTANT MaxDepth   \* how deep clients nest tables

ASSUME DepthAssumption == MaxDepth \in Nat

Byte == 0 .. 255

\* Tag, bytes and sign of the types of fixed length.
Fixed ==
  [bool   |-> [tag |-> 116, n |-> 1, signed |-> FALSE],
   int8   |-> [tag |-> 98,  n |-> 1, signed |-> TRUE],
   uint8  |-> [tag |-> 66,  n |-> 1, signed |-> FALSE],
   int16  |-> [tag |-> 115, n |-> 2, signed |-> TRUE],
   uint16 |-> [tag |-> 117, n |-> 2, signed |-> FALSE],
   int32  |-> [tag |-> 73,  n |-> 4, signed |-> TRUE],
   uint32 |-> [tag |-> 105, n |-> 4, signed |-> FALSE],
   int64  |-> [tag |-> 108, n |-> 8, signed |-> TRUE],
   uint64 |-> [tag |-> 76,  n |-> 8, signed |-> FALSE],
   float32 |-> [tag |-> 102, n |-> 4, signed |-> FALSE],
   float64 |-> [tag |-> 100, n |-> 8, signed |-> FALSE],
   time   |-> [tag |-> 84,  n |-> 8, signed |-> TRUE]]

Text == [string |-> 83, bytes |-> 120]
TableTag == 70
Floats == {"float32", "float64"}

----------------------------------------------------------------------------
(* Numbers                                                                 *)

\* v >> 8 * n, with the sign.
Shift(v, n) ==
  LET shifted[i \in 0 .. n] == IF i = 0 THEN v ELSE shifted[i - 1] \div 256
  IN shifted[n]

\* Mutant of BigEndian: the bytes of a negative number are those of its absolute value.
BigEndian_Abs(v, n) == [i \in 1 .. n |-> Shift(IF v < 0 THEN -v ELSE v, n - i) % 256]

\* binary.BigEndian, of a negative number its two's complement.
BigEndian(v, n) == [i \in 1 .. n |-> Shift(v, n - i) % 256]

\* The number in a sequence of bytes.
Number(b, signed) ==
  LET value[i \in 0 .. Len(b)] ==
        IF i = 0 THEN IF signed /\ b[1] >= 128 THEN -1 ELSE 0
        ELSE value[i - 1] * 256 + b[i]
  IN value[Len(b)]

\* The number is one of a Go type of n bytes.
FitsIn(v, n, signed) == IF signed THEN Shift(v, n - 1) \in -128 .. 127 ELSE Shift(v, n) = 0

----------------------------------------------------------------------------
(* Encoder                                                                 *)

\* writeFloat32 and writeFloat64 convert to an unsigned integer, which drops the fraction.
\* What Go makes of a float that is negative or too large depends on the machine; such
\* floats are no values below.  Times are whole seconds, which is what WriteTimestamp sends.
Whole(x) == IF x.k \in Floats THEN x.v \div 2 ELSE x.v

\* The values of a table, and the tables nested at most d deep: maps, so no key twice.
Numeric ==
  {x \in [k : DOMAIN Fixed, v : Int] :
     IF x.k = "bool" THEN x.v \in {0, 1} ELSE FitsIn(Whole(x), Fixed[x.k].n, Fixed[x.k].signed)}
Value(tables) == Numeric \cup [k : DOMAIN Text, v : Seq(Byte)] \cup [k : {"table"}, v : tables]
Entry(tables) == [key : Seq(Byte), value : Value(tables)]
Maps(tables) ==
  {t \in Seq(Entry(tables)) : \A i, j \in DOMAIN t : t[i].key = t[j].key => i = j}
Table[d \in 0 .. MaxDepth] == IF d = 0 THEN Maps({}) ELSE Maps(Table[d - 1])

WriteShortString(s) == <<Len(s) % 256>> \o s
WriteString(s) == BigEndian(Len(s), 4) \o s

\* A value behind its tag; body has the entries of tables as bytes.
writeTableValue(x, body) ==
  CASE x.k \in DOMAIN Fixed -> <<Fixed[x.k].tag>> \o BigEndian(Whole(x), Fixed[x.k].n)
    [] x.k \in DOMAIN Text -> <<Text[x.k]>> \o WriteString(x.v)
    [] x.k = "table" -> <<TableTag>> \o WriteString(body[x.v])

writeEntry(e, body) == WriteString(e.key) \o writeTableValue(e.value, body)
writeEntries(t, body) == FlattenSeq([i \in DOMAIN t |-> writeEntry(t[i], body)])

\* The temporary encoder of the entries ...
tableBytes[d \in 0 .. MaxDepth] ==
  [t \in Table[d] |-> writeEntries(t, IF d = 0 THEN <<>> ELSE tableBytes[d - 1])]

\* ... which are written behind their size.
WriteTable(t) == WriteString(tableBytes[MaxDepth][t])

FrameEnd == 206
FrameTypes == {1, 2, 3, 8}

EncodeFrame(type, channel, payload) ==
  <<type>> \o BigEndian(channel, 2) \o WriteString(payload) \o <<FrameEnd>>

----------------------------------------------------------------------------
(* Decoder: each read returns the value and the bytes that follow, or Bad  *)

Bad == [ok |-> FALSE]
Read(v, rest) == [ok |-> TRUE, v |-> v, rest |-> rest]
Drop(b, n) == SubSeq(b, n + 1, Len(b))

ReadUint(b, n) == IF Len(b) < n THEN Bad ELSE Read(Number(SubSeq(b, 1, n), FALSE), Drop(b, n))

\* ReadString and ReadBytes, and below ReadShortString: n bytes of length, and the string.
Contents(len) ==
  IF ~len.ok \/ Len(len.rest) < len.v THEN Bad
  ELSE Read(SubSeq(len.rest, 1, len.v), Drop(len.rest, len.v))

ReadPrefixed(b, n) == Contents(ReadUint(b, n))

ReadShortString[b \in Seq(Byte)] == ReadPrefixed(b, 1)

\* readFloat32 and readFloat64 convert from an integer; ReadBool asks for non-zero.
ReadFixed(b, k) ==
  IF Len(b) < Fixed[k].n THEN Bad
  ELSE LET v == Number(SubSeq(b, 1, Fixed[k].n), Fixed[k].signed) IN
       Read(IF k \in Floats THEN 2 * v ELSE IF k = "bool" /\ v # 0 THEN 1 ELSE v,
            Drop(b, Fixed[k].n))

\* The data behind its size, which body parses.
Parsed(data, table) == IF ~data.ok \/ ~table.ok THEN Bad ELSE Read(table.v, data.rest)

readTable(b, body) ==
  LET data == ReadPrefixed(b, 4)
  IN Parsed(data, body[data.v])

\* The types with this tag: one, or none.
Kinds(tag) == {k \in DOMAIN Fixed : Fixed[k].tag = tag} \cup {k \in DOMAIN Text : Text[k] = tag}
                \cup (IF tag = TableTag THEN {"table"} ELSE {})

\* A tagged value; a tag that is not known is an error.
Tagged(tag, k, value) ==
  IF ~tag.ok \/ Kinds(tag.v) = {} \/ ~value.ok THEN Bad
  ELSE Read([k |-> k, v |-> value.v], value.rest)

readTableValue(b, body) ==
  LET tag == ReadUint(b, 1)
      k == CHOOSE k \in Kinds(tag.v) : TRUE
      value == CASE k \in DOMAIN Fixed -> ReadFixed(tag.rest, k)
                 [] k \in DOMAIN Text -> ReadPrefixed(tag.rest, 4)
                 [] k = "table" -> readTable(tag.rest, body)
  IN Tagged(tag, k, value)

\* An entry before others: a later one of its key replaces it.
Before(key, value, later) ==
  [k \in {key} \cup DOMAIN later |-> IF k \in DOMAIN later THEN later[k] ELSE value]

\* The first entry and, by the same loop, the others.
Entries(key, value, later) ==
  IF ~key.ok \/ ~value.ok \/ ~later.ok THEN Bad
  ELSE Read(Before(key.v, value.v, later.v), <<>>)

readEntries(b, body) ==
  LET key == ReadPrefixed(b, 4)
      value == readTableValue(key.rest, body)
  IN Entries(key, value, body[value.rest])

readTableBody[b \in Seq(Byte)] ==
  IF b = <<>> THEN Read([k \in {} |-> 0], <<>>) ELSE readEntries(b, readTableBody)

ReadTable(b) == readTable(b, readTableBody)

----------------------------------------------------------------------------
(* What a decoded table should be                                          *)

\* The value a client encoded.
AsValue(x, maps) == [k |-> x.k, v |-> IF x.k = "table" THEN maps[x.v] ELSE x.v]

EntriesAsMap(t, maps) ==
  [key \in {t[i].key : i \in DOMAIN t} |->
     AsValue(t[CHOOSE i \in DOMAIN t : t[i].key = key].value, maps)]

mapOf[d \in 0 .. MaxDepth] ==
  [t \in Table[d] |-> EntriesAsMap(t, IF d = 0 THEN <<>> ELSE mapOf[d - 1])]

\* The map a client encoded.
AsMap(t) == mapOf[MaxDepth][t]

\* The tables without a float that has a fraction, at any depth.
WholeEntries(tables, inner) ==
  {t \in tables : \A i \in DOMAIN t :
     /\ t[i].value.k \in Floats => t[i].value.v % 2 = 0
     /\ t[i].value.k = "table" => t[i].value.v \in inner}
WholeFloats[d \in 0 .. MaxDepth] ==
  WholeEntries(Table[d], IF d = 0 THEN {} ELSE WholeFloats[d - 1])
=============================================================================
