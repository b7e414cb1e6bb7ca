------------------------------- MODULE CqlWire -------------------------------
(***************************************************************************)
(* The primitive notations of the CQL protocol (frame/types.rs), the       *)
(* writers of cells (serialize/writers.rs) and the slice of a frame that   *)
(* is being read (deserialize/frame_slice.rs).                             *)
(*                                                                         *)
(* A buffer is a sequence of bytes.  A reader returns what it read and     *)
(* what it left of the buffer, or fails; a writer returns the bytes that   *)
(* it appends.  An Option is a sequence of at most one element.            *)
(***************************************************************************)
EXTENDS Integers, Sequences

CONSTANT CustomNames   \* the tokens of the class names that arrive as strings

None_ == <<>>
Some(v) == <<v>>

Done(v, rest) == [ok |-> TRUE, v |-> v, rest |-> rest]
Fail == [ok |-> FALSE, why |-> "error"]
Panics == [ok |-> FALSE, why |-> "panic"]

\* The operator ?: go on with what was read, or fail as the reader did.
Bind(r, K(_, _)) == IF r.ok THEN K(r.v, r.rest) ELSE r

\* The fields that are read one after the other, in a tuple.
Start(buf) == Done(<<>>, buf)
Then(r, Read(_)) ==
  Bind(r, LAMBDA vs, rest : Bind(Read(rest), LAMBDA v, left : Done(Append(vs, v), left)))

\* What is read when a flag says that it is there.
ReadIf(flag, buf, Read(_)) ==
  IF flag THEN Bind(Read(buf), LAMBDA v, rest : Done(Some(v), rest)) ELSE Done(None_, buf)
ThenIf(r, flag, Read(_)) == Then(r, LAMBDA rest : ReadIf(flag, rest, Read))

\* n items, one after the other, up to the first that cannot be read.
Times(n, buf, Read(_)) ==
  LET RECURSIVE From(_, _)
      From(items, rest) ==
        IF Len(items) = n THEN Done(items, rest)
        ELSE Bind(Read(rest), LAMBDA item, left : From(Append(items, item), left))
  IN From(<<>>, buf)

\* The bytes of the items of a sequence, one after the other.
Concat(items) ==
  LET upTo[i \in 0 .. Len(items)] == IF i = 0 THEN <<>> ELSE upTo[i - 1] \o items[i] IN upTo[Len(items)]

Drop(buf, n) == SubSeq(buf, n + 1, Len(buf))

ReadRawBytes(count, buf) ==
  IF Len(buf) < count THEN Fail ELSE Done(SubSeq(buf, 1, count), Drop(buf, count))
-----------------------------------------------------------------------------
(* Integers *)

ReadByte(buf) == Bind(ReadRawBytes(1, buf), LAMBDA b, rest : Done(b[1], rest))

WriteInt(v) == <<(v \div 2^24) % 256, (v \div 2^16) % 256, (v \div 2^8) % 256, v % 256>>

IntOf(b) == (IF b[1] > 127 THEN b[1] - 256 ELSE b[1]) * 2^24 + b[2] * 2^16 + b[3] * 2^8 + b[4]

ReadInt(buf) == Bind(ReadRawBytes(4, buf), LAMBDA b, rest : Done(IntOf(b), rest))

ReadIntLength(buf) == Bind(ReadInt(buf), LAMBDA v, rest : IF v < 0 THEN Fail ELSE Done(v, rest))

WriteShort(v) == <<(v \div 256) % 256, v % 256>>

ReadShort(buf) == Bind(ReadRawBytes(2, buf), LAMBDA b, rest : Done(b[1] * 256 + b[2], rest))
-----------------------------------------------------------------------------
(* Bytes and strings *)

\* read_bytes_opt: every negative length is a null.
ReadBytesOpt(buf) ==
  Bind(ReadInt(buf), LAMBDA len, rest :
    IF len < 0 THEN Done(None_, rest)
    ELSE Bind(ReadRawBytes(len, rest), LAMBDA b, left : Done(Some(b), left)))

ReadBytes(buf) == Bind(ReadIntLength(buf), LAMBDA len, rest : ReadRawBytes(len, rest))

\* read_value: a RawValue is null, unset, or bytes.
ReadValue(buf) ==
  Bind(ReadInt(buf), LAMBDA len, rest :
    IF len = -2 THEN Done([is |-> "unset"], rest)
    ELSE IF len = -1 THEN Done([is |-> "null"], rest)
    ELSE IF len < 0 THEN Fail
    ELSE Bind(ReadRawBytes(len, rest), LAMBDA b, left : Done([is |-> "value", bytes |-> b], left)))

ReadShortBytes(buf) == Bind(ReadShort(buf), LAMBDA len, rest : ReadRawBytes(len, rest))

WriteBytes(b) == WriteInt(Len(b)) \o b
WriteBytesOpt(o) == IF o = None_ THEN WriteInt(-1) ELSE WriteBytes(o[1])
WriteShortBytes(b) == WriteShort(Len(b)) \o b

\* str::from_utf8, for texts of characters of one or two bytes.
IsUtf8(b) ==
  LET Continues(i) == b[i] \in 128 .. 191
      Leads(i) == b[i] \in 194 .. 223
  IN \A i \in 1 .. Len(b) :
       \/ b[i] < 128
       \/ Leads(i) /\ i < Len(b) /\ Continues(i + 1)
       \/ Continues(i) /\ i > 1 /\ Leads(i - 1)

ReadString(buf) ==
  Bind(ReadShortBytes(buf), LAMBDA b, rest : IF IsUtf8(b) THEN Done(b, rest) ELSE Fail)

ReadLongString(buf) ==
  Bind(ReadBytes(buf), LAMBDA b, rest : IF IsUtf8(b) THEN Done(b, rest) ELSE Fail)

ReadStringList(buf) == Bind(ReadShort(buf), LAMBDA n, rest : Times(n, rest, ReadString))

WriteStringList(list) == WriteShort(Len(list)) \o Concat([i \in DOMAIN list |-> WriteShortBytes(list[i])])

\* A map is written in some order and read into a map again: a later entry of
\* the same key replaces an earlier one.
Inserted(read) ==
  Bind(read, LAMBDA entries, left :
    Done({<<entries[i][1], entries[i][2]>> :
            i \in {j \in DOMAIN entries : \A l \in DOMAIN entries :
                     entries[l][1] = entries[j][1] => l <= j}}, left))

ReadStringMap(buf) == Bind(ReadShort(buf), LAMBDA n, rest :
  Inserted(Times(n, rest, LAMBDA b : Then(Then(Start(b), ReadString), ReadString))))
ReadBytesMap(buf) == Bind(ReadShort(buf), LAMBDA n, rest :
  Inserted(Times(n, rest, LAMBDA b : Then(Then(Start(b), ReadString), ReadBytes))))
ReadStringMultimap(buf) == Bind(ReadShort(buf), LAMBDA n, rest :
  Inserted(Times(n, rest, LAMBDA b : Then(Then(Start(b), ReadString), ReadStringList))))

\* The keys of the entries, each before its value that is written already.
WriteEntries(entries, values) ==
  WriteShort(Len(entries)) \o
    Concat([i \in DOMAIN entries |-> WriteShortBytes(entries[i][1]) \o values[i]])

WriteStringMap(entries) == WriteEntries(entries, [i \in DOMAIN entries |-> WriteShortBytes(entries[i][2])])
WriteBytesMap(entries) == WriteEntries(entries, [i \in DOMAIN entries |-> WriteBytes(entries[i][2])])
WriteStringMultimap(entries) == WriteEntries(entries, [i \in DOMAIN entries |-> WriteStringList(entries[i][2])])

\* read_inet slices the buffer without looking at its length; the port is cut
\* to 16 bits.
ReadInet(buf) ==
  Bind(ReadByte(buf), LAMBDA len, rest :
    IF len \notin {4, 16} THEN Fail
    ELSE IF Len(rest) < len THEN Panics
    ELSE Bind(ReadInt(Drop(rest, len)), LAMBDA port, left :
           Done([ip |-> SubSeq(rest, 1, len), port |-> port % 2^16], left)))

WriteInet(addr) == <<Len(addr.ip)>> \o addr.ip \o WriteInt(addr.port)

\* Consistency, with its codes
ConsistencyCode ==
  [Any |-> 0, One |-> 1, Two |-> 2, Three |-> 3, Quorum |-> 4, All |-> 5, LocalQuorum |-> 6,
   EachQuorum |-> 7, Serial |-> 8, LocalSerial |-> 9, LocalOne |-> 10]

SerialConsistencies == {"Serial", "LocalSerial"}

WriteConsistency(c) == WriteShort(ConsistencyCode[c])

ReadConsistency(buf) ==
  Bind(ReadShort(buf), LAMBDA v, rest :
    IF \E c \in DOMAIN ConsistencyCode : ConsistencyCode[c] = v
    THEN Done(CHOOSE c \in DOMAIN ConsistencyCode : ConsistencyCode[c] = v, rest) ELSE Fail)
-----------------------------------------------------------------------------
(* Variable-length integers.  A u64 or i64 is its eight bytes. *)

Word == 8
IsNegative(w) == w[1] > 127
Shl1(w) == [i \in 1 .. Word |-> (2 * w[i] + IF i < Word THEN w[i + 1] \div 128 ELSE 0) % 256]
Shr1(w) == [i \in 1 .. Word |-> w[i] \div 2 + IF i > 1 THEN (w[i - 1] % 2) * 128 ELSE 0]
Flip(w, if) == IF if THEN [i \in 1 .. Word |-> 255 - w[i]] ELSE w

ZigZagEncode(w) == Flip(Shl1(w), IsNegative(w))
ZigZagDecode(w) == Flip(Shr1(w), w[Word] % 2 = 1)

\* The number of leading bits of a byte that are zeros.
LeadingZeros8(b) == CHOOSE n \in 0 .. 8 : b < 2^(8 - n) /\ (n < 8 => b >= 2^(7 - n))

LeadingZeros(w) ==
  LET zeros == CHOOSE n \in 0 .. Word : (\A i \in 1 .. n : w[i] = 0) /\ (n < Word => w[n + 1] # 0)
  IN IF zeros = Word THEN 64 ELSE 8 * zeros + LeadingZeros8(w[zeros + 1])

\* The bits of the value that lie under the length bits of the first byte are
\* zeros, so that `or` is an addition.
UnsignedVintEncode(w) ==
  LET n == (639 - 9 * LeadingZeros(w)) \div 64
      low == SubSeq(w, Word + 1 - n, Word)
  IN IF n <= 1 THEN <<w[Word]>>
     ELSE IF n = 9 THEN <<255>> \o w
     ELSE [low EXCEPT ![1] = (256 - 2^(9 - n)) + (@ % 2^(9 - n))]

UnsignedVintDecode(buf) ==
  Bind(ReadByte(buf), LAMBDA first, rest :
    LET extra == LeadingZeros8(255 - first)
        head == IF extra # 8 THEN <<first % 2^(8 - extra)>> ELSE <<>>
    IN Bind(ReadRawBytes(extra, rest), LAMBDA b, left :
         Done([i \in 1 .. Word |-> IF i <= Word - Len(head \o b) THEN 0
                                   ELSE (head \o b)[i - (Word - Len(head \o b))]], left)))

VintEncode(w) == UnsignedVintEncode(ZigZagEncode(w))
VintDecode(buf) == Bind(UnsignedVintDecode(buf), LAMBDA w, rest : Done(ZigZagDecode(w), rest))

\* A length as a u64.
WordOf(n) == <<0, 0, 0, 0>> \o WriteInt(n)
NatOf(w) == IntOf(SubSeq(w, 5, 8))
-----------------------------------------------------------------------------
(* Cells *)

\* CellWriter: the size is written unless the writer is one without size.  A
\* null and an unset value are sizes, and are always written.
SetNull == WriteInt(-1)
SetUnset == WriteInt(-2)
SetValue(contents, sized) == IF sized THEN WriteBytes(contents) ELSE contents

\* FrameSlice: a slice that could not be read stays where it is.
ReadCqlBytes(slice) == ReadBytesOpt(slice)

ReadNBytes(count, slice) ==
  IF slice = <<>> THEN Done(None_, slice)
  ELSE Bind(ReadRawBytes(count, slice), LAMBDA b, rest : Done(Some(b), rest))
-----------------------------------------------------------------------------
(***************************************************************************)
(* The types of columns, and the three notations they arrive in: the       *)
(* binary one of result and prepared metadata (deser_type_generic), the    *)
(* class names of custom types (custom_type_parser.rs) and the CQL names   *)
(* of the schema tables (parse_cql_type).                                  *)
(*                                                                         *)
(* The two textual notations are sequences of tokens: an identifier, a     *)
(* number, a blank or a punctuation mark each.                             *)
(***************************************************************************)

Native(n) == [kind |-> "native", n |-> n]
List(t) == [kind |-> "list", frozen |-> FALSE, of |-> <<t>>]
Set(t) == [kind |-> "set", frozen |-> FALSE, of |-> <<t>>]
Map(k, v) == [kind |-> "map", frozen |-> FALSE, of |-> <<k, v>>]
Vector(t, dim) == [kind |-> "vector", of |-> <<t>>, dim |-> dim]
Tuple(ts) == [kind |-> "tuple", of |-> ts]
Udt(ks, name, fields, ts) == [kind |-> "udt", frozen |-> FALSE, ks |-> ks, name |-> name, fields |-> fields, of |-> ts]

IsCollection(t) == t.kind \in {"list", "set", "map"}

\* type_size: the size of an element of a vector, when vectors take it as fixed.
NativeSize ==
  [Boolean |-> 1, Double |-> 8, Float |-> 4, Int |-> 4, BigInt |-> 8, Timestamp |-> 8, Timeuuid |-> 16, Uuid |-> 16]

RECURSIVE TypeSize(_)
TypeSize(t) ==
  IF t.kind = "native" THEN (IF t.n \in DOMAIN NativeSize THEN Some(NativeSize[t.n]) ELSE None_)
  ELSE IF t.kind = "vector" /\ TypeSize(t.of[1]) # None_ THEN Some(TypeSize(t.of[1])[1] * t.dim)
  ELSE None_

SupportsSpecialEmptyValue(t) ==
  /\ ~ IsCollection(t)
  /\ t.kind # "udt"
  /\ t.kind = "native" => t.n \notin {"Counter", "Duration"}
-----------------------------------------------------------------------------
(* Class names: custom_type_parser.rs *)

Punctuation == {"(", ")", ",", ":", " "}

ClassNative ==
  [AsciiType |-> "Ascii", BooleanType |-> "Boolean", BytesType |-> "Blob", CounterColumnType |-> "Counter",
   DateType |-> "Date", DecimalType |-> "Decimal", DoubleType |-> "Double", DurationType |-> "Duration",
   FloatType |-> "Float", InetAddressType |-> "Inet", Int32Type |-> "Int", IntegerType |-> "Varint",
   LongType |-> "BigInt", SimpleDateType |-> "Date", ShortType |-> "SmallInt", UTF8Type |-> "Text",
   ByteType |-> "TinyInt", UUIDType |-> "Uuid", TimeUUIDType |-> "Timeuuid", SmallIntType |-> "SmallInt",
   TinyIntType |-> "TinyInt", TimeType |-> "Time", TimestampType |-> "Timestamp"]

\* The numbers, and the names that hexadecimal strings stand for (from_hex and
\* from_utf8); any other identifier is not a number, or not a hexadecimal name.
Numerals == [x \in {"0", "2"} |-> IF x = "0" THEN 0 ELSE 2]
Unhex == [x \in {"", "61", "62", "75"} |-> CASE x = "" -> "" [] x = "61" -> "a" [] x = "62" -> "b" [] x = "75" -> "u"]

\* A parser returns where it stopped also when it fails; or it never returns.
Parsed(t, rest) == [ok |-> TRUE, v |-> t, rest |-> rest]
Refused(rest) == [ok |-> FALSE, why |-> "error", rest |-> rest]
Hangs == [ok |-> FALSE, why |-> "hang"]

Accepts(toks, tok) == toks # <<>> /\ Head(toks) = tok

\* Blanks are single tokens.
SkipBlank(toks) == IF Accepts(toks, " ") THEN Tail(toks) ELSE toks

SkipBlankAndComma(toks) ==
  LET at == SkipBlank(toks) IN IF Accepts(at, ",") THEN SkipBlank(Tail(at)) ELSE at

\* read_next_identifier: empty when there is none.
Identifier(toks) ==
  IF toks # <<>> /\ Head(toks) \notin Punctuation THEN Parsed(Head(toks), Tail(toks)) ELSE Parsed("", toks)

RECURSIVE DoParse(_)
RECURSIVE TypeParameters(_)
RECURSIVE UdtFields(_, _, _)

\* The iterator of get_type_parameters, behind its "(": its items, where it
\* ended, or that it yields errors for ever.  It does so at the end of the
\* input, and where do_parse takes nothing.
TypeParameters(toks) ==
  LET at == SkipBlankAndComma(toks)
      item == DoParse(at)
      more == TypeParameters(item.rest)
      endless(r) == [items |-> <<r>>, ends |-> FALSE]
  IN IF at = <<>> THEN endless(Refused(at))
     ELSE IF Head(at) = ")" THEN [items |-> <<>>, ends |-> TRUE, rest |-> Tail(at)]
     ELSE IF item = Hangs \/ item.rest = at THEN endless(item)
     ELSE [more EXCEPT !.items = <<item>> \o @]

\* get_n_type_parameters, and the `?` on each of its results.  When there are
\* not n of them, they are counted to the last.
NTypeParameters(n, toks) ==
  LET p == TypeParameters(Tail(toks))
  IN IF ~ p.ends THEN Hangs
     ELSE IF Len(p.items) > n THEN Refused(p.items[n + 1].rest)
     ELSE IF Len(p.items) < n \/ \E i \in 1 .. n : ~ p.items[i].ok THEN Refused(p.rest)
     ELSE Parsed([i \in 1 .. n |-> p.items[i].v], p.rest)

\* Collected up to the first error.
TupleParameters(toks) ==
  LET p == TypeParameters(Tail(toks))
      bad == {i \in DOMAIN p.items : ~ p.items[i].ok}
  IN IF bad # {} THEN p.items[CHOOSE i \in bad : \A j \in bad : i <= j]
     ELSE IF p.items = <<>> THEN Refused(p.rest)
     ELSE Parsed(Tuple([i \in DOMAIN p.items |-> p.items[i].v]), p.rest)

VectorParameters(toks) ==
  LET at == SkipBlankAndComma(Tail(toks))
      elem == DoParse(at)
      after == SkipBlankAndComma(elem.rest)
      number == Identifier(after)
  IN IF Accepts(at, ")") THEN Refused(at)
     ELSE IF ~ elem.ok THEN elem
     ELSE IF number.v \notin DOMAIN Numerals THEN Refused(after)
     ELSE IF ~ Accepts(number.rest, ")") THEN Refused(number.rest)
     ELSE Parsed(Vector(elem.v, Numerals[number.v]), Tail(number.rest))

UdtFields(toks, names, ts) ==
  LET at == SkipBlankAndComma(toks)
      name == Identifier(at)
      field == DoParse(Tail(name.rest))
  IN IF at = <<>> THEN Refused(at)
     ELSE IF Head(at) = ")" THEN Parsed(<<names, ts>>, Tail(at))
     ELSE IF name.v \notin DOMAIN Unhex \/ ~ Accepts(name.rest, ":") THEN Refused(name.rest)
     ELSE IF ~ field.ok THEN field
     ELSE UdtFields(field.rest, Append(names, Unhex[name.v]), Append(ts, field.v))

UdtParameters(toks) ==
  LET keyspace == Identifier(SkipBlankAndComma(Tail(toks)))
      name == Identifier(SkipBlankAndComma(keyspace.rest))
  IN IF name.v \notin DOMAIN Unhex THEN Refused(name.rest)
     ELSE Bind(UdtFields(name.rest, <<>>, <<>>), LAMBDA f, rest :
            Parsed(Udt(keyspace.v, Unhex[name.v], f[1], f[2]), rest))

GetComplexAbstractType(name, toks) ==
  CASE name = "ListType" -> Bind(NTypeParameters(1, toks), LAMBDA ts, rest : Parsed(List(ts[1]), rest))
    [] name = "SetType" -> Bind(NTypeParameters(1, toks), LAMBDA ts, rest : Parsed(Set(ts[1]), rest))
    [] name = "MapType" -> Bind(NTypeParameters(2, toks), LAMBDA ts, rest : Parsed(Map(ts[1], ts[2]), rest))
    [] name = "TupleType" -> TupleParameters(toks)
    [] name = "VectorType" -> VectorParameters(toks)
    [] name = "UserType" -> UdtParameters(toks)
    [] OTHER -> Refused(toks)

GetSimpleAbstractType(name, rest) ==
  IF name \in DOMAIN ClassNative THEN Parsed(Native(ClassNative[name]), rest) ELSE Refused(rest)

\* The hexadecimal number in front of a ":" is ignored.
DoParse(toks) ==
  LET first == Identifier(SkipBlank(toks))
      prefixed == Accepts(first.rest, ":")
      name == IF prefixed THEN Identifier(Tail(first.rest)) ELSE first
      at == SkipBlank(name.rest)
  IN IF first.v = "" THEN (IF first.rest = <<>> THEN Parsed(Native("Blob"), <<>>) ELSE Refused(first.rest))
     ELSE IF Accepts(at, "(") THEN GetComplexAbstractType(name.v, at)
     ELSE GetSimpleAbstractType(name.v, at)
-----------------------------------------------------------------------------
(* CQL names: parse_cql_type of cluster/metadata.rs *)

CqlNative ==
  [ascii |-> "Ascii", boolean |-> "Boolean", blob |-> "Blob", counter |-> "Counter", date |-> "Date",
   decimal |-> "Decimal", double |-> "Double", duration |-> "Duration", float |-> "Float", int |-> "Int",
   bigint |-> "BigInt", text |-> "Text", timestamp |-> "Timestamp", inet |-> "Inet", smallint |-> "SmallInt",
   tinyint |-> "TinyInt", time |-> "Time", timeuuid |-> "Timeuuid", uuid |-> "Uuid", varint |-> "Varint"]

Openings == {"frozen<", "map<", "list<", "set<", "tuple<", "vector<"}
CqlPunctuation == Openings \cup {">", ",", " "}

\* A user-defined type is only a name here: its definition is another row.
PreUdt(name) == [kind |-> "preudt", frozen |-> FALSE, named |-> name]

FreezeType(t) == IF IsCollection(t) \/ t.kind = "preudt" THEN [t EXCEPT !.frozen = TRUE] ELSE t

Expect(toks, tok) == IF Accepts(toks, tok) THEN Done(tok, Tail(toks)) ELSE Fail

RECURSIVE ParseCqlType(_)
RECURSIVE ParseTupleTypes(_, _)

ParseTupleTypes(toks, ts) ==
  Bind(ParseCqlType(toks), LAMBDA t, rest :
    IF Accepts(rest, ",") THEN ParseTupleTypes(SkipBlank(Tail(rest)), Append(ts, t))
    ELSE IF Accepts(rest, ">") THEN Done(Tuple(Append(ts, t)), Tail(rest))
    ELSE Fail)

ParseCqlType(toks) ==
  LET inside == Tail(toks)
      closed(Build(_)) == Bind(ParseCqlType(inside), LAMBDA t, rest :
                            Bind(Expect(rest, ">"), LAMBDA c, left : Done(Build(t), left)))
  IN IF toks = <<>> \/ (Head(toks) \in CqlPunctuation \ Openings) THEN Fail
     ELSE CASE Head(toks) = "frozen<" -> closed(FreezeType)
            [] Head(toks) = "list<" -> closed(List)
            [] Head(toks) = "set<" -> closed(Set)
            [] Head(toks) = "map<" ->
                 Bind(ParseCqlType(inside), LAMBDA k, r1 :
                   Bind(Expect(r1, ","), LAMBDA c, r2 :
                     Bind(ParseCqlType(SkipBlank(r2)), LAMBDA v, r3 :
                       Bind(Expect(r3, ">"), LAMBDA d, r4 : Done(Map(k, v), r4)))))
            [] Head(toks) = "tuple<" -> ParseTupleTypes(inside, <<>>)
            [] Head(toks) = "vector<" ->
                 Bind(ParseCqlType(inside), LAMBDA t, r1 :
                   Bind(Expect(SkipBlank(r1), ","), LAMBDA c, r2 :
                     LET at == SkipBlank(r2)
                     IN IF at = <<>> \/ Head(at) \notin DOMAIN Numerals THEN Fail
                        ELSE Bind(Expect(SkipBlank(Tail(at)), ">"), LAMBDA d, r3 :
                               Done(Vector(t, Numerals[Head(at)]), r3))))
            [] Head(toks) \in DOMAIN CqlNative -> Done(Native(CqlNative[Head(toks)]), inside)
            [] OTHER -> Done(PreUdt(Head(toks)), inside)

\* map_string_to_cql_type: leftover characters are an error.
MapStringToCqlType(toks) ==
  Bind(ParseCqlType(toks), LAMBDA t, rest : IF rest = <<>> THEN Done(t, rest) ELSE Fail)
-----------------------------------------------------------------------------
(* The binary notation *)

TypeId ==
  [Ascii |-> 1, BigInt |-> 2, Blob |-> 3, Boolean |-> 4, Counter |-> 5, Decimal |-> 6, Double |-> 7,
   Float |-> 8, Int |-> 9, Timestamp |-> 11, Uuid |-> 12, Text |-> 13, Varint |-> 14, Timeuuid |-> 15,
   Inet |-> 16, Date |-> 17, Time |-> 18, SmallInt |-> 19, TinyInt |-> 20, Duration |-> 21]

RECURSIVE DeserType(_)
DeserType(buf) ==
  Bind(ReadShort(buf), LAMBDA id, b1 :
    CASE id = 0 ->
           Bind(ReadString(b1), LAMBDA name, b2 :
             LET r == DoParse(IF name \in DOMAIN CustomNames THEN CustomNames[name] ELSE <<"Unknown">>)
             IN IF r.ok THEN Done(r.v, b2) ELSE r)
      [] \E n \in DOMAIN TypeId : TypeId[n] = id ->
           Done(Native(CHOOSE n \in DOMAIN TypeId : TypeId[n] = id), b1)
      [] id = 32 -> Bind(DeserType(b1), LAMBDA t, b2 : Done(List(t), b2))
      [] id = 33 -> Bind(DeserType(b1), LAMBDA k, b2 :
                      Bind(DeserType(b2), LAMBDA v, b3 : Done(Map(k, v), b3)))
      [] id = 34 -> Bind(DeserType(b1), LAMBDA t, b2 : Done(Set(t), b2))
      [] id = 48 ->
           Bind(ReadString(b1), LAMBDA ks, b2 :
             Bind(ReadString(b2), LAMBDA name, b3 :
               Bind(ReadShort(b3), LAMBDA n, b4 :
                 Bind(Times(n, b4, LAMBDA b : Bind(ReadString(b), LAMBDA f, left :
                                                Bind(DeserType(left), LAMBDA t, end : Done(<<f, t>>, end)))),
                      LAMBDA fs, b5 :
                        Done(Udt(ks, name, [i \in DOMAIN fs |-> fs[i][1]], [i \in DOMAIN fs |-> fs[i][2]]), b5)))))
      [] id = 49 -> Bind(ReadShort(b1), LAMBDA n, b2 :
                      Bind(Times(n, b2, DeserType), LAMBDA ts, b3 : Done(Tuple(ts), b3)))
      [] OTHER -> Fail)

\* ColumnType::serialize; a vector is written as the class name that stands for it.
RECURSIVE SerType(_)
SerType(t) ==
  CASE t.kind = "native" -> WriteShort(TypeId[t.n])
    [] IsCollection(t) ->
         WriteShort([list |-> 32, map |-> 33, set |-> 34][t.kind]) \o Concat([i \in DOMAIN t.of |-> SerType(t.of[i])])
    [] t.kind = "udt" ->
         WriteShort(48) \o WriteShortBytes(t.ks) \o WriteShortBytes(t.name) \o WriteShort(Len(t.of))
           \o Concat([i \in DOMAIN t.of |-> WriteShortBytes(t.fields[i]) \o SerType(t.of[i])])
    [] t.kind = "tuple" -> WriteShort(49) \o WriteShort(Len(t.of)) \o Concat([i \in DOMAIN t.of |-> SerType(t.of[i])])
    [] t.kind = "vector" ->
         WriteShort(0) \o WriteShortBytes(CHOOSE n \in DOMAIN CustomNames : DoParse(CustomNames[n]).v = t)
=============================================================================
