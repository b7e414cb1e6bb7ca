------------------------------ MODULE CqlValues ------------------------------
(***************************************************************************)
(* Values: how they are written into cells (serialize/value.rs) and read   *)
(* from them (deserialize/value.rs and deser_cql_value); and the value     *)
(* types with a comparison or a conversion of their own (value.rs).        *)
(*                                                                         *)
(* A value is a record that says what Rust type it has: a native value (n  *)
(* names the type, x is its content: the number of an Int, the bytes of a  *)
(* Text or a Uuid, the scale and the bytes of a Decimal), the empty value, *)
(* a sequence (Vec, and the lists, sets and vectors of CqlValue), a map, a *)
(* Rust tuple, a tuple or a user-defined type of CqlValue, and the two     *)
(* that are not values: null (None) and unset.                             *)
(***************************************************************************)
EXTENDS CqlWire

\* The numbers of days and of nanoseconds do not fit TLC's integers.
CONSTANTS EpochDay,         \* the epoch's day, 2^31 in the code
          NanosPerSecond,   \* the nanoseconds of a second, 10^9 in the code
          DateRange         \* the days since the epoch that a NaiveDate can be

Nat_(n, x) == [is |-> "native", n |-> n, x |-> x]
Empty == [is |-> "empty"]
Null == [is |-> "null"]
Unset == [is |-> "unset"]
Seq_(els) == [is |-> "seq", els |-> els]
Pairs(els) == [is |-> "map", els |-> els]
RustTuple(els) == [is |-> "rust tuple", els |-> els]
DynTuple(els) == [is |-> "tuple", els |-> els]
DynUdt(ks, name, fields, els) == [is |-> "udt", ks |-> ks, name |-> name, fields |-> fields, els |-> els]

\* i64 from i32, and back: i32::try_from.
Extend(v) == (IF v < 0 THEN <<255, 255, 255, 255>> ELSE <<0, 0, 0, 0>>) \o WriteInt(v)
FitsI32(w) == w = Extend(IntOf(SubSeq(w, 5, 8)))

\* 86399999999999, the last nanosecond of a day; words compare byte by byte.
LastNanosecond == <<0, 0, 78, 148, 145, 78, 255, 255>>
WordLeq(a, b) == a = b \/ \E i \in 1 .. Word : a[i] < b[i] /\ \A j \in 1 .. i - 1 : a[j] = b[j]
-----------------------------------------------------------------------------
(* Native values *)

\* The types a native value is accepted for.
AcceptedFor(n) == IF n \in {"Ascii", "Text"} THEN {"Ascii", "Text"} ELSE {n}

NativeBytes(v) ==
  CASE v.n = "Int" -> WriteInt(v.x[1])
    [] v.n = "Decimal" -> WriteInt(v.x[1]) \o Tail(v.x)
    [] v.n = "Duration" -> VintEncode(Extend(v.x[1])) \o VintEncode(Extend(v.x[2])) \o VintEncode(Drop(v.x, 2))
    [] OTHER -> v.x

FixedLength ==
  [Boolean |-> 1, TinyInt |-> 1, SmallInt |-> 2, Int |-> 4, Float |-> 4, Date |-> 4, BigInt |-> 8, Counter |-> 8,
   Double |-> 8, Timestamp |-> 8, Time |-> 8, Uuid |-> 16, Timeuuid |-> 16]

ReadDuration(b) ==
  Bind(VintDecode(b), LAMBDA months, b1 :
    IF ~ FitsI32(months) THEN Fail
    ELSE Bind(VintDecode(b1), LAMBDA days, b2 :
           IF ~ FitsI32(days) THEN Fail
           ELSE Bind(VintDecode(b2), LAMBDA nanoseconds, rest :
                  Done(<<IntOf(Drop(months, 4)), IntOf(Drop(days, 4))>> \o nanoseconds, rest))))

\* The content of a native value of type n that has these bytes.
NativeContent(n, b) ==
  CASE n \in DOMAIN FixedLength /\ Len(b) # FixedLength[n] -> Fail
    [] n = "Boolean" -> Done(<<IF b[1] = 0 THEN 0 ELSE 1>>, <<>>)
    [] n = "Int" -> Done(<<IntOf(b)>>, <<>>)
    [] n = "Time" -> IF ~ IsNegative(b) /\ WordLeq(b, LastNanosecond) THEN Done(b, <<>>) ELSE Fail
    [] n = "Inet" -> IF Len(b) \in {4, 16} THEN Done(b, <<>>) ELSE Fail
    [] n = "Decimal" -> Bind(ReadInt(b), LAMBDA scale, rest : Done(<<scale>> \o rest, <<>>))
    [] n = "Duration" -> ReadDuration(b)
    [] n = "Text" -> IF IsUtf8(b) THEN Done(b, <<>>) ELSE Fail
    [] n = "Ascii" -> IF \A i \in DOMAIN b : b[i] < 128 THEN Done(b, <<>>) ELSE Fail
    [] OTHER -> Done(b, <<>>)
-----------------------------------------------------------------------------
(* Writing *)

RECURSIVE Serialize(_, _, _)

\* The cells of the elements of a sequence, each of its type, or the failure of one of them.
Cells(els, types, sized) ==
  LET cell == [i \in DOMAIN els |-> Serialize(els[i], types[i], sized)]
  IN IF \E i \in DOMAIN els : ~ cell[i].ok THEN Fail ELSE Done([i \in DOMAIN els |-> cell[i].v], <<>>)

SerializeSequence(els, t, sized) ==
  Bind(Cells(els, [i \in DOMAIN els |-> t.of[1]], TRUE), LAMBDA cells, r :
    Done(SetValue(WriteInt(Len(els)) \o Concat(cells), sized), <<>>))

\* An element of variable length is written to a buffer of its own, to know its length.
SerializeVector(els, t, sized) ==
  IF Len(els) # t.dim THEN Fail
  ELSE Bind(Cells(els, [i \in DOMAIN els |-> t.of[1]], FALSE), LAMBDA cells, r :
         LET lengthed(c) == UnsignedVintEncode(WordOf(Len(c))) \o c
             body == IF TypeSize(t.of[1]) # None_ THEN cells ELSE [i \in DOMAIN cells |-> lengthed(cells[i])]
         IN Done(SetValue(Concat(body), sized), <<>>))

SerializeMapping(els, t, sized) ==
  Bind(Cells(Concat(els), [i \in 1 .. 2 * Len(els) |-> IF i % 2 = 1 THEN t.of[1] ELSE t.of[2]], TRUE), LAMBDA cells, r :
    Done(SetValue(WriteInt(Len(els)) \o Concat(cells), sized), <<>>))

SerializeTupleLike(els, t, sized) ==
  Bind(Cells(els, t.of, TRUE), LAMBDA cells, r : Done(SetValue(Concat(cells), sized), <<>>))

\* The value of a field of the type: null when the value has no such field.
FieldOf(v, name) ==
  IF \E j \in DOMAIN v.fields : v.fields[j] = name
  THEN v.els[CHOOSE j \in DOMAIN v.fields : v.fields[j] = name /\ \A k \in DOMAIN v.fields : v.fields[k] = name => k <= j]
  ELSE Null

\* Fields of the type that the value lacks are null; fields that the type lacks
\* are an error, once the others are written.
SerializeUdt(v, t, sized) ==
  IF v.ks # t.ks \/ v.name # t.name THEN Fail
  ELSE Bind(Cells([i \in DOMAIN t.fields |-> FieldOf(v, t.fields[i])], t.of, TRUE), LAMBDA cells, r :
         IF \E j \in DOMAIN v.fields : \A i \in DOMAIN t.fields : t.fields[i] # v.fields[j] THEN Fail
         ELSE Done(SetValue(Concat(cells), sized), <<>>))

\* SerializeValue::serialize of the Rust type that the value has.
Serialize(v, t, sized) ==
  CASE v = Null -> Done(SetNull, <<>>)
    [] v = Unset -> Done(SetUnset, <<>>)
    [] v = Empty -> IF SupportsSpecialEmptyValue(t) THEN Done(SetValue(<<>>, sized), <<>>) ELSE Fail
    [] v.is = "native" ->
         IF t.kind = "native" /\ t.n \in AcceptedFor(v.n) THEN Done(SetValue(NativeBytes(v), sized), <<>>) ELSE Fail
    [] v.is = "seq" /\ t.kind \in {"list", "set"} /\ ~ t.frozen -> SerializeSequence(v.els, t, sized)
    [] v.is = "seq" /\ t.kind = "vector" -> SerializeVector(v.els, t, sized)
    [] v.is = "map" /\ t.kind = "map" /\ ~ t.frozen -> SerializeMapping(v.els, t, sized)
    [] v.is = "rust tuple" /\ t.kind = "tuple" /\ Len(t.of) = Len(v.els) -> SerializeTupleLike(v.els, t, sized)
    [] v.is = "tuple" /\ t.kind = "tuple" /\ Len(t.of) >= Len(v.els) -> SerializeTupleLike(v.els, t, sized)
    [] v.is = "udt" /\ t.kind = "udt" -> SerializeUdt(v, t, sized)
    [] OTHER -> Fail
-----------------------------------------------------------------------------
(* Reading.  A shape is the Rust type that is read. *)

Cql == [s |-> "cql"]
Exact(n) == [s |-> "exact", n |-> n]
Optional(sh) == [s |-> "option", of |-> <<sh>>]
MaybeEmpty(sh) == [s |-> "maybe empty", of |-> <<sh>>]
VecOf(sh) == [s |-> "vec", of |-> <<sh>>]
SetOf(sh) == [s |-> "set", of |-> <<sh>>]
MapOf(k, v) == [s |-> "map", of |-> <<k, v>>]
TupleOf(shs) == [s |-> "tuple", of |-> shs]

RECURSIVE TypeCheck(_, _)

\* What ListlikeIterator::type_check matches.
IsListlike(t) == t.kind \in {"list", "set"} /\ ~ t.frozen

\* ensure_tuple_type
IsTupleOf(t, n) == t.kind = "tuple" /\ Len(t.of) = n

\* DeserializeValue::type_check
TypeCheck(sh, t) ==
  CASE sh.s = "cql" -> TRUE
    [] sh.s = "exact" -> t.kind = "native" /\ t.n \in AcceptedFor(sh.n)
    [] sh.s \in {"option", "maybe empty"} -> TypeCheck(sh.of[1], t)
    [] sh.s = "vec" -> (IsListlike(t) \/ t.kind = "vector") /\ TypeCheck(sh.of[1], t.of[1])
    [] sh.s = "set" -> t.kind = "set" /\ IsListlike(t) /\ TypeCheck(sh.of[1], t.of[1])
    [] sh.s = "map" -> t.kind = "map" /\ ~ t.frozen /\ TypeCheck(sh.of[1], t.of[1]) /\ TypeCheck(sh.of[2], t.of[2])
    [] sh.s = "tuple" -> IsTupleOf(t, Len(sh.of)) /\ \A i \in DOMAIN sh.of : TypeCheck(sh.of[i], t.of[i])

RECURSIVE Deserialize(_, _, _)
RECURSIVE DeserCqlValue(_, _)

\* The next cell, and the value in it.
NextCell(sh, t, slice) ==
  Bind(ReadCqlBytes(slice), LAMBDA o, rest : Bind(Deserialize(sh, t, o), LAMBDA v, r : Done(v, rest)))

\* One cell for each of the shapes.
NextCells(shs, types, slice) ==
  LET upTo[i \in 0 .. Len(shs)] ==
        IF i = 0 THEN Done(<<>>, slice)
        ELSE Bind(upTo[i - 1], LAMBDA vs, rest :
               Bind(NextCell(shs[i], types[i], rest), LAMBDA v, left : Done(Append(vs, v), left)))
  IN upTo[Len(shs)]

Listlike(sh, t, o) ==
  IF t.kind \notin {"list", "set"} \/ t.frozen THEN Panics
  ELSE IF o = None_ THEN Done(<<>>, <<>>)
  ELSE Bind(ReadIntLength(o[1]), LAMBDA n, rest : Times(n, rest, LAMBDA b : NextCell(sh, t.of[1], b)))

MapEntries(k, v, t, o) ==
  IF t.kind # "map" \/ t.frozen THEN Panics
  ELSE IF o = None_ THEN Done(<<>>, <<>>)
  ELSE Bind(ReadIntLength(o[1]), LAMBDA n, rest :
         Times(n, rest, LAMBDA b : NextCells(<<k, v>>, t.of, b)))

\* The elements of a vector have no size before them, or a variable-length one.
VectorElement(sh, t, slice) ==
  LET size == IF TypeSize(t) # None_ THEN Done(TypeSize(t)[1], slice)
              ELSE Bind(UnsignedVintDecode(slice), LAMBDA w, rest : Done(NatOf(w), rest))
  IN Bind(size, LAMBDA n, rest :
       Bind(ReadNBytes(n, rest), LAMBDA o, left :
         Bind(Deserialize(sh, t, o), LAMBDA v, r : Done(v, left))))

VectorElements(sh, t, o) ==
  IF t.kind # "vector" THEN Panics
  ELSE IF o = None_ THEN Fail
  ELSE Times(t.dim, o[1], LAMBDA b : VectorElement(sh, t.of[1], b))

\* UdtIterator: the cell of each field of the type; what is missing at the end
\* is missing, and what is left over is ignored.
UdtCells(t, slice) ==
  Times(Len(t.of), slice, LAMBDA b :
    IF b = <<>> THEN Done(None_, b) ELSE Bind(ReadCqlBytes(b), LAMBDA o, rest : Done(Some(o), rest)))

Flatten(o) == IF o = None_ THEN None_ ELSE o[1]

UdtValue(t, slice) ==
  Bind(UdtCells(t, slice), LAMBDA cells, rest :
    LET field == [i \in DOMAIN cells |-> Deserialize(Optional(Cql), t.of[i], Flatten(cells[i]))]
    IN IF \E i \in DOMAIN field : ~ field[i].ok THEN Fail
       ELSE Done(DynUdt(t.ks, t.name, t.fields, [i \in DOMAIN field |-> field[i].v]), <<>>))

\* A cell of no bytes is the empty value, but for the texts and blobs.
NoBytesMeanEmpty(t) == ~ (t.kind = "native" /\ t.n \in {"Ascii", "Blob", "Text"})

DeserCqlValue(t, b) ==
  CASE b = <<>> /\ NoBytesMeanEmpty(t) -> Done(Empty, <<>>)
    [] t.kind = "native" -> Bind(NativeContent(t.n, b), LAMBDA x, r : Done(Nat_(t.n, x), <<>>))
    [] t.kind \in {"list", "set"} -> Bind(Listlike(Cql, t, Some(b)), LAMBDA els, r : Done(Seq_(els), <<>>))
    [] t.kind = "map" -> Bind(MapEntries(Cql, Cql, t, Some(b)), LAMBDA els, r : Done(Pairs(els), <<>>))
    [] t.kind = "vector" -> Bind(VectorElements(Cql, t, Some(b)), LAMBDA els, r : Done(Seq_(els), <<>>))
    [] t.kind = "udt" -> UdtValue(t, b)
    [] t.kind = "tuple" ->
         Bind(NextCells([i \in DOMAIN t.of |-> Optional(Cql)], t.of, b), LAMBDA els, r : Done(DynTuple(els), <<>>))

\* DeserializeValue::deserialize: o is the cell, None_ when it is null.  What a
\* set or a map makes of repeated elements is left to the collection.
Deserialize(sh, t, o) ==
  CASE sh.s = "option" -> IF o = None_ THEN Done(Null, <<>>) ELSE Deserialize(sh.of[1], t, o)
    [] sh.s \in {"vec", "set"} /\ t.kind \in {"list", "set"} -> Bind(Listlike(sh.of[1], t, o), LAMBDA els, r : Done(Seq_(els), <<>>))
    [] sh.s = "map" -> Bind(MapEntries(sh.of[1], sh.of[2], t, o), LAMBDA els, r : Done(Pairs(els), <<>>))
    [] sh.s = "tuple" /\ ~ IsTupleOf(t, Len(sh.of)) -> Panics
    [] sh.s = "vec" /\ t.kind # "vector" -> Panics
    [] o = None_ -> Fail
    [] sh.s = "cql" -> DeserCqlValue(t, o[1])
    [] sh.s = "exact" -> Bind(NativeContent(t.n, o[1]), LAMBDA x, r : Done(Nat_(t.n, x), <<>>))
    [] sh.s = "maybe empty" -> IF o[1] = <<>> THEN Done(Empty, <<>>) ELSE Deserialize(sh.of[1], t, o)
    [] sh.s = "vec" -> Bind(VectorElements(sh.of[1], t, o), LAMBDA els, r : Done(Seq_(els), <<>>))
    [] sh.s = "set" -> Panics
    [] sh.s = "tuple" -> Bind(NextCells(sh.of, t.of, o[1]), LAMBDA els, r : Done(DynTuple(els), <<>>))
-----------------------------------------------------------------------------
(***************************************************************************)
(* The value types of value.rs that are more than their bytes: how varints *)
(* and timeuuids are compared, and how dates, times and timestamps are     *)
(* converted from and to the types of the chrono and time crates.          *)
(***************************************************************************)

Overflow == <<>>
Fits(v) == <<v>>

\* Division and remainder of Rust, which round towards zero.
Quot(a, b) == IF a >= 0 THEN a \div b ELSE -((-a) \div b)
Rem(a, b) == a - b * Quot(a, b)
-----------------------------------------------------------------------------
(* Varints *)

ZerosToRemove(digits, nonZero) ==
  IF nonZero > 1 /\ digits[nonZero] > 127 THEN nonZero - 2 ELSE nonZero - 1

\* as_normalized_slice: leading zeros are taken away, leading ones are not.
Normalized(digits) ==
  IF \A i \in DOMAIN digits : digits[i] = 0 THEN <<0>>
  ELSE LET nonZero == CHOOSE i \in DOMAIN digits : digits[i] # 0 /\ \A j \in 1 .. i - 1 : digits[j] = 0
       IN SubSeq(digits, ZerosToRemove(digits, nonZero) + 1, Len(digits))

VarintEq(a, b) == Normalized(a) = Normalized(b)

\* BigInt::from_signed_bytes_be: the number that the bytes are.
BigInt(digits) ==
  LET upTo[i \in 0 .. Len(digits)] ==
        IF i = 0 THEN 0
        ELSE upTo[i - 1] * 256 + (IF i = 1 /\ digits[1] > 127 THEN digits[1] - 256 ELSE digits[i])
  IN upTo[Len(digits)]

\* Leading bytes that a negative number does not need.
HasLeadingOnes(digits) == Len(digits) > 1 /\ digits[1] = 255 /\ digits[2] > 127
-----------------------------------------------------------------------------
(* Timeuuids: sixteen bytes *)

\* The time, without the version.
Msb(u) == <<u[7] % 16, u[8], u[5], u[6], u[1], u[2], u[3], u[4]>>

\* The rest, byte for byte with the sign bit flipped.
LsbSigned(u) == [i \in 1 .. 8 |-> IF u[i + 8] > 127 THEN u[i + 8] - 128 ELSE u[i + 8] + 128]

LessThan(a, b) ==
  \E i \in DOMAIN a : a[i] < b[i] /\ \A j \in 1 .. i - 1 : a[j] = b[j]

\* Ord and PartialEq of CqlTimeuuid
TimeuuidLess(u, v) == LessThan(Msb(u), Msb(v)) \/ (Msb(u) = Msb(v) /\ LessThan(LsbSigned(u), LsbSigned(v)))
TimeuuidEq(u, v) == Msb(u) = Msb(v) /\ LsbSigned(u) = LsbSigned(v)
-----------------------------------------------------------------------------
(* Dates: days with the epoch in the middle.  A date of a crate is its number *)
(* of days since the epoch. *)

Days == 0 .. 2 * EpochDay - 1

DateFrom(date) == (EpochDay + date) % (2 * EpochDay)

\* try_to_chrono_04_naive_date, and the one of time-03
DateInto(days) == IF days - EpochDay \in DateRange THEN Fits(days - EpochDay) ELSE Overflow
-----------------------------------------------------------------------------
(* Times: nanoseconds since midnight *)

SecondsPerDay == 86400
LastNano == SecondsPerDay * NanosPerSecond - 1

\* NaiveTime of chrono, with the nanoseconds of a leap second after the others.
ChronoTime(secs, nanos) == [secs |-> secs, nanos |-> nanos]
SinceMidnight(time) == time.secs * NanosPerSecond + time.nanos

TimeFromChrono(time) == IF SinceMidnight(time) <= LastNano THEN Fits(SinceMidnight(time)) ELSE Overflow

TimeIntoChrono(t) ==
  IF Quot(t, NanosPerSecond) < 0 \/ Rem(t, NanosPerSecond) < 0 \/ Quot(t, NanosPerSecond) >= SecondsPerDay THEN Overflow
  ELSE Fits(ChronoTime(Quot(t, NanosPerSecond), Rem(t, NanosPerSecond)))

\* Time of time-03
TimeFromHms(h, m, s, n) == (h * 3600 + m * 60 + s) * NanosPerSecond + n

\* Minutes, seconds and nanoseconds are cast to unsigned integers, which a
\* negative number makes too large; the hours are converted with a check.
TimeIntoHms(t) ==
  LET seconds == Quot(t, NanosPerSecond)
      h == Quot(seconds, 3600)
      m == Rem(Quot(seconds, 60), 60) % 256
      s == Rem(seconds, 60) % 256
      n == Rem(t, NanosPerSecond)
  IN IF h \notin 0 .. 23 \/ m > 59 \/ s > 59 \/ n < 0 THEN Overflow ELSE Fits([h |-> h, m |-> m, s |-> s, n |-> n])
-----------------------------------------------------------------------------
(* Timestamps: milliseconds since the epoch.  A moment of a crate is its      *)
(* nanoseconds since the epoch, here NanosPerSecond \div 10 to the            *)
(* "millisecond" of a tenth of a second. *)

NanosPerMilli == NanosPerSecond \div 10

\* The seconds before the moment and the milliseconds since then.
TimestampFrom(nanos) == (nanos \div NanosPerSecond) * 10 + (nanos % NanosPerSecond) \div NanosPerMilli

TimestampInto(millis) == millis * NanosPerMilli
=============================================================================
