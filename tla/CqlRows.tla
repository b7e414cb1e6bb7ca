------------------------------- MODULE CqlRows -------------------------------
(***************************************************************************)
(* Rows: the values that are bound to a statement (serialize/row.rs), the  *)
(* rows of a result and the two iterators over them (deserialize/row.rs,   *)
(* deserialize/result.rs), and the metadata that says what a row or a      *)
(* bound value is (frame/response/result.rs).                              *)
(*                                                                         *)
(* A column is its table, its name and its type; names are byte strings.   *)
(* A row of Rust values is positional (a tuple, a slice, a Vec, the unit)  *)
(* or by name (a map).                                                     *)
(***************************************************************************)
EXTENDS CqlValues, FiniteSets

CONSTANT MaxValues  \* u16::MAX, the most values that a statement may bind

Column(table, name, typ) == [table |-> table, name |-> name, typ |-> typ]

ByPosition(els) == [row |-> "position", els |-> els]
ByName(names, els) == [row |-> "name", names |-> names, els |-> els]
-----------------------------------------------------------------------------
(* Bound values *)

SerializedValues(bytes, count) == [bytes |-> bytes, count |-> count]

\* The cells of the values, one for each column; all or none of them.
SerializeColumns(els, cols) ==
  LET cell == [i \in DOMAIN cols |-> Serialize(els[i], cols[i].typ, TRUE)]
  IN IF \E i \in DOMAIN cell : ~ cell[i].ok THEN Fail
     ELSE Done(SerializedValues(Concat([i \in DOMAIN cell |-> cell[i].v]), Len(cell)), <<>>)

\* SerializeRow::serialize.  Columns may share a name; every value must be used.
SerializeRow(row, cols) ==
  IF row.row = "position" THEN (IF Len(cols) # Len(row.els) THEN Fail ELSE SerializeColumns(row.els, cols))
  ELSE LET named(i) == {j \in DOMAIN row.names : row.names[j] = cols[i].name}
       IN IF \/ \E i \in DOMAIN cols : named(i) = {}
             \/ \E j \in DOMAIN row.names : \A i \in DOMAIN cols : j \notin named(i)
          THEN Fail
          ELSE SerializeColumns([i \in DOMAIN cols |-> row.els[CHOOSE j \in named(i) : TRUE]], cols)

IsEmptyRow(row) == row.els = <<>>

FromSerializable(row, cols) ==
  Bind(SerializeRow(row, cols), LAMBDA sv, r : IF sv.count > MaxValues THEN Fail ELSE Done(sv, <<>>))

\* What the writer has appended when a value fails: the elements before the one
\* that is refused are written already.
Partly(v, t) ==
  IF v.is = "seq" /\ t.kind \in {"list", "set"} /\ v.els # <<>>
  THEN WriteInt(0) \o WriteInt(Len(v.els)) \o
         (LET first == Serialize(v.els[1], t.of[1], TRUE) IN IF first.ok THEN first.v ELSE <<>>)
  ELSE <<>>

\* SerializedValues::add_value: a value that is refused, or one too many, leaves
\* no trace.
AddValue(sv, v, t) ==
  LET cell == Serialize(v, t, TRUE)
  IN IF sv.count = MaxValues \/ ~ cell.ok THEN sv
     ELSE SerializedValues(sv.bytes \o cell.v, sv.count + 1)

\* SerializedValues::iter, which panics on a value that it cannot read.
RECURSIVE IterValues(_)
IterValues(bytes) ==
  IF bytes = <<>> THEN Done(<<>>, <<>>)
  ELSE LET first == ReadValue(bytes)
       IN IF ~ first.ok THEN Panics
          ELSE Bind(IterValues(first.rest), LAMBDA vs, r : Done(<<first.v>> \o vs, <<>>))

WriteToRequest(sv) == WriteShort(sv.count) \o sv.bytes

NewFromFrame(buf) ==
  Bind(ReadShort(buf), LAMBDA n, values :
    Bind(Times(n, values, ReadValue), LAMBDA vs, rest :
      Done(SerializedValues(SubSeq(values, 1, Len(values) - Len(rest)), n), rest)))
-----------------------------------------------------------------------------
(* Rows of a result *)

\* ColumnIterator: the cells of a row.
Cells_(cols, slice) == Times(Len(cols), slice, ReadCqlBytes)

\* The rows that are read: Row takes any columns, a tuple of shapes just its own.
AnyRow == [as |-> "row"]
TupleRow(shs) == [as |-> "tuple", shs |-> shs]

RowTypeCheck(target, cols) ==
  target.as = "tuple" =>
    Len(target.shs) = Len(cols) /\ \A i \in DOMAIN cols : TypeCheck(target.shs[i], cols[i].typ)

DeserializeRow(target, cols, slice) ==
  IF target.as = "tuple" /\ Len(target.shs) # Len(cols) THEN Panics
  ELSE NextCells([i \in DOMAIN cols |-> IF target.as = "row" THEN Optional(Cql) ELSE target.shs[i]],
                 [i \in DOMAIN cols |-> cols[i].typ], slice)

\* How far a row can be skipped from a slice: the column that cannot be read (or
\* one more than there are) and what is left there.
Skip(cols, slice) ==
  LET upTo[i \in 0 .. Len(cols)] ==
        IF i = 0 THEN [at |-> 1, rest |-> slice]
        ELSE LET before == upTo[i - 1]
                 cell == ReadCqlBytes(before.rest)
             IN IF before.at = i /\ cell.ok THEN [at |-> i + 1, rest |-> cell.rest] ELSE before
  IN upTo[Len(cols)]

Item(slice) == [row |-> slice]
Broken(column) == [column |-> column]

\* RawRowIterator::next: the columns are skipped one by one, and the iterator
\* stays at the one that cannot be read.
RECURSIVE RawRows(_, _, _)
RawRows(remaining, cols, slice) ==
  IF remaining = 0 THEN <<>>
  ELSE LET skipped == Skip(cols, slice)
       IN <<IF skipped.at > Len(cols) THEN Item(slice) ELSE Broken(skipped.at)>>
            \o RawRows(remaining - 1, cols, skipped.rest)

\* Mutant: the place is moved over whole rows only.
RECURSIVE LendingRowsByRow(_, _, _, _)
LendingRowsByRow(remaining, cols, frame, at) ==
  IF remaining = 0 THEN <<>>
  ELSE LET slice == Drop(frame, at)
           skipped == Skip(cols, slice)
           whole == skipped.at > Len(cols)
       IN <<IF whole THEN Item(slice) ELSE Broken(skipped.at)>>
            \o LendingRowsByRow(remaining - 1, cols, frame, IF whole THEN at + (Len(slice) - Len(skipped.rest)) ELSE at)

\* RawRowLendingIterator::next: it owns the frame, and remembers its place.
RECURSIVE LendingRows(_, _, _, _)
LendingRows(remaining, cols, frame, at) ==
  IF remaining = 0 THEN <<>>
  ELSE LET slice == Drop(frame, at)
           skipped == Skip(cols, slice)
       IN <<IF skipped.at > Len(cols) THEN Item(slice) ELSE Broken(skipped.at)>>
            \o LendingRows(remaining - 1, cols, frame, at + (Len(slice) - Len(skipped.rest)))

\* TypedRowIterator: a row that cannot be read is an error, and the next one is
\* read where it starts.
TypedRows(target, remaining, cols, slice) ==
  LET items == RawRows(remaining, cols, slice)
  IN IF ~ RowTypeCheck(target, cols) THEN Fail
     ELSE Done([i \in DOMAIN items |->
                  IF "row" \in DOMAIN items[i] THEN DeserializeRow(target, cols, items[i].row) ELSE Fail], <<>>)
-----------------------------------------------------------------------------
(* Metadata *)

Flag(flags, bit) == (flags \div 2^bit) % 2 = 1

DeserTableSpec(buf) == Then(Then(Start(buf), ReadString), ReadString)

NameAndType(buf) == Then(Then(Start(buf), ReadString), DeserType)

\* A global table spec stands for the one of every column.
DeserColSpecs(buf, global, count) ==
  Times(count, buf, LAMBDA b :
    Bind(IF global # None_ THEN Done(global[1], b) ELSE DeserTableSpec(b), LAMBDA table, b1 :
      Bind(NameAndType(b1), LAMBDA f, left : Done(Column(table, f[1], f[2]), left))))

GlobalThenColumns(global, count, buf) ==
  Bind(ReadIf(global, buf, DeserTableSpec), LAMBDA table, rest : DeserColSpecs(rest, table, count))

\* The flags, the number of columns and the paging state, with which the
\* metadata of a result starts.
ResultHeader(buf) ==
  Bind(Then(Then(Start(buf), ReadInt), ReadIntLength), LAMBDA f, b2 :
    Bind(ReadIf(Flag(f[1], 1), b2, ReadBytes), LAMBDA paging, rest :
      Done([global |-> Flag(f[1], 0), skipped |-> Flag(f[1], 2), count |-> f[2], paging |-> paging], rest)))

DeserResultMetadata(buf) ==
  Bind(ResultHeader(buf), LAMBDA h, rest :
    Bind(IF h.skipped THEN Done(<<>>, rest) ELSE GlobalThenColumns(h.global, h.count, rest),
         LAMBDA cols, left : Done([cols |-> cols, paging |-> h.paging], left)))

\* deser_rows and deserialize_metadata: cached metadata stands in only for
\* metadata that the server did not send.
DeserRows(buf, cached) ==
  Bind(ResultHeader(buf), LAMBDA h, rest :
    Bind(IF ~ h.skipped THEN GlobalThenColumns(h.global, h.count, rest)
         ELSE Done(IF cached # None_ THEN cached[1] ELSE <<>>, rest), LAMBDA cols, b :
      Bind(ReadIntLength(b), LAMBDA n, rows :
        Done([cols |-> cols, paging |-> h.paging, count |-> n, rows |-> rows], <<>>))))

\* The partition key indexes, sorted by the index of the bind marker.
SortedByIndex(pks) ==
  LET before(p, q) == p.index < q.index \/ (p.index = q.index /\ p.sequence < q.sequence)
      place(p) == 1 + Cardinality({q \in {pks[i] : i \in DOMAIN pks} : before(q, p)})
  IN [n \in DOMAIN pks |-> CHOOSE p \in {pks[i] : i \in DOMAIN pks} : place(p) = n]

DeserPreparedMetadata(buf) ==
  Bind(Then(Then(Then(Start(buf), ReadInt), ReadIntLength), ReadIntLength), LAMBDA f, b3 :
    Bind(Times(f[3], b3, ReadShort), LAMBDA indexes, b4 :
      Bind(GlobalThenColumns(Flag(f[1], 0), f[2], b4), LAMBDA cols, rest :
        Done([pks |-> SortedByIndex([i \in DOMAIN indexes |-> [index |-> indexes[i], sequence |-> i - 1]]),
              cols |-> cols], rest))))

\* The id is sliced out without a look at what is there.
DeserPrepared(buf) ==
  Bind(ReadShort(buf), LAMBDA n, b1 :
    IF Len(b1) < n THEN Panics
    ELSE Bind(Then(Then(Start(Drop(b1, n)), DeserPreparedMetadata), DeserResultMetadata), LAMBDA f, rest :
           IF f[2].paging # None_ THEN Fail
           ELSE Done([id |-> SubSeq(b1, 1, n), prepared |-> f[1], result |-> f[2].cols], rest)))
-----------------------------------------------------------------------------
(* What the server writes, as the test utilities do *)

SerTableSpec(table) == WriteShortBytes(table[1]) \o WriteShortBytes(table[2])

SerColumns(cols, global) ==
  (IF global /\ cols # <<>> THEN SerTableSpec(cols[1].table) ELSE <<>>) \o
  Concat([i \in DOMAIN cols |-> (IF global THEN <<>> ELSE SerTableSpec(cols[i].table))
                                   \o WriteShortBytes(cols[i].name) \o SerType(cols[i].typ)])

SerFlags(global, paging, skipped) ==
  (IF global THEN 1 ELSE 0) + (IF paging # None_ THEN 2 ELSE 0) + (IF skipped THEN 4 ELSE 0)

SerResultMetadata(cols, global, paging, skipped) ==
  LET g == global /\ cols # <<>>
  IN WriteInt(SerFlags(g, paging, skipped)) \o WriteInt(Len(cols))
       \o (IF paging # None_ THEN WriteBytes(paging[1]) ELSE <<>>)
       \o (IF skipped THEN <<>> ELSE SerColumns(cols, g))
=============================================================================
