------------------------------ MODULE CqlDerive ------------------------------
(***************************************************************************)
(* The code that the derive macros generate (scylla-macros): a struct is   *)
(* written as a user-defined type and read from one, and a struct is bound *)
(* as the values of a statement and read from a row of a result, its       *)
(* fields matched by name or in order.                                     *)
(*                                                                         *)
(* A struct is its attributes and its fields.  Fields with the attribute   *)
(* `skip` are not written at all, and are read as defaults.  The fields of *)
(* a flattened field are those of a struct of its own, in `inner`.         *)
(***************************************************************************)
EXTENDS CqlRows

DerivedField(name, sh, attrs) == [name |-> name, sh |-> sh, attrs |-> attrs, inner |-> <<>>]
FlattenedField(name, s) == [name |-> name, sh |-> Cql, attrs |-> {"flatten"}, inner |-> <<s>>]
Derived(attrs, fields) == [attrs |-> attrs, fields |-> fields]

Has(x, attr) == attr \in x.attrs

\* A field that was given no value.
Default == [is |-> "default"]

NamesOf(fields) == {fields[j].name : j \in DOMAIN fields}
FieldNamed(fields, name) == CHOOSE j \in DOMAIN fields : fields[j].name = name

Kept(s) == SelectSeq(s.fields, LAMBDA f : ~ Has(f, "skip"))
IsRequired(f) == ~ Has(f, "skip") /\ ~ Has(f, "allow_missing")

\* What the macros accept, of the attributes and the names of the fields.
Validate(s) ==
  LET kept == Kept(s)
  IN /\ \A i, j \in DOMAIN kept : kept[i].name = kept[j].name => i = j
     /\ Has(s, "skip_name_checks") =>
          /\ Has(s, "enforce_order")
          /\ \A i, j \in DOMAIN kept : i < j /\ Has(kept[i], "allow_missing") => ~ IsRequired(kept[j])
-----------------------------------------------------------------------------
(* SerializeValue: a struct as a user-defined type.  vals has a value for   *)
(* each of the fields that are kept.                                        *)

\* The cells of a value, or none when one of them is refused.
CellsOrFail(cells) ==
  IF \E i \in DOMAIN cells : ~ cells[i].ok THEN Fail
  ELSE Done(SetValue(Concat([i \in DOMAIN cells |-> cells[i].v]), TRUE), <<>>)

\* The check at the end of FieldSortingGenerator: the flags of the fields that
\* may not be missing are taken along with the attributes of all fields, the
\* first with the first, the second with the second.
ReportsMissing(kept, visited) ==
  LET nonignorable == SelectSeq(kept, LAMBDA f : ~ Has(f, "allow_missing"))
  IN \E i \in DOMAIN nonignorable : nonignorable[i].name \notin visited /\ ~ Has(kept[i], "allow_missing")

\* What is written for a field of the type that the struct does not have.
UnknownField == Done(SetNull, <<>>)

\* The fields of the type in its order; nulls stand for the fields that the
\* struct does not have, but for those at the end.
SerializeByName(s, vals, t) ==
  LET kept == Kept(s)
      known == {i \in DOMAIN t.of : t.fields[i] \in NamesOf(kept)}
      last == IF known = {} THEN 0 ELSE CHOOSE i \in known : \A j \in known : j <= i
      cell == [i \in 1 .. last |->
                 IF i \in known THEN Serialize(vals[FieldNamed(kept, t.fields[i])], t.of[i], TRUE) ELSE UnknownField]
  IN IF \/ Has(s, "forbid_excess_udt_fields") /\ known # DOMAIN t.of
        \/ ReportsMissing(kept, {t.fields[i] : i \in known})
     THEN Fail ELSE CellsOrFail(cell)

\* FieldOrderedGenerator: the fields of the struct, each with the next field of
\* the type; one that may be missing is passed over.
SerializeInOrder(s, vals, t) ==
  LET kept == Kept(s)
      upTo[j \in 0 .. Len(kept)] ==
        IF j = 0 THEN Done([next |-> 1, cells |-> <<>>], <<>>)
        ELSE Bind(upTo[j - 1], LAMBDA at, r :
               IF at.next <= Len(t.of) /\ (Has(s, "skip_name_checks") \/ t.fields[at.next] = kept[j].name)
               THEN Done([next |-> at.next + 1, cells |-> Append(at.cells, Serialize(vals[j], t.of[at.next], TRUE))], <<>>)
               ELSE IF Has(kept[j], "allow_missing") THEN Done(at, <<>>)
               ELSE Fail)
  IN Bind(upTo[Len(kept)], LAMBDA at, r :
       IF Has(s, "forbid_excess_udt_fields") /\ at.next <= Len(t.of) THEN Fail ELSE CellsOrFail(at.cells))

SerializeStruct(s, vals, t) ==
  IF t.kind # "udt" THEN Fail
  ELSE IF Has(s, "enforce_order") THEN SerializeInOrder(s, vals, t) ELSE SerializeByName(s, vals, t)
-----------------------------------------------------------------------------
(* DeserializeValue: a struct from a user-defined type *)

MayBeMissing(s, f) == Has(s, "allow_missing") \/ Has(f, "allow_missing")

\* TypeCheckAssumeOrderGenerator: a field of the type that has another name is
\* kept for the next field of the struct.
TypeCheckInOrder(s, t) ==
  LET kept == Kept(s)
      upTo[j \in 0 .. Len(kept)] ==
        IF j = 0 THEN Done(1, <<>>)
        ELSE Bind(upTo[j - 1], LAMBDA next, r :
               IF next > Len(t.of) THEN (IF MayBeMissing(s, kept[j]) THEN Done(next, <<>>) ELSE Fail)
               ELSE IF Has(s, "skip_name_checks") \/ t.fields[next] = kept[j].name
               THEN (IF TypeCheck(kept[j].sh, t.of[next]) THEN Done(next + 1, <<>>) ELSE Fail)
               ELSE IF MayBeMissing(s, kept[j]) THEN Done(next, <<>>) ELSE Fail)
  IN /\ Len(t.of) >= Len(SelectSeq(s.fields, IsRequired))
     /\ upTo[Len(kept)].ok
     /\ Has(s, "forbid_excess_udt_fields") => upTo[Len(kept)].v > Len(t.of)

TypeCheckByName(s, t) ==
  LET kept == Kept(s)
  IN /\ \A i \in DOMAIN t.of :
          IF t.fields[i] \in NamesOf(kept)
          THEN /\ TypeCheck(kept[FieldNamed(kept, t.fields[i])].sh, t.of[i])
               /\ \A l \in DOMAIN t.of : t.fields[l] = t.fields[i] => l = i
          ELSE ~ Has(s, "forbid_excess_udt_fields")
     /\ \A j \in DOMAIN kept : ~ MayBeMissing(s, kept[j]) => \E i \in DOMAIN t.of : t.fields[i] = kept[j].name

TypeCheckStruct(s, t) ==
  /\ t.kind = "udt"
  /\ IF Has(s, "enforce_order") THEN TypeCheckInOrder(s, t) ELSE TypeCheckByName(s, t)

\* A field of the struct from the cell of a field of the type.
FieldValue(f, typ, o) ==
  IF Has(f, "default_when_null") /\ o = None_ THEN Done(Default, <<>>) ELSE Deserialize(f.sh, typ, o)

\* DeserializeAssumeOrderGenerator: here only the attribute of the field itself
\* lets it be missing.  The cells of the type are read as they are needed.
DeserializeInOrder(s, t, slice) ==
  LET Next_(at) == IF at.saved # None_ THEN Done(at.saved[1], <<>>)
                   ELSE IF at.rest = <<>> THEN Done(None_, <<>>)
                   ELSE ReadCqlBytes(at.rest)
      upTo[j \in 0 .. Len(s.fields)] ==
        IF j = 0 THEN Done([next |-> 1, rest |-> slice, saved |-> None_, vals |-> <<>>], <<>>)
        ELSE Bind(upTo[j - 1], LAMBDA at, r :
               LET f == s.fields[j]
                   Defaulted(a) == Done([a EXCEPT !.vals = Append(@, Default)], <<>>)
               IN IF Has(f, "skip") THEN Defaulted(at)
                  ELSE IF at.next > Len(t.of) THEN (IF Has(f, "allow_missing") THEN Defaulted(at) ELSE Panics)
                  ELSE Bind(Next_(at), LAMBDA o, left :
                    LET rest == IF at.saved # None_ THEN at.rest ELSE left
                    IN IF Has(s, "skip_name_checks") \/ t.fields[at.next] = f.name
                       THEN Bind(FieldValue(f, t.of[at.next], o), LAMBDA v, e :
                              Done([next |-> at.next + 1, rest |-> rest, saved |-> None_, vals |-> Append(at.vals, v)], <<>>))
                       ELSE IF Has(f, "allow_missing") THEN Defaulted([at EXCEPT !.rest = rest, !.saved = Some(o)])
                       ELSE Panics))
  IN Bind(upTo[Len(s.fields)], LAMBDA at, r : Done(at.vals, <<>>))

\* The values of the fields that are found in `places`, each read from its cell;
\* the fields are read before one that is not found is a default, or a panic.
FinishByName(s, places, types, cells) ==
  LET read == [j \in DOMAIN s.fields |->
                 IF Has(s.fields[j], "skip") \/ places[j] = {} THEN Done(Default, <<>>)
                 ELSE LET i == CHOOSE k \in places[j] : TRUE IN FieldValue(s.fields[j], types[i], cells[i])]
      failed == {j \in DOMAIN read : ~ read[j].ok}
  IN IF failed # {} THEN read[CHOOSE j \in failed : TRUE]
     ELSE IF \E j \in DOMAIN s.fields : ~ Has(s.fields[j], "skip") /\ places[j] = {} /\ ~ MayBeMissing(s, s.fields[j])
     THEN Panics
     ELSE Done([j \in DOMAIN read |-> read[j].v], <<>>)

DeserializeByName(s, t, slice) ==
  LET places == [j \in DOMAIN s.fields |-> {i \in DOMAIN t.of : t.fields[i] = s.fields[j].name}]
  IN Bind(UdtCells(t, slice), LAMBDA cells, rest :
       FinishByName(s, places, t.of, [i \in DOMAIN cells |-> Flatten(cells[i])]))

DeserializeStruct(s, t, o) ==
  IF o = None_ THEN Fail
  ELSE IF t.kind # "udt" THEN Panics
  ELSE IF Has(s, "enforce_order") THEN DeserializeInOrder(s, t, o[1]) ELSE DeserializeByName(s, t, o[1])
-----------------------------------------------------------------------------
(* SerializeRow: a struct as the bound values of a statement *)

\* What a struct that is bound by name has had columns for.
RECURSIVE Partial(_)
Partial(s) ==
  [visited |-> {},
   inner |-> [j \in DOMAIN Kept(s) |-> IF Has(Kept(s)[j], "flatten") THEN Some(Partial(Kept(s)[j].inner[1])) ELSE None_]]

Flattened(s) == {j \in DOMAIN Kept(s) : Has(Kept(s)[j], "flatten")}

RECURSIVE SerializeField(_, _, _, _)
\* ColumnSortingGenerator: the column is that of a field, or of the first
\* flattened field that has it.
SerializeField(s, p, vals, col) ==
  LET kept == Kept(s)
      own == {j \in DOMAIN kept \ Flattened(s) : kept[j].name = col.name}
      Status(visited) == IF visited = DOMAIN kept THEN "Done" ELSE "NotDone"
      within == [j \in Flattened(s) |-> SerializeField(kept[j].inner[1], p.inner[j][1], vals[j].vals, col)]
      takes == {j \in Flattened(s) : within[j].status # "NotUsed"}
  IN IF own # {}
     THEN LET j == CHOOSE j \in own : TRUE
              visited == p.visited \cup {j}
          IN [status |-> Status(visited), p |-> [p EXCEPT !.visited = visited], cell |-> Serialize(vals[j], col.typ, TRUE)]
     ELSE IF takes = {} THEN [status |-> "NotUsed", p |-> p, cell |-> Fail]
     ELSE LET j == CHOOSE j \in takes : \A l \in takes : j <= l
              done == within[j].status = "Done"
              visited == IF done THEN p.visited \cup {j} ELSE p.visited
          IN [status |-> IF done THEN Status(visited) ELSE "NotDone",
              p |-> [visited |-> visited, inner |-> [p.inner EXCEPT ![j] = Some(within[j].p)]],
              cell |-> within[j].cell]

RECURSIVE CheckMissing(_, _)
\* Only the first of the flattened fields that are not done is looked into.
CheckMissing(s, p) ==
  LET kept == Kept(s)
      unvisited == DOMAIN kept \ p.visited
      first == CHOOSE j \in unvisited \cap Flattened(s) : \A l \in unvisited \cap Flattened(s) : j <= l
  IN \/ unvisited = {}
     \/ unvisited \subseteq Flattened(s) /\ CheckMissing(kept[first].inner[1], p.inner[first][1])

BindByName(s, vals, cols) ==
  LET upTo[i \in 0 .. Len(cols)] ==
        IF i = 0 THEN Done([p |-> Partial(s), cells |-> <<>>], <<>>)
        ELSE Bind(upTo[i - 1], LAMBDA at, r :
               LET one == SerializeField(s, at.p, vals, cols[i])
               IN IF one.status = "NotUsed" \/ ~ one.cell.ok THEN Fail
                  ELSE Done([p |-> one.p, cells |-> Append(at.cells, one.cell.v)], <<>>))
  IN Bind(upTo[Len(cols)], LAMBDA at, r : IF CheckMissing(s, at.p) THEN Done(at.cells, <<>>) ELSE Fail)

\* The fields of a struct with those of its flattened fields in their places,
\* each with whether its struct looks at names, and its value.
RECURSIVE InOrder(_, _)
InOrder(s, vals) ==
  Concat([j \in DOMAIN Kept(s) |->
            IF j \in Flattened(s) THEN InOrder(Kept(s)[j].inner[1], vals[j].vals)
            ELSE <<[name |-> Kept(s)[j].name, named |-> ~ Has(s, "skip_name_checks"), v |-> vals[j]]>>])

\* ColumnOrderedGenerator with NextColumnSerializer
BindInOrder(s, vals, cols) ==
  LET fields == InOrder(s, vals)
      cell == [i \in DOMAIN cols |-> Serialize(fields[i].v, cols[i].typ, TRUE)]
  IN IF Len(fields) # Len(cols) THEN Fail
     ELSE IF \E i \in DOMAIN cols : (fields[i].named /\ cols[i].name # fields[i].name) \/ ~ cell[i].ok THEN Fail
     ELSE Done([i \in DOMAIN cols |-> cell[i].v], <<>>)

BindStruct(s, vals, cols) ==
  IF Has(s, "enforce_order") THEN BindInOrder(s, vals, cols) ELSE BindByName(s, vals, cols)
-----------------------------------------------------------------------------
(* DeserializeRow: a struct from a row *)

RowTypeCheckByName(s, cols) ==
  LET kept == Kept(s)
  IN /\ \A i \in DOMAIN cols :
          /\ cols[i].name \in NamesOf(kept)
          /\ TypeCheck(kept[FieldNamed(kept, cols[i].name)].sh, cols[i].typ)
          /\ \A l \in DOMAIN cols : cols[l].name = cols[i].name => l = i
     /\ \A j \in DOMAIN kept : ~ MayBeMissing(s, kept[j]) => \E i \in DOMAIN cols : cols[i].name = kept[j].name

RowTypeCheckInOrder(s, cols) ==
  LET kept == Kept(s)
  IN /\ Len(cols) = Len(kept)
     /\ \A i \in DOMAIN cols : /\ Has(s, "skip_name_checks") \/ cols[i].name = kept[i].name
                               /\ TypeCheck(kept[i].sh, cols[i].typ)

RowTypeCheckStruct(s, cols) ==
  IF Has(s, "enforce_order") THEN RowTypeCheckInOrder(s, cols) ELSE RowTypeCheckByName(s, cols)

RowByName(s, cols, slice) ==
  LET places == [j \in DOMAIN s.fields |-> {i \in DOMAIN cols : cols[i].name = s.fields[j].name}]
  IN Bind(Cells_(cols, slice), LAMBDA cells, rest :
       IF \/ \E i \in DOMAIN cols : cols[i].name \notin NamesOf(Kept(s))
          \/ \E i, l \in DOMAIN cols : i # l /\ cols[i].name = cols[l].name
       THEN Panics
       ELSE FinishByName(s, places, [i \in DOMAIN cols |-> cols[i].typ], cells))

RowInOrder(s, cols, slice) ==
  LET upTo[j \in 0 .. Len(s.fields)] ==
        IF j = 0 THEN Done([next |-> 1, rest |-> slice, vals |-> <<>>], <<>>)
        ELSE Bind(upTo[j - 1], LAMBDA at, r :
               LET f == s.fields[j]
               IN IF Has(f, "skip") THEN Done([at EXCEPT !.vals = Append(@, Default)], <<>>)
                  ELSE IF at.next > Len(cols) THEN Panics
                  ELSE Bind(ReadCqlBytes(at.rest), LAMBDA o, left :
                         IF ~ Has(s, "skip_name_checks") /\ cols[at.next].name # f.name THEN Panics
                         ELSE Bind(FieldValue(f, cols[at.next].typ, o), LAMBDA v, e :
                                Done([next |-> at.next + 1, rest |-> left, vals |-> Append(at.vals, v)], <<>>))))
  IN Bind(upTo[Len(s.fields)], LAMBDA at, r : Done(at.vals, <<>>))

RowStruct(s, cols, slice) ==
  IF Has(s, "enforce_order") THEN RowInOrder(s, cols, slice) ELSE RowByName(s, cols, slice)
=============================================================================
