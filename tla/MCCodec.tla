------------------------------- MODULE MCCodec -------------------------------
(***************************************************************************)
(* Samples for Codec: types nested up to two deep with one or two values   *)
(* of each kind, the edges of the lengths of variable-length integers,     *)
(* structs of up to two fields, requests with every parameter there or     *)
(* not.                                                                    *)
(***************************************************************************)
EXTENDS Codec, TLC

IntT == Native("Int")
TextT == Native("Text")
Seqs(S, n) == UNION {[1 .. k -> S] : k \in 0 .. n}

(* Words: every length of bits, with all, none or some of the lower bits.   *)
MCWords ==
  {[i \in 1 .. 8 |-> IF i < at THEN 0 ELSE IF i = at THEN first ELSE rest] :
     at \in 1 .. 8, first \in {0, 1, 3, 2, 7, 8, 63, 64, 127, 128, 255}, rest \in {0, 255}}

(* Values, with the types they are written for.                            *)
Flat == {Native(n) : n \in {"Int", "Text", "Ascii", "Time", "Duration", "Varint", "Boolean", "Decimal", "Inet"}}
NativeVals(n) ==
  CASE n = "Int" -> {Nat_("Int", <<5>>), Nat_("Int", <<-1>>), Empty}
    [] n = "Text" -> {Nat_("Text", <<>>), Nat_("Text", <<97>>), Empty}
    [] n = "Ascii" -> {Nat_("Text", <<195, 169>>), Nat_("Ascii", <<97>>)}
    [] n = "Time" -> {Nat_("Time", LastNanosecond), Nat_("Time", <<0, 0, 78, 148, 145, 79, 0, 0>>),
                      Nat_("Time", [i \in 1 .. 8 |-> 255])}
    [] n = "Duration" -> {Nat_("Duration", <<-3, 70000, 255, 255, 255, 255, 255, 255, 255, 0>>), Empty}
    [] n = "Varint" -> {Nat_("Varint", <<>>), Nat_("Varint", <<1>>)}
    [] n = "Boolean" -> {Nat_("Boolean", <<1>>), Empty}
    [] n = "Decimal" -> {Nat_("Decimal", <<-2, 1, 0>>), Nat_("Decimal", <<7>>)}
    [] n = "Inet" -> {Nat_("Inet", <<127, 0, 0, 1>>), Nat_("Inet", [i \in 1 .. 16 |-> i])}

Wrap(S) ==
  {List(t) : t \in S} \cup {Set(t) : t \in S} \cup {Map(k, v) : k \in S, v \in S}
    \cup {Vector(t, d) : t \in S, d \in {0, 2}} \cup {Tuple(<<>>)} \cup {Tuple(<<t, u>>) : t \in S, u \in S}
    \cup {Udt(<<1>>, <<2>>, <<<<3>>, <<4>>>>, <<t, u>>) : t \in S, u \in S}

RECURSIVE ValuesOf(_, _)
ValuesOf(t, depth) ==
  LET more(i) == ValuesOf(t.of[i], depth + 1) \cup (IF depth = 0 THEN {Null, Unset} ELSE {Null})
  IN CASE t.kind = "native" -> NativeVals(t.n)
       [] t.kind \in {"list", "set"} -> {Seq_(e) : e \in Seqs(more(1), IF depth = 0 THEN 2 ELSE 1)}
       [] t.kind = "map" -> {Pairs(e) : e \in Seqs({<<k, v>> : k \in ValuesOf(t.of[1], depth + 1), v \in more(2)}, 1)}
       [] t.kind = "vector" -> {Seq_(e) : e \in [1 .. t.dim -> more(1)]} \cup {Empty, Seq_(<<Null>>)}
       [] t.kind = "tuple" ->
            IF t.of = <<>> THEN {RustTuple(<<>>)}
            ELSE {RustTuple(<<a, b>>) : a \in more(1), b \in more(2)} \cup {DynTuple(<<a>>) : a \in more(1)} \cup {Empty}
       [] t.kind = "udt" ->
            {DynUdt(t.ks, t.name, <<<<4>>, <<3>>>>, <<b, a>>) : a \in more(1), b \in more(2)}
              \cup {DynUdt(t.ks, t.name, <<f>>, <<b>>) : f \in {<<4>>, <<5>>}, b \in more(2)}

ValueTypes ==
  Flat \cup Wrap({IntT, TextT}) \cup
  {List(Vector(TextT, 2)), Vector(List(IntT), 2), Vector(Vector(IntT, 2), 2), Vector(Tuple(<<TextT, IntT>>), 2),
   Tuple(<<Vector(TextT, 2), IntT>>), Map(TextT, Vector(TextT, 2)), Vector(Native("Varint"), 2), Vector(Native("Boolean"), 2)}

MCValues == UNION {[v : ValuesOf(t, 0) \cup {Null, Unset}, t : {t}] : t \in ValueTypes}

(* Cells: values of a type as they are, cut short, or with another byte.   *)
Frozen(t) == [t EXCEPT !.frozen = TRUE]
Shapes(t) ==
  CASE t.kind = "native" -> {Exact(t.n), MaybeEmpty(Exact(t.n))}
    [] t.kind \in {"list", "set", "vector"} -> {VecOf(Exact(t.of[1].n)), SetOf(Exact(t.of[1].n)), VecOf(Optional(Cql))}
    [] t.kind = "map" -> {MapOf(Exact(t.of[1].n), Exact(t.of[2].n))}
    [] t.kind = "tuple" -> {TupleOf([i \in DOMAIN t.of |-> Optional(Exact(t.of[i].n))]), TupleOf(<<Cql>>)}
    [] t.kind = "udt" -> {}
CellTypes ==
  Flat \cup {Tuple(<<IntT, TextT>>), Vector(TextT, 2), Vector(IntT, 2)} \cup
    UNION {{t, Frozen(t)} : t \in {List(IntT), Set(TextT), Map(IntT, TextT)}}
Written(t) ==
  LET plain == IF t.kind \in {"list", "set", "map"} THEN [t EXCEPT !.frozen = FALSE] ELSE t
  IN {s.v : s \in {c \in {Serialize(v, plain, FALSE) : v \in ValuesOf(plain, 1)} : c.ok}}
MCCells ==
  UNION {UNION {[sh : Shapes(t) \cup {Cql}, t : {t},
                 cell : {None_, Some(b)} \cup {Some(c) : c \in Cuts(b)}
                          \cup {Some([b EXCEPT ![i] = x]) : i \in DOMAIN b, x \in {0, 1, 255}}] :
           b \in Written(t)} : t \in CellTypes}

(* Types by name.                                                          *)
NamedWrap(S) ==
  {List(t) : t \in S} \cup {Set(t) : t \in S} \cup {Map(k, v) : k \in S, v \in S}
    \cup {Vector(t, d) : t \in S, d \in {0, 2}} \cup {Tuple(q) : q \in Seqs(S, 2) \ {<<>>}}
NamedUdts(S) == {Udt("ks", "u", <<"a">>, <<t>>) : t \in S} \cup {Udt("ks", "u", <<"a", "b">>, <<t, IntT>>) : t \in S}
MCTypes ==
  LET natives == {Native(ClassNative[c]) : c \in DOMAIN ClassNative}
      one == NamedWrap({IntT, TextT}) \cup NamedUdts({IntT, TextT})
  IN natives \cup one \cup {List(t) : t \in one} \cup {Map(IntT, t) : t \in one} \cup {Vector(t, 2) : t \in one}
       \cup {Tuple(<<t, IntT>>) : t \in one} \cup NamedUdts(one)
MCSchemaTypes ==
  LET base == {IntT, TextT, PreUdt("u"), Frozen(PreUdt("u"))}
      one == NamedWrap(base)
      frozen == {Frozen(t) : t \in {u \in one : IsCollection(u)}}
  IN {Native(CqlNative[c]) : c \in DOMAIN CqlNative} \cup one \cup frozen
       \cup {List(t) : t \in frozen} \cup {Tuple(<<t, IntT>>) : t \in frozen} \cup {Vector(t, 2) : t \in frozen}

(* Rows and metadata.                                                      *)
T1 == <<<<107>>, <<116>>>>
T2 == <<<<107>>, <<117>>>>
ColumnLists == {<<>>, <<Column(T1, <<97>>, IntT)>>, <<Column(T1, <<97>>, IntT), Column(T1, <<98>>, TextT)>>}
Cell(b) == WriteBytes(b)
Bodies == {Concat(q) : q \in Seqs({Cell(<<0, 0, 0, 1>>), Cell(<<97>>), SetNull}, 3)}
MCRows ==
  UNION {[cols : ColumnLists, count : 0 .. 3, body : {b} \cup Cuts(b)] :
           b \in {c \in Bodies : Len(c) \in {5, 8, 9, 13, 17}}}
MCResults ==
  {r \in [cols : ColumnLists \cup {<<Column(T1, <<97>>, List(IntT)), Column(T2, <<97>>, Vector(IntT, 2))>>,
                                  <<Column(T2, <<98>>, Udt(<<107>>, <<117>>, <<<<97>>>>, <<Tuple(<<IntT, Map(TextT, IntT)>>)>>))>>},
          global : BOOLEAN, paging : {None_, Some(<<1, 2>>)}, skipped : BOOLEAN,
          cached : {None_, Some(<<Column(T2, <<99>>, TextT)>>)}, body : {<<>>, Cell(<<5>>)}] :
     r.global => \A i \in DOMAIN r.cols : r.cols[i].table = r.cols[1].table /\ r.cols # <<>>}
MCPrepared ==
  {r \in [id : {<<>>, <<4, 5>>}, global : BOOLEAN, cols : ColumnLists, keys : Seqs(0 .. 2, 3)] :
     r.global => r.cols # <<>>}

(* Structs with up to two fields, user-defined types with up to three.     *)
DistinctSeqs(S, n) == {q \in Seqs(S, n) : \A i, j \in DOMAIN q : q[i] = q[j] => i = j}
FieldAttrs == {{}, {"allow_missing"}, {"default_when_null"}, {"skip"}}
FieldLists ==
  UNION {{[j \in DOMAIN q |-> DerivedField(q[j], Exact("Int"), at[j])] : at \in [DOMAIN q -> FieldAttrs]} :
           q \in DistinctSeqs({<<97>>, <<98>>}, 2)}
StructAttrs ==
  {{}, {"forbid_excess_udt_fields"}, {"enforce_order"}, {"enforce_order", "forbid_excess_udt_fields"},
   {"enforce_order", "skip_name_checks"}, {"allow_missing"}, {"enforce_order", "allow_missing"}}
Structs == {s \in {Derived(a, f) : a \in StructAttrs, f \in FieldLists} : Validate(s)}
UdtTypes ==
  {Udt(<<107>>, <<117>>, q, [i \in DOMAIN q |-> IntT]) : q \in DistinctSeqs({<<97>>, <<98>>, <<120>>}, 3)}
    \cup {Udt(<<107>>, <<117>>, <<<<97>>>>, <<TextT>>)}
MCStructs == [s : Structs, t : UdtTypes]

(* Structs that are bound, with up to two flattened into them.             *)
Plain(names) == [j \in DOMAIN names |-> DerivedField(names[j], Exact("Int"), {})]
Inner == {Derived({}, Plain(q)) : q \in {<<>>, <<<<97>>>>, <<<<98>>>>, <<<<98>>, <<99>>>>}}
Nested == Inner \cup {Derived({}, <<FlattenedField(<<120>>, s)>> \o Plain(<<<<97>>>>)) : s \in Inner}
FlatLists ==
  {<<FlattenedField(<<120>>, s)>> : s \in Nested}
    \cup {<<FlattenedField(<<120>>, s), FlattenedField(<<121>>, u)>> : s \in Nested, u \in Inner}
    \cup {<<DerivedField(<<97>>, Exact("Int"), {}), FlattenedField(<<120>>, s)>> : s \in Nested}
RowLists ==
  UNION {{[j \in DOMAIN q |-> DerivedField(q[j], Exact("Int"), at[j])] :
            at \in [DOMAIN q -> {{}, {"skip"}, {"default_when_null"}}]} : q \in DistinctSeqs({<<97>>, <<98>>}, 2)}
BoundColumns == {[i \in DOMAIN q |-> Column(T1, q[i], IntT)] : q \in Seqs({<<97>>, <<98>>, <<99>>}, 3)}
MCBoundStructs ==
  [s : {Derived(a, f) : a \in {{}, {"enforce_order"}, {"enforce_order", "skip_name_checks"}}, f \in RowLists}
         \cup {Derived(a, f) : a \in {{}, {"enforce_order"}}, f \in FlatLists},
   cols : BoundColumns]

(* Requests and responses.                                                 *)
Stamp == <<0, 0, 0, 0, 0, 0, 1, 2>>
Parameters ==
  {QueryParameters(c, se, ts, size, paging, skip, values) :
     c \in {"LocalQuorum", "Any"}, se \in {None_, Some("LocalSerial")}, ts \in {None_, Some(Stamp)},
     size \in {None_, Some(5000)}, paging \in {None_, Some(<<>>), Some(<<1>>)}, skip \in BOOLEAN,
     values \in {SerializedValues(<<>>, 0), SerializedValues(SetNull \o Cell(<<5>>), 2)}}
OneInt == <<Column(T1, <<97>>, IntT)>>
FourInts == [i \in 1 .. 4 |-> Column(T1, <<97>>, IntT)]
Lists == {ByPosition(<<>>), ByPosition(<<Nat_("Int", <<5>>)>>), ByName(<<<<97>>>>, <<Nat_("Int", <<5>>)>>)}
Batches ==
  {Batch(1, st, l, ctx, "Quorum", se, ts) :
     st \in Seqs({TextStatement(<<83>>), PreparedStatement(<<1>>)}, 2), l \in Seqs(Lists, 3),
     ctx \in Seqs({<<>>, OneInt}, 2), se \in {None_, Some("Serial")}, ts \in {None_, Some(Stamp)}}
BigBatches ==
  {Batch(0, st, l, ctx, "One", None_, None_) :
     st \in {[i \in 1 .. n |-> PreparedStatement(<<1>>)] : n \in 1 .. 3},
     l \in {[i \in 1 .. n |-> ByPosition([k \in 1 .. 4 |-> Null])] : n \in {1}}
             \cup {[i \in 1 .. n |-> ByPosition(<<>>)] : n \in {3}},
     ctx \in {<<>>, <<FourInts>>}}
Sent(S, streams) == [r : S, compression : {None_, Some("lz4"), Some("snappy")}, tracing : BOOLEAN, stream : streams]
MCRequests ==
  Sent({Query(<<83>>, p) : p \in Parameters} \cup {Execute(<<1, 2>>, p) : p \in {q \in Parameters : q.consistency = "Any"}}, {0})
    \cup [r : Batches \cup BigBatches, compression : {None_}, tracing : {FALSE}, stream : {2}]
    \cup Sent({Prepare(<<83>>), Startup(<<<<<<67>>, <<51>>>>>>), Register(<<<<1>>, <<2>>>>), AuthResponse(None_),
              AuthResponse(Some(<<>>)), Options}, {1, 32767})
MCResponses ==
  [x : [trace_id : {None_, Some([i \in 1 .. 16 |-> i])}, warnings : {<<>>, <<<<97>>, <<>>>>},
        payload : {None_, Some(<<<<<<107>>, <<1, 2>>>>>>)}],
   compression : {None_, Some("lz4"), Some("snappy")}, stream : {0, -1}, opcode : {"result", "event"}, body : {<<>>, <<0, 7>>}]

FieldSamples ==
  [consistency |-> {"Quorum"}, int |-> {-1, 3}, string |-> {<<>>, <<97>>}, list |-> {<<>>, <<<<97>>>>}, bytes |-> {<<1, 2>>},
   byte |-> {1}, bool |-> BOOLEAN]
FieldValues(name) ==
  LET kinds == FieldsOf(name)
      upTo[i \in 0 .. Len(kinds)] ==
        IF i = 0 THEN {<<>>} ELSE {Append(q, f) : q \in upTo[i - 1], f \in FieldSamples[kinds[i]]}
  IN upTo[Len(kinds)]
MCErrors ==
  UNION {[error : {DbError(n, f) : f \in FieldValues(n)}, msg : {<<>>, <<97>>}, announced : {None_, Some(61440), Some(4096), Some(0)}] :
           n \in DOMAIN ErrorCode \cup {"RateLimitReached"}}
    \cup [error : {DbError("Other", <<c>>) : c \in {7, 61440}}, msg : {<<97>>}, announced : {None_, Some(61440)}]
MCEvents ==
  {ClusterEvent(w, [ip |-> ip, port |-> p]) :
     w \in {"NEW_NODE", "REMOVED_NODE", "UP", "DOWN"}, ip \in {<<127, 0, 0, 1>>, [i \in 1 .. 16 |-> i]}, p \in {0, 9042}}
  \cup {[change |-> c, target |-> w[1], keyspace |-> <<107>>, names |-> w[2]] :
          c \in {"CREATED", "UPDATED", "DROPPED"},
          w \in {<<"KEYSPACE", <<>>>>, <<"TABLE", <<<<97>>>>>>, <<"TYPE", <<<<97>>>>>>, <<"FUNCTION", <<<<97>>>>>>,
                 <<"AGGREGATE", <<<<97>>, <<98>>>>>>}}

(* Numbers.                                                                *)
MCVarints == Seqs({0, 1, 127, 128, 255}, 3)
MCTimeuuids ==
  {[i \in 1 .. 16 |-> CASE i = 7 -> v [] i = 8 -> h [] i = 4 -> l [] i = 9 -> b [] i = 16 -> c [] OTHER -> 0] :
     v \in {16, 32}, h \in {0, 1}, l \in {0, 255}, b \in {128, 191, 0}, c \in {127, 128}}
MCTimes ==
  (-3 * NanosPerSecond .. 3 * NanosPerSecond) \cup (3599 * NanosPerSecond - 3 .. 3600 * NanosPerSecond + 3)
    \cup (LastNano - 3 * NanosPerSecond .. LastNano + 3 * NanosPerSecond) \cup {-3600 * NanosPerSecond, -60 * NanosPerSecond - 1}
MCChronoTimes ==
  {ChronoTime(s, n) : s \in {0, 1, 59, 86398, 86399}, n \in {0, 1, NanosPerSecond - 1, NanosPerSecond, 2 * NanosPerSecond - 1}}

MCCustomNames == <<118>> :> <<"VectorType", "(", "Int32Type", ",", " ", "2", ")">>

MCInputs ==
  [word |-> MCWords, value |-> MCValues, cell |-> MCCells, type |-> MCTypes, rows |-> MCRows,
   result |-> MCResults, prepared |-> MCPrepared, struct |-> MCStructs,
   request |-> MCRequests, response |-> MCResponses, error |-> MCErrors, event |-> MCEvents,
   varint |-> MCVarints, timeuuid |-> MCTimeuuids, time |-> MCTimes, moment |-> -50 .. 50, day |-> Days]
    @@ ("schema type" :> MCSchemaTypes) @@ ("bound struct" :> MCBoundStructs) @@ ("chrono time" :> MCChronoTimes)

MCBindable ==
  {<<Nat_("Int", <<5>>), IntT>>, <<Null, IntT>>, <<Unset, TextT>>, <<Nat_("Text", <<>>), IntT>>,
   <<Seq_(<<Nat_("Int", <<1>>), Nat_("Text", <<97>>)>>), List(IntT)>>, <<Seq_(<<Null, Unset>>), List(TextT)>>}

MCDateRange == -3 .. 3
=============================================================================
