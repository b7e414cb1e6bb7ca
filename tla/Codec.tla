-------------------------------- MODULE Codec --------------------------------
(***************************************************************************)
(* What the codec promises: what is written is read back as it was, where  *)
(* it is not is known, and bytes that were cut are refused.  The functions *)
(* of the codec are pure: a behaviour takes one sample of the inputs of    *)
(* one of them and is over.  The one with a state, SerializedValues, to    *)
(* which values are added one at a time, is a behaviour of its own.        *)
(***************************************************************************)
EXTENDS CqlDerive, CqlFrames

CONSTANTS Inputs,       \* for each kind of sample, the set of its inputs
          Bindable,     \* the values that are added, each with its type
          MaxAttempts   \* bound on the number of calls of add_value

VARIABLES sample, bound, added, attempts

codecVars == <<sample, bound, added, attempts>>

NoSample == [kind |-> "none"]

CodecInit ==
  /\ bound = SerializedValues(<<>>, 0) /\ added = <<>> /\ attempts = 0
  /\ \/ sample = NoSample
     \/ \E kind \in DOMAIN Inputs : \E in \in Inputs[kind] : sample = [kind |-> kind, in |-> in]

BindNext(v, t) ==
  /\ sample = NoSample /\ attempts < MaxAttempts
  /\ attempts' = attempts + 1
  /\ bound' = AddValue(bound, v, t)
  /\ added' = IF bound'.count > bound.count THEN Append(added, <<v, t>>) ELSE added
  /\ UNCHANGED sample

CodecNext == \E b \in Bindable : BindNext(b[1], b[2])

CodecSpec == CodecInit /\ [][CodecNext]_codecVars

Sampled(kind) == IF sample.kind = kind THEN {sample.in} ELSE {}

\* The proper prefixes of a sequence.
Cuts(s) == {SubSeq(s, 1, n) : n \in 0 .. Len(s) - 1}
-----------------------------------------------------------------------------
(* Values *)

(* Every 64-bit number is read back from its variable-length form, signed  *)
(* and unsigned, in no more bytes than its bits need, and nothing of what  *)
(* follows is taken; the form cut short is refused.                        *)
VintsReadBack ==
  \A w \in Sampled("word") :
    \E u \in {UnsignedVintEncode(w)}, bits \in {64 - LeadingZeros(w)} :
       /\ UnsignedVintDecode(u \o <<7>>) = Done(w, <<7>>)
       /\ VintDecode(VintEncode(w) \o <<7>>) = Done(w, <<7>>)
       /\ Len(u) = IF bits > 56 THEN 9 ELSE IF bits = 0 THEN 1 ELSE (bits + 6) \div 7
       /\ \A cut \in Cuts(u) : UnsignedVintDecode(cut) = Fail

\* What a value is read as: the CqlValue with the same content, the fields of a
\* user-defined type in the order of the type.
RECURSIVE Canonical(_, _)
Canonical(v, t) ==
  CASE v.is = "native" -> Nat_(t.n, v.x)
    [] v.is \in {"empty", "null", "unset"} -> v
    [] v.is = "seq" -> Seq_([i \in DOMAIN v.els |-> Canonical(v.els[i], t.of[1])])
    [] v.is = "map" -> Pairs([i \in DOMAIN v.els |-> [j \in 1 .. 2 |-> Canonical(v.els[i][j], t.of[j])]])
    [] v.is \in {"tuple", "rust tuple"} -> DynTuple([i \in DOMAIN v.els |-> Canonical(v.els[i], t.of[i])])
    [] v.is = "udt" ->
         DynUdt(t.ks, t.name, t.fields, [i \in DOMAIN t.of |-> Canonical(FieldOf(v, t.fields[i]), t.of[i])])

NoBytes(v, t) == Serialize(v, t, FALSE) = Done(<<>>, <<>>)

\* A vector has no room for elements without bytes: where its elements have a
\* fixed size none may be without, and where each has its length the last may
\* not, for then nothing is left to read from.
VectorUnreadable(v, t) ==
  /\ v.is = "seq" /\ t.kind = "vector" /\ v.els # <<>>
  /\ IF TypeSize(t.of[1]) # None_ THEN \E i \in DOMAIN v.els : NoBytes(v.els[i], t.of[1])
     ELSE NoBytes(v.els[Len(v.els)], t.of[1])

\* The values that are written but not read back: an unset value; one without
\* bytes of a type where no bytes are the empty value, or the other way round;
\* a text that is not ASCII or a time out of the day; a null in a collection; a
\* tuple of fewer values than its type.
RECURSIVE Lossy(_, _)
Lossy(v, t) ==
  \/ v = Unset
  \/ NoBytes(v, t) /\ (v = Empty) # NoBytesMeanEmpty(t)
  \/ v.is = "native" /\ ~ NativeContent(t.n, NativeBytes(v)).ok
  \/ v.is = "seq" /\ \E i \in DOMAIN v.els : v.els[i] = Null \/ Lossy(v.els[i], t.of[1])
  \/ v.is = "map" /\ \E i \in DOMAIN v.els, j \in 1 .. 2 : v.els[i][j] = Null \/ Lossy(v.els[i][j], t.of[j])
  \/ v.is \in {"tuple", "rust tuple"} /\ (Len(v.els) < Len(t.of) \/ \E i \in DOMAIN v.els : Lossy(v.els[i], t.of[i]))
  \/ v.is = "udt" /\ \E i \in DOMAIN t.of : Lossy(FieldOf(v, t.fields[i]), t.of[i])
  \/ VectorUnreadable(v, t)

ReadBack(v, t) ==
  \E cell \in {ReadBytesOpt(Serialize(v, t, TRUE).v)} :
     /\ cell.ok /\ cell.rest = <<>>
     /\ Deserialize(Optional(Cql), t, cell.v) = Done(Canonical(v, t), <<>>)

(* A value that is written for a column is read from it as the same value, *)
(* and the values of which that is not so are exactly the ones above.      *)
ValuesReadBack ==
  \A s \in Sampled("value") : Serialize(s.v, s.t, TRUE).ok => (ReadBack(s.v, s.t) <=> ~ Lossy(s.v, s.t))

(* A vector whose elements each are read back is read back as well: each   *)
(* element has its length before it, and is read with that many bytes.     *)
VectorsReadBack ==
  \A s \in Sampled("value") :
    (/\ s.t.kind = "vector" /\ TypeSize(s.t.of[1]) = None_ /\ s.v.is = "seq" /\ s.v.els # <<>>
     /\ Serialize(s.v, s.t, TRUE).ok
     /\ \A i \in DOMAIN s.v.els : s.v.els[i] # Null /\ ~ Lossy(s.v.els[i], s.t.of[1]))
    => ReadBack(s.v, s.t)

\* A CqlValue passes every type check, also that of a frozen collection, which
\* its iterators do not read.
RECURSIVE HasFrozen(_)
HasFrozen(t) == (IsCollection(t) /\ t.frozen) \/ (t.kind # "native" /\ \E i \in DOMAIN t.of : HasFrozen(t.of[i]))
RECURSIVE HasCql(_)
HasCql(sh) == sh.s = "cql" \/ (sh.s # "exact" /\ \E i \in DOMAIN sh.of : HasCql(sh.of[i]))

(* A Rust type that passed the type check of a column never panics on what *)
(* the column holds, whatever the bytes are, but for frozen collections in *)
(* a CqlValue; and what it reads is what a CqlValue reads there.           *)
TypedReading ==
  \A s \in Sampled("cell") :
    TypeCheck(s.sh, s.t) =>
      \E typed \in {Deserialize(s.sh, s.t, s.cell)}, dynamic \in {Deserialize(Optional(Cql), s.t, s.cell)} :
         /\ typed = Panics => HasFrozen(s.t) /\ HasCql(s.sh)
         /\ typed.ok /\ dynamic.ok /\ s.cell \notin {None_, Some(<<>>)} => typed.v = dynamic.v
-----------------------------------------------------------------------------
(* Names of types *)

SeparatedBy(sep, names) == Concat([i \in DOMAIN names |-> IF i = 1 THEN names[i] ELSE sep \o names[i]])

ClassOf(n) == CHOOSE c \in DOMAIN ClassNative : ClassNative[c] = n /\ c \notin {"DateType", "ShortType", "ByteType"}
HexOf(name) == CHOOSE h \in DOMAIN Unhex : Unhex[h] = name
NumeralOf(n) == CHOOSE d \in DOMAIN Numerals : Numerals[d] = n

\* How the server spells a type as the name of a class.
RECURSIVE ClassName(_)
ClassName(t) ==
  LET of == [i \in DOMAIN t.of |-> ClassName(t.of[i])]
      Complex(class, inside) == <<class, "(">> \o inside \o <<")">>
  IN CASE t.kind = "native" -> <<ClassOf(t.n)>>
       [] t.kind = "vector" -> Complex("VectorType", of[1] \o <<",", " ", NumeralOf(t.dim)>>)
       [] t.kind = "udt" ->
            Complex("UserType", <<t.ks, ",", HexOf(t.name), ",">> \o
                      SeparatedBy(<<",">>, [i \in DOMAIN of |-> <<HexOf(t.fields[i]), ":">> \o of[i]]))
       [] OTHER -> Complex([list |-> "ListType", set |-> "SetType", map |-> "MapType", tuple |-> "TupleType"][t.kind],
                           SeparatedBy(<<",">>, of))

\* A list of parameters of a collection was opened and not closed.
CollectionOpen(toks) ==
  \E i \in 1 .. Len(toks) - 1 :
    /\ toks[i] \in {"ListType", "SetType", "MapType"}
    /\ \A j \in i + 1 .. Len(toks) :
         Cardinality({l \in i + 1 .. j : toks[l] = "("}) > Cardinality({l \in i + 1 .. j : toks[l] = ")"})

(* The class name of a type is parsed as that type.  One that is cut short *)
(* is never a type: it is refused, or, when the parameters of a collection *)
(* are not closed, the parser counts errors for ever.                      *)
ClassNamesParsed ==
  \A t \in Sampled("type") :
    \E name \in {ClassName(t)} :
       /\ DoParse(name) = Parsed(t, <<>>)
       /\ \A cut \in Cuts(name) \ {<<>>} : \E r \in {DoParse(cut)} : ~ r.ok /\ (r = Hangs <=> CollectionOpen(cut))

\* How the schema tables spell a type.
RECURSIVE CqlName(_)
CqlName(t) ==
  LET of == [i \in DOMAIN t.of |-> CqlName(t.of[i])]
      plain == CASE t.kind = "native" -> <<CHOOSE c \in DOMAIN CqlNative : CqlNative[c] = t.n>>
                 [] t.kind = "preudt" -> <<t.named>>
                 [] t.kind = "vector" -> <<"vector<">> \o of[1] \o <<",", " ", NumeralOf(t.dim), ">">>
                 [] OTHER -> <<[list |-> "list<", set |-> "set<", map |-> "map<", tuple |-> "tuple<"][t.kind]>>
                               \o SeparatedBy(<<",", " ">>, of) \o <<">">>
  IN IF (IsCollection(t) \/ t.kind = "preudt") /\ t.frozen THEN <<"frozen<">> \o plain \o <<">">> ELSE plain

(* The CQL name of a type in the schema tables is parsed as that type, the *)
(* frozen ones as frozen; cut short or with anything behind it, it is not  *)
(* a type.                                                                 *)
CqlNamesParsed ==
  \A t \in Sampled("schema type") :
    /\ MapStringToCqlType(CqlName(t)) = Done(t, <<>>)
    /\ \A cut \in Cuts(CqlName(t)) : MapStringToCqlType(cut) = Fail
    /\ \A more \in {">", ",", "int"} : MapStringToCqlType(Append(CqlName(t), more)) = Fail
-----------------------------------------------------------------------------
(* Rows *)

RawValueOf(v, t) == ReadValue(Serialize(v, t, TRUE).v).v

(* However values are added to SerializedValues, refused ones among them,  *)
(* iterating them gives the accepted ones in order, as many as the count   *)
(* says, and a request that carries them is read back with the same.       *)
BoundValuesKept ==
  /\ bound.count = Len(added) /\ bound.count <= MaxValues
  /\ IterValues(bound.bytes) = Done([i \in DOMAIN added |-> RawValueOf(added[i][1], added[i][2])], <<>>)
  /\ NewFromFrame(WriteToRequest(bound) \o <<9>>) = Done(bound, <<9>>)

IsBroken(item) == "column" \in DOMAIN item

(* The borrowing and the owning iterator over the rows of a result agree   *)
(* on every frame: as many items as the result announces, the rows that    *)
(* are whole first, and nothing but errors from the first error on.        *)
RowIteratorsAgree ==
  \A s \in Sampled("rows") :
    \E items \in {RawRows(s.count, s.cols, s.body)} :
       /\ LendingRows(s.count, s.cols, s.body, 0) = items
       /\ Len(items) = s.count
       /\ \A i, j \in DOMAIN items : i <= j /\ IsBroken(items[i]) => IsBroken(items[j])
       /\ \A i \in DOMAIN items : ~ IsBroken(items[i]) => Cells_(s.cols, items[i].row).ok

(* The rows of a result are read with the columns that the server sent,    *)
(* with cached ones only when it sent none; and metadata that is cut short *)
(* is refused.                                                             *)
ResultMetadataRead ==
  \A s \in Sampled("result") :
    \E metadata \in {SerResultMetadata(s.cols, s.global, s.paging, s.skipped)},
       sent \in {IF ~ s.skipped THEN s.cols ELSE IF s.cached # None_ THEN s.cached[1] ELSE <<>>} :
       /\ DeserRows(metadata \o WriteInt(2) \o s.body, s.cached) =
            Done([cols |-> sent, paging |-> s.paging, count |-> 2, rows |-> s.body], <<>>)
       /\ \A cut \in Cuts(metadata) : ~ DeserRows(cut, s.cached).ok

\* A prepared response, as a server writes it.
SerPrepared(s) ==
  WriteShortBytes(s.id) \o WriteInt(IF s.global THEN 1 ELSE 0) \o WriteInt(Len(s.cols)) \o WriteInt(Len(s.keys))
    \o Concat([i \in DOMAIN s.keys |-> WriteShort(s.keys[i])]) \o SerColumns(s.cols, s.global)
    \o SerResultMetadata(s.cols, s.global, None_, FALSE)

(* The partition key indexes of a prepared statement are handed on sorted  *)
(* by bind marker, and with them the order of the components of the key    *)
(* that the server gave: putting them back in order of `sequence` is what  *)
(* it sent.  No shorter response is accepted.                              *)
PreparedMetadataRead ==
  \A s \in Sampled("prepared") :
    \E sent \in {SerPrepared(s)} :
       /\ \E r \in {DeserPrepared(sent)} :
            /\ r.ok /\ r.rest = <<>> /\ r.v.id = s.id /\ r.v.prepared.cols = s.cols /\ r.v.result = s.cols
            /\ \E pks \in {r.v.prepared.pks} :
                 /\ \A i, j \in DOMAIN pks : i < j => pks[i].index <= pks[j].index
                 /\ Len(pks) = Len(s.keys)
                 /\ \A n \in DOMAIN s.keys :
                      \E i \in DOMAIN pks : pks[i] = [index |-> s.keys[n], sequence |-> n - 1]
       /\ \A cut \in Cuts(sent) : ~ DeserPrepared(cut).ok
-----------------------------------------------------------------------------
(* Derived implementations *)

\* Field j holds the number j.
ValuesFor(s) == [j \in DOMAIN Kept(s) |-> Nat_("Int", <<j>>)]
PlaceOf(s, j) == Len(Kept([s EXCEPT !.fields = SubSeq(@, 1, j)]))

\* A required field behind one that may be missing: its absence is looked up
\* under the attributes of another field (ReportsMissing).
LooksAway(s) ==
  LET kept == Kept(s)
  IN ~ Has(s, "enforce_order") /\ \E i, j \in DOMAIN kept : i < j /\ Has(kept[i], "allow_missing") /\ IsRequired(kept[j])

(* A struct that derives both directions is written for the user-defined   *)
(* types that it can be read from, and for no other: the generated type    *)
(* check and the generated serialization look at names, order, missing and *)
(* excess fields alike, but for required fields behind optional ones.      *)
DerivedSidesAgree ==
  \A in \in Sampled("struct") :
    ~ Has(in.s, "allow_missing") /\ ~ LooksAway(in.s) =>
      (SerializeStruct(in.s, ValuesFor(in.s), in.t).ok <=> TypeCheckStruct(in.s, in.t))

(* A struct that was written is read back field by field, what was not     *)
(* written as a default; the generated code panics only where `allow_missing` *)
(* of the struct meets `enforce_order`, which the type check knows of and  *)
(* the reading does not.                                                   *)
DerivedReadBack ==
  \A in \in Sampled("struct") :
    \E s \in {in.s}, written \in {SerializeStruct(in.s, ValuesFor(in.s), in.t)} :
       written.ok /\ TypeCheckStruct(s, in.t) => \E read \in {DeserializeStruct(s, in.t, ReadBytesOpt(written.v).v)} :
         /\ read = Panics => Has(s, "allow_missing") /\ Has(s, "enforce_order")
         /\ read # Panics => read.ok
         /\ read.ok => \A j \in DOMAIN s.fields :
              IF read.v[j] = Default THEN Has(s.fields[j], "skip") \/ MayBeMissing(s, s.fields[j])
              ELSE ~ Has(s.fields[j], "skip") /\ read.v[j] = ValuesFor(s)[PlaceOf(s, j)]

\* The fields of a struct and of the structs flattened into it.
RECURSIVE Leaves(_)
Leaves(s) ==
  Concat([j \in DOMAIN Kept(s) |->
            IF j \in Flattened(s) THEN Leaves(Kept(s)[j].inner[1]) ELSE <<Kept(s)[j].name>>])

\* A flattened struct without fields is never done, and the only one that is
\* looked into for missing columns (CheckMissing).
RECURSIVE FlattensEmpty(_)
FlattensEmpty(s) ==
  \E j \in Flattened(s) : Leaves(Kept(s)[j].inner[1]) = <<>> \/ FlattensEmpty(Kept(s)[j].inner[1])

\* Every leaf holds another number, its place among the leaves.
RECURSIVE NumberedFrom(_, _)
NumberedFrom(s, n) ==
  [j \in DOMAIN Kept(s) |->
     LET before == n + Len(Leaves([s EXCEPT !.fields = SubSeq(Kept(s), 1, j - 1)]))
     IN IF j \in Flattened(s) THEN [vals |-> NumberedFrom(Kept(s)[j].inner[1], before)]
        ELSE Nat_("Int", <<before + 1>>)]

IntCell(n) == WriteBytes(WriteInt(n))
NamesIn(cols) == {cols[i].name : i \in DOMAIN cols}

(* A struct binds to the columns of a statement exactly when each column   *)
(* is a field of it or of a struct flattened into it and none of those     *)
(* fields is left over, in order if that is asked for; every column then   *)
(* gets the value of its own field.  A flattened struct without fields     *)
(* hides what is left over.                                                *)
RowsBound ==
  \A in \in Sampled("bound struct") :
    \E leaves \in {Leaves(in.s)}, r \in {BindStruct(in.s, NumberedFrom(in.s, 0), in.cols)} :
    LET distinct == \A i, j \in DOMAIN leaves : leaves[i] = leaves[j] => i = j
        matches == IF Has(in.s, "enforce_order")
                   THEN Len(leaves) = Len(in.cols) /\
                          (Has(in.s, "skip_name_checks") \/ \A i \in DOMAIN leaves : leaves[i] = in.cols[i].name)
                   ELSE distinct /\ {leaves[i] : i \in DOMAIN leaves} = NamesIn(in.cols)
    IN /\ ~ FlattensEmpty(in.s) \/ Has(in.s, "enforce_order") => (r.ok <=> matches)
       /\ r.ok /\ distinct /\ ~ Has(in.s, "skip_name_checks") =>
            \A i \in DOMAIN in.cols : \E n \in DOMAIN leaves : leaves[n] = in.cols[i].name /\ r.v[i] = IntCell(n)

(* A struct that passed the type check of the columns of a result is read  *)
(* from every row, or refuses it, but does not panic; from the row that it *)
(* bound to these columns it reads its own values.                         *)
RowStructsRead ==
  \A in \in Sampled("bound struct") :
    Flattened(in.s) = {} /\ RowTypeCheckStruct(in.s, in.cols) =>
      \E vals \in {NumberedFrom(in.s, 0)}, numbers \in {Concat([i \in DOMAIN in.cols |-> IntCell(i)])} :
         /\ \A cut \in Cuts(numbers) \cup {numbers} : RowStruct(in.s, in.cols, cut) # Panics
         /\ \E written \in {BindStruct(in.s, vals, in.cols)} :
              written.ok => \E read \in {RowStruct(in.s, in.cols, Concat(written.v))} :
                          /\ read.ok
                          /\ \A j \in DOMAIN in.s.fields :
                               read.v[j] = IF Has(in.s.fields[j], "skip") THEN Default ELSE vals[PlaceOf(in.s, j)]
-----------------------------------------------------------------------------
(* Frames *)

\* What is read of a batch: its value lists as they are serialized.
AsRead(r) ==
  IF r.req # "batch" THEN r
  ELSE [r EXCEPT !.lists = [i \in DOMAIN r.lists |-> SerializeNext(r, i).v], !.contexts = <<>>]

(* A request that the driver sends is read by the proxy as the same        *)
(* request, whatever parameters it carries, compressed or not, and the     *)
(* frame after it is left alone; a frame cut short is no frame.  Requests  *)
(* that the proxy does not parse keep their body.                          *)
RequestsUnderstood ==
  \A s \in Sampled("request") :
    \E made \in {MakeRequest(s.r, s.compression, s.tracing, s.stream)} :
       made.ok => \E e \in {ReadProxyFrame(made.v \o <<4, 1>>, TRUE, s.compression)} :
         /\ e.ok /\ e.rest = <<4, 1>> /\ e.v.opcode = s.r.req /\ e.v.stream = s.stream
         /\ Flag(e.v.flags, 1) = s.tracing
         /\ IF s.r.req \in {"query", "execute", "batch"}
            THEN DeserializeRequest(e.v.opcode, e.v.body) = Done(AsRead(s.r), <<>>)
            ELSE e.v.body = SerializeRequest(s.r).v
         /\ \A cut \in Cuts(made.v) : ReadProxyFrame(cut, TRUE, s.compression) = Fail

(* A batch is sent only when each statement has its own list of values,    *)
(* bound to its own columns: neither too few lists nor too many pass, nor  *)
(* one that does not fit the statement in its place.                       *)
BatchesMatched ==
  \A s \in Sampled("request") :
    s.r.req = "batch" =>
      (SerializeRequest(s.r).ok <=>
         /\ Len(s.r.statements) <= MaxStatements /\ Len(s.r.lists) = Len(s.r.statements)
         /\ \A i \in DOMAIN s.r.lists :
              LET cols == IF i \in DOMAIN s.r.contexts THEN s.r.contexts[i] ELSE <<>>
              IN Len(cols) <= MaxValues /\ SerializeRow(s.r.lists[i], cols).ok)

ExtensionFlags(x) == Bit(x.trace_id # None_, 2) + Bit(x.payload # None_, 4) + Bit(x.warnings # <<>>, 8)

\* The extensions in front of the body of a response, as the protocol has them.
SerExtensions(x) ==
  If(x.trace_id, LAMBDA id : id) \o (IF x.warnings # <<>> THEN WriteStringList(x.warnings) ELSE <<>>)
    \o If(x.payload, WriteBytesMap)

PayloadMap(o) == IF o = None_ THEN None_ ELSE Some({o[1][i] : i \in DOMAIN o[1]})

(* A response of the server is read with its trace id, its warnings, its   *)
(* payload and its body, whichever of them it has, compressed or not; one  *)
(* that is cut short is no response.                                       *)
ResponsesUnderstood ==
  \A s \in Sampled("response") :
    \E sent \in {WriteProxyFrame(132, [flags |-> Bit(s.compression # None_, 1) + ExtensionFlags(s.x),
                                       stream |-> s.stream, opcode |-> s.opcode,
                                       body |-> SerExtensions(s.x) \o s.body], ResponseOpcode, s.compression).v} :
       /\ \E r \in {ReadResponseFrame(sent \o <<132>>)} :
            /\ r.ok /\ r.rest = <<132>> /\ r.v.stream = s.stream /\ r.v.opcode = s.opcode
            /\ ParseResponseBody(r.v.flags, s.compression, r.v.body) =
                 Done([s.x EXCEPT !.payload = PayloadMap(@)], s.body)
       /\ \A cut \in Cuts(sent) : ReadResponseFrame(cut) = Fail

(* An error that the proxy forges is the error that the driver reads, what-*)
(* ever code the server announced for the rate limit: the codes of the     *)
(* protocol are never taken for it.  Only the rate limit cannot be forged. *)
ErrorsUnderstood ==
  \A s \in Sampled("error") :
    \E forged \in {ForgedError(s.error, s.msg)}, features \in {[rate_limit_error |-> s.announced]} :
       /\ forged = Panics <=> s.error.error = "RateLimitReached"
       /\ forged.ok /\ ~ (s.error.error = "Other" /\ s.announced = Some(s.error.fields[1])) =>
            /\ DeserError(features, forged.v) = Done(s.error, <<>>)
            /\ \A cut \in Cuts(forged.v) : ~ DeserError(features, cut).ok

\* An event, as the server writes it.
SerEvent(e) ==
  IF "addr" \in DOMAIN e
  THEN WriteShortBytes(IF e.change \in {"UP", "DOWN"} THEN Spelled.STATUS_CHANGE ELSE Spelled.TOPOLOGY_CHANGE)
         \o WriteShortBytes(Spelled[e.change]) \o WriteInet(e.addr)
  ELSE WriteShortBytes(Spelled.SCHEMA_CHANGE) \o WriteShortBytes(Spelled[e.change])
         \o WriteShortBytes(Spelled[e.target]) \o WriteShortBytes(e.keyspace)
         \o (IF e.names = <<>> THEN <<>> ELSE WriteShortBytes(e.names[1]))
         \o (IF e.target \in {"FUNCTION", "AGGREGATE"} THEN WriteStringList(Tail(e.names)) ELSE <<>>)

(* An event is read as what the server said, and one that is cut short is  *)
(* refused, unless it is cut within the address: that panics the reader.   *)
EventsUnderstood ==
  \A e \in Sampled("event") :
    \E sent \in {SerEvent(e)} :
    LET addressFrom == Len(sent) - (IF "addr" \in DOMAIN e THEN Len(e.addr.ip) + 4 ELSE 0)
    IN /\ DeserEvent(sent) = Done(e, <<>>)
       /\ \A cut \in Cuts(sent) : \E r \in {DeserEvent(cut)} :
            /\ ~ r.ok
            /\ r = Panics <=>
                 "addr" \in DOMAIN e /\ Len(cut) \in addressFrom .. addressFrom + Len(e.addr.ip) - 1
-----------------------------------------------------------------------------
(* Numbers, times and timeuuids *)

(* Two varints are equal when they are the same number, however many zeros *)
(* are in front; the ones in front of a negative number are not taken away *)
(* and make it another.                                                    *)
VarintsEqual ==
  \A a \in Sampled("varint") :
    /\ BigInt(Normalized(a)) = BigInt(a)
    /\ \A b \in Inputs.varint :
         /\ VarintEq(a, b) => BigInt(a) = BigInt(b)
         /\ BigInt(a) = BigInt(b) /\ ~ HasLeadingOnes(a) /\ ~ HasLeadingOnes(b) => VarintEq(a, b)

(* Timeuuids are in a total order that their equality goes with: by time   *)
(* first, then by the signed bytes that follow; the version is no part of  *)
(* either.                                                                 *)
TimeuuidsOrdered ==
  \A a \in Sampled("timeuuid") :
    LET Time(u) == <<u[7] % 16, u[8], u[5], u[6], u[1], u[2], u[3], u[4]>>
        Signed(u) == [i \in 1 .. 8 |-> IF u[i + 8] > 127 THEN u[i + 8] - 256 ELSE u[i + 8]]
    IN \A b \in Inputs.timeuuid :
         /\ <<TimeuuidLess(a, b), TimeuuidEq(a, b), TimeuuidLess(b, a)>> \in
              {<<TRUE, FALSE, FALSE>>, <<FALSE, TRUE, FALSE>>, <<FALSE, FALSE, TRUE>>}
         /\ TimeuuidLess(a, b) => \A c \in Inputs.timeuuid : TimeuuidLess(b, c) => TimeuuidLess(a, c)
         /\ LessThan(Time(a), Time(b)) => TimeuuidLess(a, b)
         /\ Time(a) = Time(b) => (TimeuuidLess(a, b) <=> LessThan(Signed(a), Signed(b)))

(* A time of day is accepted by the conversions of both crates or by none, *)
(* converted back it is the same, and every time of a crate that is not in *)
(* a leap second at midnight has one; a moment is stamped with the last    *)
(* millisecond that has passed, also before the epoch; days round trip.    *)
MomentsConverted ==
  /\ \A t \in Sampled("time") :
       /\ (TimeIntoChrono(t) # Overflow) = (t \in 0 .. LastNano)
       /\ (TimeIntoHms(t) # Overflow) = (t \in 0 .. LastNano)
       /\ t \in 0 .. LastNano =>
            /\ TimeFromChrono(TimeIntoChrono(t)[1]) = Fits(t)
            /\ LET x == TimeIntoHms(t)[1] IN TimeFromHms(x.h, x.m, x.s, x.n) = t
  /\ \A c \in Sampled("chrono time") :
       LET t == TimeFromChrono(c)
       IN t = Overflow \/ (t[1] \in 0 .. LastNano /\ (c.nanos < NanosPerSecond => TimeIntoChrono(t[1]) = Fits(c)))
  /\ \A n \in Sampled("moment") :
       LET m == TimestampFrom(n)
       IN TimestampInto(m) <= n /\ n < TimestampInto(m + 1)
  /\ \A d \in Sampled("day") :
       /\ DateInto(d) # Overflow => DateFrom(DateInto(d)[1]) = d
       /\ d - EpochDay \in DateRange => DateInto(DateFrom(d - EpochDay)) = Fits(d - EpochDay)

(* Values, types and rows mean the same to whoever writes and reads them.  *)
ValuesUnderstood ==
  /\ VintsReadBack /\ ValuesReadBack /\ TypedReading /\ ClassNamesParsed /\ CqlNamesParsed
  /\ BoundValuesKept /\ RowIteratorsAgree /\ DerivedSidesAgree /\ DerivedReadBack /\ RowsBound
  /\ RowStructsRead /\ VarintsEqual /\ TimeuuidsOrdered /\ MomentsConverted

(* Requests, responses and the metadata in them mean the same at both ends *)
(* of a connection.                                                        *)
FramesUnderstood ==
  /\ ResultMetadataRead /\ PreparedMetadataRead /\ RequestsUnderstood /\ BatchesMatched
  /\ ResponsesUnderstood /\ ErrorsUnderstood /\ EventsUnderstood
=============================================================================
