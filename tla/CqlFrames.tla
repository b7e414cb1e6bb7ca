------------------------------ MODULE CqlFrames ------------------------------
(***************************************************************************)
(* Frames: the requests that the driver writes and the proxy reads         *)
(* (frame/request/), the responses that the proxy forges and the driver    *)
(* reads (frame/response/), and the envelope around both: the header, the  *)
(* compression and the extensions in front of a body (frame/mod.rs, and    *)
(* frame.rs of the proxy).                                                 *)
(*                                                                         *)
(* The words of the protocol ("TOPOLOGY_CHANGE", "KEYSPACE"...) are byte   *)
(* strings of one byte, all different.                                     *)
(***************************************************************************)
EXTENDS CqlRows

CONSTANT MaxStatements  \* u16::MAX, the most statements that a batch may hold

RequestOpcode ==
  [startup |-> 1, options |-> 5, query |-> 7, prepare |-> 9, execute |-> 10, register |-> 11,
   batch |-> 13, auth_response |-> 15]

ResponseOpcode ==
  [error |-> 0, ready |-> 2, authenticate |-> 3, supported |-> 6, result |-> 8, event |-> 12,
   auth_challenge |-> 14, auth_success |-> 16]

\* try_from: the name that has the code.
OpcodeNamed(codes, code) ==
  IF \E n \in DOMAIN codes : codes[n] = code THEN Some(CHOOSE n \in DOMAIN codes : codes[n] = code) ELSE None_

\* What is written when a flag says that it is there.
If(o, Write(_)) == IF o = None_ THEN <<>> ELSE Write(o[1])
Bit(cond, value) == IF cond THEN value ELSE 0

\* Buf::get_u8, which panics on an empty buffer.
GetU8(buf) == IF buf = <<>> THEN Panics ELSE ReadByte(buf)

ReadLong(buf) == ReadRawBytes(8, buf)
ReadUuid(buf) == ReadRawBytes(16, buf)
-----------------------------------------------------------------------------
(* Requests *)

QueryParameters(consistency, serial, timestamp, page_size, paging_state, skip_metadata, values) ==
  [consistency |-> consistency, serial |-> serial, timestamp |-> timestamp, page_size |-> page_size,
   paging_state |-> paging_state, skip_metadata |-> skip_metadata, values |-> values]

Query(contents, parameters) == [req |-> "query", contents |-> contents, parameters |-> parameters]
Execute(id, parameters) == [req |-> "execute", id |-> id, parameters |-> parameters]
Prepare(text) == [req |-> "prepare", text |-> text]
Startup(options) == [req |-> "startup", options |-> options]
Register(events) == [req |-> "register", events |-> events]
AuthResponse(response) == [req |-> "auth_response", response |-> response]
Options == [req |-> "options"]

\* A batch: `lists` are its value lists, `contexts` the columns that the driver
\* knows of its statements.
Batch(type, statements, lists, contexts, consistency, serial, timestamp) ==
  [req |-> "batch", type |-> type, statements |-> statements, lists |-> lists, contexts |-> contexts,
   consistency |-> consistency, serial |-> serial, timestamp |-> timestamp]
TextStatement(text) == [st |-> "query", text |-> text]
PreparedStatement(id) == [st |-> "prepared", id |-> id]

\* The flags, and what they announce in the order of the bits...
ParameterFlags(p) ==
  Bit(p.values.count # 0, 1) + Bit(p.skip_metadata, 2) + Bit(p.page_size # None_, 4) +
  Bit(p.paging_state # None_, 8) + Bit(p.serial # None_, 16) + Bit(p.timestamp # None_, 32)

\* The last two parameters, of queries and of batches.
SerialAndTimestamp(p) == If(p.serial, WriteConsistency) \o If(p.timestamp, LAMBDA w : w)

SerializeParameters(p) ==
  WriteConsistency(p.consistency) \o <<ParameterFlags(p)>>
    \o (IF p.values.count # 0 THEN WriteToRequest(p.values) ELSE <<>>)
    \o If(p.page_size, WriteInt) \o If(p.paging_state, WriteBytes) \o SerialAndTimestamp(p)

ReadSerial(buf) ==
  Bind(ReadConsistency(buf), LAMBDA c, rest : IF c \in SerialConsistencies THEN Done(c, rest) ELSE Fail)

\* The flags of a query or a batch: those that nothing is known of are refused.
ReadFlags(buf) == Bind(GetU8(buf), LAMBDA flags, rest : IF flags > 127 THEN Fail ELSE Done(flags, rest))

ConsistencyAndFlags(buf) == Then(Then(Start(buf), ReadConsistency), ReadFlags)

\* Both are read behind the fields r.
ReadSerialAndTimestamp(r, flags) == ThenIf(ThenIf(r, Flag(flags, 4), ReadSerial), Flag(flags, 5), ReadLong)

ParameterFields(flags, buf) ==
  ReadSerialAndTimestamp(ThenIf(ThenIf(ThenIf(Start(buf), Flag(flags, 0), NewFromFrame),
                                       Flag(flags, 2), ReadInt), Flag(flags, 3), ReadBytes), flags)

DeserializeParameters(buf) ==
  Bind(ConsistencyAndFlags(buf), LAMBDA h, b2 :
    IF Flag(h[2], 6) THEN Fail
    ELSE Bind(ParameterFields(h[2], b2), LAMBDA f, rest :
           Done(QueryParameters(h[1], f[4], f[5], f[2], f[3], Flag(h[2], 1),
                                IF f[1] = None_ THEN SerializedValues(<<>>, 0) ELSE f[1][1]), rest)))

SerializeStatement(s) ==
  IF s.st = "query" THEN <<0>> \o WriteBytes(s.text) ELSE <<1>> \o WriteShortBytes(s.id)

DeserializeStatement(buf) ==
  Bind(GetU8(buf), LAMBDA kind, rest :
    IF kind = 0 THEN Bind(ReadLongString(rest), LAMBDA t, left : Done(TextStatement(t), left))
    ELSE IF kind = 1 THEN Bind(ReadShortBytes(rest), LAMBDA id, left : Done(PreparedStatement(id), left))
    ELSE Fail)

\* RawBatchValuesAdapter: a list of values without a context meets an empty one,
\* so that there are as many lists as the caller gave.
SerializeNext(b, i) ==
  SerializeRow(b.lists[i], IF i \in DOMAIN b.contexts THEN b.contexts[i] ELSE <<>>)

\* The value lists end before the statements, or go on after them.
ListsMismatch(b) == Len(b.lists) < Len(b.statements) \/ Len(b.lists) > Len(b.statements)

\* Batch::do_serialize: the number of values of a statement is put in front of
\* them once they are written.
BatchBody(b, values) ==
  IF \E i \in DOMAIN values : ~ values[i].ok \/ values[i].v.count > MaxValues THEN Fail
  ELSE Done(<<b.type>> \o WriteShort(Len(b.statements))
              \o Concat([i \in DOMAIN values |-> SerializeStatement(b.statements[i]) \o WriteToRequest(values[i].v)])
              \o WriteConsistency(b.consistency) \o <<Bit(b.serial # None_, 16) + Bit(b.timestamp # None_, 32)>>
              \o SerialAndTimestamp(b), <<>>)

SerializeBatch(b) ==
  IF Len(b.statements) > MaxStatements \/ ListsMismatch(b) THEN Fail
  ELSE BatchBody(b, [i \in DOMAIN b.statements |-> SerializeNext(b, i)])

\* A batch that is read has its values serialized already.
StatementAndValues(buf) == Then(Then(Start(buf), DeserializeStatement), NewFromFrame)
BatchItems(buf) == Bind(ReadShort(buf), LAMBDA n, rest : Times(n, rest, StatementAndValues))

DeserializeBatch(buf) ==
  Bind(GetU8(buf), LAMBDA type, b1 :
    IF type > 2 THEN Fail
    ELSE Bind(Then(Then(Start(b1), BatchItems), ConsistencyAndFlags), LAMBDA b, b5 :
      Bind(ReadSerialAndTimestamp(Start(b5), b[2][2]), LAMBDA f, rest :
        Done(Batch(type, [i \in DOMAIN b[1] |-> b[1][i][1]], [i \in DOMAIN b[1] |-> b[1][i][2]], <<>>,
                   b[2][1], f[1], f[2]), rest))))

SerializeRequest(r) ==
  CASE r.req = "query" -> Done(WriteBytes(r.contents) \o SerializeParameters(r.parameters), <<>>)
    [] r.req = "execute" -> Done(WriteShortBytes(r.id) \o SerializeParameters(r.parameters), <<>>)
    [] r.req = "batch" -> SerializeBatch(r)
    [] r.req = "prepare" -> Done(WriteBytes(r.text), <<>>)
    [] r.req = "startup" -> Done(WriteStringMap(r.options), <<>>)
    [] r.req = "register" -> Done(WriteStringList(r.events), <<>>)
    [] r.req = "auth_response" -> Done(WriteBytesOpt(r.response), <<>>)
    [] r.req = "options" -> Done(<<>>, <<>>)

\* Request::deserialize; every other opcode is unimplemented!().
DeserializeRequest(opcode, buf) ==
  CASE opcode = "query" -> Bind(ReadLongString(buf), LAMBDA c, rest :
                             Bind(DeserializeParameters(rest), LAMBDA p, left : Done(Query(c, p), left)))
    [] opcode = "execute" -> Bind(ReadShortBytes(buf), LAMBDA id, rest :
                               Bind(DeserializeParameters(rest), LAMBDA p, left : Done(Execute(id, p), left)))
    [] opcode = "batch" -> DeserializeBatch(buf)
    [] OTHER -> Panics
-----------------------------------------------------------------------------
(* Responses *)

\* The words of events, as byte strings.
Spelled ==
  [TOPOLOGY_CHANGE |-> <<1>>, STATUS_CHANGE |-> <<2>>, SCHEMA_CHANGE |-> <<3>>, NEW_NODE |-> <<4>>,
   REMOVED_NODE |-> <<5>>, UP |-> <<6>>, DOWN |-> <<7>>, CREATED |-> <<8>>, UPDATED |-> <<9>>,
   DROPPED |-> <<10>>, KEYSPACE |-> <<11>>, TABLE |-> <<12>>, TYPE |-> <<13>>, FUNCTION |-> <<14>>,
   AGGREGATE |-> <<15>>]

\* The word that is spelled so, if it is one of those.
Among(words, text) == {w \in words : Spelled[w] = text}

ClusterEvent(w, addr) == [change |-> w, addr |-> addr]

ChangeOf(words, buf) ==
  Bind(Then(Then(Start(buf), ReadString), ReadInet), LAMBDA f, rest :
    IF Among(words, f[1]) = {} THEN Fail
    ELSE Done(ClusterEvent(CHOOSE w \in Among(words, f[1]) : TRUE, f[2]), rest))

\* SchemaChangeEvent::deserialize.  A change of an unknown type is Invalid, one
\* of an unknown target is refused.
ChangeType(text) ==
  LET types == Among({"CREATED", "UPDATED", "DROPPED"}, text)
  IN IF types = {} THEN "Invalid" ELSE CHOOSE w \in types : TRUE

ChangedNames(of, buf) ==
  CASE of = {} -> Fail
    [] of = {"KEYSPACE"} -> Start(buf)
    [] of \in {{"TABLE"}, {"TYPE"}} -> Then(Start(buf), ReadString)
    [] OTHER -> Bind(Then(Then(Start(buf), ReadString), ReadStringList), LAMBDA f, rest : Done(<<f[1]>> \o f[2], rest))

DeserSchemaChange(buf) ==
  Bind(Then(Then(Then(Start(buf), ReadString), ReadString), ReadString), LAMBDA f, b3 :
    LET of == Among({"KEYSPACE", "TABLE", "TYPE", "FUNCTION", "AGGREGATE"}, f[2])
    IN Bind(ChangedNames(of, b3), LAMBDA names, rest :
         Done([change |-> ChangeType(f[1]), target |-> CHOOSE w \in of : TRUE, keyspace |-> f[3], names |-> names],
              rest)))

DeserEvent(buf) ==
  Bind(ReadString(buf), LAMBDA text, rest :
    CASE text = Spelled.TOPOLOGY_CHANGE -> ChangeOf({"NEW_NODE", "REMOVED_NODE"}, rest)
      [] text = Spelled.STATUS_CHANGE -> ChangeOf({"UP", "DOWN"}, rest)
      [] text = Spelled.SCHEMA_CHANGE -> DeserSchemaChange(rest)
      [] OTHER -> Fail)

\* What the fields of an error are; the errors that are not here have none.
ErrorFields ==
  [Unavailable |-> <<"consistency", "int", "int">>, WriteTimeout |-> <<"consistency", "int", "int", "string">>,
   ReadTimeout |-> <<"consistency", "int", "int", "bool">>,
   ReadFailure |-> <<"consistency", "int", "int", "int", "bool">>, FunctionFailure |-> <<"string", "string", "list">>,
   WriteFailure |-> <<"consistency", "int", "int", "int", "string">>, AlreadyExists |-> <<"string", "string">>,
   Unprepared |-> <<"bytes">>, RateLimitReached |-> <<"byte", "bool">>]

FieldsOf(name) == IF name \in DOMAIN ErrorFields THEN ErrorFields[name] ELSE <<>>

ErrorCode ==
  [ServerError |-> 0, ProtocolError |-> 10, AuthenticationError |-> 256, Unavailable |-> 4096, Overloaded |-> 4097,
   IsBootstrapping |-> 4098, TruncateError |-> 4099, WriteTimeout |-> 4352, ReadTimeout |-> 4608,
   ReadFailure |-> 4864, FunctionFailure |-> 5120, WriteFailure |-> 5376, SyntaxError |-> 8192,
   Unauthorized |-> 8448, Invalid |-> 8704, ConfigError |-> 8960, AlreadyExists |-> 9216, Unprepared |-> 9472]

DbError(name, fields) == [error |-> name, fields |-> fields]

ReadErrorField(kind, buf) ==
  CASE kind = "consistency" -> ReadConsistency(buf)
    [] kind = "int" -> ReadInt(buf)
    [] kind = "string" -> ReadString(buf)
    [] kind = "list" -> ReadStringList(buf)
    [] kind = "bytes" -> ReadShortBytes(buf)
    [] kind = "byte" -> ReadByte(buf)
    [] kind = "bool" -> Bind(ReadByte(buf), LAMBDA b, rest : Done(b # 0, rest))

ReadErrorFields(name, buf) ==
  LET kinds == FieldsOf(name)
      upTo[i \in 0 .. Len(kinds)] ==
        IF i = 0 THEN Done(<<>>, buf)
        ELSE Bind(upTo[i - 1], LAMBDA fields, rest :
               Bind(ReadErrorField(kinds[i], rest), LAMBDA f, left : Done(Append(fields, f), left)))
  IN Bind(upTo[Len(kinds)], LAMBDA fields, rest : Done(DbError(name, fields), rest))

\* Mutant: the code that the server announced for the rate limit comes first.
ErrorNamedRateLimitFirst(features, code) ==
  IF features.rate_limit_error = Some(code) THEN Some("RateLimitReached") ELSE OpcodeNamed(ErrorCode, code)

\* The codes of the protocol come before the one that the server announced.
ErrorNamed(features, code) ==
  IF OpcodeNamed(ErrorCode, code) # None_ THEN OpcodeNamed(ErrorCode, code)
  ELSE IF features.rate_limit_error = Some(code) THEN Some("RateLimitReached") ELSE None_

DeserError(features, buf) ==
  Bind(Then(Then(Start(buf), ReadInt), ReadString), LAMBDA f, b2 :
    IF ErrorNamed(features, f[1]) = None_ THEN Done(DbError("Other", <<f[1]>>), b2)
    ELSE ReadErrorFields(ErrorNamed(features, f[1])[1], b2))

DeserResult(buf, cached) ==
  Bind(ReadInt(buf), LAMBDA id, rest :
    CASE id = 1 -> Done([result |-> "void"], rest)
      [] id = 2 -> Bind(DeserRows(rest, cached), LAMBDA rows, left : Done([result |-> "rows", rows |-> rows], left))
      [] id = 3 -> Bind(ReadString(rest), LAMBDA ks, left : Done([result |-> "set_keyspace", keyspace |-> ks], left))
      [] id = 4 -> Bind(DeserPrepared(rest), LAMBDA p, left : Done([result |-> "prepared", prepared |-> p], left))
      [] id = 5 -> Bind(DeserSchemaChange(rest), LAMBDA e, left : Done([result |-> "schema_change", event |-> e], left))
      [] OTHER -> Fail)

DeserResponse(features, opcode, buf, cached) ==
  CASE opcode = "error" -> DeserError(features, buf)
    [] opcode = "ready" -> Done([ready |-> TRUE], buf)
    [] opcode = "authenticate" -> ReadString(buf)
    [] opcode = "supported" -> ReadStringMultimap(buf)
    [] opcode = "result" -> DeserResult(buf, cached)
    [] opcode = "event" -> DeserEvent(buf)
    [] opcode \in {"auth_challenge", "auth_success"} -> ReadBytesOpt(buf)
-----------------------------------------------------------------------------
(* What the proxy forges *)

WriteErrorField(kind, f) ==
  CASE kind = "consistency" -> WriteConsistency(f)
    [] kind = "int" -> WriteInt(f)
    [] kind \in {"string", "bytes"} -> WriteShortBytes(f)
    [] kind = "list" -> WriteStringList(f)
    [] kind = "bool" -> <<IF f THEN 1 ELSE 0>>

\* forged_error: without features, so that there is no code for the rate limit,
\* and the fields of that error are not written.
ForgedError(error, msg) ==
  IF error.error = "RateLimitReached" THEN Panics
  ELSE Done(WriteInt(IF error.error = "Other" THEN error.fields[1] ELSE ErrorCode[error.error]) \o WriteShortBytes(msg)
              \o Concat([i \in DOMAIN FieldsOf(error.error) |->
                           WriteErrorField(FieldsOf(error.error)[i], error.fields[i])]), <<>>)

ForgedSupported(options) == WriteStringMultimap(options)
-----------------------------------------------------------------------------
(* The envelope *)

\* lz4 and snappy, as far as the frames tell: a block is not its contents, and
\* one that is cut or longer than announced is refused.
Lz4Block(b) == [i \in 1 .. Len(b) |-> 255 - b[i]] \o <<0>>
Lz4Contents(b, n) ==
  IF b = <<>> \/ b[Len(b)] # 0 \/ Len(b) - 1 > n THEN Fail
  ELSE Done([i \in 1 .. Len(b) - 1 |-> 255 - b[i]], <<>>)
SnappyBlock(b) == <<Len(b)>> \o b
SnappyContents(b) == IF b = <<>> \/ Len(b) # b[1] + 1 THEN Fail ELSE Done(Tail(b), <<>>)

CompressAppend(b, compression) ==
  IF compression = "lz4" THEN WriteInt(Len(b)) \o Lz4Block(b) ELSE SnappyBlock(b)

\* Buf::get_u32 panics on a buffer that is too short.
Decompress(b, compression) ==
  IF compression = "snappy" THEN SnappyContents(b)
  ELSE IF Len(b) < 4 THEN Panics
  ELSE Lz4Contents(Drop(b, 4), IntOf(SubSeq(b, 1, 4)))

Header(version, flags, stream, opcode, length) ==
  <<version, flags>> \o WriteShort(stream) \o <<opcode>> \o WriteInt(length)

Framed(version, flags, stream, opcode, body) ==
  Done(Header(version, flags, stream, opcode, Len(body)) \o body, <<>>)

\* SerializedRequest::make and set_stream
MakeRequest(r, compression, tracing, stream) ==
  Bind(SerializeRequest(r), LAMBDA plain, none :
    Framed(4, Bit(compression # None_, 1) + Bit(tracing, 2), stream, RequestOpcode[r.req],
           IF compression # None_ THEN CompressAppend(plain, compression[1]) ELSE plain))

I16(n) == IF n >= 2^15 THEN n - 2^16 ELSE n

\* The nine bytes of a header, and the body that they announce; the stream of
\* bytes may end anywhere.
ReadHeader(bytes) ==
  Bind(ReadRawBytes(9, bytes), LAMBDA h, rest :
    Done([version |-> h[1], flags |-> h[2], stream |-> I16(h[3] * 256 + h[4]), opcode |-> h[5],
          length |-> IntOf(SubSeq(h, 6, 9))], rest))

Envelope(h, opcode, body) == [flags |-> h.flags, stream |-> h.stream, opcode |-> opcode, body |-> body]

\* read_response_frame of the driver
ReadResponseFrame(bytes) ==
  Bind(ReadHeader(bytes), LAMBDA h, rest :
    LET opcode == OpcodeNamed(ResponseOpcode, h.opcode)
    IN IF h.version # 132 \/ opcode = None_ THEN Fail
       ELSE Bind(ReadRawBytes(h.length, rest), LAMBDA body, left : Done(Envelope(h, opcode[1], body), left)))

\* read_frame of the proxy: only the direction of the version counts, and the
\* body is decompressed as was negotiated on the connection.
MaybeDecompressBody(flags, negotiated, body) ==
  IF ~ Flag(flags, 0) THEN Done(body, <<>>)
  ELSE IF negotiated = None_ THEN Fail ELSE Decompress(body, negotiated[1])

ReadProxyFrame(bytes, request, negotiated) ==
  Bind(ReadHeader(bytes), LAMBDA h, rest :
    LET opcode == OpcodeNamed(IF request THEN RequestOpcode ELSE ResponseOpcode, h.opcode)
    IN IF (h.version > 127) = request \/ opcode = None_ THEN Fail
       ELSE Bind(ReadRawBytes(h.length, rest), LAMBDA raw, left :
              Bind(MaybeDecompressBody(h.flags, negotiated, raw), LAMBDA body, none :
                Done(Envelope(h, opcode[1], body), left))))

\* write_frame of the proxy
WriteProxyFrame(version, e, codes, negotiated) ==
  IF Flag(e.flags, 0) /\ negotiated = None_ THEN Fail
  ELSE Framed(version, e.flags, e.stream, codes[e.opcode],
              IF Flag(e.flags, 0) THEN CompressAppend(e.body, negotiated[1]) ELSE e.body)

Extensions_(trace_id, warnings, payload) == [trace_id |-> trace_id, warnings |-> warnings, payload |-> payload]

ParseExtensions(flags, body) ==
  Bind(ThenIf(ThenIf(ThenIf(Start(body), Flag(flags, 1), ReadUuid), Flag(flags, 3), ReadStringList),
              Flag(flags, 2), ReadBytesMap), LAMBDA f, rest :
    Done(Extensions_(f[1], IF f[2] = None_ THEN <<>> ELSE f[2][1], f[3]), rest))

\* parse_response_body_extensions
ParseResponseBody(flags, compression, body) ==
  Bind(MaybeDecompressBody(flags, compression, body), LAMBDA plain, none : ParseExtensions(flags, plain))
=============================================================================
