--------------------------- MODULE Repreparation ---------------------------
(***************************************************************************)
(* Prepared statements between the driver and nodes that may forget them:  *)
(* Session::prepare on all nodes, Connection::execute_raw_with_consistency *)
(* and batch_with_consistency with the repreparation of what the node does *)
(* not know, and unprepared statements with values, which the driver       *)
(* prepares itself.                                                        *)
(*                                                                         *)
(* The id that a node gives to a statement depends on the statement and on *)
(* the keyspace of the connection.  The columns of the tables are a schema *)
(* version; rows are encoded with the version of the time they are read.   *)
(***************************************************************************)
EXTENDS Naturals, Sequences, FiniteSetsExt, Functions

CONSTANTS
  Hosts,           \* the nodes, in the order of the connections
  Texts,           \* the contents of statements
  Spaces,          \* the keyspaces that connections may use
  ServerCapacity,  \* how many prepared statements a node remembers
  Batches,         \* the batches that are sent
  MaxEvents,       \* bound on the events of the servers
  MaxOperations    \* bound on the operations of the client

ASSUME RepreparationConstants ==
  /\ ServerCapacity \in Nat \ {0}
  /\ MaxEvents \in Nat
  /\ MaxOperations \in Nat
  /\ Hosts \in Seq(Range(Hosts)) /\ Hosts # <<>>
  /\ \A batch \in Batches : batch \in Seq([text: Texts, kind: {"prepared", "values", "query"}])

VARIABLES
  remembered,  \* the ids that each node remembers
  space,       \* the keyspace of the connection to each node
  version,     \* the schema version
  statements,  \* the PreparedStatements of the client
  op,          \* the operation of the client in progress
  events       \* number of events of the servers

reprepareVars == <<remembered, space, version, statements, op, events>>

NoOp == [at |-> "idle", host |-> Hosts[1], outcome |-> "none", ops |-> 0, frame |-> <<>>,
         cached |-> FALSE, todo |-> {}, results |-> <<>>, given |-> <<>>, round |-> 1,
         forgot |-> FALSE, meta |-> 0, data |-> 0]

ReprepareInit ==
  /\ remembered = [h \in Range(Hosts) |-> {}]
  /\ space \in [Range(Hosts) -> Spaces]
  /\ version = 1
  /\ statements = {}
  /\ op = NoOp
  /\ events = 0

IdOf(text, host) == <<text, space[host]>>

\* RESULT Prepared: the node remembers the statement, and forgets another one
\* when it has no room left.
Remembering(host, id) ==
  LET kept == remembered[host] \cup {id}
  IN  IF Cardinality(kept) <= ServerCapacity
      THEN {[remembered EXCEPT ![host] = kept]}
      ELSE {[remembered EXCEPT ![host] = kept \ {old}] : old \in kept \ {id}}

\* PreparedStatement, with the metadata of the time of its preparation; a
\* statement of a batch that is not prepared has no id.
Prepared(text, id, meta) == [text |-> text, id |-> id, meta |-> meta]
Unprepared(text) == [text |-> text, id |-> <<>>, meta |-> 0]

End(outcome) ==
  op' = [NoOp EXCEPT !.outcome = outcome, !.ops = op.ops, !.host = op.host,
                     !.cached = op.cached, !.forgot = op.forgot]

Starts == op.at = "idle" /\ op.ops < MaxOperations
Started(at, host) == [NoOp EXCEPT !.at = at, !.host = host, !.ops = op.ops + 1]
-----------------------------------------------------------------------------
(* Session::prepare *)

\* What a prepare_raw call may come to, besides an id.
Waiting == <<"waiting">>
Failed == <<"failed">>
Mismatch == <<"mismatch">>

StartPrepare(text) ==
  /\ Starts
  /\ op' = [Started("preparing", Hosts[1]) EXCEPT !.frame = <<Unprepared(text)>>,
                                                  !.results = [i \in DOMAIN Hosts |-> Waiting]]
  /\ UNCHANGED <<remembered, space, version, statements, events>>

\* One of the concurrent prepare_raw calls is answered, or fails.
PrepareAnswered(i) ==
  /\ op.at = "preparing" /\ op.results[i] = Waiting
  /\ \/ /\ op' = [op EXCEPT !.results[i] = Failed]
        /\ UNCHANGED remembered
     \/ /\ op' = [op EXCEPT !.results[i] = IdOf(op.frame[1].text, Hosts[i])]
        /\ remembered' \in Remembering(Hosts[i], IdOf(op.frame[1].text, Hosts[i]))
  /\ UNCHANGED <<space, version, statements, events>>

\* prepare_on_all: the first success, if all others agree with it.
PrepareOnAll(results) ==
  LET answered == {i \in DOMAIN results : results[i] # Failed}
      first    == results[Min(answered)]
  IN  CASE answered = {} -> Failed
        [] answered # {} /\ \E i \in answered : results[i] # first -> Mismatch
        [] answered # {} /\ \A i \in answered : results[i] = first -> first

\* prepare_nongeneric: when all nodes have failed, one more round, on the
\* connections to all shards.
PrepareCollected ==
  /\ op.at = "preparing" /\ \A i \in DOMAIN Hosts : op.results[i] # Waiting
  /\ LET result == PrepareOnAll(op.results)
     IN  IF result = Failed /\ op.round = 1
         THEN /\ op' = [op EXCEPT !.round = 2, !.results = [i \in DOMAIN Hosts |-> Waiting]]
              /\ UNCHANGED statements
         ELSE IF result \in {Failed, Mismatch}
         THEN End(result[1]) /\ UNCHANGED statements
         ELSE /\ statements' = statements \cup {Prepared(op.frame[1].text, result, version)}
              /\ op' = [NoOp EXCEPT !.outcome = "prepared", !.ops = op.ops, !.results = op.results]
  /\ UNCHANGED <<remembered, space, version, events>>
-----------------------------------------------------------------------------
(* Connection::execute_raw_with_consistency *)

\* A statement is executed with or without use_cached_result_metadata.
StartExecute(statement, host) ==
  /\ Starts
  /\ \E cached \in BOOLEAN :
       op' = [Started("execute", host) EXCEPT !.frame = <<statement>>, !.cached = cached]
  /\ UNCHANGED <<remembered, space, version, statements, events>>

\* Session::query with values prepares the statement on the connection, first.
StartQuery(text, host) ==
  /\ Starts
  /\ op' = [Started("prepare_query", host) EXCEPT !.frame = <<Unprepared(text)>>]
  /\ UNCHANGED <<remembered, space, version, statements, events>>

QueryPrepared ==
  /\ op.at = "prepare_query"
  /\ LET text == op.frame[1].text
         id   == IdOf(text, op.host)
     IN  /\ remembered' \in Remembering(op.host, id)
         /\ op' = [op EXCEPT !.at = "execute", !.frame = <<Prepared(text, id, version)>>]
  /\ UNCHANGED <<space, version, statements, events>>

\* The places in the frame of the statements that the node does not remember; the
\* first is the one it names.
Forgotten ==
  {i \in DOMAIN op.frame : op.frame[i].id # <<>> /\ op.frame[i].id \notin remembered[op.host]}

\* The metadata of the rows: those of the statement if the node was told to skip
\* them, and otherwise those of the response.
DecodedWith == IF op.cached THEN op.frame[1].meta ELSE version

\* EXECUTE is answered for the first time ("execute") or again ("again").
ExecuteAnswered ==
  /\ op.at \in {"execute", "again"}
  /\ IF Forgotten = {}
     THEN op' = [NoOp EXCEPT !.outcome = "rows", !.ops = op.ops, !.frame = op.frame,
                             !.cached = op.cached, !.meta = DecodedWith, !.data = version]
     ELSE IF op.at = "execute"
     THEN op' = [op EXCEPT !.at = "reprepare", !.todo = {op.frame[Min(Forgotten)].id}]
     ELSE End("unprepared")
  /\ UNCHANGED <<remembered, space, version, statements, events>>

\* reprepare: the id has to be the one the statement had.
Reprepare(found, then) ==
  /\ remembered' \in Remembering(op.host, IdOf(found.text, op.host))
  /\ IF IdOf(found.text, op.host) # found.id
     THEN End("id_changed")
     ELSE op' = [op EXCEPT !.at = then, !.todo = {}, !.forgot = FALSE]

ExecuteReprepared ==
  /\ op.at = "reprepare"
  /\ Reprepare(op.frame[1], "again")
  /\ UNCHANGED <<space, version, statements, events>>
-----------------------------------------------------------------------------
(* Connection::batch_with_consistency *)

\* The statements of a batch: a PreparedStatement of the client ("prepared"), or a
\* text that comes with values ("values") or without ("query").
BatchStatement(b) ==
  IF b.kind = "prepared" THEN CHOOSE s \in statements : s.text = b.text ELSE Unprepared(b.text)

StartBatch(batch, host) ==
  /\ Starts
  /\ \A b \in Range(batch) : b.kind = "prepared" => \E s \in statements : s.text = b.text
  /\ op' = [Started("prepare_batch", host) EXCEPT
             !.frame = [i \in DOMAIN batch |-> BatchStatement(batch[i])],
             !.given = batch,
             !.todo = {b.text : b \in {c \in Range(batch) : c.kind = "values"}}]
  /\ UNCHANGED <<remembered, space, version, statements, events>>

\* Mutant: of several statements with the same text only the first is replaced.
SubstitutedFirst(frame, text, prepared) ==
  LET first == CHOOSE i \in DOMAIN frame : frame[i].text = text /\ \A j \in 1..(i - 1) : frame[j].text # text
  IN  [frame EXCEPT ![first] = IF @.id = <<>> THEN prepared ELSE @]

\* prepare_batch: all unprepared statements with the same text are replaced.
Substituted(frame, text, prepared) ==
  [i \in DOMAIN frame |-> IF frame[i].id = <<>> /\ frame[i].text = text THEN prepared ELSE frame[i]]

\* prepare_batch: the texts that come with values are prepared on the connection.
BatchPrepare(text) ==
  /\ op.at = "prepare_batch" /\ text \in op.todo
  /\ LET id == IdOf(text, op.host)
     IN  /\ remembered' \in Remembering(op.host, id)
         /\ op' = [op EXCEPT !.todo = @ \ {text},
                             !.frame = Substituted(@, text, Prepared(text, id, version))]
  /\ UNCHANGED <<space, version, statements, events>>

BatchSent ==
  /\ op.at = "prepare_batch" /\ op.todo = {}
  /\ op' = [op EXCEPT !.at = "batch"]
  /\ UNCHANGED <<remembered, space, version, statements, events>>

\* The loop of batch_with_consistency: as long as the node names a statement that
\* it does not know, the first statement of the batch with that id is prepared.
BatchAnswered ==
  /\ op.at = "batch"
  /\ IF Forgotten = {}
     THEN op' = [NoOp EXCEPT !.outcome = "applied", !.ops = op.ops, !.frame = op.frame,
                             !.given = op.given]
     ELSE op' = [op EXCEPT !.at = "reprepare_batch", !.todo = {op.frame[Min(Forgotten)].id}]
  /\ UNCHANGED <<remembered, space, version, statements, events>>

BatchReprepared ==
  /\ op.at = "reprepare_batch"
  /\ LET found == {i \in DOMAIN op.frame : op.frame[i].id \in op.todo}
     IN  IF found = {}
         THEN End("id_missing") /\ UNCHANGED remembered
         ELSE Reprepare(op.frame[Min(found)], "batch")
  /\ UNCHANGED <<space, version, statements, events>>

\* Every request may fail, with the connection.
RequestFails ==
  /\ op.at \notin {"idle", "preparing"}
  /\ End("failed")
  /\ UNCHANGED <<remembered, space, version, statements, events>>
-----------------------------------------------------------------------------
(* The servers *)

Happens == events < MaxEvents /\ events' = events + 1

\* A node drops a statement from its cache, or restarts with an empty one.
ServerForgets(h) ==
  /\ Happens
  /\ \E kept \in SUBSET remembered[h] :
       /\ kept # remembered[h]
       /\ remembered' = [remembered EXCEPT ![h] = kept]
       /\ op' = [op EXCEPT !.forgot = @ \/ (h = op.host /\ \E i \in DOMAIN op.frame :
                                              op.frame[i].id \in remembered[h] \ kept)]
  /\ UNCHANGED <<space, version, statements>>

\* The table is altered: its statements are dropped everywhere.
SchemaAltered ==
  /\ Happens
  /\ version' = version + 1
  /\ remembered' = [h \in Range(Hosts) |-> {}]
  /\ op' = [op EXCEPT !.forgot = TRUE]
  /\ UNCHANGED <<space, statements>>

\* USE <keyspace> reaches the connection to h.
SpaceChanged(h) ==
  /\ Happens
  /\ \E s \in Spaces \ {space[h]} : space' = [space EXCEPT ![h] = s]
  /\ UNCHANGED <<remembered, version, statements, op>>

ClientStep ==
  \/ \E i \in DOMAIN Hosts : PrepareAnswered(i)
  \/ PrepareCollected \/ QueryPrepared \/ ExecuteAnswered \/ ExecuteReprepared
  \/ \E text \in Texts : BatchPrepare(text)
  \/ BatchSent \/ BatchAnswered \/ BatchReprepared

ReprepareNext ==
  \/ ClientStep \/ RequestFails \/ SchemaAltered
  \/ \E text \in Texts : StartPrepare(text)
  \/ \E h \in Range(Hosts) :
       \/ ServerForgets(h) \/ SpaceChanged(h)
       \/ \E text \in Texts : StartQuery(text, h)
       \/ \E s \in statements : StartExecute(s, h)
       \/ \E b \in Batches : StartBatch(b, h)

ReprepareSpec == ReprepareInit /\ [][ReprepareNext]_reprepareVars
-----------------------------------------------------------------------------
(* Properties *)

\* A statement that Session::prepare returns has the id that every node which
\* answered gave it: with a keyspace that is just being changed, nodes may
\* disagree, and then there is an error instead of a statement that half of the
\* nodes take for another one.
PreparedEverywhere ==
  op.outcome = "prepared" =>
    \E s \in statements : \A i \in DOMAIN op.results : op.results[i] \in {Failed, s.id}

\* The user sees DbError::Unprepared only if the node forgot the statement again
\* between its repreparation and the second EXECUTE.
UnpreparedIsNews == op.outcome = "unprepared" => op.forgot

\* Rows are decoded with the columns they were encoded with, except with
\* use_cached_result_metadata after the table was altered, which the
\* documentation of PreparedStatement warns of.
RowsDecodedAsEncoded ==
  op.outcome = "rows" => op.meta = op.data \/ (op.cached /\ op.frame[1].meta < version)

\* The batch that a node applied is the one the user gave: the same texts in the
\* same order, and every statement that came with values was prepared, so that
\* its values were serialized with the types of its columns.
BatchAsGiven ==
  op.outcome = "applied" =>
    /\ Len(op.frame) = Len(op.given)
    /\ \A i \in DOMAIN op.given : /\ op.frame[i].text = op.given[i].text
                                  /\ op.given[i].kind # "query" => op.frame[i].id # <<>>

\* Every operation ends, in spite of the unbounded loop of batch_with_consistency,
\* if the nodes answer and remember as many statements as a batch has.
OperationsEnd == (op.at # "idle") ~> (op.at = "idle")

\* A prepared statement means the same to the driver and to every node, through
\* preparation, repreparation and batches.
PreparedFaithful == PreparedEverywhere /\ UnpreparedIsNews /\ RowsDecodedAsEncoded /\ BatchAsGiven
=============================================================================
