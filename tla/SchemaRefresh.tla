----------------------------- MODULE SchemaRefresh -----------------------------
(***************************************************************************)
(* The schema as the driver sees it: statements that change the schema,    *)
(* the wait for schema agreement that follows them (client/session.rs),    *)
(* and the queries with which the metadata reader rebuilds the keyspaces   *)
(* (cluster/metadata.rs) that ClusterState::new publishes                  *)
(* (cluster/state.rs).                                                     *)
(*                                                                         *)
(* The cluster is external.  History is the sequence of schemas that its   *)
(* statements lead through, and applied[h] says how far host h has come.   *)
(* The schema tables are read one query after another, system_schema       *)
(* .columns in two pages, so a reading may mix rows of several schemas.    *)
(***************************************************************************)
EXTENDS Naturals, Sequences, FiniteSets, SequencesExt

CONSTANTS
    Hosts,
    History,        \* external: the schemas of the cluster, oldest first
    AutoAwait,      \* schema_agreement_automatic_waiting
    AutoRefresh,    \* refresh_metadata_on_auto_schema_agreement
    MaxFaults       \* bound on broken connections and failed queries

VARIABLES
    applied,        \* external: index in History of each host's schema
    latest,         \* external: index in History of the newest schema
    working,        \* the hosts with a working connection in their pool
    client,         \* the call that changes the schema
    reader,         \* the reading of the metadata that is in progress
    published,      \* ClusterState::keyspaces
    faults

vars == <<applied, latest, working, client, reader, published, faults>>

-----------------------------------------------------------------------------
(* User defined types. A type is abstracted to the set of the types it     *)
(* names; rows are [ks, name, refs].                                       *)

Ok(v) == [ok |-> TRUE, value |-> v]
Err(e) == [ok |-> FALSE, value |-> e]

\* A wrong form: a type that is not known is taken as it is.
IntoCqlTypeUnchecked(refs, udts) == TRUE

\* PreColumnType::into_cql_type: the definitions of the named types, or MissingUDT.
IntoCqlType(refs, udts) == refs \subseteq udts

\* The rows that a row refers to, in its own keyspace.
Referred(row, rows) == {r \in rows : r.ks = row.ks /\ r.name \in row.refs}

Indegree(row, rows) == Cardinality({r \in rows : row \in Referred(r, rows)})

\* The loop of topo_sort_udts: the k-th scheduled row releases the rows it refers to.
Schedule(rows) ==
    LET first == [r \in rows |-> Indegree(r, rows)]
        step[k \in 0..Cardinality(rows)] ==
          IF k = 0 THEN [sorted |-> SetToSeq({r \in rows : first[r] = 0}), indegs |-> first]
          ELSE LET prev == step[k - 1] IN
               IF k > Len(prev.sorted) THEN prev
               ELSE LET freed == Referred(prev.sorted[k], rows)
                        cnts == [r \in rows |-> IF r \in freed THEN prev.indegs[r] - 1
                                                ELSE prev.indegs[r]]
                    IN  [sorted |-> prev.sorted \o SetToSeq({r \in freed : cnts[r] = 0}),
                         indegs |-> cnts]
    IN  step[Cardinality(rows)].sorted

\* A wrong form: dependents before what they depend on.
TopoSortUdtsForward(rows) == Ok(Schedule(rows))

\* A cycle leaves rows that are never scheduled: CircularTypeDependency.
TopoSortUdts(rows) ==
    IF Len(Schedule(rows)) < Cardinality(rows) THEN Err("CircularTypeDependency")
    ELSE Ok(Reverse(Schedule(rows)))

\* 'udts_loop, for the rows of one keyspace: the first missing type spoils the keyspace.
KeyspaceUdts(sorted, ks) ==
    LET after[k \in 0..Len(sorted)] ==
          IF k = 0 THEN Ok({})
          ELSE LET udts == after[k - 1]
                   row == sorted[k]
               IN  IF row.ks # ks \/ ~udts.ok THEN udts
                   ELSE IF IntoCqlType(row.refs, udts.value) THEN Ok(udts.value \cup {row.name})
                   ELSE Err("MissingUDT")
    IN  after[Len(sorted)]

-----------------------------------------------------------------------------
(* Tables and views. Column rows are [ks, table, name, kind, pos, refs,    *)
(* type, page].                                                            *)

\* What stands for a table that has no rows of columns.
EmptyTable == [columns |-> {}, partition_key |-> <<>>, clustering_key |-> <<>>,
               partitioner |-> "default"]

\* validate_key_columns: sorted by position, the positions must be 0, 1, 2, ...
ValidateKeyColumns(rows, kind) ==
    LET keys == {r \in rows : r.kind = kind}
        at(i) == {r \in keys : r.pos = i}
    IN  IF \A i \in 0..Cardinality(keys) - 1 : Cardinality(at(i)) = 1
        THEN Ok([i \in 1..Cardinality(keys) |-> (CHOOSE r \in at(i - 1) : TRUE).name])
        ELSE Err("IncompleteKey")

\* The loop of query_tables_schema, for the rows of one table: an unknown type makes
\* the table an error, whatever rows come before or after it.
ReadColumns(rows, udts) ==
    IF ~udts.ok THEN udts
    ELSE IF \E r \in rows : ~IntoCqlType(r.refs, udts.value) THEN Err("MissingUDT")
    ELSE Ok({[name |-> r.name, refs |-> r.refs] : r \in rows})

\* Its second half: the table, if its keys are complete.
TableSchema(rows, udts, partitioner) ==
    LET columns == ReadColumns(rows, udts)
        pk == ValidateKeyColumns(rows, "partition_key")
        ck == ValidateKeyColumns(rows, "clustering")
    IN  IF ~columns.ok THEN columns
        ELSE IF ~pk.ok THEN pk
        ELSE IF ~ck.ok THEN ck
        ELSE Ok([columns |-> columns.value, partition_key |-> pk.value,
                 clustering_key |-> ck.value, partitioner |-> partitioner])

\* query_table_partitioners; a cluster without scylla_tables (DbError::Invalid) has none.
TablePartitioner(n, ks, t) == IF <<ks, t>> \in History[n].cdc THEN "cdc" ELSE "default"

\* query_tables: the first broken table spoils the keyspace.
CollectTables(schema) ==
    IF \E n \in DOMAIN schema : ~schema[n].ok
    THEN schema[CHOOSE n \in DOMAIN schema : ~schema[n].ok]
    ELSE Ok([n \in DOMAIN schema |-> schema[n].value])

\* query_views, on what query_tables left of the same map.
CollectViews(schema, taken) ==
    CollectTables([v \in DOMAIN schema |-> IF v \in taken THEN Ok(EmptyTable) ELSE schema[v]])

\* query_keyspaces for one keyspace. `at' holds, for each query of the reading, the
\* index of the schema it saw: types, two pages of columns, scylla_tables, tables,
\* views, keyspaces.
QueryKeyspace(at, ks) ==
    LET types == TopoSortUdts(History[at[1]].types)
        udts == KeyspaceUdts(types.value, ks)
        columns == {r \in History[at[2]].columns : r.page = 1}
                   \cup {r \in History[at[3]].columns : r.page = 2}
        rows(t) == {r \in columns : r.ks = ks /\ r.table = t /\ r.type # "empty"}
        schema(t) == IF rows(t) = {} THEN Ok(EmptyTable)
                     ELSE TableSchema(rows(t), udts, TablePartitioner(at[4], ks, t))
        tableNames == {r.name : r \in {x \in History[at[5]].tables : x.ks = ks}}
        viewNames == {r.name : r \in {x \in History[at[6]].views : x.ks = ks}}
        tables == CollectTables([t \in tableNames |-> schema(t)])
        views == CollectViews([v \in viewNames |-> schema(v)], tableNames)
    IN  CASE ~tables.ok -> tables
          [] tables.ok /\ ~views.ok -> views
          [] tables.ok /\ views.ok /\ ~udts.ok -> udts
          [] OTHER -> Ok([tables |-> tables.value, views |-> views.value,
                          user_defined_types |-> udts.value])

KeyspacesRead(at) == History[at[7]].keyspaces

\* query_keyspaces: the keyspaces whose rows the last query returned.
QueryKeyspaces(at) == [ks \in KeyspacesRead(at) |-> QueryKeyspace(at, ks)]

\* ClusterState::new: a keyspace that could not be rebuilt keeps its old version.
NewKeyspaces(at, old) ==
    LET new == QueryKeyspaces(at)
        kept == {ks \in DOMAIN new : new[ks].ok \/ ks \in DOMAIN old}
    IN  [ks \in kept |-> IF new[ks].ok THEN new[ks].value ELSE old[ks]]

-----------------------------------------------------------------------------
Queries == 7

\* No call is in progress; the last one ended with this outcome.
Rest(outcome) == [pc |-> outcome, seq |-> 0, coordinator |-> CHOOSE h \in Hosts : TRUE,
                  pending |-> {}, answers |-> <<>>]
NoReading == [host |-> CHOOSE h \in Hosts : TRUE, at |-> <<>>, active |-> FALSE,
              answers |-> FALSE]

Init ==
    /\ latest = 1
    /\ applied = [h \in Hosts |-> 1]
    /\ working = Hosts
    /\ client = Rest("ok")
    /\ reader = NoReading
    /\ published = NewKeyspaces([i \in 1..Queries |-> 1], <<>>)
    /\ faults = 0

\* External: a statement of another client, executed by host h.
OtherStatement(h) ==
    /\ latest < Len(History)
    /\ latest' = latest + 1
    /\ applied' = [applied EXCEPT ![h] = latest + 1]
    /\ UNCHANGED <<working, client, reader, published, faults>>

\* External: host h learns of the newest schema.
Propagate(h) ==
    /\ applied[h] < latest
    /\ applied' = [applied EXCEPT ![h] = latest]
    /\ UNCHANGED <<latest, working, client, reader, published, faults>>

\* External: the pool of h loses its connections, and gets them back.
Break(h) ==
    /\ h \in working
    /\ faults < MaxFaults
    /\ working' = working \ {h}
    /\ faults' = faults + 1
    /\ UNCHANGED <<applied, latest, client, reader, published>>

Mend(h) ==
    /\ h \notin working
    /\ working' = working \cup {h}
    /\ UNCHANGED <<applied, latest, client, reader, published, faults>>

-----------------------------------------------------------------------------
(* The call: handle_auto_await_schema_agreement and what it waits for.     *)

Resting == client.pc \in {"ok", "err"}

\* The statement is executed on coordinator h and answered with a schema change.
Statement(h) ==
    /\ Resting
    /\ h \in working
    /\ latest < Len(History)
    /\ latest' = latest + 1
    /\ applied' = [applied EXCEPT ![h] = latest + 1]
    /\ client' = IF AutoAwait
                 THEN [Rest("sleeping") EXCEPT !.seq = latest + 1, !.coordinator = h]
                 ELSE Rest("ok")
    /\ UNCHANGED <<working, reader, published, faults>>

\* iter_working_connections_per_node and the futures over it; an error if there is none.
StartCheck ==
    /\ client.pc = "sleeping"
    /\ client' = IF working = {} THEN Rest("err")
                 ELSE [client EXCEPT !.pc = "checking", !.pending = working,
                                     !.answers = [h \in working |-> Err("pending")]]
    /\ UNCHANGED <<applied, latest, working, reader, published, faults>>

\* read_node_schema_version: the first connection that answers decides; otherwise
\* an error that is not a broken connection goes before one that is.
ReadNodeSchemaVersion(h, results) ==
    IF "ok" \in Range(results) THEN Ok(applied[h])
    ELSE IF "err" \in Range(results) THEN Err("err")
    ELSE Err("broken")

ReadVersion(h) ==
    /\ client.pc = "checking"
    /\ h \in client.pending
    /\ \E results \in [1..2 -> {"ok", "broken", "err"}] :
         LET fault == Range(results) # {"ok"} IN
         /\ IF h \in working THEN fault => faults < MaxFaults
            ELSE Range(results) = {"broken"}
         /\ faults' = IF h \in working /\ fault THEN faults + 1 ELSE faults
         /\ client' = [client EXCEPT !.pending = @ \ {h},
                                     !.answers[h] = ReadNodeSchemaVersion(h, results)]
    /\ UNCHANGED <<applied, latest, working, reader, published>>

\* A wrong form: the coordinator need not have answered.
AgreementVerdictAnyNode(answers, required) ==
    LET versions == {answers[h].value : h \in {g \in DOMAIN answers : answers[g].ok}}
    IN  IF \E h \in DOMAIN answers : answers[h] = Err("err") THEN "err"
        ELSE IF Cardinality(versions) = 1 THEN "agreed"
        ELSE IF versions = {} THEN "err" ELSE "differ"

\* check_schema_agreement_with_required_node, once all the answers are there.
AgreementVerdict(answers, required) ==
    LET versions == {answers[h].value : h \in {g \in DOMAIN answers : answers[g].ok}}
    IN  CASE required \notin DOMAIN answers -> "err"
          [] required \in DOMAIN answers /\ ~answers[required].ok -> "err"
          [] OTHER -> IF \E h \in DOMAIN answers : answers[h] = Err("err") THEN "err"
                      ELSE IF Cardinality(versions) = 1 THEN "agreed"
                      ELSE IF versions = {} THEN "err" ELSE "differ"

EndCheck ==
    /\ client.pc = "checking"
    /\ client.pending = {}
    /\ LET verdict == AgreementVerdict(client.answers, client.coordinator) IN
       client' = CASE verdict = "err" -> Rest("err")
                   [] verdict = "differ" -> [client EXCEPT !.pc = "sleeping", !.answers = <<>>]
                   [] verdict = "agreed" -> IF AutoRefresh THEN [client EXCEPT !.pc = "refresh"]
                                            ELSE Rest("ok")
    /\ UNCHANGED <<applied, latest, working, reader, published, faults>>

\* The schema_agreement_timeout ends the loop; the statement itself took effect.
AgreementTimeout ==
    /\ client.pc \in {"sleeping", "checking"}
    /\ client' = Rest("err")
    /\ UNCHANGED <<applied, latest, working, reader, published, faults>>

-----------------------------------------------------------------------------
(* The reading of the metadata, for the call or for the periodic refresh.  *)

StartReading ==
    /\ ~reader.active
    /\ reader' = [reader EXCEPT !.active = TRUE, !.at = <<>>,
                                !.answers = (client.pc = "refresh")]
    /\ UNCHANGED <<applied, latest, working, client, published, faults>>

\* One query, or one page of it, on the control connection.
ReadRows ==
    /\ reader.active
    /\ Len(reader.at) < Queries
    /\ reader' = [reader EXCEPT !.at = Append(@, applied[reader.host])]
    /\ UNCHANGED <<applied, latest, working, client, published, faults>>

\* A wrong form: whoever waits is answered, also by a reading that began before.
AnsweredEarly(outcome) ==
    IF client.pc = "refresh" THEN Rest(outcome) ELSE client

Answered(outcome) ==
    IF reader.answers /\ client.pc = "refresh" THEN Rest(outcome) ELSE client

EndReading == reader' = [reader EXCEPT !.active = FALSE, !.at = <<>>, !.answers = FALSE]

\* The control connection fails. The reading begins again on another host, ...
ReadElsewhere(h) ==
    /\ reader.active
    /\ h # reader.host
    /\ faults < MaxFaults
    /\ faults' = faults + 1
    /\ reader' = [reader EXCEPT !.host = h, !.at = <<>>]
    /\ UNCHANGED <<applied, latest, working, client, published>>

\* ... or there is no other that answers, and the refresh fails.
ReadFails ==
    /\ reader.active
    /\ faults < MaxFaults
    /\ faults' = faults + 1
    /\ EndReading
    /\ client' = Answered("err")
    /\ UNCHANGED <<applied, latest, working, published>>

ReadingComplete == reader.active /\ Len(reader.at) = Queries

Publish ==
    /\ ReadingComplete
    /\ published' = IF TopoSortUdts(History[reader.at[1]].types).ok
                    THEN NewKeyspaces(reader.at, published) ELSE published
    /\ client' = Answered(IF TopoSortUdts(History[reader.at[1]].types).ok THEN "ok" ELSE "err")
    /\ EndReading
    /\ UNCHANGED <<applied, latest, working, faults>>

Next ==
    \/ \E h \in Hosts : \/ OtherStatement(h) \/ Propagate(h) \/ Break(h) \/ Mend(h)
                       \/ Statement(h) \/ ReadVersion(h) \/ ReadElsewhere(h)
    \/ StartCheck \/ EndCheck \/ AgreementTimeout
    \/ StartReading \/ ReadRows \/ ReadFails \/ Publish

Spec == Init /\ [][Next]_vars

\* The tasks are polled and the cluster gossips; no fault and no timeout has to happen.
FairSpec ==
    /\ Spec
    /\ WF_vars(\E h \in Hosts : Propagate(h))
    /\ WF_vars(StartCheck \/ EndCheck \/ \E h \in Hosts : ReadVersion(h))
    /\ WF_vars(StartReading \/ ReadRows)
    /\ WF_reader(ReadingComplete /\ EndReading)

-----------------------------------------------------------------------------
\* The state stays in its types: the indices point into History, a reading saw schemas
\* in the order of its queries, and only hosts that were asked are waited for.
TypeOK ==
    /\ latest \in 1..Len(History)
    /\ applied \in [Hosts -> 1..latest]
    /\ working \subseteq Hosts
    /\ client.pc \in {"sleeping", "checking", "refresh", "ok", "err"}
    /\ client.pending \subseteq DOMAIN client.answers
    /\ Len(reader.at) <= Queries
    /\ \A i, j \in DOMAIN reader.at : i <= j => reader.at[i] <= reader.at[j]
    /\ faults \in 0..MaxFaults

\* Whatever schemas a reading mixed, every type that a published column names is among
\* the published types of its keyspace, so no ColumnType refers to a type that
\* get_keyspace does not show.
TypesResolve ==
    \A ks \in DOMAIN published :
      LET tables == published[ks].tables
          views == published[ks].views
          columns == UNION ({tables[t].columns : t \in DOMAIN tables}
                            \cup {views[v].columns : v \in DOMAIN views})
      IN  \A c \in columns : c.refs \subseteq published[ks].user_defined_types

\* A keyspace that the cluster still has is not lost by a refresh that could not rebuild
\* it from the rows it read: ClusterState::new keeps the version it had.
KeyspaceKept ==
    [][\A ks \in DOMAIN published :
         ks \notin DOMAIN published' => ks \notin KeyspacesRead(reader.at)]_vars

\* Agreement means something for the statement that waited for it: when the wait ends well,
\* every host whose version was counted has applied the statement. It rests on the
\* coordinator being required to answer; without it the others could agree on the old
\* schema while the coordinator is not reachable.
AgreementCoversStatement ==
    client.pc = "refresh" =>
        \A h \in DOMAIN client.answers :
            client.answers[h].ok => applied[h] >= client.seq

\* What the cluster's schema number n has, as a user of ClusterState looks at it.
Shows(keyspaces, n) ==
    /\ DOMAIN keyspaces = History[n].keyspaces
    /\ \A ks \in DOMAIN keyspaces :
         /\ keyspaces[ks].user_defined_types = {r.name : r \in {x \in History[n].types : x.ks = ks}}
         /\ DOMAIN keyspaces[ks].tables = {r.name : r \in {x \in History[n].tables : x.ks = ks}}
         /\ DOMAIN keyspaces[ks].views = {r.name : r \in {x \in History[n].views : x.ks = ks}}
         /\ \A t \in DOMAIN keyspaces[ks].tables :
              {c.name : c \in keyspaces[ks].tables[t].columns} =
              {r.name : r \in {x \in History[n].columns : x.ks = ks /\ x.table = t
                                                           /\ x.type # "empty"}}

\* A call that changed the schema and returned Ok after its automatic refresh sees its own
\* change: if the metadata came from a host that took part in the agreement and no other
\* statement overlapped the queries, the published keyspaces show a schema at least as
\* new as the statement.
ReadYourStatement ==
    [][(client.pc = "refresh" /\ client'.pc = "ok"
        /\ reader.host \in DOMAIN client.answers /\ client.answers[reader.host].ok
        /\ \A i, j \in 1..Queries : reader.at[i] = reader.at[j])
       => \E n \in client.seq..latest : Shows(published', n)]_vars

\* The wait for agreement ends even if the timeout never fires, because the hosts converge
\* or a check reports an error.
AgreementReached ==
    (client.pc = "sleeping") ~> (client.pc \notin {"sleeping", "checking"})

\* Once the schema stops changing, the periodic refresh repairs whatever a torn reading
\* published: from some point on the session shows the cluster's schema.
SchemaConverges ==
    <>[](latest = Len(History) => Shows(published, Len(History)))

\* A refresh loses no keyspace that is there, and the one that follows a statement shows it.
RefreshesKeepUp == KeyspaceKept /\ ReadYourStatement

\* Both waits come to an end: the one for agreement, and the one for the current schema.
SchemaSettles == AgreementReached /\ SchemaConverges
=============================================================================
