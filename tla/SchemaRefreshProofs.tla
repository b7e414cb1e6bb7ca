------------------------- MODULE SchemaRefreshProofs -------------------------
(***************************************************************************)
(* Safety of the schema's refreshes: what agreement says about the         *)
(* statement that waits for it, and what a reading that mixes schemas      *)
(* publishes, for every set of hosts, every history of schemas and every   *)
(* number of faults.                                                       *)
(***************************************************************************)
EXTENDS SchemaRefresh, FiniteSetTheorems, TLAPS

-----------------------------------------------------------------------------
(* Types of what is published                                              *)

\* TypesResolve for one keyspace.
KeyspaceResolves(k) ==
    LET columns == UNION ({k.tables[t].columns : t \in DOMAIN k.tables}
                          \cup {k.views[v].columns : v \in DOMAIN k.views})
    IN  \A c \in columns : c.refs \subseteq k.user_defined_types

\* All columns of a table name types of the set.
TableResolves(table, udts) == \A c \in table.columns : c.refs \subseteq udts

\* query_tables_schema: a table that is not an error names known types only.
LEMMA TableSchemaResolves ==
    ASSUME NEW rows, NEW udts, NEW p, TableSchema(rows, udts, p).ok
    PROVE  TableResolves(TableSchema(rows, udts, p).value, udts.value)
  <1>1. /\ ReadColumns(rows, udts).ok
        /\ TableSchema(rows, udts, p).value.columns = ReadColumns(rows, udts).value
    BY Zenon DEF TableSchema, Ok
  <1>2. /\ \A r \in rows : r.refs \subseteq udts.value
        /\ ReadColumns(rows, udts).value = {[name |-> r.name, refs |-> r.refs] : r \in rows}
    BY <1>1, Zenon DEF ReadColumns, IntoCqlType, Ok, Err
  <1>3. QED
    BY <1>1, <1>2 DEF TableResolves

\* query_tables: no error means that no table was one.
LEMMA CollectTablesOk ==
    ASSUME NEW schema, CollectTables(schema).ok
    PROVE  /\ DOMAIN CollectTables(schema).value = DOMAIN schema
           /\ \A n \in DOMAIN schema : /\ schema[n].ok
                                      /\ CollectTables(schema).value[n] = schema[n].value
  BY Zenon DEF CollectTables, Ok

\* query_keyspaces: a keyspace that is not an error resolves, whichever schemas its
\* queries saw.
LEMMA QueryKeyspaceResolves ==
    ASSUME NEW at, NEW ks, QueryKeyspace(at, ks).ok
    PROVE  KeyspaceResolves(QueryKeyspace(at, ks).value)
  <1> DEFINE types == TopoSortUdts(History[at[1]].types)
             udts == KeyspaceUdts(types.value, ks)
             columns == {r \in History[at[2]].columns : r.page = 1}
                        \cup {r \in History[at[3]].columns : r.page = 2}
             rows(t) == {r \in columns : r.ks = ks /\ r.table = t /\ r.type # "empty"}
             schema(t) == IF rows(t) = {} THEN Ok(EmptyTable)
                          ELSE TableSchema(rows(t), udts, TablePartitioner(at[4], ks, t))
             tableNames == {r.name : r \in {x \in History[at[5]].tables : x.ks = ks}}
             viewNames == {r.name : r \in {x \in History[at[6]].views : x.ks = ks}}
             tableMap == [t \in tableNames |-> schema(t)]
             viewMap == [v \in viewNames |-> IF v \in tableNames THEN Ok(EmptyTable) ELSE schema(v)]
  <1>1. /\ CollectTables(tableMap).ok /\ CollectTables(viewMap).ok
        /\ QueryKeyspace(at, ks).value =
             [tables |-> CollectTables(tableMap).value, views |-> CollectTables(viewMap).value,
              user_defined_types |-> udts.value]
    <2>1. CollectViews([v \in viewNames |-> schema(v)], tableNames) = CollectTables(viewMap)
      BY Zenon DEF CollectViews
    <2>2. QED
      BY <2>1, Zenon DEF QueryKeyspace, Ok
  <1>2. ASSUME NEW t, schema(t).ok PROVE TableResolves(schema(t).value, udts.value)
    <2>1. CASE rows(t) = {}
      BY <2>1 DEF Ok, EmptyTable, TableResolves
    <2>2. CASE rows(t) # {}
      <3>1. schema(t) = TableSchema(rows(t), udts, TablePartitioner(at[4], ks, t))
        BY <2>2
      <3> HIDE DEF rows, udts
      <3>2. QED
        BY <1>2, <3>1, TableSchemaResolves
    <2>3. QED
      BY <2>1, <2>2
  <1>3. TableResolves(EmptyTable, udts.value)
    BY DEF TableResolves, EmptyTable
  <1>4. /\ DOMAIN tableMap = tableNames /\ \A t \in tableNames : tableMap[t] = schema(t)
        /\ DOMAIN viewMap = viewNames
        /\ \A v \in viewNames : viewMap[v] = schema(v) \/ viewMap[v] = Ok(EmptyTable)
    BY Zenon
  <1> HIDE DEF udts, schema, tableNames, viewNames, tableMap, viewMap
  <1>5. /\ DOMAIN CollectTables(tableMap).value = tableNames
        /\ \A t \in tableNames : /\ schema(t).ok
                                 /\ CollectTables(tableMap).value[t] = schema(t).value
    BY <1>1, <1>4, CollectTablesOk
  <1>6. /\ DOMAIN CollectTables(viewMap).value = viewNames
        /\ \A v \in viewNames : /\ viewMap[v].ok
                                /\ CollectTables(viewMap).value[v] = viewMap[v].value
    BY <1>1, <1>4, CollectTablesOk
  <1>7. \A t \in tableNames : TableResolves(CollectTables(tableMap).value[t], udts.value)
    BY <1>2, <1>5
  <1>8. \A v \in viewNames : TableResolves(CollectTables(viewMap).value[v], udts.value)
    BY <1>2, <1>3, <1>4, <1>6 DEF Ok
  <1>9. QED
    BY <1>1, <1>5, <1>6, <1>7, <1>8 DEF KeyspaceResolves, TableResolves

\* ClusterState::new: what is published resolves, the new versions as the old ones.
LEMMA NewKeyspacesResolve ==
    ASSUME NEW at, NEW old, \A ks \in DOMAIN old : KeyspaceResolves(old[ks])
    PROVE  \A ks \in DOMAIN NewKeyspaces(at, old) : KeyspaceResolves(NewKeyspaces(at, old)[ks])
  <1> DEFINE new == QueryKeyspaces(at)
             kept == {ks \in DOMAIN new : new[ks].ok \/ ks \in DOMAIN old}
  <1>1. NewKeyspaces(at, old) = [ks \in kept |-> IF new[ks].ok THEN new[ks].value ELSE old[ks]]
    BY DEF NewKeyspaces
  <1>2. \A ks \in DOMAIN new : new[ks].ok => KeyspaceResolves(new[ks].value)
    BY QueryKeyspaceResolves, Zenon DEF QueryKeyspaces
  <1> HIDE DEF new
  <1>3. QED
    BY <1>1, <1>2

\* TypesResolve says that every keyspace resolves.
LEMMA TypesResolveByKeyspace ==
    TypesResolve <=> \A ks \in DOMAIN published : KeyspaceResolves(published[ks])
  BY DEF TypesResolve, KeyspaceResolves

\* Whatever schemas the queries of the readings saw, and whichever of them could not be
\* used, no published column refers to a type that is not published with it.
THEOREM PublishedTypesResolve == Spec => []TypesResolve
  <1>1. Init => TypesResolve
    <2> SUFFICES ASSUME Init PROVE \A ks \in DOMAIN published : KeyspaceResolves(published[ks])
      BY TypesResolveByKeyspace
    <2>1. \A ks \in DOMAIN <<>> : KeyspaceResolves(<<>>[ks])
      OBVIOUS
    <2>2. QED
      BY <2>1, NewKeyspacesResolve DEF Init
  <1>2. TypesResolve /\ [Next]_vars => TypesResolve'
    <2> SUFFICES ASSUME TypesResolve, [Next]_vars PROVE TypesResolve'
      BY Zenon
    <2>1. CASE UNCHANGED published
      BY <2>1 DEF TypesResolve
    <2>2. CASE Publish
      <3>1. published' = NewKeyspaces(reader.at, published) \/ UNCHANGED published
        BY <2>2, Zenon DEF Publish
      <3>2. \A ks \in DOMAIN published' : KeyspaceResolves(published'[ks])
        BY <3>1, NewKeyspacesResolve, TypesResolveByKeyspace, Zenon
      <3>3. QED
        BY <3>2 DEF TypesResolve, KeyspaceResolves
    <2>3. QED
      BY <2>1, <2>2, Zenon DEF Next, vars, OtherStatement, Propagate, Break, Mend, Statement, ReadVersion,
                       ReadElsewhere, StartCheck, EndCheck, AgreementTimeout, StartReading, ReadRows,
                       ReadFails
  <1>3. QED
    BY <1>1, <1>2, PTL DEF Spec

\* ClusterState::new keeps the version of a keyspace that it could not rebuild: only
\* keyspaces that the cluster no longer has disappear.
THEOREM KeyspacesKept == Spec => KeyspaceKept
  <1> DEFINE A == \A ks \in DOMAIN published :
                    ks \notin DOMAIN published' => ks \notin KeyspacesRead(reader.at)
  <1>1. [Next]_vars => [A]_vars
    <2> SUFFICES ASSUME [Next]_vars PROVE A
      OBVIOUS
    <2>1. CASE UNCHANGED published
      BY <2>1
    <2>2. CASE Publish
      <3>1. published' = NewKeyspaces(reader.at, published) \/ UNCHANGED published
        BY <2>2 DEF Publish
      <3>2. QED
        BY <3>1, Zenon DEF NewKeyspaces, QueryKeyspaces
    <2>3. QED
      BY <2>1, <2>2, Zenon DEF Next, vars, OtherStatement, Propagate, Break, Mend, Statement, ReadVersion,
                       ReadElsewhere, StartCheck, EndCheck, AgreementTimeout, StartReading, ReadRows,
                       ReadFails
  <1>2. QED
    BY <1>1, PTL DEF Spec, KeyspaceKept

-----------------------------------------------------------------------------
(* Agreement                                                               *)

Waits == {"sleeping", "checking", "refresh"}
Versions == [ok : {TRUE}, value : Nat]
Failures == [ok : {FALSE}, value : {"pending", "err", "broken"}]
Replies == UNION {[D -> Versions \cup Failures] : D \in SUBSET Hosts}

ClientType == [pc : Waits \cup {"ok", "err"}, seq : Nat,
               coordinator : Hosts \cup {Rest("ok").coordinator},
               pending : SUBSET Hosts, answers : Replies]

\* From the statement on its coordinator has applied it; a version that was read is one
\* that the host has passed since, and the one of the coordinator was read after the
\* statement.  Agreement carries it over to the others.
ClientCovered(c, ap) ==
    /\ c \in ClientType
    /\ c.pending \subseteq DOMAIN c.answers
    /\ c.pc \in Waits => c.coordinator \in Hosts /\ ap[c.coordinator] >= c.seq
    /\ \A h \in DOMAIN c.answers : c.answers[h].ok => c.answers[h].value <= ap[h]
    /\ c.coordinator \in DOMAIN c.answers /\ c.answers[c.coordinator].ok
         => c.answers[c.coordinator].value >= c.seq
    /\ c.pc = "refresh" =>
         \A h \in DOMAIN c.answers : c.answers[h].ok => c.answers[h].value >= c.seq

\* Hosts only move on in the history, up to its latest schema.
AgreementInv ==
    /\ latest \in Nat /\ working \subseteq Hosts
    /\ applied \in [Hosts -> Nat]
    /\ \A h \in Hosts : applied[h] <= latest
    /\ ClientCovered(client, applied)

\* The empty sequence is the map without replies.
LEMMA NoReplies == <<>> \in Replies /\ DOMAIN <<>> = {}
  <1>1. <<>> \in [{} -> Versions \cup Failures] /\ DOMAIN <<>> = {}
    OBVIOUS
  <1>2. QED
    BY <1>1, Zenon DEF Replies

\* A call that rests, with its outcome.
LEMMA RestType ==
    ASSUME NEW outcome \in Waits \cup {"ok", "err"}
    PROVE  /\ Rest(outcome) \in ClientType /\ Rest(outcome).pc = outcome
           /\ Rest(outcome).answers = <<>> /\ Rest(outcome).pending = {}
  BY NoReplies DEF Rest, ClientType

\* A reply is that of a host, with a number or an error.
LEMMA RepliesType ==
    ASSUME NEW answers \in Replies
    PROVE  /\ DOMAIN answers \subseteq Hosts
           /\ \A h \in DOMAIN answers : /\ answers[h] \in Versions \cup Failures
                                        /\ answers[h].ok => answers[h].value \in Nat
           /\ answers \in [DOMAIN answers -> Versions \cup Failures]
  <1>1. PICK D \in SUBSET Hosts : answers \in [D -> Versions \cup Failures]
    BY Zenon DEF Replies
  <1>2. QED
    BY <1>1, Zenon DEF Versions, Failures

\* A function from hosts to replies is one of Replies.
LEMMA RepliesIntro ==
    ASSUME NEW D \in SUBSET Hosts, NEW answers \in [D -> Versions \cup Failures]
    PROVE  answers \in Replies /\ DOMAIN answers = D
  BY DEF Replies

\* Hosts that move on do not disturb what was read from them.
LEMMA CoveredWhenHostsAdvance ==
    ASSUME NEW c, NEW ap \in [Hosts -> Nat], NEW aq \in [Hosts -> Nat],
           \A h \in Hosts : ap[h] <= aq[h], ClientCovered(c, ap)
    PROVE  ClientCovered(c, aq)
  <1>1. c.answers \in Replies /\ c.seq \in Nat
    BY DEF ClientCovered, ClientType
  <1>2. ASSUME NEW h \in DOMAIN c.answers, c.answers[h].ok PROVE c.answers[h].value <= aq[h]
    <2>1. h \in Hosts /\ c.answers[h].value \in Nat
      BY <1>1, <1>2, RepliesType
    <2>2. c.answers[h].value <= ap[h]
      BY <1>2 DEF ClientCovered
    <2>3. ap[h] \in Nat /\ aq[h] \in Nat /\ ap[h] <= aq[h]
      BY <2>1
    <2>4. QED
      BY <2>1, <2>2, <2>3
  <1>3. ASSUME c.pc \in Waits PROVE c.coordinator \in Hosts /\ aq[c.coordinator] >= c.seq
    <2>1. c.coordinator \in Hosts /\ ap[c.coordinator] >= c.seq
      BY <1>3 DEF ClientCovered
    <2>2. ap[c.coordinator] \in Nat /\ aq[c.coordinator] \in Nat /\ ap[c.coordinator] <= aq[c.coordinator]
      BY <2>1
    <2>3. QED
      BY <1>1, <2>1, <2>2
  <1>4. QED
    BY <1>2, <1>3, Zenon DEF ClientCovered

\* A call that rests has nothing to be covered.
LEMMA RestCovered ==
    ASSUME NEW outcome \in {"ok", "err"}, NEW ap PROVE ClientCovered(Rest(outcome), ap)
  <1>1. /\ Rest(outcome) \in ClientType /\ Rest(outcome).pc = outcome
        /\ Rest(outcome).answers = <<>> /\ Rest(outcome).pending = {}
    BY RestType
  <1>2. outcome \notin Waits
    BY Zenon DEF Waits
  <1>3. DOMAIN Rest(outcome).answers = {}
    BY <1>1, NoReplies
  <1>4. QED
    BY <1>1, <1>2, <1>3 DEF ClientCovered, Waits

\* The statement: its coordinator has just applied it.
LEMMA StatementCovered ==
    ASSUME AgreementInv, NEW h \in Hosts, Statement(h) PROVE AgreementInv'
  <1>1. /\ latest' = latest + 1 /\ applied' = [applied EXCEPT ![h] = latest + 1]
        /\ client' = IF AutoAwait
                     THEN [Rest("sleeping") EXCEPT !.seq = latest + 1, !.coordinator = h]
                     ELSE Rest("ok")
    BY DEF Statement
  <1>2. /\ latest' \in Nat /\ applied' \in [Hosts -> Nat] /\ applied'[h] = latest'
        /\ (\A g \in Hosts : applied'[g] <= latest') /\ working' \subseteq Hosts
    BY <1>1 DEF AgreementInv, Statement
  <1>3. CASE ~AutoAwait
    BY <1>1, <1>2, <1>3, RestCovered DEF AgreementInv
  <1>4. CASE AutoAwait
    <2> DEFINE c == [Rest("sleeping") EXCEPT !.seq = latest + 1, !.coordinator = h]
    <2>1. /\ Rest("sleeping") \in ClientType /\ Rest("sleeping").pc = "sleeping"
          /\ Rest("sleeping").answers = <<>> /\ Rest("sleeping").pending = {}
      BY RestType DEF Waits
    <2>2. /\ c \in ClientType /\ c.pc = "sleeping" /\ c.seq = latest' /\ c.coordinator = h
          /\ c.answers = <<>> /\ c.pending = {}
      BY <1>1, <1>2, <2>1, Zenon DEF ClientType
    <2>3. client' = c
      BY <1>1, <1>4
    <2> HIDE DEF c
    <2>4. DOMAIN c.answers = {}
      BY <2>2, NoReplies
    <2>5. ClientCovered(c, applied')
      BY <1>2, <2>2, <2>4 DEF ClientCovered
    <2>6. QED
      BY <1>2, <2>3, <2>5 DEF AgreementInv
  <1>5. QED
    BY <1>3, <1>4

\* The check begins without a version from anyone.
LEMMA StartCheckCovered ==
    ASSUME AgreementInv, StartCheck PROVE AgreementInv'
  <1>1. /\ UNCHANGED <<latest, applied, working>> /\ client.pc = "sleeping"
        /\ working \subseteq Hosts
        /\ client' = IF working = {} THEN Rest("err")
                     ELSE [client EXCEPT !.pc = "checking", !.pending = working,
                                         !.answers = [h \in working |-> Err("pending")]]
    BY Zenon DEF StartCheck, AgreementInv
  <1>2. CASE working = {}
    BY <1>1, <1>2, RestCovered DEF AgreementInv
  <1>3. CASE working # {}
    <2> DEFINE asked == [h \in working |-> Err("pending")]
               c == [client EXCEPT !.pc = "checking", !.pending = working, !.answers = asked]
    <2>1. Err("pending") \in Failures /\ ~Err("pending").ok
      BY DEF Err, Failures
    <2>2. asked \in Replies /\ DOMAIN asked = working /\ \A h \in working : ~asked[h].ok
      BY <1>1, <2>1, RepliesIntro
    <2> HIDE DEF asked
    <2>3. client \in ClientType
      BY DEF AgreementInv, ClientCovered
    <2>4. /\ c \in ClientType /\ c.pc = "checking" /\ c.pending = working /\ c.answers = asked
          /\ c.seq = client.seq /\ c.coordinator = client.coordinator
      BY <1>1, <2>2, <2>3, Zenon DEF ClientType, Waits
    <2>5. client' = c
      BY <1>1, <1>3 DEF asked
    <2> HIDE DEF c
    <2>6. client.coordinator \in Hosts /\ applied[client.coordinator] >= client.seq
      BY <1>1, Zenon DEF AgreementInv, ClientCovered, Waits
    <2>7. ClientCovered(c, applied)
      BY <2>2, <2>4, <2>6 DEF ClientCovered
    <2>8. QED
      BY <1>1, <2>5, <2>7 DEF AgreementInv
  <1>4. QED
    BY <1>2, <1>3

\* A version is read from a host that has it, at least: it covers the statement if the
\* host is the coordinator.
LEMMA ReadVersionCovered ==
    ASSUME AgreementInv, NEW h \in Hosts, ReadVersion(h) PROVE AgreementInv'
  <1>1. PICK results \in [1..2 -> {"ok", "broken", "err"}] :
             client' = [client EXCEPT !.pending = @ \ {h},
                                      !.answers[h] = ReadNodeSchemaVersion(h, results)]
    BY Zenon DEF ReadVersion
  <1>2. /\ UNCHANGED <<latest, applied, working>> /\ client.pc = "checking" /\ h \in client.pending
    BY Zenon DEF ReadVersion
  <1> DEFINE reply == ReadNodeSchemaVersion(h, results)
             replies == [client.answers EXCEPT ![h] = reply]
  <1>3. reply \in Versions \cup Failures /\ (reply.ok => reply.value = applied[h])
    BY DEF ReadNodeSchemaVersion, Versions, Failures, Ok, Err, AgreementInv
  <1> HIDE DEF reply
  <1>4. client \in ClientType /\ client.pending \subseteq DOMAIN client.answers
    BY Zenon DEF AgreementInv, ClientCovered
  <1>5. client.answers \in Replies /\ client.seq \in Nat
    BY <1>4 DEF ClientType
  <1>6. /\ replies \in Replies /\ DOMAIN replies = DOMAIN client.answers /\ replies[h] = reply
        /\ \A g \in DOMAIN client.answers \ {h} : replies[g] = client.answers[g]
    <2>1. /\ DOMAIN client.answers \subseteq Hosts /\ h \in DOMAIN client.answers
          /\ client.answers \in [DOMAIN client.answers -> Versions \cup Failures]
      BY <1>2, <1>4, <1>5, RepliesType
    <2>2. replies \in [DOMAIN client.answers -> Versions \cup Failures]
      BY <1>3, <2>1
    <2>3. replies \in Replies
      <3> HIDE DEF replies
      <3> QED BY <2>1, <2>2, RepliesIntro
    <2>4. QED
      BY <2>1, <2>3
  <1>7. /\ client' \in ClientType /\ client'.answers = replies /\ client'.pending = client.pending \ {h}
        /\ client'.pc = "checking" /\ client'.seq = client.seq /\ client'.coordinator = client.coordinator
    BY <1>1, <1>2, <1>4, <1>6, Zenon DEF ClientType, reply
  <1> HIDE DEF replies
  <1>8. client.coordinator \in Hosts /\ applied[client.coordinator] >= client.seq
    BY <1>2 DEF AgreementInv, ClientCovered, Waits
  <1>9. ASSUME NEW g \in DOMAIN replies, replies[g].ok
        PROVE  /\ replies[g].value <= applied[g]
               /\ g = client.coordinator => replies[g].value >= client.seq
    <2>1. CASE g = h
      <3>1. applied[h] \in Nat /\ replies[g].value = applied[h]
        BY <1>3, <1>6, <1>9, <2>1 DEF AgreementInv
      <3>2. QED
        BY <1>8, <2>1, <3>1
    <2>2. CASE g # h
      BY <1>6, <1>9, <2>2 DEF AgreementInv, ClientCovered
    <2>3. QED
      BY <2>1, <2>2
  <1>10. ClientCovered(client', applied')
    BY <1>2, <1>4, <1>6, <1>7, <1>8, <1>9 DEF ClientCovered
  <1>11. QED
    BY <1>2, <1>10 DEF AgreementInv

\* check_schema_agreement_with_required_node: the versions that agree are that of the
\* coordinator.
LEMMA VerdictCoversAll ==
    ASSUME NEW answers \in Replies, NEW n \in Nat, NEW required,
           AgreementVerdict(answers, required) = "agreed",
           \A g \in DOMAIN answers : answers[g].ok => answers[g].value <= n
    PROVE  /\ required \in DOMAIN answers /\ answers[required].ok
           /\ \A h \in DOMAIN answers :
                answers[h].ok => answers[h].value = answers[required].value
  <1> DEFINE versions == {answers[h].value : h \in {g \in DOMAIN answers : answers[g].ok}}
  <1>1. required \in DOMAIN answers /\ answers[required].ok /\ Cardinality(versions) = 1
    BY Zenon DEF AgreementVerdict
  <1>2. versions \subseteq 0..n
    BY RepliesType
  <1>3. IsFiniteSet(versions)
    <2> HIDE DEF versions
    <2>1. 0 \in Int /\ n \in Int
      OBVIOUS
    <2>2. IsFiniteSet(0..n)
      BY <2>1, FS_Interval, Zenon
    <2>3. QED
      BY <1>2, <2>2, FS_Subset, Zenon
  <1>4. PICK v : versions = {v}
    <2> HIDE DEF versions
    <2> QED BY <1>1, <1>3, FS_Singleton, Zenon
  <1>5. \A h \in DOMAIN answers : answers[h].ok => answers[h].value = v
    BY <1>4, Zenon
  <1>6. QED
    BY <1>1, <1>5

\* The end of a check: agreement, another round, or an error.
LEMMA EndCheckCovered ==
    ASSUME AgreementInv, EndCheck PROVE AgreementInv'
  <1> DEFINE verdict == AgreementVerdict(client.answers, client.coordinator)
  <1>1. /\ UNCHANGED <<latest, applied, working>> /\ client.pc = "checking" /\ client.pending = {}
        /\ client' = CASE verdict = "err" -> Rest("err")
                       [] verdict = "differ" -> [client EXCEPT !.pc = "sleeping", !.answers = <<>>]
                       [] verdict = "agreed" -> IF AutoRefresh THEN [client EXCEPT !.pc = "refresh"]
                                                ELSE Rest("ok")
    BY Zenon DEF EndCheck
  <1>2. verdict \in {"err", "differ", "agreed"}
    BY DEF AgreementVerdict
  <1>3. client \in ClientType /\ client.answers \in Replies /\ client.seq \in Nat
    BY Zenon DEF AgreementInv, ClientCovered, ClientType
  <1>4. client.coordinator \in Hosts /\ applied[client.coordinator] >= client.seq
    BY <1>1 DEF AgreementInv, ClientCovered, Waits
  <1>5. CASE client' = Rest("err") \/ client' = Rest("ok")
    BY <1>1, <1>5, RestCovered, Zenon DEF AgreementInv
  <1>6. CASE client' = [client EXCEPT !.pc = "sleeping", !.answers = <<>>]
    <2>1. /\ client' \in ClientType /\ client'.answers = <<>> /\ client'.pending = {}
          /\ client'.seq = client.seq /\ client'.coordinator = client.coordinator
          /\ client'.pc = "sleeping"
      BY <1>1, <1>3, <1>6, NoReplies, Zenon DEF ClientType, Waits
    <2>2. DOMAIN client'.answers = {}
      BY <2>1, NoReplies
    <2>3. ClientCovered(client', applied')
      BY <1>1, <1>4, <2>1, <2>2, Zenon DEF ClientCovered
    <2>4. QED
      BY <1>1, <2>3, Zenon DEF AgreementInv
  <1>7. CASE verdict = "agreed" /\ client' = [client EXCEPT !.pc = "refresh"]
    <2>1. /\ client' \in ClientType /\ client'.answers = client.answers /\ client'.pending = {}
          /\ client'.seq = client.seq /\ client'.coordinator = client.coordinator
          /\ client'.pc = "refresh"
      BY <1>1, <1>3, <1>7 DEF ClientType, Waits
    <2>2. ASSUME NEW g \in DOMAIN client.answers, client.answers[g].ok
          PROVE  client.answers[g].value <= applied[g] /\ client.answers[g].value <= latest
      <3>1. g \in Hosts /\ client.answers[g].value \in Nat
        BY <1>3, <2>2, RepliesType
      <3>2. client.answers[g].value <= applied[g]
        BY <2>2 DEF AgreementInv, ClientCovered
      <3>3. applied[g] \in Nat /\ applied[g] <= latest /\ latest \in Nat
        BY <3>1, Zenon DEF AgreementInv
      <3>4. QED
        BY <3>1, <3>2, <3>3
    <2>3. /\ client.coordinator \in DOMAIN client.answers /\ client.answers[client.coordinator].ok
          /\ \A h \in DOMAIN client.answers : client.answers[h].ok =>
               client.answers[h].value = client.answers[client.coordinator].value
      <3>1. latest \in Nat
        BY Zenon DEF AgreementInv
      <3>2. QED
        BY <1>3, <1>7, <2>2, <3>1, VerdictCoversAll
    <2>4. client.answers[client.coordinator].value >= client.seq
      BY <2>3 DEF AgreementInv, ClientCovered
    <2>5. ClientCovered(client', applied')
      BY <1>1, <1>4, <2>1, <2>2, <2>3, <2>4, Zenon DEF ClientCovered
    <2>6. QED
      BY <1>1, <2>5, Zenon DEF AgreementInv
  <1>8. QED
    BY <1>1, <1>2, <1>5, <1>6, <1>7

\* All hosts start with the first schema.
LEMMA AgreementInvInit == Init => AgreementInv
  BY RestCovered DEF Init, AgreementInv

\* Every step keeps AgreementInv.
LEMMA AgreementInvStep == AgreementInv /\ [Next]_vars => AgreementInv'
  <1> SUFFICES ASSUME AgreementInv, [Next]_vars PROVE AgreementInv'
    BY Zenon
  <1>1. CASE UNCHANGED <<applied, latest, client, working>>
    BY <1>1 DEF AgreementInv
  <1>2. ASSUME NEW h \in Hosts, OtherStatement(h) \/ Propagate(h) PROVE AgreementInv'
    <2>1. /\ latest' \in Nat /\ applied' \in [Hosts -> Nat] /\ UNCHANGED <<client, working>>
          /\ \A g \in Hosts : applied[g] <= applied'[g] /\ applied'[g] <= latest'
      BY <1>2 DEF AgreementInv, OtherStatement, Propagate
    <2>2. ClientCovered(client, applied')
      BY <2>1, CoveredWhenHostsAdvance DEF AgreementInv
    <2>3. QED
      BY <2>1, <2>2 DEF AgreementInv
  <1>3. ASSUME NEW h \in Hosts, Break(h) \/ Mend(h) PROVE AgreementInv'
    BY <1>3, Zenon DEF AgreementInv, Break, Mend
  <1>4. ASSUME NEW outcome \in {"ok", "err"}, client' = Rest(outcome),
               UNCHANGED <<applied, latest, working>>
        PROVE  AgreementInv'
    BY <1>4, RestCovered, Zenon DEF AgreementInv
  <1>5. CASE AgreementTimeout
    BY <1>4, <1>5 DEF AgreementTimeout
  <1>6. CASE ReadFails \/ Publish
    <2>1. /\ UNCHANGED <<applied, latest, working>>
          /\ client' = client \/ client' = Rest("ok") \/ client' = Rest("err")
      BY <1>6 DEF ReadFails, Publish, Answered
    <2>2. QED
      BY <1>1, <1>4, <2>1
  <1>7. CASE (\E h \in Hosts : ReadElsewhere(h)) \/ StartReading \/ ReadRows
    BY <1>1, <1>7, Zenon DEF ReadElsewhere, StartReading, ReadRows
  <1>8. QED
    BY <1>1, <1>2, <1>3, <1>5, <1>6, <1>7, StatementCovered, StartCheckCovered, ReadVersionCovered,
       EndCheckCovered DEF Next, vars

\* Agreement covers the statement that waited for it, for any number of hosts, whichever
\* of them cannot be reached and however the schema goes on changing during the check.
THEOREM AgreementIsMeaningful == Spec => []AgreementCoversStatement
  <1>1. AgreementInv => AgreementCoversStatement
    <2> SUFFICES ASSUME AgreementInv, client.pc = "refresh",
                        NEW h \in DOMAIN client.answers, client.answers[h].ok
                 PROVE  applied[h] >= client.seq
      BY Zenon DEF AgreementCoversStatement
    <2>1. client.answers \in Replies /\ client.seq \in Nat
      BY DEF AgreementInv, ClientCovered, ClientType
    <2>2. h \in Hosts /\ client.answers[h].value \in Nat
      BY <2>1, RepliesType
    <2>3. client.answers[h].value <= applied[h] /\ client.answers[h].value >= client.seq
      BY DEF AgreementInv, ClientCovered
    <2>4. applied[h] \in Nat
      BY <2>2, Zenon DEF AgreementInv
    <2>5. QED
      BY <2>1, <2>2, <2>3, <2>4
  <1>2. QED
    BY <1>1, AgreementInvInit, AgreementInvStep, PTL DEF Spec
=============================================================================
