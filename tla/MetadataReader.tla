---------------------------- MODULE MetadataReader ----------------------------
(***************************************************************************)
(* The metadata reader and its control connection                          *)
(* (scylla/src/cluster/metadata.rs, control_connection.rs): one connection *)
(* on which the topology and the schema are queried and on which the       *)
(* server pushes events.  A fetch that fails is repeated on the other      *)
(* known peers and then on the contact points, each time on a new pool.    *)
(*                                                                         *)
(* An address is tagged as in NodeAddr: the node that the control          *)
(* connection is opened to appears as "untranslatable", the others as      *)
(* "translatable".  The cluster itself (members, alive, rack) is external. *)
(***************************************************************************)
EXTENDS Naturals, Sequences, FiniteSets

CONSTANTS
    Hosts,
    Contacts,          \* the hosts given as contact points, by address
    Accepted,          \* the host ids that the host filter accepts
    TokenOwners,       \* the hosts that own tokens
    EventCapacity,     \* of the channel of server events (32 in the code)
    RepairCapacity,    \* of the broadcast channel of repairs (32 in the code)
    None

ASSUME ReaderAssumption ==
    /\ Contacts \subseteq Hosts /\ Contacts # {}
    /\ EventCapacity \in Nat \ {0} /\ RepairCapacity \in Nat \ {0}

VARIABLES
    members, alive, rack,  \* external: the cluster, the hosts that respond, their racks
    epoch,                 \* number of changes of the topology so far
    endpoint,              \* MetadataReader::control_connection_endpoint
    pool,                  \* state of the control connection's pool
    known_peers,           \* MetadataReader::known_peers
    reading,               \* progress of read_metadata: [initial, stage, left, metadata]
    answers,               \* of the queries of query_metadata under way: query -> Answers
    pushed,                \* events that the server has sent on the connection
    blocked,               \* the event that the connection's reader holds, if the channel was full
    events,                \* the channel of server events
    repair                 \* number of messages in the channel of repairs

cluster == <<members, alive, rack, epoch>>
connection == <<pool, pushed, blocked, repair>>

DummyId(h) == <<"dummy", h>>
HostIds == Hosts \cup {DummyId(h) : h \in Contacts}
EventKinds == {"topology", "status"}
Queries == {"local", "peers", "keyspaces"}

Address(tag, h) == [tag |-> tag, host |-> h]
Addresses == [tag : {"translatable", "untranslatable"}, host : Hosts]
Endpoints == [kind : {"contact", "peer"}, address : Addresses]
Peers == [host_id : HostIds, address : Addresses, rack : {0, 1}]

ContactPoint(h) == [kind |-> "contact", address |-> Address("untranslatable", h)]
ContactPoints == {ContactPoint(h) : h \in Contacts}
ToEndpoint(p) == [kind |-> "peer", address |-> p.address]
Accept(p) == p.host_id \in Accepted

\* What a query gives: the peers of its rows.  `read_at` is the epoch they are of.
Answers == [is : {"none", "waiting", "error", "rows"}, read_at : Nat, peers : SUBSET Peers]
Answer(is) == [is |-> is, read_at |-> 0, peers |-> {}]
All(is) == [q \in Queries |-> Answer(is)]
Querying == answers # All("none")

\* The stages of read_metadata: on the current connection, on the known peers, on the
\* contact points; `left` are the endpoints still to be tried in a stage.
Stages == {"idle", "current", "known", "contacts", "done", "failed"}
Metadata == [read_at : Nat, peers : SUBSET Peers]
NoMetadata == [read_at |-> 0, peers |-> {}]

-----------------------------------------------------------------------------
(* The pool of the control connection: one connection, opened in the        *)
(* background, refilled when it breaks.                                     *)

\* make_control_connection_pool: the old connection goes, with the events on it.
NewControlConnection(e) ==
    /\ endpoint' = e
    /\ pool' = "initializing"
    /\ pushed' = {}
    /\ blocked' = None
    /\ UNCHANGED repair

KeepControlConnection == UNCHANGED <<endpoint, connection>>

\* The attempt to open the connection ends.
PoolFilled ==
    /\ pool # "ready"
    /\ pool' = IF endpoint.address.host \in alive THEN "ready" ELSE "broken"
    /\ pool' # pool
    /\ UNCHANGED <<cluster, endpoint, known_peers, reading, answers, pushed, blocked, events, repair>>

\* The router of the connection dies: what waits for an answer gets an error, what
\* the reader holds is lost, and the pool tells that it is empty.
Broken ==
    /\ pool = "ready"
    /\ pool' = "broken"
    /\ pushed' = {}
    /\ blocked' = None
    /\ repair' = IF repair < RepairCapacity THEN repair + 1 ELSE repair
    /\ answers' = [q \in Queries |->
                      IF answers[q].is = "waiting" THEN Answer("error") ELSE answers[q]]
    /\ UNCHANGED <<cluster, endpoint, known_peers, reading, events>>

\* The keepalive is not answered: the host does not respond, or the reader is blocked.
KeepaliveFails ==
    /\ endpoint.address.host \notin alive \/ blocked # None
    /\ Broken

\* Connection::handle_event, run by the reader: the next event goes into the channel,
\* or the reader waits until there is room.
HandleEvent(k) ==
    /\ pool = "ready" /\ k \in pushed /\ blocked = None
    /\ pushed' = pushed \ {k}
    /\ IF Len(events) < EventCapacity
          THEN events' = Append(events, k) /\ UNCHANGED blocked
          ELSE blocked' = k /\ UNCHANGED events
    /\ UNCHANGED <<cluster, endpoint, pool, known_peers, reading, answers, repair>>

ReaderUnblocked ==
    /\ blocked # None
    /\ Len(events) < EventCapacity
    /\ events' = Append(events, blocked)
    /\ blocked' = None
    /\ UNCHANGED <<cluster, endpoint, pool, known_peers, reading, answers, pushed, repair>>

-----------------------------------------------------------------------------
(* read_metadata and fetch_metadata.                                        *)

StartReading(initial) ==
    /\ reading' = [initial |-> initial, stage |-> "current", left |-> {}, metadata |-> NoMetadata]
    /\ answers' = All("none")

\* update_known_peers
AcceptedPeers(md) == {ToEndpoint(p) : p \in {q \in md.peers : Accept(q)}}

\* handle_unaccepted_host_in_control_connection
HandleUnacceptedHost(md) ==
    LET rejected == {p \in md.peers : /\ endpoint = ToEndpoint(p)
                                       /\ ~Accept(p)}
    IN  IF rejected # {} /\ known_peers' # {}
          THEN \E e \in known_peers' : NewControlConnection(e)
          ELSE KeepControlConnection

ReadOk(md) ==
    /\ reading' = [reading EXCEPT !.stage = "done", !.metadata = md]
    /\ known_peers' = AcceptedPeers(md)
    /\ IF reading.stage # "current" \/ reading.initial
          THEN HandleUnacceptedHost(md)
          ELSE KeepControlConnection

\* retry_fetch_metadata_on_nodes: the next endpoint, of those left in the stage
TryNext(stage, candidates) ==
    \E e \in candidates :
        /\ reading' = [reading EXCEPT !.stage = stage, !.left = candidates \ {e}]
        /\ NewControlConnection(e)
        /\ UNCHANGED known_peers

\* The contact points are tried until one of them responds.
FetchFailedUntilOk ==
    LET first == reading.stage = "current"
        candidates == IF first
                        THEN {e \in known_peers : e.address # endpoint.address}
                        ELSE reading.left
    IN  \/ candidates # {} /\ TryNext(IF first THEN "known" ELSE reading.stage, candidates)
        \/ candidates = {} /\ TryNext("contacts", ContactPoints)

\* There is no fallback to the contact points.
FetchFailedNoFallback ==
    LET first == reading.stage = "current"
        candidates == IF first
                        THEN {e \in known_peers : e.address # endpoint.address}
                        ELSE reading.left
    IN  \/ candidates # {} /\ TryNext(IF first THEN "known" ELSE reading.stage, candidates)
        \/ /\ candidates = {}
           /\ reading' = [reading EXCEPT !.stage = "failed"]
           /\ KeepControlConnection
           /\ UNCHANGED known_peers

\* A fetch failed.  The known peers are tried in random order, without the address
\* that just failed; after them, unless this is the first read, the contact points.
FetchFailed ==
    LET first == reading.stage = "current"
        candidates == IF first
                        THEN {e \in known_peers : e.address # endpoint.address}
                        ELSE reading.left
        fallback == reading.stage # "contacts" /\ ~reading.initial
    IN  \/ candidates # {} /\ TryNext(IF first THEN "known" ELSE reading.stage, candidates)
        \/ candidates = {} /\ fallback /\ TryNext("contacts", ContactPoints)
        \/ /\ candidates = {} /\ ~fallback
           /\ reading' = [reading EXCEPT !.stage = "failed"]
           /\ KeepControlConnection
           /\ UNCHANGED known_peers

\* fetch_metadata: once the pool is initialized, the queries are sent on its connection,
\* unless there is none.
FetchMetadata ==
    /\ reading.stage \in {"current", "known", "contacts"} /\ ~Querying
    /\ \/ /\ pool = "ready"
          /\ answers' = All("waiting")
          /\ KeepControlConnection
          /\ UNCHANGED <<reading, known_peers>>
       \/ /\ pool = "broken"
          /\ FetchFailed
          /\ UNCHANGED answers
    /\ UNCHANGED <<cluster, events>>

\* The rows that the host of the control connection has: create_peer_from_row gives
\* its own row the address of the connection.
Rows(q) ==
    LET me == endpoint.address.host
        row(h, tag) == [host_id |-> h, address |-> Address(tag, h), rack |-> rack[h]]
    IN  CASE q = "local" -> {row(me, "untranslatable")}
          [] q = "peers" -> {row(h, "translatable") : h \in members \ {me}}
          [] q = "keyspaces" -> {}

Answered(q, a) ==
    /\ pool = "ready" /\ blocked = None /\ answers[q].is = "waiting"
    /\ endpoint.address.host \in alive
    /\ answers' = [answers EXCEPT ![q] = a]
    /\ UNCHANGED <<cluster, endpoint, connection, known_peers, reading, events>>

QueryAnswered(q) == Answered(q, [is |-> "rows", read_at |-> epoch, peers |-> Rows(q)])

\* The server answers with an error.
QueryFails(q) == Answered(q, Answer("error"))

\* query_peers takes the rows that came and skips the errors, also those of whole queries.
QueryPeers == answers["local"].peers \cup answers["peers"].peers

\* The epoch of the oldest of the rows.
ReadAt ==
    LET epochs == {answers[q].read_at : q \in {r \in {"local", "peers"} : answers[r].is = "rows"}}
    IN  IF epochs = {} THEN 0 ELSE CHOOSE n \in epochs : \A m \in epochs : n <= m

\* query_metadata gives an error: the keyspaces failed, no peer came, none owns tokens.
QueryError ==
    \/ answers["keyspaces"].is = "error"
    \/ QueryPeers = {}
    \/ \A p \in QueryPeers : p.host_id \notin TokenOwners

\* new_dummy: the known peers under random ids, when the first read fails.
DummyPeer(e) == [host_id |-> DummyId(e.address.host), address |-> e.address, rack |-> 0]
DummyMetadata == [read_at |-> 0, peers |-> {DummyPeer(e) : e \in known_peers}]

\* query_metadata returns: all answers are there, or the keyspaces failed (try_join!).
QueryReturns ==
    /\ \/ answers["keyspaces"].is = "error"
       \/ \A q \in Queries : answers[q].is \in {"rows", "error"}
    /\ IF ~QueryError
          THEN ReadOk([read_at |-> ReadAt, peers |-> QueryPeers])
          ELSE IF reading.initial
            THEN ReadOk(DummyMetadata)
            ELSE FetchFailed
    /\ answers' = All("none")
    /\ UNCHANGED <<cluster, events>>

=============================================================================
