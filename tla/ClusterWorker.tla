---------------------------- MODULE ClusterWorker ----------------------------
(***************************************************************************)
(* The cluster worker (scylla/src/cluster/worker.rs), the task that owns   *)
(* the ClusterState: it serves requests for a refresh and for a change of  *)
(* keyspace, reacts to server events and to a broken control connection,   *)
(* reads the metadata (MetadataReader) and publishes a new ClusterState    *)
(* (scylla/src/cluster/state.rs) whose Node objects (node.rs) keep their   *)
(* pools from one state to the next.                                       *)
(*                                                                         *)
(* Left out: the channel of tablets (module Tablets), the schema (module   *)
(* SchemaRefresh), the length of the sleep, and the end of the worker when *)
(* the session is dropped, which no caller can see.                        *)
(***************************************************************************)
EXTENDS MetadataReader

CONSTANTS
    Clients,           \* tasks that call Session::refresh_metadata
    Keyspaces,
    Sessions,          \* bound: who calls what in a session, and the cluster at its start,
                       \* [refresh, keyspaces, members, alive]
    RefreshCapacity,   \* of the channel of refresh requests (32 in the code)
    MaxEpoch,          \* bound on the changes of the topology
    MaxFaults          \* bound on crashes, restarts, resets and failing queries

ASSUME WorkerAssumption == None \notin Clients /\ None \notin Keyspaces

VARIABLES
    session,           \* the session of this behaviour, one of Sessions
    worker,            \* where the worker is: "starting" during Cluster::new
    refresh_channel,   \* clients whose request is queued
    cur_request,       \* the client the current refresh is for
    call,              \* of a client: its call of refresh_metadata
    asked_at,          \* of a client that waits: the epoch at which it called
    use_keyspace_call, \* the keyspace that a call of Session::use_keyspace waits for
    used_keyspace,     \* ClusterWorker::used_keyspace
    task,              \* handle_use_keyspace_request: [running, todo], the pools still to answer
    known_nodes,       \* ClusterState::known_peers, published: host id -> Node
    next_nodes,        \* the same of the ClusterState being built
    pools,             \* the live NodeConnectionPools: pool -> current_keyspace
    published_at,      \* the epoch of the metadata published last
    faults

requests == <<refresh_channel, cur_request, call, asked_at>>
keyspace == <<use_keyspace_call, used_keyspace, task>>
state == <<known_nodes, next_nodes, pools, published_at>>
reader == <<endpoint, connection, known_peers, reading, answers, events>>
vars == <<cluster, reader, worker, requests, keyspace, state, faults, session>>

Pools == HostIds \X (0..4)
Nodes == [address : Addresses, rack : {0, 1}, pool : Pools \cup {None}]
NodeMaps == UNION {[H -> Nodes] : H \in SUBSET HostIds}

\* The types of the code; a pool belongs to a node or to a task that still uses it.
TypeOK ==
    /\ members \subseteq Hosts /\ alive \subseteq Hosts /\ rack \in [Hosts -> {0, 1}]
    /\ epoch \in 0..MaxEpoch /\ published_at \in 0..MaxEpoch /\ faults \in 0..MaxFaults
    /\ endpoint \in Endpoints /\ known_peers \subseteq Endpoints
    /\ pool \in {"initializing", "ready", "broken"}
    /\ reading.stage \in Stages /\ reading.left \subseteq Endpoints
    /\ reading.metadata.peers \subseteq Peers
    /\ \A q \in Queries : answers[q].is \in {"none", "waiting", "error", "rows"}
    /\ pushed \subseteq EventKinds /\ blocked \in EventKinds \cup {None}
    /\ Len(events) <= EventCapacity /\ repair \in 0..RepairCapacity
    /\ worker \in {"starting", "select", "refreshing", "pools", "closed"}
    /\ Len(refresh_channel) <= RefreshCapacity /\ cur_request \in Clients \cup {None}
    /\ call \in [Clients -> {"idle", "waiting"}]
    /\ used_keyspace \in Keyspaces \cup {None}
    /\ use_keyspace_call \in Keyspaces \cup {None}
    /\ task.running \in BOOLEAN /\ task.todo \subseteq DOMAIN pools
    /\ \A ns \in {known_nodes, next_nodes}, id \in HostIds :
          id \in DOMAIN ns => /\ ns[id] \in Nodes
                              /\ ns[id].pool \in DOMAIN pools \cup {None}

-----------------------------------------------------------------------------
(* ClusterState::new and the publication of the state.                      *)

PoolsOf(ns) == {ns[id].pool : id \in DOMAIN ns} \ {None}

\* The number of a new pool for the host; the pools of earlier Nodes may still be in use.
FreshPool(id) == <<id, CHOOSE g \in 0..4 : /\ <<id, g>> \notin DOMAIN pools
                                            /\ \A f \in 0..(g-1) : <<id, f>> \in DOMAIN pools>>

\* An existing Node, with its pool, is kept for a peer whose datacenter and rack have not
\* changed; a change of address only updates it (Node::inherit_with_ip_changed).
Recycled(p) == p.host_id \in DOMAIN known_nodes /\ known_nodes[p.host_id].rack = p.rack

NodeOf(p) ==
    [address |-> p.address, rack |-> p.rack,
     pool |-> IF Recycled(p) THEN known_nodes[p.host_id].pool
              ELSE IF Accept(p) THEN FreshPool(p.host_id) ELSE None]

Keep(live) == [q \in DOMAIN pools \cap live |-> pools[q]]

\* New pools start without a keyspace.
NewPoolsBare(created) ==
    [q \in DOMAIN pools \cup created |-> IF q \in DOMAIN pools THEN pools[q] ELSE None]

\* New pools start with the keyspace that the worker knows.
NewPools(created) ==
    [q \in DOMAIN pools \cup created |-> IF q \in DOMAIN pools THEN pools[q] ELSE used_keyspace]

ClusterStateNew(md) ==
    LET built == [id \in {p.host_id : p \in md.peers} |->
                    NodeOf(CHOOSE p \in md.peers : p.host_id = id)]
    IN  /\ next_nodes' = built
        /\ pools' = NewPools(PoolsOf(built) \ DOMAIN pools)

\* update_cluster_state: the nodes of the old state go, unless someone still uses them.
Publish ==
    /\ known_nodes' = next_nodes
    /\ next_nodes' = << >>
    /\ published_at' = reading.metadata.read_at
    /\ pools' = Keep(PoolsOf(next_nodes) \cup task.todo)


-----------------------------------------------------------------------------
(* The API of the session.                                                  *)

\* Cluster::new has returned a session.
Connected == ~reading.initial

\* Cluster::refresh_metadata; a client that has got its answer may call again.
RefreshMetadata(c) ==
    /\ Connected /\ c \in session.refresh /\ call[c] = "idle"
    /\ Len(refresh_channel) < RefreshCapacity
    /\ refresh_channel' = Append(refresh_channel, c)
    /\ call' = [call EXCEPT ![c] = "waiting"]
    /\ asked_at' = [asked_at EXCEPT ![c] = epoch]
    /\ UNCHANGED <<cluster, reader, worker, cur_request, keyspace, state, faults, session>>

\* Cluster::use_keyspace.  As its documentation asks for, one call at a time; a bound:
\* for a keyspace that is not in use yet.
UseKeyspace(k) ==
    /\ Connected /\ k \in session.keyspaces
    /\ use_keyspace_call = None /\ used_keyspace # k
    /\ use_keyspace_call' = k
    /\ UNCHANGED <<cluster, reader, worker, requests, used_keyspace, task, state, faults, session>>

-----------------------------------------------------------------------------
(* The branches of the select in ClusterWorker::work.                       *)

\* perform_refresh begins.
PerformRefresh(c) ==
    /\ worker = "select"
    /\ worker' = "refreshing"
    /\ cur_request' = c
    /\ StartReading(FALSE)
    /\ UNCHANGED <<cluster, endpoint, pool, known_peers, pushed, blocked,
                   call, asked_at, keyspace, state, faults, session>>

\* It is time for the next refresh.
SleepOver == PerformRefresh(None) /\ UNCHANGED <<refresh_channel, events, repair>>

TakeRefreshRequest ==
    /\ refresh_channel # << >>
    /\ refresh_channel' = Tail(refresh_channel)
    /\ PerformRefresh(Head(refresh_channel))
    /\ UNCHANGED <<events, repair>>

TakeTopologyEvent ==
    /\ events # << >> /\ Head(events) = "topology"
    /\ events' = Tail(events)
    /\ PerformRefresh(None)
    /\ UNCHANGED <<refresh_channel, repair>>

TakeOtherEvent ==
    /\ worker = "select"
    /\ events # << >> /\ Head(events) # "topology"
    /\ events' = Tail(events)
    /\ UNCHANGED <<cluster, endpoint, connection, known_peers, reading, answers,
                   worker, requests, keyspace, state, faults, session>>

\* A message that the control connection broke, or that some of these were lost.
TakeRepair ==
    /\ repair > 0
    /\ repair' = repair - 1
    /\ PerformRefresh(None)
    /\ UNCHANGED <<refresh_channel, events>>

\* The nodes of the published state are told by a task of its own; those of later states
\* will be created with the keyspace.  A disabled node has no pool.
TakeUseKeyspace ==
    /\ worker = "select"
    /\ use_keyspace_call # None /\ ~task.running
    /\ used_keyspace' = use_keyspace_call
    /\ task' = [running |-> TRUE, todo |-> PoolsOf(known_nodes)]
    /\ UNCHANGED <<cluster, reader, worker, requests, use_keyspace_call, state, faults, session>>

-----------------------------------------------------------------------------
(* handle_use_keyspace_request.                                             *)

\* A pool sets its keyspace, whatever becomes of the USE on its connections.
PoolUsesKeyspace(q) ==
    /\ q \in task.todo
    /\ LET live == PoolsOf(known_nodes) \cup PoolsOf(next_nodes) \cup (task.todo \ {q})
       IN  pools' = [p \in live |-> IF p = q THEN use_keyspace_call ELSE pools[p]]
    /\ task' = [task EXCEPT !.todo = @ \ {q}]
    /\ UNCHANGED <<cluster, reader, worker, requests, use_keyspace_call, used_keyspace,
                   known_nodes, next_nodes, published_at, faults, session>>

UseKeyspaceDone ==
    /\ task.running /\ task.todo = {}
    /\ use_keyspace_call' = None
    /\ task' = [running |-> FALSE, todo |-> {}]
    /\ UNCHANGED <<cluster, reader, worker, requests, used_keyspace, state, faults, session>>

-----------------------------------------------------------------------------
(* perform_refresh and Cluster::new.                                        *)

\* Everyone in the channel gets the result too.
RespondToAll ==
    /\ call' = [c \in Clients |-> "idle"]
    /\ asked_at' = [c \in Clients |-> 0]
    /\ cur_request' = None
    /\ refresh_channel' = << >>

Respond ==
    /\ call' = [c \in Clients |-> IF c = cur_request THEN "idle" ELSE call[c]]
    /\ asked_at' = [c \in Clients |-> IF c = cur_request THEN 0 ELSE asked_at[c]]
    /\ cur_request' = None
    /\ UNCHANGED refresh_channel

MetadataRead ==
    /\ worker \in {"starting", "refreshing"} /\ reading.stage = "done"
    /\ ClusterStateNew(reading.metadata)
    /\ worker' = "pools"
    /\ UNCHANGED <<cluster, reader, requests, keyspace, known_nodes, published_at, faults, session>>

\* wait_until_all_pools_are_initialized has returned: filling always ends.
PoolsInitialized ==
    /\ worker = "pools"
    /\ Publish
    /\ Respond
    /\ worker' = "select"
    /\ reading' = [initial |-> FALSE, stage |-> "idle", left |-> {}, metadata |-> NoMetadata]
    /\ UNCHANGED <<cluster, endpoint, connection, known_peers, answers, events, keyspace, faults, session>>

MetadataFailed ==
    /\ reading.stage = "failed"
    /\ worker' = IF worker = "starting" THEN "closed" ELSE "select"
    /\ Respond
    /\ reading' = [reading EXCEPT !.stage = "idle"]
    /\ UNCHANGED <<cluster, endpoint, connection, known_peers, answers, events, keyspace, state, faults, session>>

Closed == worker = "closed" /\ UNCHANGED vars

ReaderStep ==
    /\ FetchMetadata \/ QueryReturns
    /\ UNCHANGED <<worker, requests, keyspace, state, faults, session>>

-----------------------------------------------------------------------------
(* The cluster, the network and the router of the control connection.       *)

Push(k) == pushed' = IF pool = "ready" THEN pushed \cup {k} ELSE pushed

\* A host joins, leaves for good, or moves to another rack; the cluster keeps a host
\* with tokens.
ChangeTopology(ms, al, rk) ==
    /\ epoch < MaxEpoch
    /\ members' = ms /\ alive' = al /\ rack' = rk
    /\ ms \cap TokenOwners # {}
    /\ epoch' = epoch + 1
    /\ Push("topology")
    /\ UNCHANGED <<endpoint, pool, known_peers, reading, answers, blocked, events, repair,
                   worker, requests, keyspace, state, faults, session>>

Join(h) == h \notin members /\ ChangeTopology(members \cup {h}, alive \cup {h}, rack)
Leave(h) == h \in members /\ ChangeTopology(members \ {h}, alive \ {h}, rack)
Relocate(h) == h \in members /\ ChangeTopology(members, alive, [rack EXCEPT ![h] = 1 - @])

Fault ==
    /\ faults < MaxFaults
    /\ faults' = faults + 1
    /\ UNCHANGED <<worker, requests, keyspace, state, session>>

ChangeStatus(al) ==
    /\ alive' = al
    /\ Push("status")
    /\ Fault
    /\ UNCHANGED <<members, rack, epoch, endpoint, pool, known_peers, reading, answers,
                   blocked, events, repair>>

Crash(h) == h \in alive /\ ChangeStatus(alive \ {h})
Restart(h) == h \in members \ alive /\ ChangeStatus(alive \cup {h})
NetworkResets == Broken /\ Fault
ServerError(q) == QueryFails(q) /\ Fault

NetworkStep(A) == A /\ UNCHANGED <<worker, requests, keyspace, state, faults, session>>

Init ==
    /\ session \in Sessions
    /\ members = session.members /\ members \cap TokenOwners # {} /\ Contacts \subseteq members
    /\ alive = session.alive
    /\ rack = [h \in Hosts |-> 0]
    /\ epoch = 0
    /\ \E h \in Contacts : endpoint = ContactPoint(h)
    /\ pool = "initializing"
    /\ known_peers = ContactPoints
    /\ reading = [initial |-> TRUE, stage |-> "current", left |-> {}, metadata |-> NoMetadata]
    /\ answers = All("none")
    /\ pushed = {} /\ blocked = None /\ events = << >> /\ repair = 0
    /\ worker = "starting"
    /\ refresh_channel = << >> /\ cur_request = None
    /\ call = [c \in Clients |-> "idle"] /\ asked_at = [c \in Clients |-> 0]
    /\ use_keyspace_call = None
    /\ used_keyspace = None
    /\ task = [running |-> FALSE, todo |-> {}]
    /\ known_nodes = << >> /\ next_nodes = << >> /\ pools = << >> /\ published_at = 0
    /\ faults = 0

WorkerStep ==
    \/ SleepOver \/ TakeRefreshRequest \/ TakeTopologyEvent \/ TakeOtherEvent
    \/ TakeRepair \/ TakeUseKeyspace
    \/ ReaderStep \/ MetadataRead \/ PoolsInitialized \/ MetadataFailed

Next ==
    \/ WorkerStep
    \/ \E c \in Clients : RefreshMetadata(c)
    \/ \E k \in Keyspaces : UseKeyspace(k)
    \/ \E q \in task.todo : PoolUsesKeyspace(q)
    \/ UseKeyspaceDone
    \/ NetworkStep(PoolFilled) \/ NetworkStep(KeepaliveFails) \/ NetworkStep(ReaderUnblocked)
    \/ \E k \in EventKinds : NetworkStep(HandleEvent(k))
    \/ \E q \in Queries : NetworkStep(QueryAnswered(q)) \/ ServerError(q)
    \/ NetworkResets
    \/ \E h \in Hosts : Join(h) \/ Leave(h) \/ Relocate(h) \/ Crash(h) \/ Restart(h)
    \/ Closed

Spec == Init /\ [][Next]_vars

\* What the runtime and the server do in the end: a ready branch of the select is chosen
\* in the end (tokio::select! picks among them at random), the worker's own steps happen,
\* a filling of a pool ends, a server that responds answers, keepalives are on.
Fairness ==
    /\ SF_vars(SleepOver) /\ SF_vars(TakeRefreshRequest) /\ SF_vars(TakeUseKeyspace)
    /\ SF_vars(TakeTopologyEvent \/ TakeOtherEvent)
    /\ WF_vars(ReaderStep \/ MetadataRead \/ PoolsInitialized \/ MetadataFailed)
    /\ WF_vars(UseKeyspaceDone \/ \E q \in task.todo : PoolUsesKeyspace(q))
    /\ WF_vars(NetworkStep(PoolFilled) \/ NetworkStep(KeepaliveFails))
    /\ WF_vars(NetworkStep(ReaderUnblocked) \/ \E k \in EventKinds : NetworkStep(HandleEvent(k)))
    /\ WF_vars(\E q \in Queries : NetworkStep(QueryAnswered(q)))

FairSpec == Spec /\ Fairness

-----------------------------------------------------------------------------
(* Properties.                                                              *)

\* A ClusterState always has nodes (the comment at ClusterState::known_peers), whichever
\* of the queries fail and whatever the host filter rejects: use_keyspace_result and the
\* load balancing rely on it.
KnownPeersNonempty == Connected => DOMAIN known_nodes # {}

\* Whatever node enters or leaves while the keyspace changes, every pool of the published
\* state and of the one being built uses the session's keyspace, or is about to.
PoolsUseKeyspace ==
    \A q \in PoolsOf(known_nodes) \cup PoolsOf(next_nodes) :
        pools[q] = used_keyspace \/ q \in task.todo

\* The answer Ok of refresh_metadata means that the topology published is at least as
\* recent as the call, though the worker may have been in another refresh at that time.
RefreshIsFresh ==
    [][\A c \in Clients : (worker = "pools" /\ call[c] = "waiting" /\ call'[c] = "idle")
                              => published_at' >= asked_at[c]]_vars

\* "ClusterWorker always responds" to refresh_metadata: also when events fill their channel
\* and block the reader that has to read the answers the worker waits for.
RefreshAnswered ==
    \A c \in Clients : call[c] = "waiting" ~> call[c] # "waiting"

\* "ClusterWorker always responds" to use_keyspace.
UseKeyspaceAnswered ==
    use_keyspace_call # None ~> use_keyspace_call = None

\* Once changes and faults are over, with a contact point that responds, the published
\* nodes are the members of the cluster: errors that read_metadata skips, events that were
\* lost with a connection and peers that are gone are all made up for.
TopologyConverges ==
    (<>[](\E h \in Contacts : h \in alive) /\ <>[](worker # "closed")) =>
        <>[](DOMAIN known_nodes = members)

\* The published nodes can be used: there are some, and their pools follow the keyspace.
PublishedNodesServe == KnownPeersNonempty /\ PoolsUseKeyspace

\* Whatever a user asks of the worker is answered, refreshes and changes of keyspace.
CallsAnswered == RefreshAnswered /\ UseKeyspaceAnswered
=============================================================================
