# Verification of the ScyllaDB Rust driver

TLA+ models of the concurrent core of the driver (`src/scylla/`), checked with
TLC on small instances and, where it matters most, proved with TLAPS for every
value of the constants. `PROJECT.json` maps each definition to the source lines
it models and lists components, runs, mutants, findings, hazards and theorems.

    tlc -workers 2 -config MCConnectionRouter.cfg MCConnectionRouter
    tlapm ConnectionRouterProofs.tla

## 1. The system

A `Session` sends a request to one of the nodes of a cluster. The path of a
request, from the top:

1. `Session::run_request` asks the load balancing policy for a *plan* (nodes to
   try), and runs one or more *fibers* over it; a retry policy decides what
   follows an error, and a speculative policy when to start another fiber.
2. A fiber takes a connection from the *pool* of a node. Every pool has a
   `PoolRefiller` task that opens connections until each shard has its share.
3. A *connection* multiplexes requests over one socket by stream ids. Its router
   consists of a writer, a reader, an orphaner and a keepaliver in one task.
4. The `ClusterWorker` keeps the `ClusterState` up to date: it refreshes metadata
   over the *control connection*, on a timer, on events and on request, passes
   `USE` on to the pools, and takes in *tablets* that come with responses.

### Inventory

| Component | State | Operations | What is hard | Properties |
|---|---|---|---|---|
| Connection router (`network/connection.rs`) | submit channel, `ResponseHandlerMap`, `StreamIdSet`, `OrphanageTracker`, frames in flight | send and cancel a request; writer, reader, orphaner, keepaliver, shutdown | cancellation at any moment; late responses on reused ids; ids exhausted; dead server | responses reach their request; ids exclusive; every caller gets an answer |
| Pool (`network/connection_pool.rs`) | buckets, excess connections, attempts under way, keyspace, published list | fill, handle a ready connection, remove, reshard, `use_keyspace`, wait, pick | attempts overlap with errors, resharding and changes of keyspace | limits; published list usable and current; refill never forgotten; pool fills up |
| Tablets (`routing/locator/tablets.rs`, `cluster/state.rs`) | sorted list per table, unknown-replica flags, `Node` objects | add a tablet, look up, maintenance after a refresh | ranges split and merge; nodes come, go and are recreated | disjoint; lookup exact; no stale nodes; refinement of a plain map |
| Request execution (`client/session.rs`, `policies/speculative_execution.rs`, `policies/retry/`) | shared plan, fibers, retry sessions, speculation timer | next target, choose connection, attempt, decide, collect, timeout | fibers race on one plan; retries of what may have been applied | no double application; right error; bounded attempts; termination |
| Cluster worker and metadata reader (`cluster/worker.rs`, `cluster/metadata.rs`, `cluster/control_connection.rs`) | published `ClusterState`, known peers, control connection, request channels | refresh, `use_keyspace`, events, repair of the control connection | everyone is answered by one task that itself waits for the network; fetch fails midway | each request answered; all pools end in the last keyspace; recovery |
| Pager (`client/pager.rs`) | paging state, retry session, plan, channel of pages | fetch a page, retry, deliver, stop | retries within an iteration; receiver dropped early | pages once and in order; at least one item sent |
| Caching session (`client/caching_session.rs`) | cache of prepared statements | look up, prepare, evict, insert | check and insertion are not atomic | capacity |
| Schema agreement (`client/session.rs`) | versions read from nodes | check, wait, time out | connections break in the middle | agreement is reported only if all agree |
| Sharder, partitioner, locator (`routing/`) | none | token to shard, source ports, replicas of a token | ends of ranges, wrapping arithmetic | agrees with a reference definition |
| Timestamp generator (`policies/timestamp_generator.rs`) | last timestamp | next | threads race, the clock goes back | strictly increasing |
| Load balancing (`policies/load_balancing/`) | latencies (optional) | pick, fallback | pick and fallback are computed apart | each target once |
| Configuration, TLS, authentication, metrics, results, frames | data | setters, conversions | none for a model checker | - |

The complete list, with what is left out and why, is `components` in
`PROJECT.json`; what is hard to test, line by line, is `hazards`.

## 2. Modules

| Module | Models | Checked by |
|---|---|---|
| `ConnectionRouter` | router of a connection | `router_safety`, `router_liveness`, `router_abandoned` |
| `ConnectionRouterProofs` | its safety for all constants | TLAPS |
| `PoolRefiller` | pool of a node | `pool_safety`, `pool_liveness`, `pool_shard` |
| `TabletMap` | what tablet information promises (abstract) | refined by `Tablets` |
| `Tablets` | tablets of the cluster state | `tablets_safety`, `tablets_assertion` |
| `TabletsProofs` | lookup and insertion for all lists | TLAPS |
| `RetryPolicy` | decisions of the retry sessions (operators) | through `RequestExecution` |
| `RequestExecution` | one request: fibers, speculation, retries, timeout | `request_execution` |
| `MC...` | instances for TLC | - |

`X == ...` definitions introduced by a `Mutant:` comment are plausible bugs of
the definition that follows; they are not part of any specification, and
`PROJECT.json` says which property each of them violates.

### ConnectionRouter

State and code: `submit_channel` is the mpsc channel to the writer and
`notifications` the channel of orphan notifications;
`used`, `handlers`, `request_to_stream`, `orphans` are the fields of
`ResponseHandlerMap` (`old` are the orphans past their age); `reply` is the oneshot of each request; a
frame is `current` in the writer, in its `buffer`, and on the `wire` until the
server has answered it. A request is a caller of `send_request`;
`Cancel` drops its future, whose `OrphanhoodNotifier` then notifies the orphaner.

Each of the four futures of the router has its actions, at the granularity of
its awaits: `WriterTake` (take a task and allocate an id, or answer that there
is none), `WriterWrote`, `WriterNoTask`, `WriterFlushed`, `WriterError`;
`ReaderResponse`, `ReaderUnexpectedStream`, `ReaderError`; `Orphan`,
`OrphanAges`, `TooManyOrphans`; `KeepaliveStart`, `KeepaliveSucceeds`,
`KeepaliveFails`, `KeepaliveTimeout`. An error of any of them ends all and
answers the handlers that are left. The server answers in any order; it may fall
silent (`ServerSilent`). Event frames belong to the control connection and are
left out.

### PoolRefiller

One action per arm of the select loop of `PoolRefiller::run`, each with the whole
of its handler: `StartFilling`, `OpenFails`, `OpenSucceeds`, `SetKeyspace` (a
connection whose `USE` ended), `RemoveConnection`, `UseKeyspace`. Around it: the
node (`NodeRestarts` with another number of shards, the shard it assigns),
`ConnectionBreaks`, a caller of `wait_until_initialized` in its two steps, and a
caller of `connection_for_shard` whose shard was computed earlier (`PickShard`).
`shared` is the `ArcSwap` the users read. Backoff durations are abstracted to "the
timer fires".

### Tablets and TabletMap

`UpdateTablets` is `ClusterState::update_tablets` for one tablet;
`RefreshTopology` is the part of `ClusterState::new` that reuses or recreates
`Node` objects and calls `perform_maintenance`. Two `Node` objects are the same
`Arc` iff their records are equal; `created` tells recreated objects apart.
`TabletMap` is the abstract specification: a set of ranges per table, where a
newer range replaces those it overlaps. The refinement mapping forgets order,
flags and objects. `panicked` records that an assertion failed, which ends the
worker's task (`Dead`).

### RetryPolicy and RequestExecution

`DefaultDecide`, `DowngradingDecide` and `FallthroughDecide` are the
`decide_should_retry` of the three sessions; a session is the set of its flags
that are set. An error is its kind and the numbers the policies look at.
`NotApplied` is what a server's error says about a write, and is conservative:
everything that does not exclude it counts as possibly applied.

A fiber of `RequestExecution` is at "plan" (`NextTarget`), "connect"
(`ChooseConnection`) or "sent" (`AttemptSucceeds`, `AttemptFails`). When it ends,
the select loop of `speculative_execution::execute` handles its output in the same
step (`Collect`). `SleepOver` is the timer of speculation, `Timeout` that of the
request. The plan is a number of distinct targets.

## 3. Runs

| Run | Shows | Distinct states |
|---|---|---|
| `router_safety` | `NoMisdelivery`, `StreamsMatchFrames`, `MapConsistent`, `WaiterHasAnswerer`, `SingleOwner` over every interleaving of three requests and a keepalive | 105,868 |
| `router_liveness` | every waiting caller is answered although the server may fall silent; too many old orphans end the connection | 23,072 |
| `router_abandoned` | finding: see below | - |
| `tablets_safety` | `TabletsDisjoint`, `LookupFindsOwner`, `NoStaleNodes`, `UnknownReplicasFlagged`, and that `Tablets` implements `TabletMap` | 28,948 |
| `tablets_assertion` | finding: see below | - |
| `pool_safety` | `WithinLimits`, `ReadyIsUsable`, `RefillNotForgotten`, `SharedUpToDate`, `PooledUseKeyspace` through breaking connections, resharding and changes of keyspace | 782,850 |
| `pool_liveness` | the pool fills up although the node favours some shards; `wait_until_initialized` returns | 6,592 |
| `pool_shard` | finding: see below | - |
| `request_execution` | `NoDoubleApply`, `EmptyPlanMeansEmpty`, `ErrorIsLast`, `AttemptsBounded`, `ConsistencyOnlyLowered`, `EveryRequestEnds` for all policies, with and without speculation | 471,498 |

### Bounds

- Router: two stream ids and four requests exhaust the ids, reuse each of them,
  and make two cancelled and two live requests meet; a channel of capacity 2 (1
  in the liveness run) gets full. The orphan threshold is 0 instead of 1024, so
  that it is exceeded. The proofs show that the safety invariants do not depend
  on these numbers.
- Pool: five connections suffice for a full pool of two shards, excess
  connections, and replacements; two events (a break, a restart with resharding,
  a change of keyspace) may coincide with a filling.
- Tablets: three tokens give ranges that split, merge and cover others; two
  refreshes allow a node to leave and come back as a new object.
- Requests: two targets and three fibers make fibers compete for a target and
  find the plan used up; with five replicas a quorum is three, so that the
  downgrading policy can lower it to `Two` and to `One`. One error kind stands for each group that the
  policies and `can_be_ignored` treat alike.

### Fairness

- Router: tokio polls a future that can make progress, and timers fire. A server
  that is alive drains its socket and answers keepalives; nothing is assumed of
  its other answers, and nothing once it is silent.
- Pool: an attempt to connect ends (there is a connect timeout), `USE` ends,
  errors are received, the refill timer fires. Faults are bounded by
  `MaxEvents`: "once faults cease".
- Requests: the timer of speculation fires and fibers are polled.
  `EveryRequestEnds` states its assumption in the property itself: no attempt
  stays unanswered for ever (which the router's liveness shows for a connection
  with keepalives). No request timeout is assumed.

### Findings

- `router_abandoned`: a comment says that dropping a request's future marks its
  stream id as orphaned. When the future is dropped while its task is still in the
  submit channel, the orphaner handles the notification before there is a stream
  id; the writer then registers a handler for a request nobody awaits, and this
  stream never counts as an orphan. Its id is still released when the response
  arrives (`StreamsMatchFrames`).
- `tablets_assertion`: maintenance resolves a tablet's unknown replicas against
  the new `Node` objects before `update_stale_nodes` asserts that no replica is a
  new object yet. A refresh that brings the missing node and recreates another
  replica fails the assertion and ends the cluster worker.
- `pool_shard`: a comment says that it is safer to use another shard than to panic
  when the requested one is out of bounds. `connection_for_shard_helper` tries the
  numbers below the requested shard, also those that are no shard of the node, and
  may index out of bounds.

The exact lines and quotations are in `findings`. Observations that are not runs
are hazards with a note: a failed `USE` is only logged
(`connection_pool.rs:1135`), the gauge of connections can drift
(`connection_pool.rs:1025`), the replica lists per datacenter are keyed by the
datacenter of the old object (`tablets.rs:298`), and a retry session is told the
statement's consistency rather than that of the attempt (`session.rs:2148`).

## 4. Proofs

**Router** (`ConnectionRouterProofs`, from `RouterAssumption`: at least one
stream id, a channel of positive capacity, `None` outside the other values; any
set of requests). `Invariance` proves `Spec => []IndInv`, from which
`TypeCorrect`, `ResponsesReachTheirRequest`, `StreamIdsAreExclusive`,
`HandlerMapConsistent` and `NobodyWaitsForNothing` follow. None of the invariants
is inductive alone. That a response reaches its own request needs that the frame
on a stream id belongs to the request whose handler is registered under it, or to
an orphan (`SingleOwner`, `MapConsistent`), which needs that ids of frames in
flight are distinct (`StreamsMatchFrames`), which needs that the writer only
allocates ids that are not in use. `IndInv` is their conjunction with `TypeOK`.
The proof has a lemma for each action that changes the map or the frames, and one
for each group of actions that change the same things (leaving, breaking,
dropping, the moves of the writer); under it, one step per part of `IndInv` that
the action can disturb.

**Tablets** (`TabletsProofs`, from `TabletsAssumption`). `LookupCorrect`: on a
sorted and disjoint list, the binary search returns exactly the tablet that owns
the token. `LookupInvariant`: hence `TypeOK /\ TabletsDisjoint => LookupFindsOwner`.
`InsertCorrect`: adding a tablet keeps a list sorted and disjoint and removes
exactly the overlapping ones.

**Only model-checked**: liveness (out of the prover's reach), the refinement of
`TabletMap`, that `TabletsDisjoint` is an invariant of the whole specification
(maintenance included), the pool, and the execution of requests.

## 5. Plan

1. `ControlPlane` (one run): `ClusterWorker`, `MetadataReader`, the event channel
   and `use_keyspace`, composed with an abstract pool; each request is answered,
   the pools end in the last keyspace, the control connection recovers, and
   whether the full event channel can hold up the worker.
2. `Pager` on `RetryPolicy` (one run): pages once and in order, at least one item
   sent, attempts bounded over the iteration.
3. `CachingSession` (one run): the documented capacity against concurrent
   executions.
4. Operators with proofs and without a run of their own: the `Sharder`, and the
   step of the timestamp generator.
5. Proofs: `TabletsDisjoint` and `NoStaleNodes` as invariants of `Tablets`, then
   the refinement; `NoDoubleApply` and `AttemptsBounded` of `RequestExecution`;
   `WithinLimits` and `RefillNotForgotten` of `PoolRefiller`.

Not planned: the encoding of frames and values (`scylla-cql`, `scylla-macros`) is
sequential conversion; partitioners are hash functions; configuration, TLS,
authentication and metrics have no control worth a model; `scylla-proxy` is a
tool of the test suite.
