---------------------------- MODULE PoolRefiller ----------------------------
(***************************************************************************)
(* The connection pool of one node                                         *)
(* (scylla/src/network/connection_pool.rs): the loop of PoolRefiller, the  *)
(* connections it opens in the background, the list `shared_conns` it      *)
(* publishes, and two users of the pool, one that waits for its first      *)
(* filling and one that picks a shard and then asks for a connection to    *)
(* it.  The node may refuse connections, drop them, and restart with       *)
(* another number of shards.                                               *)
(*                                                                         *)
(* Time is left out, and with it the backoff between two refills.  An      *)
(* action of the refiller is one iteration of its loop, up to and          *)
(* including the decision whether a refill is scheduled.                   *)
(***************************************************************************)
EXTENDS Integers, FiniteSets

CONSTANTS
    MaxConns,         \* bound on the connections that exist at a time
    NodeShards,       \* the shard counts the node may have; 0: not sharded
    PoolSizes,        \* the values of PoolSize: PerHost or PerShard, and how many
    ShardAwarePort,   \* may the shard-aware port be used?
    ExcessMultiplier, \* EXCESS_CONNECTION_BOUND_PER_SHARD_MULTIPLIER
    LeastLoaded,      \* does the node assign the least loaded shard?
    Bias,             \* connections of other clients to shard 0
    Keyspaces,
    MaxEvents,        \* bound on faults and changes of keyspace
    None

Ids == 1..MaxConns
Shards(nr) == IF nr = 0 THEN {0} ELSE 0..(nr - 1)
AllShards == UNION {Shards(nr) : nr \in NodeShards}
Requested == AllShards \cup {None}

ASSUME PoolAssumption ==
    /\ MaxConns \in Nat \ {0}
    /\ NodeShards # {} /\ NodeShards \subseteq Nat
    /\ PoolSizes \subseteq [kind : {"PerHost", "PerShard"}, target : Nat \ {0}]
    /\ ExcessMultiplier \in Nat \ {0}
    /\ {ShardAwarePort, LeastLoaded} \subseteq BOOLEAN
    /\ Bias \in Nat /\ MaxEvents \in Nat
    /\ None \notin Keyspaces \cup Nat

VARIABLES
    pool_size,          \* PoolConfig::pool_size, which never changes
    node,               \* the node's number of shards (external)
    conn,               \* the connections that exist: shard info, keyspace, did USE fail
                        \* on it, does it work
    opening,            \* ready_connections being opened, by requested shard
    using,              \* ready_connections whose keyspace is being set
    sharder,            \* nr_shards of the sharder, 0 for None
    conns,              \* the pooled connections of each shard
    excess,             \* excess_connections
    current_keyspace,
    refill_scheduled,
    shared,             \* shared_conns
    waiter,             \* a caller of wait_until_initialized
    reader,             \* a caller of connection_for_shard: the shard it picked
    events              \* faults and changes of keyspace so far

pool == <<sharder, conns, excess, opening, using, shared, conn>>
users == <<waiter, reader>>
poolVars == <<pool_size, node, pool, current_keyspace, refill_scheduled, users, events>>

Initializing == [kind |-> "initializing"]
Broken == [kind |-> "broken"]
Ready(nr, c) == [kind |-> "ready", nr |-> nr, conns |-> c]

All(c) == UNION {c[s] : s \in DOMAIN c}

\* The connections that some Arc keeps open.
Held ==
    All(conns) \cup excess \cup {u.id : u \in using}
        \cup (IF shared.kind = "ready" THEN All(shared.conns) ELSE {})

Connections ==
    [nr : NodeShards, shard : AllShards, keyspace : Keyspaces \cup {None},
     use_failed : BOOLEAN, up : BOOLEAN]

\* The types of the code; the buckets are those of the sharder, also after a
\* change of the number of shards.
PoolTypeOK ==
    /\ pool_size \in PoolSizes
    /\ node \in NodeShards
    /\ Held \subseteq Ids
    /\ conn \in [Held -> Connections]
    /\ \A i \in Held : conn[i].shard \in Shards(conn[i].nr)
    /\ opening \in [Requested -> Nat]
    /\ using \in SUBSET [id : Ids, requested : Requested, keyspace : Keyspaces]
    /\ sharder \in NodeShards \cup {0}
    /\ conns \in [Shards(sharder) -> SUBSET Ids]
    /\ excess \subseteq Ids
    /\ current_keyspace \in Keyspaces \cup {None}
    /\ refill_scheduled \in BOOLEAN
    /\ \/ shared \in {Initializing, Broken}
       \/ /\ shared = Ready(shared.nr, shared.conns)
          /\ shared.nr \in NodeShards \cup {0}
          /\ shared.conns \in [Shards(shared.nr) -> SUBSET Ids]
    /\ waiter \in {"start", "registered", "waiting", "notified", "done"}
    /\ reader \in AllShards \cup {None}
    /\ events \in 0..MaxEvents

-----------------------------------------------------------------------------
(* Predicates on the pool, as functions of the connections in it *)

PerShard == pool_size.kind = "PerShard"
Target == pool_size.target

ActiveCount(c) == Cardinality(All(c))
IsEmpty(c) == \A s \in DOMAIN c : c[s] = {}
IsFull(c) ==
    IF PerShard THEN \A s \in DOMAIN c : Cardinality(c[s]) >= Target
    ELSE ActiveCount(c) >= Target
IsFilling == using # {} \/ \E r \in Requested : opening[r] > 0

\* Mutant: a bucket may exceed the target by one.
CanBeAcceptedOneMore(c, s) ==
    IF PerShard THEN Cardinality(c[s]) <= Target ELSE ActiveCount(c) <= Target

CanBeAccepted(c, s) ==
    IF PerShard THEN Cardinality(c[s]) < Target ELSE ActiveCount(c) < Target

\* Mutant: the bound per shard is taken for the bound of the pool.
ExcessLimitOfOneShard(nr) == IF PerShard THEN ExcessMultiplier ELSE 0

ExcessLimit(nr) ==
    IF PerShard THEN ExcessMultiplier * (IF nr = 0 THEN 1 ELSE nr) ELSE 0

Missing(c, s) == IF Cardinality(c[s]) < Target THEN Target - Cardinality(c[s]) ELSE 0

\* The places that are missing in all buckets together.
Vacancies(c) == {place \in (DOMAIN c) \X (1..Target) : place[2] > Cardinality(c[place[1]])}

-----------------------------------------------------------------------------

PoolInit ==
    /\ pool_size \in PoolSizes
    /\ node \in NodeShards
    /\ conn = <<>>
    /\ opening = [r \in Requested |-> 0]
    /\ using = {}
    /\ sharder = 0
    /\ conns = [s \in {0} |-> {}]
    /\ excess = {}
    /\ current_keyspace \in Keyspaces \cup {None}
    /\ refill_scheduled = TRUE
    /\ shared = Initializing
    /\ waiter = "start"
    /\ reader = None
    /\ events = 0

\* Mutant: only an empty pool is refilled.
EndOfIterationIfEmpty(scheduled, updated) ==
    /\ refill_scheduled' = (scheduled \/ (~IsFilling' /\ IsEmpty(conns')))
    /\ conn' = [i \in Held' |-> updated[i]]

\* The end of an iteration: schedule a refill if the pool needs one.
\* Connections that no Arc holds any more are closed.
EndOfIteration(scheduled, updated) ==
    /\ refill_scheduled' = (scheduled \/ (~IsFilling' /\ ~IsFull(conns')))
    /\ conn' = [i \in Held' |-> updated[i]]

\* Mutant: an empty list is published as ready.
UpdateSharedConnsAlways(nr, c) ==
    /\ shared' = Ready(nr, c)
    /\ waiter' = IF waiter \in {"registered", "waiting"} THEN "notified" ELSE waiter

\* update_shared_conns: publish the connections, wake up the waiters.
UpdateSharedConns(nr, c) ==
    /\ shared' = IF IsEmpty(c) THEN Broken ELSE Ready(nr, c)
    /\ waiter' = IF waiter \in {"registered", "waiting"} THEN "notified" ELSE waiter

NoUpdate == UNCHANGED <<shared, waiter>>

\* The events a run bounds.
Event == events < MaxEvents /\ events' = events + 1

-----------------------------------------------------------------------------
(* Filling *)

\* start_filling: how many connections to open, by requested shard.
ToOpen ==
    IF IsEmpty(conns) THEN [r \in Requested |-> IF r = None THEN 1 ELSE 0]
    ELSE IF sharder # 0 /\ ShardAwarePort /\ PerShard
    THEN [r \in Requested |-> IF r \in DOMAIN conns THEN Missing(conns, r) ELSE 0]
    ELSE LET count == IF PerShard
                      THEN Cardinality(Vacancies(conns))
                      ELSE IF ActiveCount(conns) < Target THEN Target - ActiveCount(conns)
                      ELSE 0
         IN  [r \in Requested |-> IF r = None THEN count ELSE 0]

\* The timer of the next refill fires.
StartFilling ==
    /\ refill_scheduled
    /\ opening' = [r \in Requested |-> opening[r] + ToOpen[r]]
    /\ UNCHANGED <<pool_size, node, sharder, conns, excess, using, shared, current_keyspace,
                   users, events>>
    /\ EndOfIteration(FALSE, conn)

\* A connection could not be opened: a failure of the shard-aware port is
\* retried on the regular one; the last failure of a filling that leaves the
\* pool empty is published.
OpenFails(r) ==
    /\ opening[r] > 0
    /\ Event
    /\ IF r # None THEN opening' = [opening EXCEPT ![r] = @ - 1, ![None] = @ + 1]
       ELSE opening' = [opening EXCEPT ![r] = @ - 1]
    /\ IF r = None /\ using = {} /\ (\A q \in Requested : opening'[q] = 0) /\ IsEmpty(conns)
       THEN UpdateSharedConns(sharder, conns)
       ELSE NoUpdate
    /\ excess' = IF IsFull(conns) THEN {} ELSE excess
    /\ UNCHANGED <<pool_size, node, sharder, conns, using, current_keyspace, reader>>
    /\ EndOfIteration(refill_scheduled, conn)

\* maybe_reshard: a new sharder starts with empty buckets.
MaybeReshard(nr) == IF nr = sharder THEN conns ELSE [t \in Shards(nr) |-> {}]

\* Mutant: a connection that has some keyspace is accepted.
NeedsKeyspaceOnce(keyspace) == current_keyspace # None /\ keyspace = None

NeedsKeyspace(keyspace) == current_keyspace # None /\ keyspace # current_keyspace

\* handle_ready_connection for an opened connection i, and the clearing of the
\* excess connections that follows it.  `open`, `use` and `c` are the attempts
\* and the connections without the event that is handled.
HandleOpened(i, requested, keyspace, open, use, c) ==
    LET nr == c[i].nr
        s == c[i].shard
        before == MaybeReshard(nr)
        kept == IF nr = sharder THEN excess ELSE {}
    IN  /\ sharder' = nr
        /\ \/ \* set the keyspace first
              /\ NeedsKeyspace(keyspace)
              /\ using' = use \cup {[id |-> i, requested |-> requested,
                                     keyspace |-> current_keyspace]}
              /\ conns' = before
              /\ opening' = open
              /\ excess' = IF IsFull(before) THEN {} ELSE kept
              /\ NoUpdate
           \/ \* accept it
              /\ ~NeedsKeyspace(keyspace)
              /\ CanBeAccepted(before, s)
              /\ conns' = [before EXCEPT ![s] = @ \cup {i}]
              /\ opening' = open /\ using' = use
              /\ excess' = IF IsFull(conns') THEN {} ELSE kept
              /\ UpdateSharedConns(nr, conns')
           \/ \* the shard-aware port missed its shard: try the regular one
              /\ ~NeedsKeyspace(keyspace)
              /\ ~CanBeAccepted(before, s)
              /\ requested # None
              /\ conns' = before
              /\ opening' = [open EXCEPT ![None] = @ + 1] /\ using' = use
              /\ excess' = IF IsFull(before) THEN {} ELSE kept
              /\ NoUpdate
           \/ \* keep it as an excess connection
              /\ ~NeedsKeyspace(keyspace)
              /\ ~CanBeAccepted(before, s)
              /\ requested = None
              /\ conns' = before
              /\ opening' = open /\ using' = use
              /\ excess' = IF IsFull(before) \/ Cardinality(kept \cup {i}) > ExcessLimit(nr)
                           THEN {} ELSE kept \cup {i}
              /\ NoUpdate

\* The shard the node assigns to a new connection (external).  Behind a NAT, and
\* when the number of shards has changed since the attempt was started, the
\* source port does not lead to the shard that was asked for.
Load(s) ==
    Cardinality({i \in Held : conn[i].up /\ conn[i].shard = s}) + (IF s = 0 THEN Bias ELSE 0)

Assigned(r) ==
    IF r = None /\ LeastLoaded
    THEN {s \in Shards(node) : \A t \in Shards(node) : Load(s) <= Load(t)}
    ELSE Shards(node)

\* A connection is opened.
OpenSucceeds(r) ==
    /\ opening[r] > 0
    /\ Ids \ Held # {}
    /\ \E s \in Assigned(r) :
          LET i == CHOOSE j \in Ids \ Held : TRUE
              c == [j \in Held \cup {i} |->
                       IF j = i THEN [nr |-> node, shard |-> s, keyspace |-> None,
                                         use_failed |-> FALSE, up |-> TRUE]
                       ELSE conn[j]]
          IN  /\ HandleOpened(i, r, None, [opening EXCEPT ![r] = @ - 1], using, c)
              /\ UNCHANGED <<pool_size, node, current_keyspace, reader, events>>
              /\ EndOfIteration(refill_scheduled, c)

\* USE completes on a new connection.  Its failure is only logged.
SetKeyspace(u, ok) ==
    /\ u \in using
    /\ IF conn[u.id].up /\ ~ok THEN Event ELSE ok = conn[u.id].up /\ UNCHANGED events
    /\ LET c == [conn EXCEPT ![u.id].keyspace = IF ok THEN u.keyspace ELSE @,
                             ![u.id].use_failed = ~ok]
       IN  /\ HandleOpened(u.id, u.requested, u.keyspace, opening, using \ {u}, c)
           /\ EndOfIteration(refill_scheduled, c)
    /\ UNCHANGED <<pool_size, node, current_keyspace, reader>>

\* Mutant: the list is published only when the pool becomes empty.
RemoveConnectionQuietly(i) ==
    /\ i \in All(conns) \cup excess /\ ~conn[i].up
    /\ conns' = [s \in DOMAIN conns |-> conns[s] \ {i}]
    /\ excess' = excess \ {i}
    /\ IF IsEmpty(conns') THEN UpdateSharedConns(sharder, conns') ELSE NoUpdate
    /\ UNCHANGED <<pool_size, node, sharder, opening, using, current_keyspace, reader, events>>
    /\ EndOfIteration(refill_scheduled, conn)

\* The error of a broken connection is received: remove_connection.  An error
\* of a connection that the pool no longer has changes nothing.  (The broadcast
\* that a pool is empty has a receiver only for the control connection's pool.)
RemoveConnection(i) ==
    /\ i \in All(conns) \cup excess /\ ~conn[i].up
    /\ conns' = [s \in DOMAIN conns |-> conns[s] \ {i}]
    /\ excess' = excess \ {i}
    /\ IF i \in All(conns) THEN UpdateSharedConns(sharder, conns') ELSE NoUpdate
    /\ UNCHANGED <<pool_size, node, sharder, opening, using, current_keyspace, reader, events>>
    /\ EndOfIteration(refill_scheduled, conn)

\* use_keyspace: USE is sent on the pooled connections; the caller is told if it
\* fails.  Connections being opened get the keyspace when they are ready.
UseKeyspace(k) ==
    /\ Event
    /\ current_keyspace' = k
    /\ UNCHANGED <<pool_size, node, sharder, conns, excess, opening, using, shared, users>>
    /\ EndOfIteration(refill_scheduled,
                      [i \in Held |-> IF i \in All(conns)
                                      THEN [conn[i] EXCEPT !.keyspace = k, !.use_failed = FALSE]
                                      ELSE conn[i]])

-----------------------------------------------------------------------------
(* The node (external) *)

\* A connection breaks.
ConnectionBreaks(i) ==
    /\ Event
    /\ i \in Held /\ conn[i].up
    /\ conn' = [conn EXCEPT ![i].up = FALSE]
    /\ UNCHANGED <<pool_size, node, sharder, conns, excess, opening, using, shared,
                   current_keyspace, refill_scheduled, users>>

\* The node restarts, perhaps with another number of shards.
NodeRestarts(nr) ==
    /\ Event
    /\ node' = nr
    /\ conn' = [i \in Held |-> [conn[i] EXCEPT !.up = FALSE]]
    /\ UNCHANGED <<pool_size, sharder, conns, excess, opening, using, shared,
                   current_keyspace, refill_scheduled, users>>

-----------------------------------------------------------------------------
(* Users of the pool *)

refiller == <<pool_size, node, pool, current_keyspace, refill_scheduled, events>>

\* wait_until_initialized registers for the notification ...
WaitRegister ==
    /\ waiter = "start"
    /\ waiter' = "registered"
    /\ UNCHANGED <<refiller, reader>>

\* ... then looks at shared_conns, which may have changed in between ...
WaitCheck ==
    /\ waiter = "registered"
    /\ waiter' = IF shared = Initializing THEN "waiting" ELSE "done"
    /\ UNCHANGED <<refiller, reader>>

\* ... and returns at once when it has been notified.
WaitDone ==
    /\ waiter = "notified"
    /\ waiter' = "done"
    /\ UNCHANGED <<refiller, reader>>

\* A load balancing policy computes a shard with the sharder of shared_conns.
PickShard ==
    /\ shared.kind = "ready"
    /\ reader' \in Shards(shared.nr)
    /\ UNCHANGED <<refiller, waiter>>

\* connection_for_shard_helper, for a shard of any origin.  When the shard has
\* no connection, the numbers tried as indices, in a random order, are these.
Tried(s) == (0..(s - 1)) \cup ((s + 1)..(shared.nr - 1))

ServedDirectly(s) ==
    shared.nr = 0 \/ (s \in DOMAIN shared.conns /\ shared.conns[s] # {})

\* The connections that may be returned ...
ConnectionForShard(s) ==
    IF shared.nr = 0 THEN shared.conns[0]
    ELSE IF ServedDirectly(s) THEN shared.conns[s]
    ELSE UNION {shared.conns[t] : t \in Tried(s) \cap DOMAIN shared.conns}

\* ... and whether the random order may lead to an index out of bounds.
MayPanic(s) == ~ServedDirectly(s) /\ ~(Tried(s) \subseteq DOMAIN shared.conns)

-----------------------------------------------------------------------------

PoolNext ==
    \/ StartFilling
    \/ \E r \in Requested : OpenFails(r) \/ OpenSucceeds(r)
    \/ \E u \in using : SetKeyspace(u, TRUE) \/ SetKeyspace(u, FALSE)
    \/ \E i \in Ids : RemoveConnection(i) \/ ConnectionBreaks(i)
    \/ \E k \in Keyspaces : UseKeyspace(k)
    \/ \E nr \in NodeShards : NodeRestarts(nr)
    \/ WaitRegister \/ WaitCheck \/ WaitDone \/ PickShard

PoolSpec == PoolInit /\ [][PoolNext]_poolVars

\* Timers fire, an attempt to connect ends (there is a connect timeout), USE is
\* answered or fails with its connection, errors of connections are received,
\* and the waiter is polled.
PoolFairness ==
    /\ WF_poolVars(StartFilling)
    /\ \A r \in Requested : WF_poolVars(OpenSucceeds(r) \/ OpenFails(r))
    /\ WF_poolVars(\E u \in using : SetKeyspace(u, TRUE) \/ SetKeyspace(u, FALSE))
    /\ \A i \in Ids : WF_poolVars(RemoveConnection(i))
    /\ WF_poolVars(WaitRegister) /\ WF_poolVars(WaitCheck) /\ WF_poolVars(WaitDone)

PoolFairSpec == PoolSpec /\ PoolFairness

-----------------------------------------------------------------------------
(* Properties *)

\* The buckets follow the sharder, no target is exceeded, the excess connections
\* stay within their limit, and a connection is in one place: whatever order
\* the attempts of several fillings, resharding and errors come in.
WithinLimits ==
    /\ \A s \in DOMAIN conns, i \in Ids :
          i \in conns[s] => conn[i].nr = sharder /\ conn[i].shard = s /\ i \notin excess
    /\ \A u \in using : u.id \notin All(conns) \cup excess
    /\ IF PerShard THEN \A s \in DOMAIN conns : Cardinality(conns[s]) <= Target
       ELSE ActiveCount(conns) <= Target
    /\ Cardinality(excess) <= ExcessLimit(sharder)

\* What is published as ready has a connection, and as many buckets as its
\* sharder has shards: a connection can be found for every shard below that
\* number, and the unreachable!() of connection_for_shard_helper is not reached.
ReadyIsUsable ==
    shared.kind = "ready" =>
        /\ DOMAIN shared.conns = Shards(shared.nr)
        /\ \A s \in Shards(shared.nr) :
              ConnectionForShard(s) # {} /\ ~MayPanic(s)

\* A pool that is not full is being filled or has a refill scheduled.
RefillNotForgotten == refill_scheduled \/ IsFilling \/ IsFull(conns)

\* When no attempt is under way, what users see is what the pool has: a change
\* of sharder never leaves the list of a previous one behind, and a pool that
\* became empty is published as broken.
SharedUpToDate ==
    ~IsFilling /\ shared # Initializing =>
        shared = IF IsEmpty(conns) THEN Broken ELSE Ready(sharder, conns)

\* A connection is put to the pool only after USE of the keyspace that is current
\* then, although the keyspace may change while USE is in flight.  (When USE
\* fails the connection is put to the pool all the same, with a warning.)
PooledUseKeyspace ==
    \A i \in All(conns) :
        conn[i].up /\ ~conn[i].use_failed /\ current_keyspace # None =>
            conn[i].keyspace = current_keyspace

\* Once faults cease, the pool fills up with live connections, in every bucket,
\* and users see them: also when the node favours some shards.
EventuallyFull ==
    <>[](IsFull(conns) /\ shared = Ready(sharder, conns) /\ \A i \in All(conns) : conn[i].up)

\* wait_until_initialized returns, however its check and the first publication
\* interleave.
WaiterReleased == <>(waiter = "done")

\* A comment in connection_for_shard: a shard that is out of bounds is served
\* by another shard, the driver does not panic.
NoPanicForAnyShard ==
    shared.kind = "ready" /\ reader # None => ~MayPanic(reader)

\* The pool serves its users in the end: it fills up, and whoever waits for its
\* first connections goes on.
PoolServes == EventuallyFull /\ WaiterReleased
=============================================================================
