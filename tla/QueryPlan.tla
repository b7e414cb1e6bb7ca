------------------------------- MODULE QueryPlan -------------------------------
(***************************************************************************)
(* Plan (policies/load_balancing/plan.rs) over the DefaultPolicy, while    *)
(* pools connect and break and latencies come in.  pick is one step, the   *)
(* call of fallback another, and the lazy iterator that fallback returns   *)
(* is walked one candidate at a time, because every candidate is tested    *)
(* against the state its node has when the iterator gets there.            *)
(***************************************************************************)
EXTENDS Sharding, ReplicaLocator, LatencyAwareness

(***************************************************************************)
(* DefaultPolicy and SingleTargetLoadBalancingPolicy                       *)
(* (policies/load_balancing): what pick may return and what fallback       *)
(* iterates over.  A query is                                              *)
(*    [top, strategies, strategy, token, tablets : see ReplicaLocator,     *)
(*     aware : is_token_aware, routed : the token, the table and its       *)
(*     keyspace are known, dc, rack : the preferences or None,             *)
(*     failover : permit_dc_failover, lwt : is_confirmed_lwt,              *)
(*     latency : latency awareness is configured, target : None or the     *)
(*     target of a single-target policy, enabled : the nodes with a pool]  *)
(* A target is <<node, shard>>; shard NoShard is one the policy leaves     *)
(* open, and LazyShard in a segment one that is computed when the iterator *)
(* gets there.  A random choice is the set of what it can give.            *)
(***************************************************************************)

NoShard == -1
LazyShard == -2

IsDatacenterFailoverPossible(q) == q.dc # None /\ q.failover

(* with_computed_shard: a node without an open pool has no sharder.        *)
ComputedShard(q, connected, n) ==
    IF n \in connected /\ q.top.shards[n] > 0
    THEN ShardOf(q.top.shards[n], q.top.msb[n], q.token) ELSE 0

StatementType(q) == IF q.lwt THEN "Lwt" ELSE "NonLwt"

RoutingInfoKnown(q) == q.aware /\ q.routed

PreferredNodeSet(q) ==
    IF q.dc # None THEN UniqueNodes(DcRing(q.top, q.dc)) ELSE UniqueNodes(q.top.ring)
AllNodes(q) == UniqueNodes(q.top.ring)

(* The criteria of the three searches for a replica.                       *)
Criteria(q) ==
    (IF q.rack # None THEN <<[dc |-> q.dc, rack |-> q.rack]>> ELSE <<>>)
    \o (IF q.dc # None THEN <<[dc |-> q.dc, rack |-> None]>> ELSE <<>>)
    \o (IF q.dc = None \/ IsDatacenterFailoverPossible(q) THEN <<[dc |-> None, rack |-> None]>> ELSE <<>>)

(* A predicate of the policy is the set of the nodes that it allows.       *)
InRack(q, where) == {n \in DOMAIN q.top.rack : where.rack = None \/ q.top.rack[n] = where.rack}

NonfilteredReplicaSet(q, loc, where) ==
    ReplicasForToken(loc, q.token, q.strategy, where.dc, q.tablets)

(* The shard that goes with a replica of the set.                          *)
WithShard(q, connected, set, n) ==
    IF set.kind = "PlainSharded"
    THEN <<n, set.replicas[SelectInSeq(set.replicas, LAMBDA r : r[1] = n)][2]>>
    ELSE <<n, ComputedShard(q, connected, n)>>

(* filtered_replicas in the deterministic order of a LWT statement.        *)
OrderedReplicas(q, set, where, allowed) ==
    SelectSeq(ReplicasOrdered(set), LAMBDA n : n \in allowed \cap InRack(q, where))

ArbitraryReplicas(q, set, where, allowed) ==
    SelectSeq(ReplicaNodes(set), LAMBDA n : n \in allowed \cap InRack(q, where))

(* pick_first_replica: among all datacenters only the primary replica is   *)
(* cheap to find; when it is not suitable the decision is deferred to      *)
(* fallback.                                                               *)
FirstSuitable(ordered, allowed) ==
    IF ordered = <<>> THEN [first |-> {}, deferred |-> FALSE]
    ELSE [first |-> {ordered[1]} \cap allowed, deferred |-> ordered[1] \notin allowed]

PickFirstReplica(q, set, where, allowed) ==
    IF where.dc = None THEN FirstSuitable(Take(ReplicasOrdered(set), 1), allowed)
    ELSE FirstSuitable(OrderedReplicas(q, set, where, allowed), allowed)

(* pick_random_replica through choose_filtered.                            *)
PickRandomReplica(q, set, where, allowed) ==
    [first |-> ReplicaSetChooseFiltered(set, allowed \cap InRack(q, where)), deferred |-> FALSE]

Sharded(q, connected, set, picked) ==
    [found |-> {WithShard(q, connected, set, n) : n \in picked.first}, deferred |-> picked.deferred]

PickFrom(q, set, where, connected, allowed) ==
    Sharded(q, connected, set,
            IF StatementType(q) = "Lwt" THEN PickFirstReplica(q, set, where, allowed)
            ELSE PickRandomReplica(q, set, where, allowed))

PickReplica(q, loc, where, connected, allowed) ==
    PickFrom(q, NonfilteredReplicaSet(q, loc, where), where, connected, allowed)

(* pick_node: the slice is rotated at random, so any suitable node.        *)
PickNode(nodes, allowed) ==
    [found |-> {<<n, NoShard>> : n \in ToSet(nodes) \cap allowed}, deferred |-> FALSE]

PickNothing == [found |-> {}, deferred |-> FALSE]

(* Everything pick tries, in order: replicas, then nodes, that are alive   *)
(* and not penalised; then nodes that are only enabled.                    *)
PickTiers(q, loc, connected, penalised) ==
    LET suitable == connected \ penalised
    IN (IF RoutingInfoKnown(q)
        THEN Mapped(Criteria(q), LAMBDA w : PickReplica(q, loc, w, connected, suitable)) ELSE <<>>)
       \o << IF q.rack = None THEN PickNothing
             ELSE PickNode(PreferredNodeSet(q), {n \in suitable : q.top.rack[n] = q.rack}),
             PickNode(PreferredNodeSet(q), suitable),
             IF IsDatacenterFailoverPossible(q) THEN PickNode(AllNodes(q), suitable) ELSE PickNothing,
             PickNode(PreferredNodeSet(q), q.enabled),
             IF IsDatacenterFailoverPossible(q) THEN PickNode(AllNodes(q), q.enabled) ELSE PickNothing >>

(* pick: the set of its possible results, each <<>> or <<target>>.         *)
FirstTier(tiers) ==
    LET i == SelectInSeq(tiers, LAMBDA t : t.found # {} \/ t.deferred)
    IN IF i = 0 \/ tiers[i].deferred THEN {<<>>} ELSE {<<t>> : t \in tiers[i].found}

DefaultPick(q, loc, connected, penalised) == FirstTier(PickTiers(q, loc, connected, penalised))

(* SingleTargetLoadBalancingPolicy::pick: the node, if the cluster knows   *)
(* it, whether it is on the ring or not.                                   *)
SingleTargetPick(q) ==
    IF q.target[1] \in DOMAIN q.top.dc THEN {<<q.target>>} ELSE {<<>>}

Pick(q, loc, connected, penalised) ==
    IF q.target # None THEN SingleTargetPick(q) ELSE DefaultPick(q, loc, connected, penalised)

(* The segments that fallback chains.  A segment has the way it is walked: *)
(* "shuffled" was collected when fallback was called, "ordered" and        *)
(* "rotated" are lazy; and the test its nodes pass when they are reached.  *)
Segment(walk, test, targets) == [walk |-> walk, test |-> test, targets |-> targets]

ReplicaSegment(q, set, where, connected) ==
    LET Now(n) == WithShard(q, connected, set, n)
        Later(n) == IF set.kind = "PlainSharded" THEN Now(n) ELSE <<n, LazyShard>>
    IN IF StatementType(q) = "Lwt"
       THEN Segment("ordered", "alive", Mapped(OrderedReplicas(q, set, where, DOMAIN q.top.dc), Later))
       ELSE Segment("shuffled", "none",
                    Mapped(ArbitraryReplicas(q, set, where, connected), Now))

NodeSegment(walk, test, nodes) == Segment(walk, test, Mapped(nodes, LAMBDA n : <<n, NoShard>>))

Fallback(q, loc, connected) ==
    LET local == PreferredNodeSet(q)
        rack == SelectSeq(local, LAMBDA n : q.top.rack[n] = q.rack)
    IN IF q.target # None THEN <<>>
       ELSE (IF RoutingInfoKnown(q)
             THEN Mapped(Criteria(q), LAMBDA w :
                            ReplicaSegment(q, NonfilteredReplicaSet(q, loc, w), w, connected)) ELSE <<>>)
            \o (IF q.rack # None THEN <<NodeSegment("rotated", "alive", rack)>> ELSE <<>>)
            \o <<NodeSegment("rotated", "alive", local)>>
            \o (IF IsDatacenterFailoverPossible(q)
                THEN <<NodeSegment("rotated", "alive", AllNodes(q))>> ELSE <<>>)
            \o <<NodeSegment("ordered", "enabled", local)>>
            \o (IF IsDatacenterFailoverPossible(q)
                THEN <<NodeSegment("ordered", "enabled", AllNodes(q))>> ELSE <<>>)

(* DefaultPolicyTargetComparator: without a shard on one side only the     *)
(* nodes count.                                                            *)
SameTarget(a, b) == a[1] = b[1] /\ (a[2] = NoShard \/ b[2] = NoShard \/ a[2] = b[2])
-----------------------------------------------------------------------------

CONSTANTS Queries,    \* the queries a behaviour may plan for
          MaxFlips    \* bound on the pools that connect or break

VARIABLES query,      \* the query and the configuration of the policy
          connected,  \* nodes with an open connection
          plan,       \* the Plan and its fallback iterator
          yielded,    \* history: the targets the plan has returned
          changed,    \* history: nodes that were penalised at pick, or changed since
          flips

planVars == <<query, connected, plan, yielded, changed, flips>>

Locators == [q \in Queries |-> NewLocator(q.top, q.strategies)]
Loc == Locators[query]

(* Target_to_filter_out is <<>> until the first target is known.           *)
NewPlan == [state |-> "Created", filter |-> <<>>, segments |-> <<>>, seen |-> {},
            wrapping |-> FALSE, min_avg |-> Unmeasured, fast |-> <<>>, slow |-> <<>>]

PlanInit ==
    /\ query \in Queries
    /\ connected \in SUBSET query.enabled
    /\ plan = NewPlan
    /\ yielded = <<>> /\ changed = {} /\ flips = 0

PenalisedNodes == IF query.latency THEN {h \in Hosts : Penalised(h)} ELSE {}

(* The call of fallback.  With latency awareness, and once there is a      *)
(* minimum to compare with, the whole iterator is walked at once and its   *)
(* targets are parted into fast and penalised ones.                        *)
CallFallback(p) ==
    [p EXCEPT !.state = "Fallback", !.segments = Fallback(query, Loc, connected),
              !.wrapping = query.latency /\ last_min_latency # Unmeasured,
              !.min_avg = IF query.latency THEN last_min_latency ELSE Unmeasured]

(* Plan::next in state Created.                                            *)
PlanPick ==
    /\ plan.state = "Created"
    /\ \E picked \in Pick(query, Loc, connected, PenalisedNodes) :
         /\ yielded' = picked
         /\ plan' = IF picked = <<>> THEN CallFallback(plan)
                    ELSE [plan EXCEPT !.state = "Picked", !.filter = picked[1]]
    /\ changed' = PenalisedNodes
    /\ UNCHANGED <<query, connected, flips>>

PlanCallFallback ==
    /\ plan.state = "Picked"
    /\ plan' = CallFallback(plan)
    /\ UNCHANGED <<query, connected, yielded, changed, flips>>

Head1 == plan.segments[1]
WithHead(p, targets) == [p EXCEPT !.segments[1].targets = targets]

(* A target leaves the deduplicated chain: into one of the two parts while *)
(* the latency wrapper collects, otherwise to the caller unless it is      *)
(* exactly the target to filter out.                                       *)
Deliver(p, t) ==
    LET q == [p EXCEPT !.seen = @ \cup {t}]
    IN IF p.wrapping
       THEN /\ plan' = IF t[1] \in Hosts /\ TooSlow(t[1], p.min_avg) THEN [q EXCEPT !.slow = Append(@, t)]
                       ELSE [q EXCEPT !.fast = Append(@, t)]
            /\ yielded' = yielded
       ELSE /\ plan' = IF p.filter = <<>> THEN [q EXCEPT !.filter = t] ELSE q
            /\ yielded' = IF t = p.filter THEN yielded ELSE Append(yielded, t)

(* unique_by with the comparator of the policy.                            *)
Offer(p, t) ==
    IF \E s \in p.seen : SameTarget(s, t) THEN plan' = p /\ yielded' = yielded ELSE Deliver(p, t)

(* Nodes that are down are never tried, not even in the last resort.       *)
PassesOnlyAlive(test, n) == test = "none" \/ n \in connected

Passes(test, n) ==
    CASE test = "alive" -> n \in connected
      [] test = "enabled" -> n \in query.enabled
      [] test = "none" -> TRUE

ResolvedShard(t) ==
    IF t[2] = LazyShard THEN <<t[1], ComputedShard(query, connected, t[1])>> ELSE t

Walking == plan.state = "Fallback" /\ plan.segments # <<>>

(* randomly_rotated_nodes: where a rotated segment starts.                 *)
WalkRotate ==
    /\ Walking /\ Head1.walk = "rotated" /\ Head1.targets # <<>>
    /\ \E i \in DOMAIN Head1.targets :
         plan' = [plan EXCEPT !.segments[1].walk = "ordered",
                              !.segments[1].targets = SubSeq(@, i, Len(@)) \o SubSeq(@, 1, i - 1)]
    /\ UNCHANGED <<query, connected, yielded, changed, flips>>

WalkOrdered ==
    /\ Walking /\ Head1.walk = "ordered" /\ Head1.targets # <<>>
    /\ LET t == ResolvedShard(Head1.targets[1])
           rest == WithHead(plan, SubSeq(Head1.targets, 2, Len(Head1.targets)))
       IN IF Passes(Head1.test, t[1]) THEN Offer(rest, t) ELSE plan' = rest /\ yielded' = yielded
    /\ UNCHANGED <<query, connected, changed, flips>>

(* A shuffled segment: any order of what was collected.                    *)
WalkShuffled ==
    /\ Walking /\ Head1.walk = "shuffled" /\ Head1.targets # <<>>
    /\ \E i \in DOMAIN Head1.targets :
         Offer(WithHead(plan, RemoveAt(Head1.targets, i)), Head1.targets[i])
    /\ UNCHANGED <<query, connected, changed, flips>>

WalkNextSegment ==
    /\ Walking /\ Head1.targets = <<>>
    /\ plan' = [plan EXCEPT !.segments = SubSeq(@, 2, Len(@))]
    /\ UNCHANGED <<query, connected, yielded, changed, flips>>

(* The end of the chain: the wrapper returns its two parts one after the   *)
(* other; otherwise the plan is exhausted.                                 *)
WalkEnd ==
    /\ plan.state = "Fallback" /\ plan.segments = <<>>
    /\ plan' = IF plan.wrapping
               THEN [plan EXCEPT !.wrapping = FALSE, !.seen = {}, !.fast = <<>>, !.slow = <<>>,
                                 !.segments = <<Segment("ordered", "none", plan.fast \o plan.slow)>>]
               ELSE [plan EXCEPT !.state = "Done", !.seen = {}]
    /\ UNCHANGED <<query, connected, yielded, changed, flips>>

(* The refiller of a pool publishes its first connection, or the loss of   *)
(* the last one.                                                           *)
PoolFlips(n) ==
    /\ flips < MaxFlips /\ plan.state # "Done"
    /\ n \in query.enabled
    /\ connected' = IF n \in connected THEN connected \ {n} ELSE connected \cup {n}
    /\ changed' = IF plan.state = "Created" THEN changed ELSE changed \cup {n}
    /\ flips' = flips + 1
    /\ UNCHANGED <<query, plan, yielded>>

PlanNext ==
    \/ PlanPick \/ PlanCallFallback
    \/ WalkRotate \/ WalkOrdered \/ WalkShuffled \/ WalkNextSegment \/ WalkEnd
    \/ \E n \in query.enabled : PoolFlips(n)

(***************************************************************************)
(* Properties                                                              *)
(***************************************************************************)

(* A plan does not lead to the same destination twice.  The exception is   *)
(* the picked target, which the plan filters out of fallback only when it  *)
(* is identical: when its node was penalised at pick, connected or broke   *)
(* since, fallback may list it with a shard where pick had none, or the    *)
(* other way round.                                                        *)
NoTargetTwice ==
    \A i, j \in DOMAIN yielded :
        i < j /\ SameTarget(yielded[i], yielded[j]) => i = 1 /\ yielded[1][1] \in changed

InScope(n) == query.dc = None \/ query.failover \/ query.top.dc[n] = query.dc

(* Without datacenter failover no target is outside the preferred          *)
(* datacenter, whatever the strategy, the tablets and the pools do, and    *)
(* also when that datacenter does not exist.                               *)
NoRemoteWithoutFailover ==
    query.target = None => \A i \in DOMAIN yielded : InScope(yielded[i][1])

(* An exhausted plan has tried every enabled node of its scope, although   *)
(* the iterator dropped the nodes that were down when it passed them and   *)
(* pools change all the time.                                              *)
PlanCoversEnabled ==
    plan.state = "Done" /\ query.target = None =>
        \A n \in ToSet(AllNodes(query)) \cap query.enabled :
            InScope(n) => \E i \in DOMAIN yielded : yielded[i][1] = n

ReplicasOfQuery ==
    IF RoutingInfoKnown(query)
    THEN ToSet(ReplicaNodes(ReplicasForToken(Loc, query.token, query.strategy, None, query.tablets)))
    ELSE {}

(* The preference of a target that the documentation of the policy gives:  *)
(* replicas before other nodes, nearer ones before farther ones, connected *)
(* ones before the others.                                                 *)
Rank(replicas, n) ==
    LET near == IF query.dc = None \/ query.top.dc[n] # query.dc THEN 3
                ELSE IF query.rack # None /\ query.top.rack[n] = query.rack THEN 1 ELSE 2
    IN (IF n \in connected THEN IF n \in replicas THEN 0 ELSE 3 ELSE 6)
       + (IF n \in connected \/ near = 3 THEN near ELSE 2)

(* As long as no pool changes and nothing is penalised, the targets come   *)
(* in the order of preference.  A strategy with a datacenter of            *)
(* replication factor zero is left out: for a LWT statement the first ring *)
(* node of that datacenter passes for the primary replica.                 *)
PlanInOrder ==
    query.target = None /\ flips = 0 /\ ~query.latency
        /\ (query.lwt => \A dc \in DOMAIN query.strategy.rfs : query.strategy.rfs[dc] > 0)
    => \E replicas \in {ReplicasOfQuery} : \A i, j \in DOMAIN yielded :
          i < j => Rank(replicas, yielded[i][1]) <= Rank(replicas, yielded[j][1])

(* A lightweight transaction goes to one replica: whenever some replica in *)
(* the nearest non-empty circle is up, pick has a single possible result,  *)
(* or leaves it to fallback which has a single first target.               *)
LwtSingleTarget ==
    query.lwt /\ RoutingInfoKnown(query) /\ query.target = None /\ plan.state = "Created"
        /\ (\E c \in ToSet(Criteria(query)) :
              OrderedReplicas(query, NonfilteredReplicaSet(query, Loc, c), c,
                              connected \ PenalisedNodes) # <<>>)
    => Cardinality(Pick(query, Loc, connected, PenalisedNodes)) = 1

(* What the documentation of the default policy promises of a plan: no     *)
(* target twice, none out of scope, all in scope, in order of preference,  *)
(* and one replica for a lightweight transaction.                          *)
PlanAsDocumented ==
    NoTargetTwice /\ NoRemoteWithoutFailover /\ PlanCoversEnabled /\ PlanInOrder /\ LwtSingleTarget
==============================================================================
