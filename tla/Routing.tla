-------------------------------- MODULE Routing --------------------------------
(***************************************************************************)
(* The parts of the routing of a request that do not wait on each other:   *)
(* the plan of targets, the latencies behind it, the token of the key, the *)
(* source ports of the shards, the replica lookup, the tablets and the     *)
(* timestamps.  A behaviour runs one part; the pure ones take a sample of  *)
(* their inputs and are over.                                              *)
(***************************************************************************)
EXTENDS QueryPlan, Partitioner, TimestampGenerator, Tablets

CONSTANTS Lookups,         \* samples for the replica locator: [top, strategies, strategy, token]
          PortSamples,     \* samples for the sharder: [nr_shards, range]
          ShardSamples,    \* samples [nr_shards, msb_ignore]
          KeySamples,      \* samples of bound values
          KeyIndexes,      \* pk_indexes of prepared statements
          LatencyStates,   \* latency states that a plan may start in
          IdleQuery

VARIABLES part, sample

routingVars == <<planVars, latencyVars, hashVars, clockVars, vars, part, sample>>

PlanIdle == query = IdleQuery /\ connected = {} /\ plan = NewPlan /\ yielded = <<>> /\ changed = {} /\ flips = 0
NoSample == [kind |-> "none"]

(* Every host is known, with the same data.                                *)
TabletsIdle ==
    LET data == CHOOSE d \in PeerData : TRUE
    IN /\ known_peers = [h \in HostIds |-> [host_id |-> h, data |-> data, created |-> 0]]
       /\ tablets = <<>> /\ has_unknown_replicas = FALSE /\ refreshes = 0 /\ panicked = FALSE

RoutingInit ==
    /\ HashInit /\ ClockInit
    /\ \/ /\ part = "plan" /\ PlanInit /\ TabletsIdle /\ sample = NoSample
          /\ IF query.latency
             THEN \E s \in LatencyStates :
                    /\ node_avgs = s.avgs /\ last_min_latency = s.min
                    /\ measured = [h \in Hosts |-> s.avgs[h].measures] /\ settled = FALSE
                    /\ reporter = [r \in Reporters |-> IdleReporter]
             ELSE LatencyInit
       \/ part \in {"latency", "hash", "clock"} /\ PlanIdle /\ LatencyInit /\ TabletsIdle /\ sample = NoSample
       \/ part = "tablets" /\ PlanIdle /\ LatencyInit /\ Init /\ sample = NoSample
       \/ /\ part = "sample" /\ PlanIdle /\ LatencyInit /\ TabletsIdle
          /\ \/ \E l \in Lookups : sample = [kind |-> "lookup", in |-> l]
             \/ \E p \in PortSamples : sample = [kind |-> "ports", in |-> p]
             \/ \E s \in ShardSamples : sample = [kind |-> "shard", in |-> s]
             \/ \E k \in KeySamples : sample = [kind |-> "key", in |-> k]

(* While a plan is walked the updater ticks and retry periods elapse.      *)
RoutingNext ==
    /\ UNCHANGED <<part, sample>>
    /\ \/ part = "plan" /\ PlanNext /\ UNCHANGED <<latencyVars, hashVars, clockVars, vars>>
       \/ /\ part = "plan" /\ query.latency /\ plan.state # "Done"
          /\ Tick \/ \E h \in Hosts : RetryPeriodElapses(h)
          /\ UNCHANGED <<planVars, hashVars, clockVars, vars>>
       \/ part = "latency" /\ LatencyNext /\ UNCHANGED <<planVars, hashVars, clockVars, vars>>
       \/ part = "hash" /\ HashNext /\ UNCHANGED <<planVars, latencyVars, clockVars, vars>>
       \/ part = "clock" /\ ClockNext /\ UNCHANGED <<planVars, latencyVars, hashVars, vars>>
       \/ part = "tablets" /\ Next /\ UNCHANGED <<planVars, latencyVars, hashVars, clockVars>>

RoutingSpec == RoutingInit /\ [][RoutingNext]_routingVars

(***************************************************************************)
(* Properties of the pure parts                                            *)
(***************************************************************************)
Sampled(kind) == IF sample.kind = kind THEN {sample.in} ELSE {}

SetsOf(loc, l) ==
    [dc \in ToSet(Datacenters(l.top)) \cup {None} |-> ReplicasForToken(loc, l.token, l.strategy, dc, NoTablets)]
Sets(l, strategies) == SetsOf(NewLocator(l.top, strategies), l)
NodesOf(sets) == [dc \in DOMAIN sets |-> ReplicaNodes(sets[dc])]

(* Precomputed replica lists say what a computation on the fly says, for   *)
(* every mix of strategies the lists were computed for.                    *)
PrecomputedAgree ==
    \A l \in Sampled("lookup") :
        NodesOf(Sets(l, l.strategies)) = NodesOf(Sets(l, {}))

(* The four views of a ReplicaSet show the same replicas without repeats:  *)
(* iterating it, its length, choosing by a random index, and iterating in  *)
(* ring order.  A replication factor of zero is left out of the last one.  *)
ReplicaSetViewsAgree ==
    \A l \in Sampled("lookup") :
        \A set \in Range(Sets(l, l.strategies)) :
            \E nodes \in {ReplicaNodes(set)}, ordered \in {ReplicasOrdered(set)} :
               /\ Len(nodes) = Cardinality(ToSet(nodes)) /\ ReplicaSetLen(set) = Len(nodes)
               /\ UNION {ReplicaSetChoose(set, i) : i \in 0 .. (Len(nodes) - 1)} = ToSet(nodes)
               /\ (\A dc \in DOMAIN l.strategy.rfs : l.strategy.rfs[dc] > 0) =>
                      ToSet(ordered) = ToSet(nodes) /\ Len(ordered) = Len(nodes)

(* NetworkTopologyStrategy: a datacenter gives as many replicas as it is   *)
(* asked for and has, on as many racks as possible.                        *)
NtsSpreadsOverRacks ==
    \A l \in Sampled("lookup") :
        l.strategy.kind = "NTS" =>
            \A dc \in DOMAIN l.strategy.rfs :
                \E nodes \in {GetNetworkStrategyReplicas(NewLocator(l.top, l.strategies), l.token, dc,
                                                          l.strategy.rfs[dc])},
                   there \in {ToSet(UniqueNodes(DcRing(l.top, dc)))} :
                   /\ Len(nodes) = Min({l.strategy.rfs[dc], Cardinality(there)})
                   /\ Cardinality({l.top.rack[n] : n \in ToSet(nodes)})
                        = Min({Len(nodes), Cardinality({l.top.rack[n] : n \in there})})

(* From any port it may start at, the iterator of source ports returns     *)
(* only ports of the range that lead to the shard, none twice, and of      *)
(* those all but at most the smallest one.                                 *)
PortsIterated ==
    \A p \in Sampled("ports") :
        \A shard \in 0 .. (p.nr_shards - 1) :
            LET good == {port \in p.range[1] .. p.range[2] : ShardOfSourcePort(p.nr_shards, port) = shard}
            IN \A start \in DrawnPorts(p.nr_shards, shard, p.range) :
                 LET ports == IterSourcePorts(p.nr_shards, shard, p.range, start)
                 IN /\ start \in good
                    /\ Cardinality(ToSet(ports)) = Len(ports)
                    /\ ToSet(ports) \subseteq good
                    /\ good \ ToSet(ports) \subseteq {Min(good)}

(* The tokens of a ring are cut into one range per shard, in order, when   *)
(* no bit is ignored; otherwise the cut repeats itself for every value of  *)
(* the ignored bits.  No token is out of the node's shards.                *)
ShardsInTokenOrder ==
    \A s \in Sampled("shard") :
        LET Of(t) == ShardOf(s.nr_shards, s.msb_ignore, t)
            period == TokenSpan \div 2 ^ s.msb_ignore
        IN /\ \A t \in Tokens : Of(t) \in 0 .. (s.nr_shards - 1)
           /\ \A t \in Tokens : t + period \in Tokens => Of(t + period) = Of(t)
           /\ \A t, u \in Tokens : t <= u /\ u < InvalidToken + period => Of(t) <= Of(u)

(* A prepared statement and a bare partition key give the same token for   *)
(* the same values, whatever the order in which they are bound, as long as *)
(* none of them is null.                                                   *)
KeyTokensAgree ==
    \A values \in Sampled("key") :
        \A pk \in KeyIndexes :
            LET key == ExtractPartitionKey(pk, values)
            IN (\A k \in key : \A i \in DOMAIN k : k[i] # Null) =>
                  CalculateToken(pk, values) = UNION {CalculateTokenForPartitionKey(k) : k \in key}

(* Where the driver computes the same thing along several paths, they      *)
(* agree: replicas, tokens, shards and source ports.                       *)
RoutingFunctionsAgree ==
    /\ PrecomputedAgree /\ ReplicaSetViewsAgree /\ NtsSpreadsOverRacks
    /\ PortsIterated /\ ShardsInTokenOrder
    /\ KeyTokensAgree /\ PiecesIrrelevant
=============================================================================
