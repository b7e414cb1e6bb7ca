---------------------------- MODULE ReplicaLocator ----------------------------
(***************************************************************************)
(* ReplicaLocator (routing/locator): who owns a token.  Pure operators on  *)
(* a topology                                                              *)
(*    [ring : token -> node, dc : node -> datacenter,                      *)
(*     rack : node -> rack]                                                *)
(* where None stands for a node that did not say its datacenter or rack,   *)
(* a replication strategy                                                  *)
(*    [kind : "Simple" | "NTS" | "Other", rf : Nat, rfs : dc -> Nat]       *)
(* ("Other" is also LocalStrategy), and the list of tablets of a table:    *)
(* NoTablets, or a sequence [first, last, replicas] of token ranges whose  *)
(* replicas are node and shard pairs.                                      *)
(***************************************************************************)
EXTENDS Integers, Sequences, FiniteSets, SequencesExt

CONSTANTS None, NoTablets

Take(s, n) == SubSeq(s, 1, Min({n, Len(s)}))
Mapped(s, F(_)) == [i \in DOMAIN s |-> F(s[i])]
SizeOr0(f, x) == IF x \in DOMAIN f THEN f[x] ELSE 0

(* itertools' unique: the first occurrence of every element.               *)
Unique(s) ==
    Mapped(SetToSortSeq({i \in DOMAIN s : \A j \in 1 .. (i - 1) : s[j] # s[i]}, <), LAMBDA i : s[i])

(***************************************************************************)
(* TokenRing: a function from its tokens to its elements.                  *)
(***************************************************************************)
RingTokens(ring) == SetToSortSeq(DOMAIN ring, <)

(* ring_range: from the first token that is not below the given one, once  *)
(* around the ring.                                                        *)
RingRange(ring, token) ==
    LET from == {t \in DOMAIN ring : t >= token}
        order == SetToSortSeq(from, <) \o SetToSortSeq(DOMAIN ring \ from, <)
    IN Mapped(order, LAMBDA t : ring[t])

GetElemForToken(ring, token) == RingRange(ring, token)[1]

(***************************************************************************)
(* ReplicationInfo                                                         *)
(***************************************************************************)
DcRing(top, dc) ==
    [t \in {u \in DOMAIN top.ring : top.dc[top.ring[u]] = dc} |-> top.ring[t]]

UniqueNodes(ring) == Unique(Mapped(RingTokens(ring), LAMBDA t : ring[t]))

(* The datacenters of the ring, in ring order.                             *)
Datacenters(top) ==
    SelectSeq(Unique(Mapped(UniqueNodes(top.ring), LAMBDA n : top.dc[n])),
              LAMBDA dc : dc # None)

(* A node without a rack counts as one in a rack of its own kind.          *)
RackCount(top, dc) == Cardinality({top.rack[n] : n \in ToSet(UniqueNodes(DcRing(top, dc)))})

SimpleStrategyReplicas(top, token, rf) == Take(Unique(RingRange(top.ring, token)), rf)

(* NtsReplicasInDatacenterIterator: walk the ring of the datacenter; take  *)
(* the first node of every rack, and of the others only as many as the     *)
(* replication factor exceeds the number of racks; stop at the             *)
(* replication factor.                                                     *)
FirstOfRack(rack, nodes, i) == \A j \in 1 .. (i - 1) : rack[nodes[j]] # rack[nodes[i]]

TakenOfRacks(rack, nodes, acceptable_repeats) ==
    LET Taken(i) == \/ FirstOfRack(rack, nodes, i)
                    \/ Cardinality({j \in 1 .. (i - 1) : ~FirstOfRack(rack, nodes, j)}) < acceptable_repeats
    IN Mapped(SetToSortSeq({i \in DOMAIN nodes : Taken(i)}, <), LAMBDA i : nodes[i])

NtsReplicasInDatacenter(top, token, dc, rf) ==
    Take(TakenOfRacks(top.rack, Unique(RingRange(DcRing(top, dc), token)),
                      Max({0, rf - RackCount(top, dc)})), rf)

(***************************************************************************)
(* PrecomputedReplicas: for the strategies of the keyspaces, the longest   *)
(* replica lists of every token of the ring.                               *)
(***************************************************************************)
RepFactors(strategies, dc) ==
    {s.rfs[dc] : s \in {s \in strategies : s.kind = "NTS" /\ dc \in DOMAIN s.rfs}}

(* One ring with the lists of the largest factor that is not above the     *)
(* number of racks, and one ring for each factor above.                    *)
DatacenterPrecomputed(top, strategies, dc) ==
    LET rfs == RepFactors(strategies, dc)
        low == {rf \in rfs : rf <= RackCount(top, dc)}
        ReplicaRing(rf) == [t \in DOMAIN DcRing(top, dc) |->
                               NtsReplicasInDatacenter(top, t, dc, rf)]
    IN [compressed |-> {[max |-> rf, ring |-> ReplicaRing(rf)] : rf \in {m \in low : m = Max(low)}},
        above |-> [rf \in rfs \ low |-> ReplicaRing(rf)]]

PrecomputedReplicas(top, strategies) ==
    LET global_max == Max({1} \cup {s.rf : s \in {s \in strategies : s.kind = "Simple"}})
        dcs == {dc \in ToSet(Datacenters(top)) : RepFactors(strategies, dc) # {}}
    IN [global_max |-> global_max,
        global |-> [t \in DOMAIN top.ring |-> SimpleStrategyReplicas(top, t, global_max)],
        dc |-> [dc \in dcs |-> DatacenterPrecomputed(top, strategies, dc)]]

(* The results of the two lookups are sets: empty when nothing is          *)
(* precomputed for that factor.                                            *)
PrecomputedSimple(pre, token, rf) ==
    IF rf > pre.global_max \/ DOMAIN pre.global = {} THEN {}
    ELSE {Take(GetElemForToken(pre.global, token), rf)}

PrecomputedNetwork(pre, token, dc, rf) ==
    IF dc \notin DOMAIN pre.dc THEN {}
    ELSE LET compressed == {c.ring : c \in {c \in pre.dc[dc].compressed : c.max >= rf}}
             exact == IF rf \in DOMAIN pre.dc[dc].above THEN {pre.dc[dc].above[rf]} ELSE {}
             rings == IF compressed # {} THEN compressed ELSE exact
         IN {Take(GetElemForToken(ring, token), rf) : ring \in {r \in rings : DOMAIN r # {}}}

(***************************************************************************)
(* ReplicaLocator                                                          *)
(***************************************************************************)
PrecomputedOr(pre, computed) == IF pre # {} THEN CHOOSE r \in pre : TRUE ELSE computed

GetSimpleStrategyReplicas(loc, token, rf) ==
    IF rf = 0 THEN <<>>
    ELSE PrecomputedOr(PrecomputedSimple(loc.pre, token, rf), SimpleStrategyReplicas(loc.top, token, rf))

GetNetworkStrategyReplicas(loc, token, dc, rf) ==
    IF rf = 0 THEN <<>>
    ELSE PrecomputedOr(PrecomputedNetwork(loc.pre, token, dc, rf),
                       NtsReplicasInDatacenter(loc.top, token, dc, rf))

NewLocator(top, strategies) == [top |-> top, pre |-> PrecomputedReplicas(top, strategies)]

(* The tablet that owns a token, as a set.                                 *)
TabletOf(tablets, token) ==
    {tablets[i] : i \in {j \in DOMAIN tablets : tablets[j].first <= token /\ token <= tablets[j].last}}

TabletReplicas(loc, tablets, token, dc) ==
    LET InDc(r) == dc = None \/ loc.top.dc[r[1]] = dc
    IN FlattenSeq(SetToSeq({SelectSeq(t.replicas, InDc) : t \in TabletOf(tablets, token)}))

(* replicas_for_token: the lazy ReplicaSet, by its variant.                *)
ReplicasForToken(loc, token, strategy, dc, tablets) ==
    LET set == [kind |-> "Plain", replicas |-> <<>>, dc |-> dc, token |-> token,
                rfs |-> strategy.rfs, loc |-> loc]
    IN IF tablets # NoTablets
         THEN [set EXCEPT !.kind = "PlainSharded", !.replicas = TabletReplicas(loc, tablets, token, dc)]
       ELSE IF strategy.kind \in {"Simple", "Other"}
         THEN [set EXCEPT !.kind = IF dc = None THEN "Plain" ELSE "FilteredSimple",
                          !.replicas = GetSimpleStrategyReplicas(loc, token,
                                           IF strategy.kind = "Simple" THEN strategy.rf ELSE 1)]
       ELSE IF dc = None THEN [set EXCEPT !.kind = "ChainedNTS"]
       ELSE [set EXCEPT !.replicas = GetNetworkStrategyReplicas(loc, token, dc, SizeOr0(strategy.rfs, dc))]

(* Iteration over the set, without the shards: datacenter after datacenter *)
(* for a NetworkTopologyStrategy.                                          *)
ChainedReplicas(set) ==
    FlattenSeq(Mapped(Datacenters(set.loc.top), LAMBDA dc :
        GetNetworkStrategyReplicas(set.loc, set.token, dc, SizeOr0(set.rfs, dc))))

InDatacenter(set) == SelectSeq(set.replicas, LAMBDA n : set.loc.top.dc[n] = set.dc)

ReplicaNodes(set) ==
    CASE set.kind = "Plain" -> set.replicas
      [] set.kind = "PlainSharded" -> Mapped(set.replicas, LAMBDA r : r[1])
      [] set.kind = "FilteredSimple" -> InDatacenter(set)
      [] set.kind = "ChainedNTS" -> ChainedReplicas(set)

(* len: computed without building the lists of a NetworkTopologyStrategy.  *)
ReplicaSetLen(set) ==
    IF set.kind # "ChainedNTS" THEN Len(ReplicaNodes(set))
    ELSE MapThenSumSet(LAMBDA dc : Min({set.rfs[dc], Len(UniqueNodes(DcRing(set.loc.top, dc)))}),
                       DOMAIN set.rfs)

(* choose for a drawn index (from 0), as a set of at most one node: walks  *)
(* the datacenters and asks for no more replicas than there are nodes.     *)
ElementAt(s, i) == {s[j] : j \in DOMAIN s \cap {i}}

ChooseFrom(set, dcs, factors, index) ==
    LET Left(i) == index - SumFunctionOnSet(factors, 1 .. (i - 1))
    IN UNION {ElementAt(GetNetworkStrategyReplicas(set.loc, set.token, dcs[i], factors[i]), Left(i) + 1) :
                 i \in {j \in DOMAIN dcs : Left(j) \in 0 .. (factors[j] - 1)}}

ChooseChained(set, index) ==
    ChooseFrom(set, Datacenters(set.loc.top),
               Mapped(Datacenters(set.loc.top), LAMBDA dc :
                  Min({SizeOr0(set.rfs, dc), Len(UniqueNodes(DcRing(set.loc.top, dc)))})),
               index)

ReplicaSetChoose(set, index) ==
    IF set.kind = "ChainedNTS" THEN ChooseChained(set, index)
    ELSE ElementAt(ReplicaNodes(set), index + 1)

(* choose_filtered: every replica the random numbers can lead to, among    *)
(* the nodes that the predicate allows.                                    *)
ChosenOrFiltered(happy, all, allowed) ==
    (happy \cap allowed) \cup (IF happy \subseteq allowed THEN {} ELSE all \cap allowed)

ReplicaSetChooseFiltered(set, allowed) ==
    ChosenOrFiltered(UNION {ReplicaSetChoose(set, i) : i \in 0 .. (ReplicaSetLen(set) - 1)},
                     ToSet(ReplicaNodes(set)), allowed)

(* The first node on the ring whose datacenter the strategy names.         *)
PrimaryReplica(set, ring) ==
    Take(SelectSeq(ring, LAMBDA n : set.loc.top.dc[n] \in DOMAIN set.rfs), 1)

(* ReplicasOrdered: the replicas in ring order.  Of a                      *)
(* NetworkTopologyStrategy the primary replica comes first without looking *)
(* at the replica lists, then the other members of the lists, in the order *)
(* of the ring.                                                            *)
PrimaryThenOthers(primary, ring, lists) ==
    IF primary = <<>> THEN <<>>
    ELSE primary \o SelectSeq(ring, LAMBDA n : n \in lists \ ToSet(primary))

OrderedOnRing(set, ring) ==
    PrimaryThenOthers(PrimaryReplica(set, ring), ring,
        UNION {ToSet(GetNetworkStrategyReplicas(set.loc, set.token, dc, set.rfs[dc])) : dc \in DOMAIN set.rfs})

ReplicasOrdered(set) ==
    IF set.kind # "ChainedNTS" THEN ReplicaNodes(set)
    ELSE OrderedOnRing(set, Unique(RingRange(set.loc.top.ring, set.token)))
=============================================================================
