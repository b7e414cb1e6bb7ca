------------------------------- MODULE Tablets -------------------------------
(***************************************************************************)
(* The tablet information of the ClusterState the cluster worker keeps     *)
(* (scylla/src/routing/locator/tablets.rs, scylla/src/cluster/state.rs):   *)
(* tablets arrive as feedback from the servers (update_tablets), and every *)
(* metadata refresh builds a new ClusterState (ClusterState::new), which   *)
(* reuses or recreates the `Node` objects of its peers and brings the      *)
(* tablets in line with them (perform_maintenance).                        *)
(*                                                                         *)
(* Left out: the shard of a replica, the order of replicas, and rack as a  *)
(* field of its own (PeerData tells whether anything but the address has   *)
(* changed).                                                               *)
(***************************************************************************)
EXTENDS Integers, Sequences, FiniteSets

CONSTANTS
    HostIds,         \* host ids
    DCs,           \* datacenters
    NoDC,          \* the datacenter is not known
    Tables,
    PeerData,      \* what metadata says of a peer: [dc, rack, address]
    MaxToken,      \* bound: tokens are 1..MaxToken
    MaxRefreshes   \* bound on the number of refreshes

ASSUME TabletsAssumption ==
    /\ MaxToken \in Nat \ {0}
    /\ MaxRefreshes \in Nat
    /\ NoDC \notin DCs
    /\ \A p \in PeerData : p.dc \in DCs \cup {NoDC}

VARIABLES
    known_peers,           \* ClusterState::known_peers: host id -> Node object
    tablets,               \* TabletsInfo::tablets: table -> TableTablets
    has_unknown_replicas,  \* TabletsInfo::has_unknown_replicas
    refreshes,             \* number of refreshes; identifies the objects a refresh created
    panicked               \* the worker's task died in an assertion

vars == <<known_peers, tablets, has_unknown_replicas, refreshes, panicked>>

\* A Node object.  Two objects are the same Arc iff they are equal.
Nodes == [host_id : HostIds, data : PeerData, created : 0..MaxRefreshes]

Token == 1..MaxToken

TabletRecords ==
    [first_token : Token, last_token : Token, all : SUBSET Nodes,
     per_dc : [DCs -> SUBSET Nodes], failed : SUBSET HostIds]

\* A map from some of the hosts to S.
PeerMaps(S) == UNION {[H -> S] : H \in (SUBSET HostIds) \ {{}}}

\* The types of the code; a Node object is filed under its own host id, and the
\* tokens of a tablet are tokens although a raw range excludes its left end.
TypeOK ==
    /\ DOMAIN known_peers \in (SUBSET HostIds) \ {{}}
    /\ known_peers \in [DOMAIN known_peers -> Nodes]
    /\ \A h \in DOMAIN known_peers : known_peers[h].host_id = h
    /\ DOMAIN tablets \subseteq Tables
    /\ \A b \in DOMAIN tablets :
          /\ tablets[b].tablet_list \in Seq(TabletRecords)
          /\ tablets[b].has_unknown_replicas \in BOOLEAN
    /\ has_unknown_replicas \in BOOLEAN
    /\ refreshes \in 0..MaxRefreshes
    /\ panicked \in BOOLEAN

-----------------------------------------------------------------------------
(* Tablet *)

\* What a server sends: a left-open range and the host ids of the replicas.
RawTablets == {r \in [left : 0..(MaxToken - 1), last : Token, replicas : (SUBSET HostIds) \ {{}}] :
                  r.left < r.last}

GroupByDc(nodes) == [d \in DCs |-> {n \in nodes : n.data.dc = d}]

\* Replicas that are no known peer are skipped; `failed` then keeps the list.
FromRawReplicas(replicas, peers) ==
    LET nodes == {peers[h] : h \in replicas \cap DOMAIN peers} IN
        [all |-> nodes,
         per_dc |-> GroupByDc(nodes),
         failed |-> IF replicas \subseteq DOMAIN peers THEN {} ELSE replicas]

\* +1: ScyllaDB sends the last token that does not belong to the tablet.
FromRawTablet(raw, peers) ==
    LET r == FromRawReplicas(raw.replicas, peers) IN
        [first_token |-> raw.left + 1, last_token |-> raw.last,
         all |-> r.all, per_dc |-> r.per_dc, failed |-> r.failed]

\* re_resolve_replicas fails: the tablet is to be removed.
Unresolved(t, peers) == ~(t.failed \subseteq DOMAIN peers)

ReResolveReplicas(t, peers) ==
    IF t.failed = {} THEN t
    ELSE LET r == FromRawReplicas(t.failed, peers) IN
         [t EXCEPT !.all = r.all, !.per_dc = r.per_dc, !.failed = {}]

\* The Node objects of S with the recreated ones replaced.
Replace(S, recreated) ==
    {IF n.host_id \in DOMAIN recreated THEN recreated[n.host_id] ELSE n : n \in S}

UpdateStaleNodes(t, recreated) ==
    IF \A n \in t.all : n.host_id \notin DOMAIN recreated THEN t
    ELSE [t EXCEPT !.all = Replace(@, recreated),
                   !.per_dc = [d \in DCs |-> Replace(@[d], recreated)]]

\* assert!(!Arc::ptr_eq(new_node, node))
HasRecreated(t, recreated) ==
    \E n \in t.all : n.host_id \in DOMAIN recreated /\ recreated[n.host_id] = n

-----------------------------------------------------------------------------
(* TableTablets *)

\* partition_point: the number of leading elements, of n, whose index is in S.
PartitionPoint(n, S) ==
    CHOOSE i \in 0..n : i + 1 \notin S /\ \A j \in 1..i : j \in S

\* tablet_for_token: a set of one tablet, or empty.
TabletForToken(list, token) ==
    LET idx == PartitionPoint(Len(list), {i \in 1..Len(list) : list[i].last_token < token}) IN
        IF idx < Len(list) /\ list[idx + 1].first_token <= token THEN {list[idx + 1]} ELSE {}

\* The part of add_tablet that keeps the list sorted and free of overlaps.
InsertTablet(list, t) ==
    LET n == Len(list)
        left == PartitionPoint(n, {i \in 1..n : list[i].last_token < t.first_token})
        right == PartitionPoint(n, {i \in 1..n : list[i].first_token <= t.last_token})
    IN  SubSeq(list, 1, left) \o <<t>> \o SubSeq(list, right + 1, n)

NewTable == [tablet_list |-> <<>>, has_unknown_replicas |-> FALSE]

AddTablet(table, t) ==
    [tablet_list |-> InsertTablet(table.tablet_list, t),
     has_unknown_replicas |-> table.has_unknown_replicas \/ t.failed # {}]

\* Vec::retain: the elements at the indices in `kept`, in their order.
Retain(list, kept) ==
    [k \in 1..Cardinality(kept) |->
        list[CHOOSE i \in kept : Cardinality({j \in kept : j <= i}) = k]]

\* The first step of perform_maintenance: tablets with unknown replicas are resolved
\* again or removed.
Resolved(table, peers) ==
    LET list == table.tablet_list
        kept == Retain(list, {i \in 1..Len(list) : ~Unresolved(list[i], peers)})
    IN  IF table.has_unknown_replicas
        THEN [i \in 1..Len(kept) |-> ReResolveReplicas(kept[i], peers)]
        ELSE list

\* Mutant: tablets with a replica on a removed node are kept.
SurvivingRemoval(table, removed_nodes, peers) == Resolved(table, peers)

\* The first two steps: then the tablets with a replica on a removed node go.
Surviving(table, removed_nodes, peers) ==
    LET list == Resolved(table, peers)
    IN  Retain(list, {i \in 1..Len(list) : \A n \in list[i].all : n.host_id \notin removed_nodes})

PerformMaintenance(table, removed_nodes, peers, recreated_nodes) ==
    LET list == Surviving(table, removed_nodes, peers) IN
        [tablet_list |-> [i \in 1..Len(list) |-> UpdateStaleNodes(list[i], recreated_nodes)],
         has_unknown_replicas |-> FALSE]

\* update_stale_nodes hits its assertion on some tablet.
MaintenancePanics(table, removed_nodes, peers, recreated_nodes) ==
    LET list == Surviving(table, removed_nodes, peers) IN
        \E i \in 1..Len(list) : HasRecreated(list[i], recreated_nodes)

-----------------------------------------------------------------------------
(* ClusterState *)

\* The existing Node object if nothing of it has changed, else a new one
\* (Node::inherit_with_ip_changed or Node::new).
NodeForPeer(h, data) ==
    IF h \in DOMAIN known_peers /\ known_peers[h].data = data
    THEN known_peers[h]
    ELSE [host_id |-> h, data |-> data, created |-> refreshes + 1]

\* The first ClusterState is built from the initial metadata, with no tablets.
Init ==
    /\ \E peers \in PeerMaps(PeerData) :
          known_peers = [h \in DOMAIN peers |->
                            [host_id |-> h, data |-> peers[h], created |-> 0]]
    /\ tablets = <<>>
    /\ has_unknown_replicas = FALSE
    /\ refreshes = 0
    /\ panicked = FALSE

\* Mutant: TabletsInfo does not remember the unknown replica.
UpdateTabletsForgetful(b, raw) ==
    /\ ~panicked
    /\ LET t == FromRawTablet(raw, known_peers)
           old == IF b \in DOMAIN tablets THEN tablets[b] ELSE NewTable
       IN  tablets' = [c \in DOMAIN tablets \cup {b} |->
                          IF c = b THEN AddTablet(old, t) ELSE tablets[c]]
    /\ UNCHANGED <<known_peers, has_unknown_replicas, refreshes, panicked>>

\* update_tablets: a batch of tablets from the channel is a sequence of these.
UpdateTablets(b, raw) ==
    /\ ~panicked
    /\ LET t == FromRawTablet(raw, known_peers)
           old == IF b \in DOMAIN tablets THEN tablets[b] ELSE NewTable
       IN  /\ tablets' = [c \in DOMAIN tablets \cup {b} |->
                             IF c = b THEN AddTablet(old, t) ELSE tablets[c]]
           /\ has_unknown_replicas' = (has_unknown_replicas \/ t.failed # {})
    /\ UNCHANGED <<known_peers, refreshes, panicked>>

\* ClusterState::new with metadata of the peers and tables that exist now, and
\* the publication of its result.  A panic leaves the old ClusterState in place.
RefreshTopology(peers, tables) ==
    /\ ~panicked
    /\ refreshes < MaxRefreshes
    /\ LET new_known_peers == [h \in DOMAIN peers |-> NodeForPeer(h, peers[h])]
           removed_nodes == DOMAIN known_peers \ DOMAIN peers
           recreated == {h \in DOMAIN known_peers \cap DOMAIN peers :
                            known_peers[h] # new_known_peers[h]}
           recreated_nodes == [h \in recreated |-> new_known_peers[h]]
           kept == DOMAIN tablets \cap tables
           maintained == removed_nodes # {} \/ recreated # {} \/ has_unknown_replicas
       IN  \/ /\ ~maintained
              /\ tablets' = [b \in kept |-> tablets[b]]
              /\ known_peers' = new_known_peers
              /\ has_unknown_replicas' = FALSE
              /\ refreshes' = refreshes + 1
              /\ UNCHANGED panicked
           \/ /\ maintained
              /\ \A b \in kept : ~MaintenancePanics(tablets[b], removed_nodes,
                                                    new_known_peers, recreated_nodes)
              /\ tablets' = [b \in kept |->
                                PerformMaintenance(tablets[b], removed_nodes,
                                                   new_known_peers, recreated_nodes)]
              /\ known_peers' = new_known_peers
              /\ has_unknown_replicas' = FALSE
              /\ refreshes' = refreshes + 1
              /\ UNCHANGED panicked
           \/ /\ maintained
              /\ \E b \in kept : MaintenancePanics(tablets[b], removed_nodes,
                                                   new_known_peers, recreated_nodes)
              /\ panicked' = TRUE
              /\ UNCHANGED <<known_peers, tablets, has_unknown_replicas, refreshes>>

\* The worker's task is gone.
Dead == panicked /\ UNCHANGED vars

Next ==
    \/ \E b \in Tables, raw \in RawTablets : UpdateTablets(b, raw)
    \/ \E peers \in PeerMaps(PeerData), tables \in SUBSET Tables :
          RefreshTopology(peers, tables)
    \/ Dead

Spec == Init /\ [][Next]_vars

-----------------------------------------------------------------------------
(* Properties *)

\* The list is sorted and no two of its tablets share a token.
Disjoint(list) ==
    /\ \A i \in 1..Len(list) : list[i].first_token <= list[i].last_token
    /\ \A i, j \in 1..Len(list) : i < j => list[i].last_token < list[j].first_token

\* The list of every table is sorted, and no two tablets share a token, however
\* the ranges that arrive split and merge earlier ones.
TabletsDisjoint == \A b \in DOMAIN tablets : Disjoint(tablets[b].tablet_list)

\* The tablets of the list that contain the token.
Owners(list, token) ==
    {list[i] : i \in {j \in 1..Len(list) :
        list[j].first_token <= token /\ token <= list[j].last_token}}

\* The binary search of tablet_for_token finds the tablet that owns the token
\* whenever one does, and nothing else.
LookupFindsOwner ==
    \A b \in DOMAIN tablets, token \in Token :
        TabletForToken(tablets[b].tablet_list, token) = Owners(tablets[b].tablet_list, token)

\* Tablets only refer to the Node objects of the current ClusterState, in both
\* of their replica lists: no removed node and no outdated object survives a
\* refresh, through any history of joins, changes and removals.
NoStaleNodes ==
    \A b \in DOMAIN tablets : \A i \in 1..Len(tablets[b].tablet_list) :
        LET t == tablets[b].tablet_list[i] IN
            \A n \in t.all \cup UNION {t.per_dc[d] : d \in DCs} :
                n.host_id \in DOMAIN known_peers /\ known_peers[n.host_id] = n

\* A tablet with unresolved replicas is remembered by the flags of its table
\* and of TabletsInfo, so that the next refresh does not skip it.
UnknownReplicasFlagged ==
    \A b \in DOMAIN tablets : \A i \in 1..Len(tablets[b].tablet_list) :
        tablets[b].tablet_list[i].failed # {} =>
            tablets[b].has_unknown_replicas /\ has_unknown_replicas

\* What a request that is routed by tablets relies on, after any history of
\* learnt tablets and refreshes: exact lookups, current nodes, and flags that
\* remember what a refresh has to repair.
TabletsSound == TabletsDisjoint /\ LookupFindsOwner /\ NoStaleNodes /\ UnknownReplicasFlagged

\* The tablets of a table as ranges with their replicas, resolved or not.
Learnt(b) ==
    IF b \notin DOMAIN tablets THEN {}
    ELSE LET list == tablets[b].tablet_list IN
        {[first |-> list[i].first_token, last |-> list[i].last_token,
          replicas |-> IF list[i].failed # {} THEN list[i].failed
                       ELSE {n.host_id : n \in list[i].all}] : i \in 1..Len(list)}

Map == INSTANCE TabletMap WITH
    hosts <- DOMAIN known_peers,
    learnt <- [b \in Tables |-> Learnt(b)]

\* The sorted lists, flags and Node objects implement the plain map of
\* TabletMap: no tablet is lost but for the reasons stated there.
ImplementsTabletMap == Map!MapSpec

\* The assertion in update_stale_nodes never fails.
NeverPanics == ~panicked

=============================================================================
