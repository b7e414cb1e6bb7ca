------------------------- MODULE PoolRefillerProofs -------------------------
(***************************************************************************)
(* The safety invariants of PoolRefiller, for every pool size, every set   *)
(* of shard counts, keyspaces, and number of faults.  The inductive        *)
(* invariant PoolInv adds three facts to the properties: a connection is   *)
(* at most once among those whose keyspace is being set, what is published *)
(* as ready was not empty, and a published list may be out of date only    *)
(* while the pool is empty and being filled.  Handling a connection that   *)
(* has been opened (handle_ready_connection) comes first, then one lemma   *)
(* per action.                                                             *)
(***************************************************************************)
EXTENDS PoolRefiller, FiniteSetTheorems, TLAPS

\* USE is under way at most once on a connection.
UsingApart == \A u, v \in using : u.id = v.id => u = v

\* No empty list is published as ready.
PublishedNotEmpty == shared.kind = "ready" => ~IsEmpty(shared.conns)

\* What is published is out of date only while the pool is empty and being filled.
StaleOnlyWhenEmpty ==
    \/ shared = Ready(sharder, conns)
    \/ IsEmpty(conns) /\ (shared \in {Initializing, Broken} \/ IsFilling)

\* The inductive invariant.
PoolInv ==
    /\ PoolTypeOK
    /\ WithinLimits
    /\ RefillNotForgotten
    /\ PooledUseKeyspace
    /\ UsingApart
    /\ PublishedNotEmpty
    /\ StaleOnlyWhenEmpty

-----------------------------------------------------------------------------
(* Facts about sets of connections *)

\* The numbers of connections that the pool compares with its targets are
\* natural numbers, and change as expected.
LEMMA IdsFinite ==
    /\ \A S \in SUBSET Ids : IsFiniteSet(S) /\ Cardinality(S) \in Nat
    /\ \A S \in SUBSET Ids : \A R \in SUBSET S : Cardinality(R) <= Cardinality(S)
    /\ \A S \in SUBSET Ids, i \in Ids : Cardinality(S \cup {i}) <= Cardinality(S) + 1
    /\ Cardinality({}) = 0
<1>1. IsFiniteSet(Ids)
  BY PoolAssumption, FS_Interval DEF Ids
<1>2. \A S \in SUBSET Ids : IsFiniteSet(S) /\ Cardinality(S) \in Nat
  BY <1>1, FS_Subset, FS_CardinalityType, Zenon
<1>3. \A S \in SUBSET Ids : \A R \in SUBSET S : Cardinality(R) <= Cardinality(S)
  BY <1>2, FS_Subset, Zenon
<1>4. \A S \in SUBSET Ids, i \in Ids : Cardinality(S \cup {i}) <= Cardinality(S) + 1
  <2> SUFFICES ASSUME NEW S \in SUBSET Ids, NEW i \in Ids
               PROVE  Cardinality(S \cup {i}) <= Cardinality(S) + 1
    BY Zenon
  <2>1. Cardinality(S \cup {i}) = IF i \in S THEN Cardinality(S) ELSE Cardinality(S) + 1
    BY <1>2, FS_AddElement, Zenon
  <2> QED BY <1>2, <2>1
<1> QED BY <1>2, <1>3, <1>4, FS_EmptySet, Zenon

\* A set of connections below a limit has room for one more (can_be_accepted).
LEMMA OneMoreFits ==
  ASSUME NEW S \in SUBSET Ids, NEW i \in Ids, NEW n \in Nat, Cardinality(S) < n
  PROVE  Cardinality(S \cup {i}) <= n
<1>1. S \cup {i} \in SUBSET Ids
  BY Zenon
<1>2. Cardinality(S) \in Nat /\ Cardinality(S \cup {i}) \in Nat
  BY <1>1, IdsFinite, Zenon
<1>3. Cardinality(S \cup {i}) <= Cardinality(S) + 1
  BY IdsFinite, Zenon
<1> QED BY <1>2, <1>3

\* A sharder has a shard; a shard of a sharder is a shard that may be requested.
LEMMA ShardsOfNode ==
    /\ \A nr \in NodeShards \cup {0} : Shards(nr) # {} /\ Shards(nr) \subseteq Nat
    /\ \A nr \in NodeShards \cup {0} : Shards(nr) \subseteq AllShards
    /\ None \notin AllShards /\ None \in Requested
<1>1. \A nr \in Nat : Shards(nr) # {} /\ Shards(nr) \subseteq Nat /\ 0 \in Shards(nr)
  BY DEF Shards
<1>2. NodeShards \subseteq Nat
  BY PoolAssumption, Zenon
<1>3. \A nr \in NodeShards \cup {0} : Shards(nr) \subseteq AllShards
  <2>1. \A nr \in NodeShards : Shards(nr) \subseteq AllShards
    BY Zenon DEF AllShards
  <2>2. 0 \in AllShards /\ Shards(0) = {0}
    BY <1>1, <1>2, <2>1, PoolAssumption, Zenon DEF Shards
  <2> QED BY <2>1, <2>2, Zenon
<1>4. AllShards \subseteq Nat
  BY <1>1, <1>2, Zenon DEF AllShards
<1> QED BY <1>1, <1>2, <1>3, <1>4, PoolAssumption, Zenon DEF Requested

\* The size of a pool is not zero.
LEMMA TargetPositive ==
    ASSUME PoolTypeOK
    PROVE  Target \in Nat \ {0}
BY PoolAssumption, Zenon DEF PoolTypeOK, Target

\* A pool within its limit is still within it after the connection that
\* can_be_accepted lets in.
LEMMA AcceptedWithinTarget ==
    ASSUME PoolTypeOK, NEW nr \in NodeShards, NEW s \in Shards(nr), NEW i \in Ids,
           NEW before \in [Shards(nr) -> SUBSET Ids], CanBeAccepted(before, s),
           IF PerShard THEN \A t \in Shards(nr) : Cardinality(before[t]) <= Target
           ELSE ActiveCount(before) <= Target,
           NEW after, after = [before EXCEPT ![s] = @ \cup {i}]
    PROVE  IF PerShard THEN \A t \in Shards(nr) : Cardinality(after[t]) <= Target
           ELSE ActiveCount(after) <= Target
<1>1. Target \in Nat
  BY TargetPositive, Zenon
<1>2. \A t \in Shards(nr) : after[t] = IF t = s THEN before[t] \cup {i} ELSE before[t]
  BY Zenon
<1>3. CASE PerShard
  <2>1. Cardinality(before[s]) < Target /\ before[s] \in SUBSET Ids
    BY <1>3, Zenon DEF CanBeAccepted
  <2>2. Cardinality(before[s] \cup {i}) <= Target
    BY <1>1, <2>1, OneMoreFits, Zenon
  <2> QED BY <1>2, <1>3, <2>2, Zenon
<1>4. CASE ~PerShard
  <2>1. Cardinality(All(before)) < Target /\ All(before) \in SUBSET Ids
    BY <1>4, Zenon DEF CanBeAccepted, ActiveCount, All
  <2>2. All(after) = All(before) \cup {i}
    BY DEF All
  <2>3. Cardinality(All(before) \cup {i}) <= Target
    BY <1>1, <2>1, OneMoreFits, Zenon
  <2> QED BY <1>4, <2>2, <2>3, Zenon DEF ActiveCount
<1> QED BY <1>3, <1>4, Zenon

\* can_be_accepted lets a connection into an empty pool.
LEMMA EmptyAccepts ==
    ASSUME PoolTypeOK, NEW nr \in NodeShards, NEW s \in Shards(nr),
           NEW before \in [Shards(nr) -> SUBSET Ids], IsEmpty(before)
    PROVE  CanBeAccepted(before, s)
<1>1. before[s] = {} /\ All(before) = {}
  BY Zenon DEF IsEmpty, All
<1>2. Cardinality(before[s]) = 0 /\ ActiveCount(before) = 0
  BY <1>1, IdsFinite, Zenon DEF ActiveCount
<1> QED BY <1>2, TargetPositive DEF CanBeAccepted

\* start_filling never asks for a negative number of connections.
LEMMA ToOpenNat ==
    ASSUME PoolTypeOK, NEW r \in Requested
    PROVE  ToOpen[r] \in Nat
<1>1. Target \in Nat
  BY PoolAssumption, Zenon DEF PoolTypeOK, Target
<1>2. \A s \in DOMAIN conns : Cardinality(conns[s]) \in Nat
  BY IdsFinite, Zenon DEF PoolTypeOK
<1>3. \A s \in DOMAIN conns : Missing(conns, s) \in Nat
  BY <1>1, <1>2 DEF Missing
<1>4. All(conns) \subseteq Ids
  BY DEF PoolTypeOK, All
<1>5. ActiveCount(conns) \in Nat
  BY <1>4, IdsFinite, Zenon DEF ActiveCount
<1>6. Cardinality(Vacancies(conns)) \in Nat
  <2>1. IsFiniteSet(DOMAIN conns)
    <3>1. sharder \in Nat /\ DOMAIN conns = Shards(sharder)
      BY PoolAssumption DEF PoolTypeOK
    <3>2. IsFiniteSet(0..(sharder - 1))
      BY <3>1, FS_Interval
    <3>3. IsFiniteSet({0})
      BY FS_Singleton, Zenon
    <3> QED BY <3>1, <3>2, <3>3, Zenon DEF Shards
  <2>2. IsFiniteSet(1..Target)
    BY <1>1, FS_Interval
  <2>3. IsFiniteSet((DOMAIN conns) \X (1..Target))
    BY <2>1, <2>2, FS_Product, Zenon
  <2>4. IsFiniteSet(Vacancies(conns))
    BY <2>3, FS_Subset, Zenon DEF Vacancies
  <2> QED BY <2>4, FS_CardinalityType, Zenon
<1> QED BY <1>1, <1>3, <1>5, <1>6 DEF ToOpen

\* The bound on the excess connections is a natural number.
LEMMA ExcessLimitNat ==
    \A nr \in NodeShards \cup {0} : ExcessLimit(nr) \in Nat
<1> SUFFICES ASSUME NEW nr \in NodeShards \cup {0} PROVE ExcessLimit(nr) \in Nat
  BY Zenon
<1>1. ExcessMultiplier \in Nat /\ nr \in Nat
  BY PoolAssumption
<1>2. ExcessMultiplier * nr \in Nat /\ ExcessMultiplier * 1 \in Nat
  BY <1>1
<1> QED BY <1>1, <1>2, Zenon DEF ExcessLimit

\* A run has no more events than its bound.
LEMMA EventsBounded ==
    ASSUME PoolTypeOK, Event
    PROVE  events' \in 0..MaxEvents
BY PoolAssumption DEF PoolTypeOK, Event

-----------------------------------------------------------------------------
(* The types that the invariant fixes, part by part *)

\* The parts of the invariant.
LEMMA InvParts ==
    ASSUME PoolInv
    PROVE  /\ PoolTypeOK /\ WithinLimits /\ RefillNotForgotten /\ PooledUseKeyspace
           /\ UsingApart /\ PublishedNotEmpty /\ StaleOnlyWhenEmpty
BY Zenon DEF PoolInv

\* The state of the refiller and of the users besides the connections.
LEMMA ScalarTypes ==
    ASSUME PoolInv
    PROVE  /\ pool_size \in PoolSizes /\ node \in NodeShards
           /\ current_keyspace \in Keyspaces \cup {None} /\ refill_scheduled \in BOOLEAN
           /\ waiter \in {"start", "registered", "waiting", "notified", "done"}
           /\ reader \in AllShards \cup {None} /\ events \in 0..MaxEvents
BY InvParts, Zenon DEF PoolTypeOK

\* The connections that exist.
LEMMA ConnTypes ==
    ASSUME PoolInv
    PROVE  /\ Held \subseteq Ids /\ conn \in [Held -> Connections]
           /\ \A i \in Held : conn[i].shard \in Shards(conn[i].nr)
BY InvParts, Zenon DEF PoolTypeOK

\* The lists of connections in the pool.
LEMMA ListTypes ==
    ASSUME PoolInv
    PROVE  /\ sharder \in NodeShards \cup {0} /\ conns \in [Shards(sharder) -> SUBSET Ids]
           /\ excess \subseteq Ids
BY InvParts, Zenon DEF PoolTypeOK

\* The attempts to connect and the USE statements under way.
LEMMA AttemptTypes ==
    ASSUME PoolInv
    PROVE  /\ opening \in [Requested -> Nat]
           /\ using \in SUBSET [id : Ids, requested : Requested, keyspace : Keyspaces]
BY InvParts, Zenon DEF PoolTypeOK

\* What is published.
LEMMA SharedTypes ==
    ASSUME PoolInv
    PROVE  \/ shared \in {Initializing, Broken}
           \/ /\ shared = Ready(shared.nr, shared.conns)
              /\ shared.nr \in NodeShards \cup {0}
              /\ shared.conns \in [Shards(shared.nr) -> SUBSET Ids]
BY InvParts, Zenon DEF PoolTypeOK

\* The connections that exist are those of the lists.
LEMMA HeldByLists ==
    ASSUME UNCHANGED <<conns, excess, using, shared>>
    PROVE  Held' = Held
BY DEF Held, All

\* A step that changes neither the pooled connections nor the keyspace, and
\* connects nothing again, leaves the pooled connections on their keyspace.
LEMMA KeyspaceKept ==
    ASSUME PooledUseKeyspace, UNCHANGED <<conns, current_keyspace>>,
           \A i \in All(conns) : /\ conn'[i].up => conn[i].up
                                 /\ conn'[i].use_failed = conn[i].use_failed
                                 /\ conn'[i].keyspace = conn[i].keyspace
    PROVE  PooledUseKeyspace'
<1>1. All(conns') = All(conns)
  BY Zenon
<1> SUFFICES ASSUME NEW i \in All(conns),
                    conn'[i].up, ~conn'[i].use_failed, current_keyspace # None
             PROVE  conn'[i].keyspace = current_keyspace
  BY <1>1, Zenon DEF PooledUseKeyspace
<1> QED BY Zenon DEF PooledUseKeyspace

-----------------------------------------------------------------------------
(* The steps of the refiller *)

\* handle_ready_connection keeps the invariant, for a connection i that is
\* neither pooled nor in excess, whatever else is under way: `open` and `use` are
\* the other attempts, c the connections with i.
LEMMA HandleOpenedPoolInv ==
    ASSUME PoolInv,
           NEW i \in Ids, NEW requested \in Requested,
           NEW keyspace \in Keyspaces \cup {None},
           NEW open \in [Requested -> Nat], NEW use \in SUBSET using,
           NEW c \in [Held \cup {i} -> Connections],
           i \notin All(conns) \cup excess,
           \A u \in use : u.id # i,
           \A j \in Held \ {i} : c[j] = conn[j],
           c[i].shard \in Shards(c[i].nr),
           current_keyspace # None /\ keyspace = current_keyspace =>
               c[i].use_failed \/ c[i].keyspace = keyspace,
           HandleOpened(i, requested, keyspace, open, use, c),
           EndOfIteration(refill_scheduled, c),
           UNCHANGED <<pool_size, node, current_keyspace, reader>>,
           events' \in 0..MaxEvents
    PROVE  PoolInv'
<1> DEFINE nr == c[i].nr
           s == c[i].shard
           before == MaybeReshard(nr)
           kept == IF nr = sharder THEN excess ELSE {}
           new == [id |-> i, requested |-> requested, keyspace |-> current_keyspace]
<1>0. /\ PoolTypeOK /\ WithinLimits /\ UsingApart
      /\ Target \in Nat \ {0}
  BY TargetPositive, InvParts, Zenon
<1>1. nr \in NodeShards /\ s \in Shards(nr) /\ sharder' = nr
  BY Zenon DEF Connections, HandleOpened
<1>2. /\ before \in [Shards(nr) -> SUBSET Ids]
      /\ kept \subseteq excess
      /\ nr # sharder => IsEmpty(before)
      /\ nr = sharder => before = conns
  BY ListTypes, Zenon DEF MaybeReshard, IsEmpty
<1>3. \A t \in Shards(nr) : \A j \in before[t] :
          j \in All(conns) /\ j # i /\ c[j] = conn[j] /\ c[j].nr = nr /\ c[j].shard = t /\ j \notin excess
  <2> SUFFICES ASSUME NEW t \in Shards(nr), NEW j \in before[t]
               PROVE  j \in All(conns) /\ j # i /\ c[j] = conn[j] /\ c[j].nr = nr /\ c[j].shard = t
                      /\ j \notin excess
    BY Zenon
  <2>1. nr = sharder /\ before = conns
    BY <1>2, Zenon DEF IsEmpty
  <2>2. j \in All(conns) /\ t \in DOMAIN conns /\ j \in Ids
    BY <1>2, <2>1 DEF All
  <2>3. j # i /\ j \in Held
    BY <2>2, Zenon DEF Held
  <2>4. conn[j].nr = sharder /\ conn[j].shard = t /\ j \notin excess
    BY <1>0, <2>1, <2>2, Zenon DEF WithinLimits
  <2> QED BY <2>1, <2>2, <2>3, <2>4, Zenon
<1>4. \/ /\ NeedsKeyspace(keyspace)
         /\ using' = use \cup {new} /\ conns' = before /\ opening' = open
         /\ excess' \in {{}, kept} /\ UNCHANGED <<shared, waiter>>
      \/ /\ ~NeedsKeyspace(keyspace) /\ CanBeAccepted(before, s)
         /\ using' = use /\ conns' = [before EXCEPT ![s] = @ \cup {i}] /\ opening' = open
         /\ excess' \in {{}, kept} /\ UpdateSharedConns(nr, conns')
      \/ /\ ~NeedsKeyspace(keyspace) /\ ~CanBeAccepted(before, s)
         /\ using' = use /\ conns' = before
         /\ opening' \in {open, [open EXCEPT ![None] = @ + 1]}
         /\ \/ excess' \in {{}, kept}
            \/ excess' = kept \cup {i} /\ ~(Cardinality(kept \cup {i}) > ExcessLimit(nr))
         /\ UNCHANGED <<shared, waiter>>
  BY Zenon DEF HandleOpened, NoUpdate
<1> HIDE DEF nr, s, before, kept, new
<1>5. conns' \in [Shards(nr) -> SUBSET Ids]
  BY <1>1, <1>2, <1>4
<1>6. conns' = before \/ \A t \in Shards(nr) : conns'[t] = IF t = s THEN before[t] \cup {i} ELSE before[t]
  BY <1>1, <1>2, <1>4, Zenon
<1>7. i \in All(conns') => i \notin excess' /\ using' = use
  <2> SUFFICES ASSUME i \in All(conns') PROVE i \notin excess' /\ using' = use
    BY Zenon
  <2>1. conns' # before
    BY <1>2, <1>3 DEF All
  <2> QED BY <1>2, <1>4, <2>1, Zenon
<1>8. All(conns') \subseteq All(conns) \cup {i}
  BY <1>2, <1>3, <1>5, <1>6 DEF All
<1>9. /\ {u.id : u \in using'} \subseteq {u.id : u \in using} \cup {i}
      /\ excess' \subseteq excess \cup {i}
  BY <1>2, <1>4 DEF new
<1>10. shared' = shared \/ shared' = Broken \/ shared' = Ready(nr, conns')
  BY <1>4, Zenon DEF UpdateSharedConns
<1>11. Held' \subseteq Held \cup {i}
  <2>1. (IF shared'.kind = "ready" THEN All(shared'.conns) ELSE {})
            \subseteq (IF shared.kind = "ready" THEN All(shared.conns) ELSE {}) \cup All(conns')
    BY <1>10 DEF Broken, Ready
  <2> QED BY <1>8, <1>9, <2>1, Zenon DEF Held
<1>12. conn' \in [Held' -> Connections] /\ \A j \in Held' : conn'[j] = c[j]
  BY <1>11, Zenon DEF EndOfIteration
<1>13. PoolTypeOK'
  <2>1. Held' \subseteq Ids
    BY <1>11, ConnTypes, Zenon
  <2>2. \A j \in Held' : conn'[j].shard \in Shards(conn'[j].nr)
    <3>1. \A j \in Held : conn[j].shard \in Shards(conn[j].nr)
      BY ConnTypes, Zenon
    <3>2. \A j \in Held \cup {i} : c[j].shard \in Shards(c[j].nr)
      BY <3>1, Zenon
    <3> QED BY <1>11, <1>12, <3>2, Zenon
  <2>3. opening' \in [Requested -> Nat]
    <3>1. opening' = open \/ opening' = [open EXCEPT ![None] = @ + 1]
      BY <1>4, Zenon
    <3>2. None \in Requested
      BY ShardsOfNode, Zenon
    <3>3. [open EXCEPT ![None] = @ + 1] \in [Requested -> Nat]
      BY <3>2
    <3> QED BY <3>1, <3>3, Zenon
  <2>4. using' \in SUBSET [id : Ids, requested : Requested, keyspace : Keyspaces]
    <3>1. using \in SUBSET [id : Ids, requested : Requested, keyspace : Keyspaces]
      BY AttemptTypes, Zenon
    <3>2. NeedsKeyspace(keyspace) => new \in [id : Ids, requested : Requested, keyspace : Keyspaces]
      BY ScalarTypes, Zenon DEF NeedsKeyspace, new
    <3>3. using' = use \/ (NeedsKeyspace(keyspace) /\ using' = use \cup {new})
      BY <1>4, Zenon
    <3> QED BY <3>1, <3>2, <3>3, Zenon
  <2>5. excess' \subseteq Ids
    BY <1>9, ListTypes, Zenon
  <2>6. refill_scheduled' \in BOOLEAN
    BY ScalarTypes, Zenon DEF EndOfIteration
  <2>7. \/ shared' \in {Initializing, Broken}
        \/ /\ shared' = Ready(shared'.nr, shared'.conns)
           /\ shared'.nr \in NodeShards \cup {0}
           /\ shared'.conns \in [Shards(shared'.nr) -> SUBSET Ids]
    BY <1>1, <1>5, <1>10, SharedTypes DEF Ready
  <2>8. waiter' \in {"start", "registered", "waiting", "notified", "done"}
    <3>1. waiter' = waiter \/ waiter' = "notified"
      BY <1>4, Zenon DEF UpdateSharedConns
    <3> QED BY <3>1, ScalarTypes, Zenon
  <2>9. /\ pool_size' \in PoolSizes /\ node' \in NodeShards
        /\ current_keyspace' \in Keyspaces \cup {None} /\ reader' \in AllShards \cup {None}
    BY ScalarTypes, Zenon
  <2>10. /\ sharder' \in NodeShards \cup {0}
         /\ conns' \in [Shards(sharder') -> SUBSET Ids]
    BY <1>1, <1>5, Zenon
  <2> QED BY <1>12, <2>1, <2>2, <2>3, <2>4, <2>5, <2>6, <2>7, <2>8, <2>9, <2>10, Zenon
          DEF PoolTypeOK
<1>14. WithinLimits'
  <2>1. \A t \in Shards(nr) : \A j \in conns'[t] :
            conn'[j].nr = nr /\ conn'[j].shard = t /\ j \notin excess'
    <3> SUFFICES ASSUME NEW t \in Shards(nr), NEW j \in conns'[t]
                 PROVE  conn'[j].nr = nr /\ conn'[j].shard = t /\ j \notin excess'
      BY Zenon
    <3>1. j \in All(conns')
      BY <1>5, Zenon DEF All
    <3>2. j \in Held' /\ conn'[j] = c[j]
      BY <1>12, <3>1, Zenon DEF Held
    <3>3. CASE j = i
      <4>1. t = s
        BY <1>3, <1>6, <3>3, Zenon
      <4> QED BY <1>7, <3>1, <3>2, <3>3, <4>1, Zenon DEF nr, s
    <3>4. CASE j # i
      <4>1. j \in before[t]
        BY <1>6, <3>4, Zenon
      <4> QED BY <1>3, <1>9, <3>2, <3>4, <4>1
    <3> QED BY <3>3, <3>4, Zenon
  <2>2. \A u \in using' : u.id \notin All(conns') \cup excess'
    <3> SUFFICES ASSUME NEW u \in using' PROVE u.id \notin All(conns') \cup excess'
      BY Zenon
    <3>1. CASE u \in use
      <4>1. u.id # i /\ u.id \notin All(conns) \cup excess
        BY <1>0, <3>1, Zenon DEF WithinLimits
      <4> QED BY <1>8, <1>9, <4>1, Zenon
    <3>2. CASE u \notin use
      <4>1. u = new /\ conns' = before /\ excess' \in {{}, kept}
        BY <1>4, <3>2, Zenon
      <4>2. i \notin All(before)
        BY <1>2, <1>3 DEF All
      <4> QED BY <1>2, <4>1, <4>2, Zenon DEF new
    <3> QED BY <3>1, <3>2, Zenon
  <2>3. IF PerShard THEN \A t \in Shards(nr) : Cardinality(before[t]) <= Target
        ELSE ActiveCount(before) <= Target
    <3>1. CASE nr = sharder
      <4>1. DOMAIN conns = Shards(sharder)
        BY ListTypes, Zenon
      <4> QED BY <1>0, <1>2, <3>1, <4>1, Zenon DEF WithinLimits
    <3>2. CASE nr # sharder
      <4>1. All(before) = {} /\ \A t \in Shards(nr) : before[t] = {}
        BY <1>2, <3>2 DEF All, IsEmpty
      <4>2. Target \in Nat
        BY <1>0, Zenon
      <4> QED BY <4>1, <4>2, IdsFinite DEF ActiveCount
    <3> QED BY <3>1, <3>2, Zenon
  <2>4. IF PerShard THEN \A t \in Shards(nr) : Cardinality(conns'[t]) <= Target
        ELSE ActiveCount(conns') <= Target
    <3>1. CASE conns' = before
      BY <2>3, <3>1, Zenon
    <3>2. CASE conns' # before
      <4>1. CanBeAccepted(before, s) /\ conns' = [before EXCEPT ![s] = @ \cup {i}]
        BY <1>4, <3>2, Zenon
      <4> QED BY <1>0, <1>1, <1>2, <2>3, <4>1, AcceptedWithinTarget, Zenon
    <3> QED BY <3>1, <3>2, Zenon
  <2>5. Cardinality(excess') <= ExcessLimit(nr)
    <3>1. ExcessLimit(nr) \in Nat
      BY <1>1, ExcessLimitNat, Zenon
    <3>2. Cardinality(kept) <= ExcessLimit(nr)
      <4>1. Cardinality(excess) <= ExcessLimit(sharder) /\ Cardinality({}) = 0
        BY <1>0, IdsFinite, Zenon DEF WithinLimits
      <4> QED BY <3>1, <4>1 DEF kept
    <3>3. kept \cup {i} \in SUBSET Ids
      BY <1>2, ListTypes, Zenon
    <3>4. Cardinality(kept \cup {i}) \in Nat /\ Cardinality({}) = 0
      BY <3>3, IdsFinite, Zenon
    <3>5. CASE excess' = {}
      BY <3>1, <3>4, <3>5
    <3>6. CASE excess' = kept
      BY <3>2, <3>6, Zenon
    <3>7. CASE excess' = kept \cup {i} /\ ~(Cardinality(kept \cup {i}) > ExcessLimit(nr))
      <4>1. ~(Cardinality(excess') > ExcessLimit(nr)) /\ Cardinality(excess') \in Nat
        BY <3>4, <3>7, Zenon
      <4> QED BY <3>1, <4>1
    <3> QED BY <1>4, <3>5, <3>6, <3>7, Zenon
  <2>6. PerShard' = PerShard /\ Target' = Target /\ ActiveCount(conns)' = ActiveCount(conns')
        /\ DOMAIN conns' = Shards(nr) /\ ExcessLimit(sharder)' = ExcessLimit(nr)
    BY <1>1, <1>5, Zenon DEF PerShard, Target, ActiveCount, All, ExcessLimit
  <2> QED BY <1>1, <2>1, <2>2, <2>4, <2>5, <2>6, Zenon DEF WithinLimits, All
<1>15. RefillNotForgotten'
  <2>1. IsFull(conns)' = IsFull(conns')
    BY Zenon DEF IsFull, PerShard, Target, ActiveCount, All
  <2> QED BY <2>1, Zenon DEF EndOfIteration, RefillNotForgotten
<1>16. PooledUseKeyspace'
  <2> SUFFICES ASSUME NEW j \in All(conns'),
                      conn'[j].up, ~conn'[j].use_failed, current_keyspace # None
               PROVE  conn'[j].keyspace = current_keyspace
    BY Zenon DEF PooledUseKeyspace, All
  <2>1. j \in Held' /\ conn'[j] = c[j]
    BY <1>12, Zenon DEF Held, All
  <2>2. CASE j = i
    <3>1. conns' # before
      BY <1>2, <1>3, <2>2 DEF All
    <3>2. ~NeedsKeyspace(keyspace)
      BY <1>4, <3>1, Zenon
    <3> QED BY <2>1, <2>2, <3>2, Zenon DEF NeedsKeyspace
  <2>3. CASE j # i
    <3>1. j \in All(conns) /\ c[j] = conn[j]
      BY <1>3, <1>5, <1>6, <2>3 DEF All
    <3> QED BY <2>1, <3>1, InvParts, Zenon DEF PooledUseKeyspace
  <2> QED BY <2>2, <2>3, Zenon
<1>17. UsingApart'
  <2>1. using' \subseteq use \cup {new} /\ new.id = i
    BY <1>4, Zenon DEF new
  <2>2. \A u, v \in use : u.id = v.id => u = v
    BY <1>0, Zenon DEF UsingApart
  <2> QED BY <2>1, <2>2, Zenon DEF UsingApart
<1>18. PublishedNotEmpty'
  <2>1. shared' = shared \/ UpdateSharedConns(nr, conns')
    BY <1>4, Zenon
  <2>2. CASE shared' = shared
    BY <2>2, InvParts, Zenon DEF PublishedNotEmpty
  <2>3. CASE UpdateSharedConns(nr, conns')
    BY <2>3, Zenon DEF UpdateSharedConns, PublishedNotEmpty, Broken, Ready
  <2> QED BY <2>1, <2>2, <2>3, Zenon
<1>19. StaleOnlyWhenEmpty'
  <2>1. CASE NeedsKeyspace(keyspace)
    <3>1. using' # {} /\ conns' = before /\ shared' = shared
      BY <1>4, <2>1, Zenon
    <3>2. CASE nr = sharder
      BY <1>1, <1>2, <3>1, <3>2, InvParts, Zenon
          DEF StaleOnlyWhenEmpty, IsFilling, IsEmpty, Ready
    <3>3. CASE nr # sharder
      BY <1>2, <3>1, <3>3, Zenon DEF StaleOnlyWhenEmpty, IsFilling, IsEmpty
    <3> QED BY <3>2, <3>3, Zenon
  <2>2. CASE ~NeedsKeyspace(keyspace) /\ CanBeAccepted(before, s)
    <3>1. UpdateSharedConns(nr, conns') /\ conns' = [before EXCEPT ![s] = @ \cup {i}]
      BY <1>4, <2>2, Zenon
    <3>2. ~IsEmpty(conns')
      BY <1>1, <1>2, <3>1, Zenon DEF IsEmpty
    <3>3. shared' = Ready(nr, conns')
      BY <3>1, <3>2, Zenon DEF UpdateSharedConns
    <3> QED BY <1>1, <3>3, Zenon DEF StaleOnlyWhenEmpty, Ready
  <2>3. CASE ~NeedsKeyspace(keyspace) /\ ~CanBeAccepted(before, s)
    <3>1. conns' = before /\ shared' = shared
      BY <1>4, <2>3, Zenon
    <3>2. ~IsEmpty(before)
      <4> SUFFICES ASSUME IsEmpty(before) PROVE FALSE
        BY Zenon
      <4> QED BY <1>0, <1>1, <1>2, <2>3, EmptyAccepts, Zenon
    <3>3. nr = sharder /\ before = conns
      BY <1>2, <3>2, Zenon
    <3>4. shared = Ready(sharder, conns)
      BY <3>2, <3>3, InvParts, Zenon DEF StaleOnlyWhenEmpty
    <3> QED BY <1>1, <3>1, <3>3, <3>4, Zenon DEF StaleOnlyWhenEmpty, Ready
  <2> QED BY <2>1, <2>2, <2>3, Zenon
<1> QED BY <1>13, <1>14, <1>15, <1>16, <1>17, <1>18, <1>19, Zenon DEF PoolInv

\* A pool starts empty, with a refill scheduled.
LEMMA InitPoolInv == PoolInit => PoolInv
<1> SUFFICES ASSUME PoolInit PROVE PoolInv
  BY Zenon
<1> USE DEF PoolInit
<1>1. All(conns) = {} /\ IsEmpty(conns)
  BY Zenon DEF All, IsEmpty
<1>2. Held = {}
  BY <1>1, Zenon DEF Held, Initializing
<1>3. PoolTypeOK
  <2>1. conn \in [Held -> Connections]
    BY <1>2
  <2>2. conns \in [Shards(sharder) -> SUBSET Ids]
    BY Zenon DEF Shards
  <2>3. opening \in [Requested -> Nat]
    BY Zenon
  <2>4. reader \in AllShards \cup {None} /\ events \in 0..MaxEvents
    BY PoolAssumption
  <2> QED BY <1>2, <2>1, <2>2, <2>3, <2>4, Zenon DEF PoolTypeOK
<1>4. WithinLimits
  <2>1. ExcessLimit(sharder) \in Nat
    BY ExcessLimitNat, Zenon
  <2>2. Target \in Nat
    BY PoolAssumption, Zenon DEF Target
  <2>3. Cardinality({}) = 0
    BY IdsFinite, Zenon
  <2>4. ActiveCount(conns) = 0 /\ \A s \in DOMAIN conns : Cardinality(conns[s]) = 0
    BY <1>1, <2>3, Zenon DEF ActiveCount
  <2> QED BY <1>1, <2>1, <2>2, <2>3, <2>4 DEF WithinLimits
<1>5. RefillNotForgotten /\ PooledUseKeyspace /\ UsingApart
  BY <1>1, Zenon DEF RefillNotForgotten, PooledUseKeyspace, UsingApart
<1>6. PublishedNotEmpty /\ StaleOnlyWhenEmpty
  BY <1>1, Zenon DEF PublishedNotEmpty, StaleOnlyWhenEmpty, Initializing
<1> QED BY <1>3, <1>4, <1>5, <1>6, Zenon DEF PoolInv

\* A connection is opened and handled, or USE ends on one and it is handled again.
LEMMA OpenSucceedsPoolInv ==
    ASSUME PoolInv, NEW r \in Requested, OpenSucceeds(r)
    PROVE  PoolInv'
<1> DEFINE i == CHOOSE j \in Ids \ Held : TRUE
           open == [opening EXCEPT ![r] = @ - 1]
           C(s) == [j \in Held \cup {i} |->
                      IF j = i THEN [nr |-> node, shard |-> s, keyspace |-> None,
                                        use_failed |-> FALSE, up |-> TRUE]
                      ELSE conn[j]]
<1>1. i \in Ids \ Held
  BY Zenon DEF OpenSucceeds
<1>2. PICK s \in Assigned(r) :
          /\ HandleOpened(i, r, None, open, using, C(s))
          /\ EndOfIteration(refill_scheduled, C(s))
          /\ UNCHANGED <<pool_size, node, current_keyspace, reader, events>>
  BY Zenon DEF OpenSucceeds
<1>3. node \in NodeShards /\ s \in Shards(node) /\ s \in AllShards
  <2>1. node \in NodeShards
    BY ScalarTypes, Zenon
  <2>2. s \in Shards(node)
    BY Zenon DEF Assigned
  <2> QED BY <2>1, <2>2, ShardsOfNode, Zenon
<1>4. C(s) \in [Held \cup {i} -> Connections]
  BY <1>3, ConnTypes, Zenon DEF Connections
<1>5. open \in [Requested -> Nat]
  <2>1. opening[r] > 0
    BY Zenon DEF OpenSucceeds
  <2>2. opening \in [Requested -> Nat]
    BY AttemptTypes, Zenon
  <2> QED BY <2>1, <2>2
<1>6. i \notin All(conns) \cup excess /\ \A u \in using : u.id # i
  BY <1>1, Zenon DEF Held
<1>7. events' \in 0..MaxEvents
  BY <1>2, ScalarTypes, Zenon
<1>8. \A j \in Held \ {i} : C(s)[j] = conn[j]
  BY Zenon
<1>9. C(s)[i].shard \in Shards(C(s)[i].nr)
  BY <1>3, Zenon
<1> HIDE DEF i, open, C
<1> QED BY <1>1, <1>2, <1>4, <1>5, <1>6, <1>7, <1>8, <1>9, HandleOpenedPoolInv, Zenon

\* USE is answered, or fails, on a connection that is not pooled yet.
LEMMA SetKeyspacePoolInv ==
    ASSUME PoolInv, NEW u \in using, NEW ok \in BOOLEAN, SetKeyspace(u, ok)
    PROVE  PoolInv'
<1> DEFINE i == u.id
           c == [conn EXCEPT ![u.id].keyspace = IF ok THEN u.keyspace ELSE @,
                             ![u.id].use_failed = ~ok]
           use == using \ {u}
<1>1. /\ HandleOpened(i, u.requested, u.keyspace, opening, use, c)
      /\ EndOfIteration(refill_scheduled, c)
      /\ UNCHANGED <<pool_size, node, current_keyspace, reader>>
  BY Zenon DEF SetKeyspace
<1>2. i \in Ids /\ u.requested \in Requested /\ u.keyspace \in Keyspaces
  BY AttemptTypes, Zenon
<1>3. i \in Held
  BY Zenon DEF Held
<1>4. c \in [Held -> Connections] /\ c[i].nr = conn[i].nr /\ c[i].shard = conn[i].shard
      /\ (c[i].use_failed \/ c[i].keyspace = u.keyspace)
      /\ \A j \in Held \ {i} : c[j] = conn[j]
  <2> DEFINE d == [conn[i] EXCEPT !.keyspace = IF ok THEN u.keyspace ELSE @, !.use_failed = ~ok]
  <2>1. conn \in [Held -> Connections] /\ conn[i] \in Connections
    BY <1>3, ConnTypes, Zenon
  <2>2. d \in Connections /\ d.nr = conn[i].nr /\ d.shard = conn[i].shard
        /\ (d.use_failed \/ d.keyspace = u.keyspace)
    BY <1>2, <2>1, Zenon DEF Connections
  <2>3. c = [conn EXCEPT ![i] = d]
    BY <1>3, <2>1, Zenon
  <2> HIDE DEF d, c, i
  <2> QED BY <1>3, <2>1, <2>2, <2>3, Zenon
<1>5. c \in [Held \cup {i} -> Connections]
  <2>1. Held \cup {i} = Held
    BY <1>3, Zenon
  <2> QED BY <1>4, <2>1, Zenon
<1>6. i \notin All(conns) \cup excess /\ \A v \in use : v.id # i
  BY InvParts, Zenon DEF WithinLimits, UsingApart
<1>7. events' \in 0..MaxEvents
  <2>1. Event \/ events' = events
    BY Zenon DEF SetKeyspace
  <2> QED BY <2>1, EventsBounded, InvParts, ScalarTypes, Zenon
<1>8. opening \in [Requested -> Nat] /\ c[i].shard \in Shards(c[i].nr)
  <2>1. opening \in [Requested -> Nat] /\ conn[i].shard \in Shards(conn[i].nr)
    BY <1>3, ConnTypes, AttemptTypes, Zenon
  <2> HIDE DEF c, i
  <2> QED BY <1>4, <2>1, Zenon
<1> HIDE DEF i, c, use
<1>9. use \in SUBSET using
  BY Zenon DEF use
<1> QED BY <1>1, <1>2, <1>4, <1>5, <1>6, <1>7, <1>8, <1>9, HandleOpenedPoolInv, Zenon

\* A step that leaves the lists of connections alone, abandons no attempt and
\* forgets no refill keeps the invariant if the pooled connections use the keyspace.
LEMMA QuietPoolInv ==
    ASSUME PoolInv,
           UNCHANGED <<pool_size, sharder, conns, excess, using, shared>>,
           node' \in NodeShards,
           opening' \in [Requested -> Nat],
           \A r \in Requested : opening'[r] >= opening[r],
           refill_scheduled' \in BOOLEAN,
           refill_scheduled' \/ IsFilling' \/ IsFull(conns),
           conn' \in [Held -> Connections],
           \A i \in Held : conn'[i].nr = conn[i].nr /\ conn'[i].shard = conn[i].shard,
           current_keyspace' \in Keyspaces \cup {None},
           PooledUseKeyspace',
           waiter' \in {"start", "registered", "waiting", "notified", "done"},
           reader' \in AllShards \cup {None},
           events' \in 0..MaxEvents
    PROVE  PoolInv'
<1>1. Held' = Held
  BY DEF Held, All
<1>2. PoolTypeOK'
  <2>1. \A i \in Held : conn'[i].shard \in Shards(conn'[i].nr)
    BY ConnTypes, Zenon
  <2> QED BY <1>1, <2>1, ConnTypes, ListTypes, AttemptTypes, SharedTypes, ScalarTypes, Zenon
          DEF PoolTypeOK
<1>3. WithinLimits'
  <2>1. \A s \in DOMAIN conns, i \in Ids :
            i \in conns[s] => conn'[i].nr = sharder /\ conn'[i].shard = s /\ i \notin excess
    <3> SUFFICES ASSUME NEW s \in DOMAIN conns, NEW i \in Ids, i \in conns[s]
                 PROVE  conn'[i].nr = sharder /\ conn'[i].shard = s /\ i \notin excess
      BY Zenon
    <3>1. i \in Held
      BY Zenon DEF Held, All
    <3>2. conn[i].nr = sharder /\ conn[i].shard = s /\ i \notin excess
      BY InvParts, Zenon DEF WithinLimits
    <3> QED BY <3>1, <3>2, Zenon
  <2>2. PerShard' = PerShard /\ Target' = Target /\ ActiveCount(conns)' = ActiveCount(conns)
        /\ ExcessLimit(sharder)' = ExcessLimit(sharder) /\ All(conns)' = All(conns)
    BY Zenon DEF PerShard, Target, ActiveCount, All, ExcessLimit
  <2>3. /\ \A u \in using : u.id \notin All(conns) \cup excess
        /\ IF PerShard THEN \A s \in DOMAIN conns : Cardinality(conns[s]) <= Target
           ELSE ActiveCount(conns) <= Target
        /\ Cardinality(excess) <= ExcessLimit(sharder)
    BY InvParts, Zenon DEF WithinLimits
  <2> QED BY <2>1, <2>2, <2>3, Zenon DEF WithinLimits
<1>4. RefillNotForgotten'
  BY Zenon DEF RefillNotForgotten, IsFull, PerShard, Target, ActiveCount, All
<1>5. UsingApart' /\ PublishedNotEmpty'
  BY InvParts, Zenon DEF UsingApart, PublishedNotEmpty, IsEmpty
<1>6. IsFilling => IsFilling'
  BY AttemptTypes DEF IsFilling
<1>7. StaleOnlyWhenEmpty'
  BY <1>6, InvParts, Zenon DEF StaleOnlyWhenEmpty, IsEmpty, Ready
<1> QED BY <1>2, <1>3, <1>4, <1>5, <1>7, Zenon DEF PoolInv

\* A filling starts.
LEMMA StartFillingPoolInv ==
    ASSUME PoolInv, StartFilling
    PROVE  PoolInv'
<1>0. /\ UNCHANGED <<pool_size, node, sharder, conns, excess, using, shared, current_keyspace,
                     waiter, reader, events>>
      /\ opening' = [r \in Requested |-> opening[r] + ToOpen[r]]
      /\ EndOfIteration(FALSE, conn)
  BY Zenon DEF StartFilling, users
<1>1. opening' \in [Requested -> Nat] /\ \A r \in Requested : opening'[r] >= opening[r]
  <2>1. \A r \in Requested : ToOpen[r] \in Nat
    BY ToOpenNat, InvParts, Zenon
  <2>2. opening \in [Requested -> Nat]
    BY AttemptTypes, Zenon
  <2> QED BY <1>0, <2>1, <2>2
<1>2. Held' = Held
  BY <1>0, HeldByLists, Zenon
<1>3. conn' = conn
  BY <1>0, <1>2, ConnTypes, Zenon DEF EndOfIteration
<1>4. refill_scheduled' \in BOOLEAN /\ (refill_scheduled' \/ IsFilling' \/ IsFull(conns))
  BY <1>0, Zenon DEF EndOfIteration
<1>5. PooledUseKeyspace'
  BY <1>0, <1>3, InvParts, KeyspaceKept, Zenon
<1>6. /\ conn \in [Held -> Connections] /\ node \in NodeShards
      /\ current_keyspace \in Keyspaces \cup {None}
      /\ waiter \in {"start", "registered", "waiting", "notified", "done"}
      /\ reader \in AllShards \cup {None}
      /\ events \in 0..MaxEvents
  BY ConnTypes, ScalarTypes, Zenon
<1>7. \A i \in Held : conn'[i].nr = conn[i].nr /\ conn'[i].shard = conn[i].shard
  BY <1>3, Zenon
<1> QED BY <1>0, <1>1, <1>3, <1>4, <1>5, <1>6, <1>7, QuietPoolInv, Zenon

\* The keyspace of the session changes: USE is sent on the pooled connections.
LEMMA UseKeyspacePoolInv ==
    ASSUME PoolInv, NEW k \in Keyspaces, UseKeyspace(k)
    PROVE  PoolInv'
<1> DEFINE updated == [i \in Held |-> IF i \in All(conns)
                                      THEN [conn[i] EXCEPT !.keyspace = k, !.use_failed = FALSE]
                                      ELSE conn[i]]
<1>0. UNCHANGED <<pool_size, node, sharder, conns, excess, opening, using, shared, waiter, reader>>
      /\ current_keyspace' = k /\ Event
  BY Zenon DEF UseKeyspace, users
<1>1. Held' = Held
  BY <1>0, HeldByLists, Zenon
<1>2. conn' = updated
  BY <1>1, Zenon DEF UseKeyspace, EndOfIteration
<1>3. conn \in [Held -> Connections]
  BY ConnTypes, Zenon
<1>4. \A i \in Held : /\ conn'[i] \in Connections
                      /\ conn'[i].nr = conn[i].nr /\ conn'[i].shard = conn[i].shard
                      /\ i \in All(conns) => conn'[i].keyspace = k
  <2> SUFFICES ASSUME NEW i \in Held
               PROVE  /\ conn'[i] \in Connections
                      /\ conn'[i].nr = conn[i].nr /\ conn'[i].shard = conn[i].shard
                      /\ i \in All(conns) => conn'[i].keyspace = k
    BY Zenon
  <2>1. conn[i] \in Connections
    BY <1>3, Zenon
  <2>2. conn'[i] = IF i \in All(conns)
                   THEN [conn[i] EXCEPT !.keyspace = k, !.use_failed = FALSE] ELSE conn[i]
    BY <1>2, Zenon
  <2> QED BY <2>1, <2>2, Zenon DEF Connections
<1>5. conn' \in [Held -> Connections]
  BY <1>2, <1>4, Zenon
<1>6. PooledUseKeyspace'
  <2>1. All(conns') = All(conns) /\ current_keyspace' = k
    BY <1>0, Zenon
  <2>2. \A i \in All(conns) : conn'[i].keyspace = k
    BY <1>4, Zenon DEF Held
  <2> QED BY <2>1, <2>2, Zenon DEF PooledUseKeyspace
<1>7. refill_scheduled' \in BOOLEAN /\ (refill_scheduled' \/ IsFilling' \/ IsFull(conns))
  BY <1>0, ScalarTypes, Zenon DEF UseKeyspace, EndOfIteration
<1>8. /\ node \in NodeShards /\ opening \in [Requested -> Nat]
      /\ waiter \in {"start", "registered", "waiting", "notified", "done"}
      /\ reader \in AllShards \cup {None}
  BY ScalarTypes, AttemptTypes, Zenon
<1>9. events' \in 0..MaxEvents
  BY <1>0, EventsBounded, InvParts, Zenon
<1>10. \A r \in Requested : opening[r] >= opening[r]
  BY <1>8
<1>11. current_keyspace' \in Keyspaces \cup {None}
  BY <1>0, Zenon
<1> QED BY <1>0, <1>4, <1>5, <1>6, <1>7, <1>8, <1>9, <1>10, <1>11, QuietPoolInv, Zenon

\* A connection breaks, or all of them do when the node restarts.
LEMMA FaultPoolInv ==
    ASSUME PoolInv,
           \/ \E i \in Ids : ConnectionBreaks(i)
           \/ \E nr \in NodeShards : NodeRestarts(nr)
    PROVE  PoolInv'
<1>1. /\ UNCHANGED <<pool_size, sharder, conns, excess, opening, using, shared,
                     current_keyspace, refill_scheduled, waiter, reader>>
      /\ Event /\ node' \in NodeShards
  BY ScalarTypes, Zenon DEF ConnectionBreaks, NodeRestarts, users
<1>2. conn \in [Held -> Connections]
  BY ConnTypes, Zenon
<1>3. /\ conn' \in [Held -> Connections]
      /\ \A i \in Held : /\ conn'[i].nr = conn[i].nr /\ conn'[i].shard = conn[i].shard
                         /\ conn'[i].keyspace = conn[i].keyspace
                         /\ conn'[i].use_failed = conn[i].use_failed
                         /\ conn'[i].up => conn[i].up
  <2>1. CASE \E i \in Ids : ConnectionBreaks(i)
    <3>1. PICK i \in Held : conn' = [conn EXCEPT ![i].up = FALSE]
      BY <2>1, Zenon DEF ConnectionBreaks
    <3>2. [conn[i] EXCEPT !.up = FALSE] \in Connections
      BY <1>2, Zenon DEF Connections
    <3> QED BY <1>2, <3>1, <3>2, Zenon DEF Connections
  <2>2. CASE \E nr \in NodeShards : NodeRestarts(nr)
    <3>1. conn' = [i \in Held |-> [conn[i] EXCEPT !.up = FALSE]]
      BY <2>2, Zenon DEF NodeRestarts
    <3>2. \A i \in Held : [conn[i] EXCEPT !.up = FALSE] \in Connections
      BY <1>2, Zenon DEF Connections
    <3> QED BY <1>2, <3>1, <3>2, Zenon DEF Connections
  <2> QED BY <2>1, <2>2, Zenon
<1>4. PooledUseKeyspace'
  <2>1. \A i \in All(conns) : i \in Held
    BY Zenon DEF Held
  <2> QED BY <1>1, <1>3, <2>1, InvParts, KeyspaceKept, Zenon
<1>5. refill_scheduled' \/ IsFilling' \/ IsFull(conns)
  BY <1>1, InvParts, Zenon DEF RefillNotForgotten, IsFilling
<1>6. /\ opening \in [Requested -> Nat] /\ refill_scheduled \in BOOLEAN
      /\ current_keyspace \in Keyspaces \cup {None}
      /\ waiter \in {"start", "registered", "waiting", "notified", "done"}
      /\ reader \in AllShards \cup {None}
  BY ScalarTypes, AttemptTypes, Zenon
<1>7. events' \in 0..MaxEvents
  BY <1>1, EventsBounded, InvParts, Zenon
<1>8. \A r \in Requested : opening[r] >= opening[r]
  BY <1>6
<1> QED BY <1>1, <1>3, <1>4, <1>5, <1>6, <1>7, <1>8, QuietPoolInv, Zenon

\* The users of the pool only look at what is published.
LEMMA UserPoolInv ==
    ASSUME PoolInv,
           UNCHANGED refiller,
           waiter' \in {"start", "registered", "waiting", "notified", "done"},
           reader' \in AllShards \cup {None}
    PROVE  PoolInv'
<1>1. UNCHANGED <<pool_size, node, sharder, conns, excess, opening, using, shared, conn,
                  current_keyspace, refill_scheduled, events>>
  BY Zenon DEF refiller, pool
<1>2. PooledUseKeyspace' /\ IsFilling' = IsFilling
  <2>1. PooledUseKeyspace'
    BY <1>1, InvParts, KeyspaceKept, Zenon
  <2> QED BY <1>1, <2>1, Zenon DEF IsFilling
<1>3. /\ node \in NodeShards /\ opening \in [Requested -> Nat] /\ refill_scheduled \in BOOLEAN
      /\ conn \in [Held -> Connections] /\ current_keyspace \in Keyspaces \cup {None}
      /\ events \in 0..MaxEvents
      /\ refill_scheduled \/ IsFilling \/ IsFull(conns)
  BY InvParts, ScalarTypes, ConnTypes, AttemptTypes, Zenon DEF RefillNotForgotten
<1>4. \A r \in Requested : opening[r] >= opening[r]
  BY <1>3
<1> QED BY <1>1, <1>2, <1>3, <1>4, QuietPoolInv, Zenon

\* An attempt to connect fails: it is repeated on the regular port, or it was the
\* last one and the empty pool is published.
LEMMA OpenFailsPoolInv ==
    ASSUME PoolInv, NEW r \in Requested, OpenFails(r)
    PROVE  PoolInv'
<1>1. /\ UNCHANGED <<pool_size, node, sharder, conns, using, current_keyspace, reader>>
      /\ opening[r] > 0 /\ Event /\ EndOfIteration(refill_scheduled, conn)
      /\ excess' \in {{}, excess}
  BY Zenon DEF OpenFails
<1>2. opening' \in [Requested -> Nat] /\ (r # None => opening'[None] > 0)
  <2>1. opening \in [Requested -> Nat] /\ None \in Requested
    BY ShardsOfNode, AttemptTypes, Zenon
  <2>2. IF r # None THEN opening' = [opening EXCEPT ![r] = @ - 1, ![None] = @ + 1]
        ELSE opening' = [opening EXCEPT ![r] = @ - 1]
    BY Zenon DEF OpenFails
  <2> QED BY <1>1, <2>1, <2>2
<1>3. \/ UNCHANGED <<shared, waiter>> /\ (IsFilling' \/ ~IsEmpty(conns))
      \/ shared' = Broken /\ IsEmpty(conns)
         /\ waiter' = IF waiter \in {"registered", "waiting"} THEN "notified" ELSE waiter
  <2>1. CASE r = None /\ using = {} /\ (\A q \in Requested : opening'[q] = 0) /\ IsEmpty(conns)
    BY <2>1, Zenon DEF OpenFails, UpdateSharedConns
  <2>2. CASE ~(r = None /\ using = {} /\ (\A q \in Requested : opening'[q] = 0) /\ IsEmpty(conns))
    <3>1. UNCHANGED <<shared, waiter>>
      BY <2>2, Zenon DEF OpenFails, NoUpdate
    <3>2. IsFilling' \/ ~IsEmpty(conns)
      <4>1. using' = using /\ opening' \in [Requested -> Nat] /\ None \in Requested
            /\ (r # None => opening'[None] > 0)
        BY <1>1, <1>2, ShardsOfNode, Zenon
      <4> QED BY <2>2, <4>1 DEF IsFilling
    <3> QED BY <3>1, <3>2, Zenon
  <2> QED BY <2>1, <2>2, Zenon
<1>4. Held' \subseteq Held
  BY <1>1, <1>3 DEF Held, All, Broken
<1>5. conn' \in [Held' -> Connections] /\ \A i \in Held' : conn'[i] = conn[i]
  <2>1. conn' = [i \in Held' |-> conn[i]]
    BY <1>1, Zenon DEF EndOfIteration
  <2>2. conn \in [Held -> Connections]
    BY ConnTypes, Zenon
  <2> QED BY <1>4, <2>1, <2>2, Zenon
<1>6. PoolTypeOK'
  <2>1. refill_scheduled' \in BOOLEAN
    BY <1>1, ScalarTypes, Zenon DEF EndOfIteration
  <2>2. events' \in 0..MaxEvents
    BY <1>1, EventsBounded, InvParts, Zenon
  <2>3. waiter' \in {"start", "registered", "waiting", "notified", "done"}
    BY <1>3, ScalarTypes, Zenon
  <2>4. Held' \subseteq Ids /\ \A i \in Held' : conn'[i].shard \in Shards(conn'[i].nr)
    BY <1>4, <1>5, ConnTypes, Zenon
  <2>5. \/ shared' \in {Initializing, Broken}
        \/ /\ shared' = Ready(shared'.nr, shared'.conns)
           /\ shared'.nr \in NodeShards \cup {0}
           /\ shared'.conns \in [Shards(shared'.nr) -> SUBSET Ids]
    BY <1>3, SharedTypes, Zenon
  <2>6. excess' \subseteq Ids
    BY <1>1, ListTypes, Zenon
  <2> QED BY <1>1, <1>2, <1>5, <2>1, <2>2, <2>3, <2>4, <2>5, <2>6, ListTypes, AttemptTypes,
             ScalarTypes, Zenon DEF PoolTypeOK
<1>7. WithinLimits'
  <2>1. \A s \in DOMAIN conns, i \in Ids :
            i \in conns[s] => conn'[i].nr = sharder /\ conn'[i].shard = s /\ i \notin excess'
    <3> SUFFICES ASSUME NEW s \in DOMAIN conns, NEW i \in Ids, i \in conns[s]
                 PROVE  conn'[i].nr = sharder /\ conn'[i].shard = s /\ i \notin excess'
      BY Zenon
    <3>1. i \in Held'
      BY <1>1, Zenon DEF Held, All
    <3>2. conn[i].nr = sharder /\ conn[i].shard = s /\ i \notin excess
      BY InvParts, Zenon DEF WithinLimits
    <3> QED BY <1>1, <1>5, <3>1, <3>2, Zenon
  <2>2. PerShard' = PerShard /\ Target' = Target /\ ActiveCount(conns)' = ActiveCount(conns)
        /\ ExcessLimit(sharder)' = ExcessLimit(sharder) /\ All(conns)' = All(conns)
    BY <1>1, Zenon DEF PerShard, Target, ActiveCount, All, ExcessLimit
  <2>3. Cardinality(excess') <= ExcessLimit(sharder)
    <3>1. ExcessLimit(sharder) \in Nat /\ Cardinality(excess) <= ExcessLimit(sharder)
      BY ExcessLimitNat, InvParts, ListTypes, Zenon DEF WithinLimits
    <3> QED BY <1>1, <3>1, IdsFinite
  <2>4. \A u \in using : u.id \notin All(conns) \cup excess'
    BY <1>1, InvParts, Zenon DEF WithinLimits
  <2>5. IF PerShard THEN \A s \in DOMAIN conns : Cardinality(conns[s]) <= Target
        ELSE ActiveCount(conns) <= Target
    BY InvParts, Zenon DEF WithinLimits
  <2> QED BY <1>1, <2>1, <2>2, <2>3, <2>4, <2>5, Zenon DEF WithinLimits
<1>8. RefillNotForgotten'
  BY <1>1, Zenon DEF EndOfIteration, RefillNotForgotten, IsFull, PerShard, Target, ActiveCount, All
<1>9. PooledUseKeyspace'
  <2>1. \A i \in All(conns) : i \in Held'
    BY <1>1, Zenon DEF Held, All
  <2>2. \A i \in All(conns) : conn'[i] = conn[i]
    BY <1>5, <2>1, Zenon
  <2> QED BY <1>1, <2>2, InvParts, KeyspaceKept, Zenon
<1>10. UsingApart' /\ PublishedNotEmpty' /\ StaleOnlyWhenEmpty'
  BY <1>1, <1>3, InvParts
      DEF UsingApart, PublishedNotEmpty, StaleOnlyWhenEmpty, IsEmpty, Broken, Ready
<1> QED BY <1>6, <1>7, <1>8, <1>9, <1>10, Zenon DEF PoolInv

\* The error of a connection is received: it leaves the pool, and what is left is
\* published if it was pooled.
LEMMA RemoveConnectionPoolInv ==
    ASSUME PoolInv, NEW i \in Ids, RemoveConnection(i)
    PROVE  PoolInv'
<1>1. /\ UNCHANGED <<pool_size, node, sharder, opening, using, current_keyspace, reader, events>>
      /\ conns' = [s \in DOMAIN conns |-> conns[s] \ {i}] /\ excess' = excess \ {i}
      /\ EndOfIteration(refill_scheduled, conn)
  BY Zenon DEF RemoveConnection
<1>2. conns \in [Shards(sharder) -> SUBSET Ids]
  BY ListTypes, Zenon
<1>3. conns' \in [Shards(sharder) -> SUBSET Ids]
      /\ \A s \in Shards(sharder) : conns'[s] = conns[s] \ {i}
  BY <1>1, <1>2, Zenon
<1>4. All(conns') \subseteq All(conns)
  BY <1>2, <1>3 DEF All
<1>5. \/ i \in All(conns) /\ shared' = IF IsEmpty(conns') THEN Broken ELSE Ready(sharder, conns')
      \/ i \notin All(conns) /\ shared' = shared
  BY Zenon DEF RemoveConnection, UpdateSharedConns, NoUpdate
<1>6. Held' \subseteq Held
  <2>1. (IF shared'.kind = "ready" THEN All(shared'.conns) ELSE {})
            \subseteq (IF shared.kind = "ready" THEN All(shared.conns) ELSE {}) \cup All(conns')
    BY <1>5 DEF Broken, Ready
  <2> QED BY <1>1, <1>4, <2>1, Zenon DEF Held
<1>7. conn' \in [Held' -> Connections] /\ \A j \in Held' : conn'[j] = conn[j]
  <2>1. conn' = [j \in Held' |-> conn[j]]
    BY <1>1, Zenon DEF EndOfIteration
  <2>2. conn \in [Held -> Connections]
    BY ConnTypes, Zenon
  <2> QED BY <1>6, <2>1, <2>2, Zenon
<1>8. PoolTypeOK'
  <2>1. refill_scheduled' \in BOOLEAN
    BY <1>1, ScalarTypes, Zenon DEF EndOfIteration
  <2>2. waiter' \in {"start", "registered", "waiting", "notified", "done"}
    <3>1. waiter' = waiter \/ waiter' = "notified"
      BY Zenon DEF RemoveConnection, UpdateSharedConns, NoUpdate
    <3> QED BY <3>1, ScalarTypes, Zenon
  <2>3. Held' \subseteq Ids /\ \A j \in Held' : conn'[j].shard \in Shards(conn'[j].nr)
    BY <1>6, <1>7, ConnTypes, Zenon
  <2>4. \/ shared' \in {Initializing, Broken}
        \/ /\ shared' = Ready(shared'.nr, shared'.conns)
           /\ shared'.nr \in NodeShards \cup {0}
           /\ shared'.conns \in [Shards(shared'.nr) -> SUBSET Ids]
    BY <1>3, <1>5, ListTypes, SharedTypes DEF Ready
  <2>5. excess' \subseteq Ids
    BY <1>1, ListTypes, Zenon
  <2> QED BY <1>1, <1>3, <1>7, <2>1, <2>2, <2>3, <2>4, <2>5, ListTypes, AttemptTypes,
             ScalarTypes, Zenon DEF PoolTypeOK
<1>9. WithinLimits'
  <2>1. \A s \in Shards(sharder) : \A j \in conns'[s] :
            conn'[j].nr = sharder /\ conn'[j].shard = s /\ j \notin excess'
    <3> SUFFICES ASSUME NEW s \in Shards(sharder), NEW j \in conns'[s]
                 PROVE  conn'[j].nr = sharder /\ conn'[j].shard = s /\ j \notin excess'
      BY Zenon
    <3>1. j \in conns[s] /\ j \in Ids
      BY <1>2, <1>3, Zenon
    <3>2. j \in Held'
      BY <1>3, Zenon DEF Held, All
    <3>3. conn[j].nr = sharder /\ conn[j].shard = s /\ j \notin excess
      BY <1>2, <3>1, InvParts, Zenon DEF WithinLimits
    <3> QED BY <1>1, <1>7, <3>2, <3>3, Zenon
  <2>2. \A u \in using' : u.id \notin All(conns') \cup excess'
    BY <1>1, <1>4, InvParts, Zenon DEF WithinLimits
  <2>3. IF PerShard THEN \A s \in Shards(sharder) : Cardinality(conns'[s]) <= Target
        ELSE ActiveCount(conns') <= Target
    <3>1. Target \in Nat
      BY TargetPositive, InvParts, Zenon
    <3>2. \A s \in Shards(sharder) : Cardinality(conns'[s]) <= Cardinality(conns[s])
          /\ Cardinality(conns[s]) \in Nat /\ Cardinality(conns'[s]) \in Nat
      BY <1>2, <1>3, IdsFinite, Zenon
    <3>3. All(conns) \in SUBSET Ids
      BY <1>2, Zenon DEF All
    <3>4. /\ Cardinality(All(conns')) <= Cardinality(All(conns))
          /\ Cardinality(All(conns)) \in Nat /\ Cardinality(All(conns')) \in Nat
      BY <1>4, <3>3, IdsFinite, Zenon
    <3>5. CASE PerShard
      <4>1. \A s \in Shards(sharder) : Cardinality(conns[s]) <= Target
        BY <1>2, <3>5, InvParts, Zenon DEF WithinLimits
      <4> QED BY <3>1, <3>2, <3>5, <4>1
    <3>6. CASE ~PerShard
      <4>1. Cardinality(All(conns)) <= Target
        BY <3>6, InvParts, Zenon DEF WithinLimits, ActiveCount
      <4> QED BY <3>1, <3>4, <3>6, <4>1 DEF ActiveCount
    <3> QED BY <3>5, <3>6, Zenon
  <2>4. Cardinality(excess') <= ExcessLimit(sharder)
    <3>1. ExcessLimit(sharder) \in Nat /\ Cardinality(excess) <= ExcessLimit(sharder)
      BY ExcessLimitNat, InvParts, ListTypes, Zenon DEF WithinLimits
    <3>2. /\ Cardinality(excess') <= Cardinality(excess)
          /\ Cardinality(excess) \in Nat /\ Cardinality(excess') \in Nat
      BY <1>1, IdsFinite, ListTypes, Zenon
    <3> QED BY <3>1, <3>2
  <2>5. PerShard' = PerShard /\ Target' = Target /\ ActiveCount(conns)' = ActiveCount(conns')
        /\ DOMAIN conns' = Shards(sharder) /\ ExcessLimit(sharder)' = ExcessLimit(sharder)
    BY <1>1, <1>2, Zenon DEF PerShard, Target, ActiveCount, All, ExcessLimit
  <2> QED BY <1>1, <2>1, <2>2, <2>3, <2>4, <2>5 DEF WithinLimits, All
<1>10. RefillNotForgotten'
  <2>1. IsFull(conns)' = IsFull(conns')
    BY <1>1, Zenon DEF IsFull, PerShard, Target, ActiveCount, All
  <2> QED BY <1>1, <2>1, Zenon DEF EndOfIteration, RefillNotForgotten
<1>11. PooledUseKeyspace'
  <2> SUFFICES ASSUME NEW j \in All(conns'),
                      conn'[j].up, ~conn'[j].use_failed, current_keyspace # None
               PROVE  conn'[j].keyspace = current_keyspace
    BY <1>1, Zenon DEF PooledUseKeyspace, All
  <2>1. j \in Held' /\ j \in All(conns)
    BY <1>4, Zenon DEF Held, All
  <2> QED BY <1>7, <2>1, InvParts, Zenon DEF PooledUseKeyspace
<1>12. UsingApart' /\ PublishedNotEmpty'
  BY <1>1, <1>5, InvParts DEF UsingApart, PublishedNotEmpty, IsEmpty, Broken, Ready
<1>13. StaleOnlyWhenEmpty'
  <2>1. CASE i \in All(conns)
    <3>1. shared' = IF IsEmpty(conns') THEN Broken ELSE Ready(sharder, conns')
      BY <1>5, <2>1, Zenon
    <3> QED BY <1>1, <3>1, Zenon DEF StaleOnlyWhenEmpty, IsEmpty, Ready
  <2>2. CASE i \notin All(conns)
    <3>1. conns' = conns
      <4>1. \A s \in Shards(sharder) : conns[s] \ {i} = conns[s]
        BY <1>2, <2>2, Zenon DEF All
      <4>2. conns' = [s \in Shards(sharder) |-> conns[s]]
        BY <1>1, <1>2, <4>1, Zenon
      <4> QED BY <1>2, <4>2, Zenon
    <3> QED BY <1>1, <1>5, <2>2, <3>1, InvParts, Zenon
            DEF StaleOnlyWhenEmpty, IsEmpty, IsFilling, Ready
  <2> QED BY <2>1, <2>2, Zenon
<1> QED BY <1>8, <1>9, <1>10, <1>11, <1>12, <1>13, Zenon DEF PoolInv

\* Every step of the pool, of its node and of its users keeps the invariant.
LEMMA NextPoolInv == PoolInv /\ [PoolNext]_poolVars => PoolInv'
<1> SUFFICES ASSUME PoolInv, [PoolNext]_poolVars PROVE PoolInv'
  BY Zenon
<1>1. CASE StartFilling
  BY <1>1, StartFillingPoolInv, Zenon
<1>2. ASSUME NEW r \in Requested, OpenFails(r) \/ OpenSucceeds(r) PROVE PoolInv'
  BY <1>2, OpenFailsPoolInv, OpenSucceedsPoolInv, Zenon
<1>3. ASSUME NEW u \in using, SetKeyspace(u, TRUE) \/ SetKeyspace(u, FALSE) PROVE PoolInv'
  BY <1>3, SetKeyspacePoolInv, Zenon
<1>4. ASSUME NEW i \in Ids, RemoveConnection(i) PROVE PoolInv'
  BY <1>4, RemoveConnectionPoolInv, Zenon
<1>5. CASE \/ \E i \in Ids : ConnectionBreaks(i)
           \/ \E nr \in NodeShards : NodeRestarts(nr)
  BY <1>5, FaultPoolInv, Zenon
<1>6. ASSUME NEW k \in Keyspaces, UseKeyspace(k) PROVE PoolInv'
  BY <1>6, UseKeyspacePoolInv, Zenon
<1>7. CASE WaitRegister \/ WaitCheck \/ WaitDone \/ PickShard \/ UNCHANGED poolVars
  <2>1. UNCHANGED refiller
    BY <1>7, Zenon DEF WaitRegister, WaitCheck, WaitDone, PickShard, poolVars, refiller
  <2>2. waiter' \in {"start", "registered", "waiting", "notified", "done"}
    <3>1. waiter' \in {waiter, "registered", "waiting", "done"}
      BY <1>7, Zenon DEF WaitRegister, WaitCheck, WaitDone, PickShard, poolVars, users
    <3> QED BY <3>1, ScalarTypes, Zenon
  <2>3. reader' \in AllShards \cup {None}
    <3>1. CASE PickShard
      <4>1. shared.kind = "ready" /\ reader' \in Shards(shared.nr)
        BY <3>1, Zenon DEF PickShard
      <4>2. shared = Ready(shared.nr, shared.conns) /\ shared.nr \in NodeShards \cup {0}
        BY <4>1, SharedTypes DEF Initializing, Broken
      <4> QED BY <4>1, <4>2, ShardsOfNode, Zenon
    <3>2. CASE ~PickShard
      <4>1. reader' = reader
        BY <1>7, <3>2, Zenon DEF WaitRegister, WaitCheck, WaitDone, poolVars, users
      <4> QED BY <4>1, ScalarTypes, Zenon
    <3> QED BY <3>1, <3>2, Zenon
  <2> QED BY <2>1, <2>2, <2>3, UserPoolInv, Zenon
<1> QED BY <1>1, <1>2, <1>3, <1>4, <1>5, <1>6, <1>7, Zenon DEF PoolNext

-----------------------------------------------------------------------------

\* The inductive invariant holds in every behaviour of the pool.
THEOREM PoolInvariance == PoolSpec => []PoolInv
BY InitPoolInv, NextPoolInv, PTL DEF PoolSpec

\* Buckets, targets and excess connections stay within their limits, and no
\* connection is in two places, whatever order the attempts to connect, USE, the
\* errors and the changes of the number of shards come in (PoolRefiller::run).
THEOREM PoolWithinLimits == PoolSpec => []WithinLimits
<1>1. PoolInv => WithinLimits
  BY Zenon DEF PoolInv
<1> QED BY <1>1, PoolInvariance, PTL

\* The unreachable!() of connection_for_shard_helper is not reached for a shard of
\* the sharder that was published with the list: whatever the list, the search
\* finds a connection without leaving its bounds.
THEOREM ReadyPoolServesItsShards == PoolSpec => []ReadyIsUsable
<1>1. PoolInv => ReadyIsUsable
  <2> SUFFICES ASSUME PoolInv, shared.kind = "ready",
                      NEW s \in Shards(shared.nr)
               PROVE  /\ DOMAIN shared.conns = Shards(shared.nr)
                      /\ ConnectionForShard(s) # {} /\ ~MayPanic(s)
    <3>1. PoolInv /\ shared.kind = "ready" => Shards(shared.nr) # {}
      BY ShardsOfNode, SharedTypes DEF Initializing, Broken
    <3> QED BY <3>1, Zenon DEF ReadyIsUsable
  <2>1. /\ shared.nr \in Nat
        /\ shared.conns \in [Shards(shared.nr) -> SUBSET Ids]
    <3>1. /\ shared.nr \in NodeShards \cup {0}
          /\ shared.conns \in [Shards(shared.nr) -> SUBSET Ids]
      BY SharedTypes DEF Initializing, Broken
    <3>2. NodeShards \cup {0} \subseteq Nat
      BY PoolAssumption
    <3> QED BY <3>1, <3>2, Zenon
  <2>2. PICK t \in Shards(shared.nr) : shared.conns[t] # {}
    BY <2>1, InvParts, Zenon DEF PublishedNotEmpty, IsEmpty
  <2>3. CASE shared.nr = 0
    BY <2>1, <2>2, <2>3, Zenon DEF ConnectionForShard, MayPanic, ServedDirectly, Shards
  <2>4. CASE shared.nr # 0
    <3>1. Shards(shared.nr) = 0..(shared.nr - 1)
      BY <2>4, Zenon DEF Shards
    <3>2. CASE shared.conns[s] # {}
      BY <2>1, <2>4, <3>2, Zenon DEF ConnectionForShard, MayPanic, ServedDirectly
    <3>3. CASE shared.conns[s] = {}
      <4>1. Tried(s) = Shards(shared.nr) \ {s}
        BY <2>1, <3>1 DEF Tried
      <4>2. t \in Tried(s) \cap DOMAIN shared.conns
        BY <2>1, <2>2, <3>3, <4>1, Zenon
      <4> QED BY <2>1, <2>2, <2>4, <3>3, <4>1, <4>2
              DEF ConnectionForShard, MayPanic, ServedDirectly
    <3> QED BY <2>1, <3>2, <3>3, Zenon
  <2> QED BY <2>1, <2>3, <2>4, Zenon
<1> QED BY <1>1, PoolInvariance, PTL

\* At the end of every iteration of the loop, a pool that is not full is being
\* filled or has a refill scheduled.
THEOREM PoolRefillNotForgotten == PoolSpec => []RefillNotForgotten
<1>1. PoolInv => RefillNotForgotten
  BY Zenon DEF PoolInv
<1> QED BY <1>1, PoolInvariance, PTL

\* When nothing is under way, users see the connections that the pool has: a
\* change of sharder may leave the list of the former one behind only until the
\* connection that brought it is accepted or lost.
THEOREM PublishedListUpToDate == PoolSpec => []SharedUpToDate
<1>1. PoolInv => SharedUpToDate
  <2> SUFFICES ASSUME PoolInv, ~IsFilling, shared # Initializing
               PROVE  shared = IF IsEmpty(conns) THEN Broken ELSE Ready(sharder, conns)
    BY Zenon DEF SharedUpToDate
  <2>1. CASE shared = Ready(sharder, conns)
    <3>1. ~IsEmpty(conns)
      BY <2>1, InvParts, Zenon DEF PublishedNotEmpty, Ready
    <3> QED BY <2>1, <3>1, Zenon
  <2>2. CASE shared # Ready(sharder, conns)
    BY <2>2, InvParts, Zenon DEF StaleOnlyWhenEmpty
  <2> QED BY <2>1, <2>2, Zenon
<1> QED BY <1>1, PoolInvariance, PTL

\* A connection that USE succeeded on is pooled with the keyspace that is current,
\* although the keyspace may change while USE is in flight.
THEOREM PooledConnectionsUseKeyspace == PoolSpec => []PooledUseKeyspace
<1>1. PoolInv => PooledUseKeyspace
  BY Zenon DEF PoolInv
<1> QED BY <1>1, PoolInvariance, PTL

=============================================================================
