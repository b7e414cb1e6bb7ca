---------------------------- MODULE TabletsProofs ----------------------------
(***************************************************************************)
(* The tablet information of a ClusterState is sound and implements the    *)
(* plain map of TabletMap, for any number of hosts, tables, tokens and     *)
(* refreshes.  First, what the algorithms on the sorted list of a table    *)
(* do: the binary searches of add_tablet delimit exactly the tablets that  *)
(* overlap the new one, the one of tablet_for_token finds the owner of a   *)
(* token, and the retain calls of perform_maintenance keep the tablets     *)
(* they should, in their order.  Then, what from_raw_tablet,               *)
(* re_resolve_replicas and update_stale_nodes leave refers to current Node *)
(* objects; together they make the inductive invariant TabletsInv, from    *)
(* which the two last theorems follow.                                     *)
(***************************************************************************)
EXTENDS Tablets, TLAPS, WellFoundedInduction, FiniteSetTheorems

\* partition_point returns the length of the longest prefix inside S.
LEMMA PartitionPointPrefix ==
    ASSUME NEW n \in Nat, NEW S \in SUBSET (1..n)
    PROVE  /\ PartitionPoint(n, S) \in 0..n
           /\ PartitionPoint(n, S) + 1 \notin S
           /\ \A j \in 1..PartitionPoint(n, S) : j \in S
<1> DEFINE T == {i \in 0..n : i + 1 \notin S}
<1>1. T \subseteq Nat /\ n \in T
  OBVIOUS
<1>2. PICK m \in T : \A k \in T : <<k, m>> \notin OpToRel(<, Nat)
  BY <1>1, WFMin, NatLessThanWellFounded, Zenon
<1>3. \A k \in T : ~(k < m)
  BY <1>1, <1>2, Zenon DEF OpToRel
<1>4. \A j \in 1..m : j \in S
  <2> SUFFICES ASSUME NEW j \in 1..m, j \notin S PROVE FALSE
    BY Zenon
  <2>1. j - 1 \in T /\ j - 1 < m
    OBVIOUS
  <2> QED BY <1>3, <2>1, Zenon
<1>5. m \in 0..n /\ m + 1 \notin S
  BY Zenon
<1> QED BY <1>4, <1>5, Zenon DEF PartitionPoint

\* The ends of a tablet are integers.
LEMMA TokensAreIntegers ==
    ASSUME NEW list \in Seq(TabletRecords), NEW i \in 1..Len(list)
    PROVE  list[i].first_token \in Int /\ list[i].last_token \in Int
<1>1. list[i] \in TabletRecords
  OBVIOUS
<1>2. list[i].first_token \in Token /\ list[i].last_token \in Token
  BY <1>1, Zenon DEF TabletRecords
<1> QED BY <1>2, TabletsAssumption DEF Token

\* In a list without overlaps, the tablet found by the binary search of
\* tablet_for_token is the one that contains the token, if there is one.
THEOREM LookupCorrect ==
    ASSUME NEW list \in Seq(TabletRecords), Disjoint(list), NEW token \in Token
    PROVE  TabletForToken(list, token) = Owners(list, token)
<1> DEFINE n == Len(list)
           S == {i \in 1..n : list[i].last_token < token}
           idx == PartitionPoint(n, S)
<1>0. \A i \in 1..n : list[i].first_token \in Int /\ list[i].last_token \in Int
  BY TokensAreIntegers, Zenon
<1>1. n \in Nat /\ token \in Int
  BY TabletsAssumption DEF Token
<1>2. idx \in 0..n /\ idx + 1 \notin S /\ \A j \in 1..idx : j \in S
  BY <1>1, PartitionPointPrefix, Zenon
<1> HIDE DEF idx
<1>3. ASSUME NEW i \in 1..n, list[i].first_token <= token, token <= list[i].last_token
      PROVE  i = idx + 1
  <2>1. ~(i \in 1..idx)
    BY <1>0, <1>1, <1>2, <1>3
  <2>2. idx + 1 \in 1..n
    BY <1>1, <1>2, <2>1
  <2>3. ~(idx + 1 < i)
    <3> SUFFICES ASSUME idx + 1 < i PROVE FALSE
      BY Zenon
    <3>1. list[idx + 1].last_token < list[i].first_token
      BY <2>2, Zenon DEF Disjoint
    <3> QED BY <1>0, <1>1, <1>2, <1>3, <2>2, <3>1
  <2> QED BY <1>1, <1>2, <2>1, <2>3
<1>4. CASE idx < n /\ list[idx + 1].first_token <= token
  <2>1. idx + 1 \in 1..n /\ token <= list[idx + 1].last_token
    BY <1>0, <1>1, <1>2, <1>4
  <2>2. Owners(list, token) = {list[idx + 1]}
    BY <1>3, <1>4, <2>1, Zenon DEF Owners
  <2> QED BY <1>4, <2>2, Zenon DEF TabletForToken, idx
<1>5. CASE ~(idx < n /\ list[idx + 1].first_token <= token)
  <2>1. Owners(list, token) = {}
    BY <1>1, <1>2, <1>3, <1>5 DEF Owners
  <2> QED BY <1>5, <2>1, Zenon DEF TabletForToken, idx
<1> QED BY <1>4, <1>5, Zenon

\* Hence lookups are correct in every state whose lists have no overlaps.
THEOREM LookupInvariant == TypeOK /\ TabletsDisjoint => LookupFindsOwner
<1> SUFFICES ASSUME TypeOK, TabletsDisjoint, NEW b \in DOMAIN tablets, NEW token \in Token
             PROVE  TabletForToken(tablets[b].tablet_list, token)
                       = Owners(tablets[b].tablet_list, token)
  BY Zenon DEF LookupFindsOwner
<1>1. tablets[b].tablet_list \in Seq(TabletRecords)
  BY Zenon DEF TypeOK
<1>2. Disjoint(tablets[b].tablet_list)
  BY Zenon DEF TabletsDisjoint
<1> QED BY <1>1, <1>2, LookupCorrect, Zenon

\* The elements of a concatenation.
LEMMA Concatenation ==
    ASSUME NEW S, NEW a \in Seq(S), NEW b \in Seq(S)
    PROVE  /\ Len(a \o b) = Len(a) + Len(b)
           /\ \A i \in 1..Len(a) : (a \o b)[i] = a[i]
           /\ \A i \in (Len(a) + 1)..(Len(a) + Len(b)) : (a \o b)[i] = b[i - Len(a)]
OBVIOUS

\* The tablets of a list.
Elements(list) == {list[i] : i \in 1..Len(list)}

\* The positions behind the tablets that add_tablet drains move by one less than
\* their number.
LEMMA PositionsMove ==
    ASSUME NEW n \in Nat, NEW left \in 0..n, NEW right \in 0..n, left <= right
    PROVE  /\ \A i \in (right + 1)..n :
                 /\ i + (left + 1 - right) \in (left + 2)..(left + 1 + (n - right))
                 /\ i + (left + 1 - right) - (left + 1 - right) = i
           /\ \A j \in (left + 2)..(left + 1 + (n - right)) :
                 /\ j - (left + 1 - right) \in 1..n
                 /\ j - (left + 1 - right) \in (right + 1)..n
                 /\ \A i \in 1..left : i < j - (left + 1 - right)
                 /\ \A i \in (left + 2)..(left + 1 + (n - right)) :
                       i < j => i - (left + 1 - right) < j - (left + 1 - right)
OBVIOUS

\* add_tablet removes exactly the tablets that share a token with the new one,
\* adds the new one, and leaves a sorted list without overlaps.
THEOREM InsertCorrect ==
    ASSUME NEW list \in Seq(TabletRecords), Disjoint(list),
           NEW t \in TabletRecords, t.first_token <= t.last_token
    PROVE  /\ Disjoint(InsertTablet(list, t))
           /\ Elements(InsertTablet(list, t)) =
                 {u \in Elements(list) : u.last_token < t.first_token
                                         \/ t.last_token < u.first_token} \cup {t}
<1> DEFINE n == Len(list)
           L == {i \in 1..n : list[i].last_token < t.first_token}
           R == {i \in 1..n : list[i].first_token <= t.last_token}
           left == PartitionPoint(n, L)
           right == PartitionPoint(n, R)
           new == InsertTablet(list, t)
           k == left + 1 - right
<1>1. \A i \in 1..n : list[i].first_token \in Int /\ list[i].last_token \in Int
  BY TokensAreIntegers, Zenon
<1>2. n \in Nat /\ t.first_token \in Int /\ t.last_token \in Int
  <2>1. t.first_token \in Token /\ t.last_token \in Token
    BY Zenon DEF TabletRecords
  <2> QED BY <2>1, TabletsAssumption DEF Token
<1>3. left \in 0..n /\ left + 1 \notin L /\ \A j \in 1..left : j \in L
  BY <1>2, PartitionPointPrefix, Zenon
<1>4. right \in 0..n /\ right + 1 \notin R /\ \A j \in 1..right : j \in R
  BY <1>2, PartitionPointPrefix, Zenon
<1>5. new = SubSeq(list, 1, left) \o <<t>> \o SubSeq(list, right + 1, n)
  BY Zenon DEF InsertTablet
<1> HIDE DEF left, right, new
<1>6. left <= right
  <2> SUFFICES ASSUME right < left PROVE FALSE
    BY <1>3, <1>4
  <2>1. right + 1 \in 1..left
    BY <1>3, <1>4
  <2>2. right + 1 \in R
    <3>1. PICK j \in 1..left : j = right + 1
      BY <2>1, Zenon
    <3>2. j \in 1..n /\ list[j].last_token < t.first_token
      BY <1>3, Zenon
    <3>3. list[j].first_token <= list[j].last_token
      BY <3>2, Zenon DEF Disjoint
    <3>4. list[j].first_token \in Int /\ list[j].last_token \in Int
      BY <1>1, <3>2, Zenon
    <3>5. list[j].first_token <= t.last_token
      BY <1>2, <3>2, <3>3, <3>4
    <3> QED BY <3>1, <3>2, <3>5, Zenon
  <2> QED BY <1>4, <2>2, Zenon
<1>7. /\ Len(new) = left + 1 + (n - right)
      /\ \A i \in 1..left : new[i] = list[i]
      /\ new[left + 1] = t
      /\ \A i \in (left + 2)..Len(new) : new[i] = list[i - k] /\ i - k \in (right + 1)..n
  <2> DEFINE A == SubSeq(list, 1, left)
             B == SubSeq(list, right + 1, n)
             At == A \o <<t>>
  <2>1. /\ A \in Seq(TabletRecords) /\ Len(A) = left
        /\ \A i \in 1..left : A[i] = list[i]
    BY <1>2, <1>3
  <2>2. /\ B \in Seq(TabletRecords) /\ Len(B) = n - right
        /\ \A i \in 1..(n - right) : B[i] = list[i + right]
    BY <1>2, <1>4
  <2> HIDE DEF A, B
  <2>3. /\ At \in Seq(TabletRecords) /\ Len(At) = left + 1
        /\ \A i \in 1..left : At[i] = list[i]
        /\ At[left + 1] = t
    BY <1>3, <2>1
  <2>4. new = At \o B
    BY <1>5, Zenon DEF A, B
  <2> HIDE DEF At
  <2>5. n \in Int /\ left \in Int /\ right \in Int /\ left >= 0 /\ right >= 0 /\ right <= n
    BY <1>2, <1>3, <1>4
  <2>6. /\ Len(new) = left + 1 + (n - right)
        /\ \A i \in 1..(left + 1) : new[i] = At[i]
        /\ \A i \in (left + 2)..Len(new) : new[i] = B[i - (left + 1)]
    <3>3. At \in Seq(TabletRecords) /\ B \in Seq(TabletRecords)
      BY <2>2, <2>3, Zenon
    <3>4. /\ Len(At \o B) = Len(At) + Len(B)
          /\ \A i \in 1..Len(At) : (At \o B)[i] = At[i]
          /\ \A i \in (Len(At) + 1)..(Len(At) + Len(B)) : (At \o B)[i] = B[i - Len(At)]
      BY ONLY <3>3, Concatenation, Zenon
    <3>1. /\ Len(new) = Len(At) + Len(B)
          /\ \A i \in 1..Len(At) : new[i] = At[i]
          /\ \A i \in (Len(At) + 1)..(Len(At) + Len(B)) : new[i] = B[i - Len(At)]
      BY <2>4, <3>4, Zenon
    <3>2. left + 1 + 1 = left + 2
      BY <2>5
    <3> QED BY <2>2, <2>3, <3>1, <3>2, Zenon
  <2>7. \A i \in (left + 2)..Len(new) :
           /\ i - (left + 1) \in 1..(n - right)
           /\ i - (left + 1) + right = i - k
           /\ i - k \in (right + 1)..n
    BY <2>5, <2>6
  <2>8. \A i \in 1..left : new[i] = list[i]
    BY <2>3, <2>5, <2>6
  <2>9. new[left + 1] = t
    BY <2>3, <2>5, <2>6
  <2>10. \A i \in (left + 2)..Len(new) : new[i] = list[i - k]
    BY <2>2, <2>6, <2>7, Zenon
  <2> QED BY <2>6, <2>7, <2>8, <2>9, <2>10, Zenon
<1>m. /\ \A i \in (right + 1)..n : i + k \in (left + 2)..Len(new) /\ i + k - k = i
      /\ \A j \in (left + 2)..Len(new) :
            /\ j - k \in 1..n /\ j - k \in (right + 1)..n
            /\ \A i \in 1..left : i < j - k
            /\ \A i \in (left + 2)..Len(new) : i < j => i - k < j - k
  <2>1. n \in Nat /\ left \in 0..n /\ right \in 0..n /\ left <= right
        /\ Len(new) = left + 1 + (n - right)
    BY <1>2, <1>3, <1>4, <1>6, <1>7, Zenon
  <2> HIDE DEF n
  <2>2. /\ \A i \in (right + 1)..n :
              /\ i + (left + 1 - right) \in (left + 2)..(left + 1 + (n - right))
              /\ i + (left + 1 - right) - (left + 1 - right) = i
        /\ \A j \in (left + 2)..(left + 1 + (n - right)) :
              /\ j - (left + 1 - right) \in 1..n
              /\ j - (left + 1 - right) \in (right + 1)..n
              /\ \A i \in 1..left : i < j - (left + 1 - right)
              /\ \A i \in (left + 2)..(left + 1 + (n - right)) :
                    i < j => i - (left + 1 - right) < j - (left + 1 - right)
    BY <2>1, PositionsMove, Zenon
  <2> QED BY <2>1, <2>2, Zenon
<1> HIDE DEF k
<1>8. \A i \in (right + 1)..n : i + k \in (left + 2)..Len(new) /\ new[i + k] = list[i]
  <2> SUFFICES ASSUME NEW i \in (right + 1)..n
               PROVE  i + k \in (left + 2)..Len(new) /\ new[i + k] = list[i]
    BY Zenon
  <2>1. i + k \in (left + 2)..Len(new) /\ i + k - k = i
    BY <1>m, Zenon
  <2>2. \A m \in (left + 2)..Len(new) : new[m] = list[m - k]
    BY <1>7, Zenon
  <2>3. new[i + k] = list[i]
    <3> DEFINE S == (left + 2)..Len(new)
    <3>1. i \in Int /\ k \in Int /\ S \subseteq Int
      BY <1>2, <1>3, <1>4 DEF k
    <3>2. (\A m \in S : new[m] = list[m - k]) /\ i + k \in S
      BY <2>1, <2>2, Zenon
    <3> HIDE DEF S
    <3> QED BY ONLY <3>1, <3>2
  <2> QED BY <2>1, <2>3, Zenon
<1>9. \A i \in (right + 1)..n : t.last_token < list[i].first_token
  <2> SUFFICES ASSUME NEW i \in (right + 1)..n, ~(t.last_token < list[i].first_token)
               PROVE  FALSE
    BY Zenon
  <2>1. right + 1 \in 1..n /\ i \in 1..n
    BY <1>2, <1>4
  <2>2. t.last_token < list[right + 1].first_token
    BY <1>1, <1>2, <1>4, <2>1
  <2>3. list[right + 1].first_token <= list[i].first_token
    BY <1>1, <1>4, <2>1 DEF Disjoint
  <2> QED BY <1>1, <1>2, <2>1, <2>2, <2>3
<1>10. \A i \in (left + 1)..right : ~(list[i].last_token < t.first_token)
                                  /\ ~(t.last_token < list[i].first_token)
  <2> SUFFICES ASSUME NEW i \in (left + 1)..right
               PROVE  ~(list[i].last_token < t.first_token)
                      /\ ~(t.last_token < list[i].first_token)
    BY Zenon
  <2>1. left + 1 \in 1..n /\ i \in 1..n /\ i \in R
    BY <1>2, <1>3, <1>4
  <2>2. ~(list[left + 1].last_token < t.first_token)
    BY <1>3, <2>1, Zenon
  <2>3. list[left + 1].last_token <= list[i].last_token
    <3>1. CASE i = left + 1
      BY <1>1, <2>1, <3>1
    <3>2. CASE left + 1 < i
      BY <1>1, <2>1, <3>2 DEF Disjoint
    <3> QED BY <1>3, <3>1, <3>2
  <2> QED BY <1>1, <1>2, <2>1, <2>2, <2>3
<1>11. Disjoint(new)
  <2>1. \A i \in 1..Len(new) :
           \/ i \in 1..left /\ new[i] = list[i] /\ i \in 1..n
           \/ i = left + 1 /\ new[i] = t
           \/ i \in (left + 2)..Len(new) /\ new[i] = list[i - k] /\ i - k \in 1..n
              /\ i - k \in (right + 1)..n
    BY <1>2, <1>3, <1>4, <1>6, <1>7, <1>m
  <2>2. \A i \in 1..Len(new) : new[i].first_token <= new[i].last_token
    BY <2>1, Zenon DEF Disjoint
  <2>3. ASSUME NEW i \in 1..Len(new), NEW j \in 1..Len(new), i < j
        PROVE  new[i].last_token < new[j].first_token
    <3>1. CASE i \in 1..left
      <4>1. new[i] = list[i] /\ i \in 1..n /\ list[i].last_token < t.first_token
        BY <1>2, <1>3, <1>7, <3>1, Zenon
      <4>2. CASE j = left + 1
        BY <1>7, <4>1, <4>2, Zenon
      <4>3. CASE j \in 1..left
        BY <1>2, <1>3, <1>7, <2>3, <4>1, <4>3, Zenon DEF Disjoint
      <4>4. CASE j \in (left + 2)..Len(new)
        <5>1. new[j] = list[j - k] /\ j - k \in 1..n /\ i < j - k
          BY <1>7, <1>m, <3>1, <4>4, Zenon
        <5> QED BY <4>1, <5>1, Zenon DEF Disjoint
      <4> QED BY <1>3, <4>2, <4>3, <4>4
    <3>2. CASE i = left + 1
      <4>1. j \in (left + 2)..Len(new)
        BY <1>3, <2>3, <3>2
      <4> QED BY <1>7, <1>9, <3>2, <4>1, Zenon
    <3>3. CASE i \in (left + 2)..Len(new)
      <4>1. j \in (left + 2)..Len(new) /\ i - k \in 1..n /\ j - k \in 1..n /\ i - k < j - k
        <5>1. j \in (left + 2)..Len(new)
          BY <1>3, <2>3, <3>3
        <5> QED BY <1>m, <2>3, <3>3, <5>1, Zenon
      <4> QED BY <1>7, <3>3, <4>1, Zenon DEF Disjoint
    <3> QED BY <1>3, <3>1, <3>2, <3>3
  <2> QED BY <2>2, <2>3, Zenon DEF Disjoint
<1> DEFINE K == {u \in Elements(list) : u.last_token < t.first_token
                                        \/ t.last_token < u.first_token}
<1>12. Elements(new) \subseteq K \cup {t}
  <2> SUFFICES ASSUME NEW i \in 1..Len(new) PROVE new[i] \in K \cup {t}
    BY Zenon DEF Elements
  <2>1. CASE i \in 1..left
    BY <1>2, <1>3, <1>7, <2>1, Zenon DEF Elements
  <2>2. CASE i = left + 1
    BY <1>7, <2>2, Zenon
  <2>3. CASE i \in (left + 2)..Len(new)
    <3>1. new[i] = list[i - k] /\ i - k \in (right + 1)..n /\ i - k \in 1..n
      BY <1>7, <1>m, <2>3, Zenon
    <3> QED BY <1>9, <3>1, Zenon DEF Elements
  <2> QED BY <1>3, <2>1, <2>2, <2>3
<1>13. K \cup {t} \subseteq Elements(new)
  <2>1. t \in Elements(new)
    <3>1. left + 1 \in 1..Len(new)
      BY <1>2, <1>3, <1>4, <1>7
    <3> QED BY <1>7, <3>1, Zenon DEF Elements
  <2>2. ASSUME NEW u \in K PROVE u \in Elements(new)
    <3>1. PICK i \in 1..n : u = list[i]
      BY Zenon DEF Elements
    <3>2. CASE i \in 1..left
      <4>1. i \in 1..Len(new)
        BY <1>2, <1>3, <1>4, <1>7, <3>2
      <4> QED BY <1>7, <3>1, <3>2, <4>1, Zenon DEF Elements
    <3>3. CASE i \in (right + 1)..n
      <4>1. i + k \in 1..Len(new) /\ new[i + k] = u
        BY <1>2, <1>3, <1>4, <1>8, <3>1, <3>3
      <4> QED BY <4>1, Zenon DEF Elements
    <3>4. ~(i \in (left + 1)..right)
      BY <1>10, <3>1, Zenon
    <3> QED BY <1>2, <1>3, <1>4, <3>2, <3>3, <3>4
  <2> QED BY <2>1, <2>2, Zenon
<1> QED BY <1>11, <1>12, <1>13, Zenon DEF new

-----------------------------------------------------------------------------
(* Vec::retain *)

\* The indices at[1] < at[2] < ... of a list of length n are those in `kept`.
Selects(at, m, n, kept) ==
    /\ m \in Nat
    /\ at \in [1..m -> 1..n]
    /\ \A k, l \in 1..m : k < l => at[k] < at[l]
    /\ \A k \in 1..m : at[k] \in kept
    /\ \A i \in kept : \E k \in 1..m : at[k] = i

\* The indices that Vec::retain keeps, and what it returns.
Retains(at, m, list, kept) ==
    /\ Selects(at, m, Len(list), kept)
    /\ Retain(list, kept) = [k \in 1..m |-> list[at[k]]]

\* Vec::retain keeps the elements at the indices in `kept`, in their order.
LEMMA RetainSelects ==
    ASSUME NEW S, NEW list \in Seq(S), NEW kept \in SUBSET (1..Len(list))
    PROVE  \E m, at : Retains(at, m, list, kept)
<1> DEFINE n == Len(list)
           upto(i) == {j \in kept : j <= i}
           rank(i) == Cardinality(upto(i))
           m == Cardinality(kept)
           at == [k \in 1..m |-> CHOOSE i \in kept : rank(i) = k]
<1>1. n \in Nat /\ \A i \in kept : i \in Int /\ 1 <= i /\ i <= n /\ i \in 1..n
  OBVIOUS
<1>2. IsFiniteSet(kept)
  <2>1. IsFiniteSet(1..n)
    BY <1>1, FS_Interval
  <2> QED BY <2>1, FS_Subset, Zenon
<1> HIDE DEF n
<1>3. m \in Nat
  BY <1>2, FS_CardinalityType, Zenon
<1>4. \A i \in 0..n : IsFiniteSet(upto(i)) /\ rank(i) \in Nat /\ rank(i) <= m
  <2> SUFFICES ASSUME NEW i \in 0..n
               PROVE  IsFiniteSet(upto(i)) /\ rank(i) \in Nat /\ rank(i) <= m
    BY Zenon
  <2>1. upto(i) \in SUBSET kept
    BY Zenon
  <2>2. IsFiniteSet(upto(i)) /\ Cardinality(upto(i)) <= Cardinality(kept)
    BY <1>2, <2>1, FS_Subset, Zenon
  <2>3. Cardinality(upto(i)) \in Nat
    BY <2>2, FS_CardinalityType, Zenon
  <2> QED BY <2>2, <2>3, Zenon
<1>5. rank(0) = 0
  <2>1. \A j \in kept : ~(j <= 0)
    BY <1>1
  <2>2. upto(0) = {}
    BY <2>1, Zenon
  <2> QED BY <2>2, FS_EmptySet, Zenon
<1>6. rank(n) = m
  <2>1. upto(n) = kept
    BY <1>1, Zenon
  <2> QED BY <2>1, Zenon
<1>7. \A i \in kept : rank(i) = rank(i - 1) + 1
  <2> SUFFICES ASSUME NEW i \in kept PROVE rank(i) = rank(i - 1) + 1
    BY Zenon
  <2>1. i \in 1..n /\ i - 1 \in 0..n
    BY <1>1
  <2>2. upto(i) = upto(i - 1) \cup {i} /\ i \notin upto(i - 1)
    <3>1. \A j \in kept : j <= i <=> (j <= i - 1 \/ j = i)
      BY <1>1
    <3>2. ~(i <= i - 1) /\ i <= i
      BY <1>1
    <3> QED BY <3>1, <3>2, Zenon
  <2>3. IsFiniteSet(upto(i - 1))
    BY <1>4, <2>1, Zenon
  <2> HIDE DEF upto
  <2> QED BY <2>2, <2>3, FS_AddElement, Zenon
<1>8. \A i \in (1..n) \ kept : rank(i) = rank(i - 1)
  <2> SUFFICES ASSUME NEW i \in (1..n) \ kept PROVE upto(i) = upto(i - 1)
    BY Zenon
  <2>1. i \in Int
    BY <1>1
  <2>2. \A j \in kept : j <= i <=> j <= i - 1
    BY <1>1, <2>1
  <2> QED BY <2>2, Zenon
<1>9. \A i, j \in kept : i < j => rank(i) < rank(j)
  <2> SUFFICES ASSUME NEW i \in kept, NEW j \in kept, i < j PROVE rank(i) < rank(j)
    BY Zenon
  <2>1. i \in 0..n /\ j - 1 \in 0..n
    BY <1>1
  <2>2. upto(i) \in SUBSET upto(j - 1)
    <3>1. \A l \in kept : l <= i => l <= j - 1
      BY <1>1
    <3> QED BY <3>1, Zenon
  <2>3. IsFiniteSet(upto(j - 1))
    BY <1>4, <2>1, Zenon
  <2>4. Cardinality(upto(i)) <= Cardinality(upto(j - 1))
    <3> HIDE DEF upto
    <3> QED BY <2>2, <2>3, FS_Subset, Zenon
  <2>5. rank(i) <= rank(j - 1)
    BY <2>4, Zenon
  <2>6. rank(j) = rank(j - 1) + 1
    BY <1>7, Zenon
  <2>7. rank(i) \in Nat /\ rank(j - 1) \in Nat
    BY <1>4, <2>1, Zenon
  <2> HIDE DEF rank
  <2> QED BY <2>5, <2>6, <2>7
<1>10. \A i \in kept : rank(i) \in 1..m
  <2> SUFFICES ASSUME NEW i \in kept PROVE rank(i) \in 1..m
    BY Zenon
  <2>1. i \in 0..n /\ i - 1 \in 0..n
    BY <1>1
  <2>2. rank(i) \in Nat /\ rank(i) <= m /\ rank(i - 1) \in Nat
    BY <1>4, <2>1, Zenon
  <2>3. rank(i) = rank(i - 1) + 1
    BY <1>7, Zenon
  <2> HIDE DEF rank, m
  <2> QED BY <1>3, <2>2, <2>3
<1>11. ASSUME NEW k \in 1..m PROVE \E i \in kept : rank(i) = k
  <2> DEFINE T == {i \in 0..n : rank(i) >= k}
  <2>1. T \subseteq Nat /\ n \in T
    BY <1>1, <1>3, <1>6
  <2>2. PICK i \in T : \A j \in T : <<j, i>> \notin OpToRel(<, Nat)
    <3> HIDE DEF T
    <3> QED BY <2>1, WFMin, NatLessThanWellFounded, Zenon
  <2>3. \A j \in T : ~(j < i)
    <3> HIDE DEF T
    <3> QED BY <2>1, <2>2, Zenon DEF OpToRel
  <2>4. i \in 0..n /\ rank(i) >= k
    BY Zenon
  <2> HIDE DEF m
  <2>5. i # 0
    <3> HIDE DEF rank
    <3> QED BY <1>3, <1>5, <2>4
  <2>6. i \in 1..n /\ i - 1 \in 0..n
    BY <1>1, <2>4, <2>5
  <2>7. ~(rank(i - 1) >= k)
    <3>1. i - 1 < i
      BY <2>6
    <3>2. i - 1 \notin T
      <4> HIDE DEF T
      <4> QED BY <2>3, <3>1, Zenon
    <3> QED BY <2>6, <3>2, Zenon
  <2>8. rank(i) \in Nat /\ rank(i - 1) \in Nat
    BY <1>4, <2>4, <2>6, Zenon
  <2>9. i \in kept
    <3> SUFFICES ASSUME i \notin kept PROVE FALSE
      BY Zenon
    <3>1. rank(i) = rank(i - 1)
      BY <1>8, <2>6, Zenon
    <3> HIDE DEF rank
    <3> QED BY <2>4, <2>7, <3>1, Zenon
  <2>10. rank(i) = rank(i - 1) + 1
    BY <1>7, <2>9, Zenon
  <2>11. rank(i) = k
    <3> HIDE DEF rank
    <3> QED BY <1>3, <2>4, <2>7, <2>8, <2>10
  <2> QED BY <2>9, <2>11, Zenon
<1> HIDE DEF rank, m
<1>12. \A k \in 1..m : at[k] \in kept /\ rank(at[k]) = k
  BY <1>11, Zenon
<1>13. at \in [1..m -> 1..n]
  <2>1. \A k \in 1..m : at[k] \in 1..n
    <3> HIDE DEF at
    <3> QED BY <1>1, <1>12, Zenon
  <2> QED BY <2>1, Zenon
<1>14. \A k, l \in 1..m : k < l => at[k] < at[l]
  <2> SUFFICES ASSUME NEW k \in 1..m, NEW l \in 1..m, k < l, ~(at[k] < at[l]) PROVE FALSE
    BY Zenon
  <2>1. at[k] \in kept /\ at[l] \in kept /\ rank(at[k]) = k /\ rank(at[l]) = l
    BY <1>12, Zenon
  <2>2. at[k] \in Int /\ at[l] \in Int
    BY <1>1, <2>1, Zenon
  <2> HIDE DEF at
  <2>3. at[l] < at[k] \/ at[l] = at[k]
    BY <2>2
  <2>4. rank(at[l]) < rank(at[k]) \/ rank(at[l]) = rank(at[k])
    BY <1>9, <2>1, <2>3, Zenon
  <2> QED BY <1>3, <2>1, <2>4
<1>15. \A i \in kept : \E k \in 1..m : at[k] = i
  <2> SUFFICES ASSUME NEW i \in kept PROVE at[rank(i)] = i /\ rank(i) \in 1..m
    BY Zenon
  <2>1. rank(i) \in 1..m
    BY <1>10, Zenon
  <2>2. at[rank(i)] \in kept /\ rank(at[rank(i)]) = rank(i)
    BY <1>12, <2>1, Zenon
  <2> HIDE DEF at
  <2>3. ~(at[rank(i)] < i) /\ ~(i < at[rank(i)])
    <3>1. rank(i) \in Int
      BY <1>3, <2>1
    <3>2. ~(rank(i) < rank(i))
      BY <3>1
    <3> QED BY <1>9, <2>2, <3>2, Zenon
  <2>4. at[rank(i)] \in Int /\ i \in Int
    BY <1>1, <2>2, Zenon
  <2> QED BY <2>1, <2>3, <2>4
<1>16. Retain(list, kept) = [k \in 1..m |-> list[at[k]]]
  BY DEF Retain, rank, m
<1>17. Selects(at, m, n, kept)
  BY <1>3, <1>12, <1>13, <1>14, <1>15, Zenon DEF Selects
<1> HIDE DEF at
<1>18. Retains(at, m, list, kept)
  BY <1>16, <1>17, Zenon DEF Retains, n
<1> QED BY <1>18, Zenon

-----------------------------------------------------------------------------
(* The tablets that survive a refresh *)

\* The tablet stays: its replicas can all be resolved, and none is on a removed node.
Survives(t, removed_nodes, peers) ==
    /\ ~Unresolved(t, peers)
    /\ \A n \in ReResolveReplicas(t, peers).all : n.host_id \notin removed_nodes

\* The indices of the tablets that survive, and what is left of them before the
\* Node objects are replaced.
SurvivorsAt(at, m, table, removed_nodes, peers) ==
    /\ Selects(at, m, Len(table.tablet_list),
               {i \in 1..Len(table.tablet_list) :
                   Survives(table.tablet_list[i], removed_nodes, peers)})
    /\ Surviving(table, removed_nodes, peers) =
          [k \in 1..m |-> ReResolveReplicas(table.tablet_list[at[k]], peers)]

\* The length of a sequence given by its elements.
LEMMA SequenceGiven ==
    ASSUME NEW m \in Nat, NEW S, NEW s \in [1..m -> S]
    PROVE  s \in Seq(S) /\ Len(s) = m
OBVIOUS

\* The two retains of perform_maintenance keep the tablets that survive, in their order,
\* provided that the flag of the table tells of every tablet with unknown replicas.
LEMMA SurvivingSelects ==
    ASSUME NEW table, NEW removed_nodes, NEW peers,
           table.tablet_list \in Seq(TabletRecords),
           \A i \in 1..Len(table.tablet_list) :
               table.tablet_list[i].failed # {} => table.has_unknown_replicas
    PROVE  \E m, at : SurvivorsAt(at, m, table, removed_nodes, peers)
<1> DEFINE list == table.tablet_list
           n == Len(list)
           Re(t) == ReResolveReplicas(t, peers)
           Unaffected(t) == \A x \in t.all : x.host_id \notin removed_nodes
           alive == {i \in 1..n : Survives(list[i], removed_nodes, peers)}
           R == Resolved(table, peers)
           K2 == {i \in 1..Len(R) : Unaffected(R[i])}
<1>0. list \in Seq(TabletRecords) /\ n \in Nat
  OBVIOUS
<1>1. Surviving(table, removed_nodes, peers) = Retain(R, K2)
  BY Zenon DEF Surviving
<1>2. CASE table.has_unknown_replicas
  <2> DEFINE K1 == {i \in 1..n : ~Unresolved(list[i], peers)}
  <2>1. K1 \in SUBSET (1..n)
    BY Zenon
  <2>2. PICK m1, at1 : Retains(at1, m1, list, K1)
    <3> HIDE DEF K1, list
    <3> QED BY <1>0, <2>1, RetainSelects, Zenon
  <2>2a. /\ m1 \in Nat /\ at1 \in [1..m1 -> 1..n] /\ Selects(at1, m1, n, K1)
         /\ Retain(list, K1) = [k \in 1..m1 |-> list[at1[k]]]
    BY <2>2, Zenon DEF Retains, Selects
  <2> DEFINE S == {Re(list[i]) : i \in 1..n}
             kept == Retain(list, K1)
  <2>3. R = [i \in 1..Len(kept) |-> Re(kept[i])]
    BY <1>2, Zenon DEF Resolved
  <2>4. Len(kept) = m1 /\ \A k \in 1..m1 : kept[k] = list[at1[k]]
    <3>1. [k \in 1..m1 |-> list[at1[k]]] \in [1..m1 -> TabletRecords]
      BY <1>0, <2>2a
    <3> HIDE DEF kept
    <3>2. kept \in [1..m1 -> TabletRecords]
      BY <2>2a, <3>1, Zenon DEF kept
    <3> QED BY <2>2a, <3>2, SequenceGiven, Zenon DEF kept
  <2> HIDE DEF kept, R
  <2>5. R = [k \in 1..m1 |-> Re(list[at1[k]])]
    BY <2>3, <2>4, Zenon
  <2>6. R \in [1..m1 -> S] /\ \A k \in 1..m1 : R[k] = Re(list[at1[k]])
    <3>1. \A k \in 1..m1 : at1[k] \in 1..n
      BY <2>2a, Zenon
    <3> HIDE DEF n, list, Re
    <3> QED BY <2>5, <3>1, Zenon
  <2>7. R \in Seq(S) /\ Len(R) = m1
    BY <2>2a, <2>6, SequenceGiven
  <2>8. K2 \in SUBSET (1..Len(R))
    BY Zenon
  <2>9. PICK m, at2 : Retains(at2, m, R, K2)
    <3> HIDE DEF K2, S
    <3> QED BY <2>7, <2>8, RetainSelects, Zenon
  <2>10. /\ m \in Nat /\ at2 \in [1..m -> 1..m1] /\ Selects(at2, m, m1, K2)
         /\ Retain(R, K2) = [k \in 1..m |-> R[at2[k]]]
    <3> HIDE DEF K2
    <3> QED BY <2>7, <2>9, Zenon DEF Retains, Selects
  <2> DEFINE at == [k \in 1..m |-> at1[at2[k]]]
  <2>11. at \in [1..m -> 1..n] /\ \A k \in 1..m : at2[k] \in 1..m1 /\ at[k] = at1[at2[k]]
    <3>1. \A k \in 1..m : at2[k] \in 1..m1
      BY <2>10, Zenon
    <3>2. \A k \in 1..m1 : at1[k] \in 1..n
      BY <2>2a, Zenon
    <3> QED BY <3>1, <3>2, Zenon
  <2>12. \A k, l \in 1..m : k < l => at[k] < at[l]
    <3> HIDE DEF at
    <3> QED BY <2>2a, <2>10, <2>11 DEF Selects
  <2>13. \A k \in 1..m : at[k] \in alive
    <3> SUFFICES ASSUME NEW k \in 1..m PROVE at[k] \in alive
      BY Zenon
    <3>1. at2[k] \in K2 /\ at1[at2[k]] \in K1
      BY <2>2a, <2>10, <2>11, Zenon DEF Selects
    <3>2. R[at2[k]] = Re(list[at[k]]) /\ at[k] \in 1..n
      BY <2>6, <2>11, Zenon
    <3> QED BY <3>1, <3>2, Zenon DEF Survives
  <2>14. ASSUME NEW i \in alive PROVE \E k \in 1..m : at[k] = i
    <3>1. i \in K1 /\ Unaffected(Re(list[i]))
      BY Zenon DEF Survives
    <3>2. PICK k1 \in 1..m1 : at1[k1] = i
      BY <2>2a, <3>1, Zenon DEF Selects
    <3>3. k1 \in K2
      BY <2>6, <2>7, <3>1, <3>2, Zenon
    <3>4. PICK k2 \in 1..m : at2[k2] = k1
      BY <2>10, <3>3 DEF Selects
    <3> QED BY <2>11, <3>2, <3>4, Zenon
  <2>15. Selects(at, m, n, alive)
    <3> HIDE DEF at, alive
    <3> QED BY <2>10, <2>11, <2>12, <2>13, <2>14, Zenon DEF Selects
  <2>16. Retain(R, K2) = [k \in 1..m |-> Re(list[at[k]])]
    <3>1. \A k \in 1..m : R[at2[k]] = Re(list[at[k]])
      BY <2>6, <2>11, Zenon
    <3> HIDE DEF at, Re, K2
    <3> QED BY <2>10, <3>1, Zenon
  <2> HIDE DEF at, alive, K2, Re
  <2>17. Surviving(table, removed_nodes, peers) = [k \in 1..m |-> Re(list[at[k]])]
    BY <1>1, <2>16
  <2>18. SurvivorsAt(at, m, table, removed_nodes, peers)
    BY <2>15, <2>17, Zenon DEF SurvivorsAt, alive, Re
  <2> QED BY <2>18, Zenon
<1>3. CASE ~table.has_unknown_replicas
  <2>1. \A i \in 1..n : ~Unresolved(list[i], peers) /\ Re(list[i]) = list[i]
    BY <1>3, Zenon DEF Unresolved, ReResolveReplicas
  <2>2. R = list
    BY <1>3, Zenon DEF Resolved
  <2>3. K2 = alive
    <3> HIDE DEF R
    <3> QED BY <2>1, <2>2, Zenon DEF Survives
  <2>4. alive \in SUBSET (1..n)
    BY Zenon
  <2>5. PICK m, at : Retains(at, m, list, alive)
    <3> HIDE DEF alive, list
    <3> QED BY <1>0, <2>4, RetainSelects, Zenon
  <2>6. /\ m \in Nat /\ at \in [1..m -> 1..n] /\ Selects(at, m, n, alive)
        /\ Retain(list, alive) = [k \in 1..m |-> list[at[k]]]
    BY <2>5, Zenon DEF Retains, Selects
  <2>7. Retain(list, alive) = [k \in 1..m |-> Re(list[at[k]])]
    <3>1. \A k \in 1..m : Re(list[at[k]]) = list[at[k]]
      BY <2>1, <2>6
    <3> HIDE DEF Re, alive
    <3> QED BY <2>6, <3>1, Zenon
  <2> HIDE DEF R, K2, alive
  <2>8. Surviving(table, removed_nodes, peers) = [k \in 1..m |-> Re(list[at[k]])]
    <3> HIDE DEF Re
    <3> QED BY <1>1, <2>2, <2>3, <2>7, Zenon
  <2>9. SurvivorsAt(at, m, table, removed_nodes, peers)
    BY <2>6, <2>8 DEF SurvivorsAt, alive
  <2> QED BY <2>9, Zenon
<1> QED BY <1>2, <1>3, Zenon

-----------------------------------------------------------------------------
(* Node objects that are current *)

\* A map of the known peers: each Node object is filed under its own host id.
PeersOK(peers) ==
    /\ DOMAIN peers \subseteq HostIds
    /\ \A h \in DOMAIN peers : peers[h] \in Nodes /\ peers[h].host_id = h

\* The Node object is the current one of its host.
Current(n, peers) == n.host_id \in DOMAIN peers /\ peers[n.host_id] = n

\* A tablet whose lists only have current Node objects, those of a datacenter among all.
FreshTablet(t, peers) ==
    /\ \A n \in t.all : Current(n, peers)
    /\ \A d \in DCs : t.per_dc[d] \subseteq t.all

\* The hosts of a tablet, whether they are known or not.
HostsOf(t) == IF t.failed # {} THEN t.failed ELSE {n.host_id : n \in t.all}

\* Resolving host ids yields the current Node objects of those that are known.
LEMMA FromRawReplicasFresh ==
    ASSUME NEW peers, PeersOK(peers), NEW replicas \in SUBSET HostIds
    PROVE  LET r == FromRawReplicas(replicas, peers) IN
           /\ r.all \in SUBSET Nodes /\ r.per_dc \in [DCs -> SUBSET Nodes]
           /\ r.failed \in SUBSET HostIds
           /\ \A n \in r.all : Current(n, peers)
           /\ \A d \in DCs : r.per_dc[d] \subseteq r.all
           /\ {n.host_id : n \in r.all} = replicas \cap DOMAIN peers
           /\ r.failed = IF replicas \subseteq DOMAIN peers THEN {} ELSE replicas
<1> DEFINE nodes == {peers[h] : h \in replicas \cap DOMAIN peers}
           r == FromRawReplicas(replicas, peers)
<1>1. r.all = nodes /\ r.per_dc = GroupByDc(nodes)
      /\ r.failed = IF replicas \subseteq DOMAIN peers THEN {} ELSE replicas
  BY Zenon DEF FromRawReplicas
<1>2. nodes \in SUBSET Nodes /\ \A n \in nodes : Current(n, peers)
  BY Zenon DEF PeersOK, Current
<1>3. {n.host_id : n \in nodes} = replicas \cap DOMAIN peers
  BY Zenon DEF PeersOK
<1> HIDE DEF nodes, r
<1>4. GroupByDc(nodes) \in [DCs -> SUBSET Nodes] /\ \A d \in DCs : GroupByDc(nodes)[d] \subseteq nodes
  BY <1>2, Zenon DEF GroupByDc
<1>5. r.failed \in SUBSET HostIds
  BY <1>1
<1> QED BY <1>1, <1>2, <1>3, <1>4, <1>5, Zenon DEF r

\* What a server sends becomes a tablet with current Node objects, whose hosts are the
\* replicas that were sent.
LEMMA FromRawTabletFresh ==
    ASSUME NEW peers, PeersOK(peers), NEW raw \in RawTablets
    PROVE  LET t == FromRawTablet(raw, peers) IN
           /\ t \in TabletRecords /\ FreshTablet(t, peers)
           /\ t.first_token = raw.left + 1 /\ t.last_token = raw.last
           /\ t.first_token <= t.last_token
           /\ HostsOf(t) = raw.replicas
<1> DEFINE r == FromRawReplicas(raw.replicas, peers)
           t == FromRawTablet(raw, peers)
<1>1. /\ raw.left \in 0..(MaxToken - 1) /\ raw.last \in Token /\ raw.left < raw.last
      /\ raw.replicas \in SUBSET HostIds /\ raw.replicas # {}
  BY Zenon DEF RawTablets
<1>2. raw.left + 1 \in Token /\ raw.left + 1 <= raw.last
  <2>1. MaxToken \in Nat
    BY TabletsAssumption, Zenon
  <2>2. raw.left \in Int /\ raw.last \in Int /\ 0 <= raw.left /\ raw.last <= MaxToken
    BY <1>1, <2>1 DEF Token
  <2> QED BY <1>1, <2>1, <2>2 DEF Token
<1>3. /\ r.all \in SUBSET Nodes /\ r.per_dc \in [DCs -> SUBSET Nodes]
      /\ r.failed \in SUBSET HostIds
      /\ \A n \in r.all : Current(n, peers)
      /\ \A d \in DCs : r.per_dc[d] \subseteq r.all
      /\ {n.host_id : n \in r.all} = raw.replicas \cap DOMAIN peers
      /\ r.failed = IF raw.replicas \subseteq DOMAIN peers THEN {} ELSE raw.replicas
  BY <1>1, FromRawReplicasFresh, Zenon
<1> HIDE DEF r
<1>4. t = [first_token |-> raw.left + 1, last_token |-> raw.last,
           all |-> r.all, per_dc |-> r.per_dc, failed |-> r.failed]
  BY Zenon DEF FromRawTablet, r
<1> HIDE DEF t
<1>5. t \in TabletRecords
  BY <1>1, <1>2, <1>3, <1>4, Zenon DEF TabletRecords
<1>6. FreshTablet(t, peers)
  BY <1>3, <1>4, Zenon DEF FreshTablet
<1>7. HostsOf(t) = raw.replicas
  <2>1. t.failed = r.failed /\ t.all = r.all
    BY <1>4, Zenon
  <2>2. CASE raw.replicas \subseteq DOMAIN peers
    BY <1>3, <2>1, <2>2, Zenon DEF HostsOf
  <2>3. CASE ~(raw.replicas \subseteq DOMAIN peers)
    BY <1>1, <1>3, <2>1, <2>3, Zenon DEF HostsOf
  <2> QED BY <2>2, <2>3, Zenon
<1> QED BY <1>2, <1>4, <1>5, <1>6, <1>7 DEF t

\* re_resolve_replicas leaves a tablet without unknown replicas alone, and gives another
\* one the current Node objects of its replicas.
LEMMA ReResolved ==
    ASSUME NEW peers, PeersOK(peers), NEW t \in TabletRecords, ~Unresolved(t, peers),
           \A d \in DCs : t.per_dc[d] \subseteq t.all
    PROVE  LET u == ReResolveReplicas(t, peers) IN
           /\ u \in TabletRecords /\ u.failed = {}
           /\ u.first_token = t.first_token /\ u.last_token = t.last_token
           /\ \A d \in DCs : u.per_dc[d] \subseteq u.all
           /\ HostsOf(u) = HostsOf(t)
           /\ t.failed = {} => u = t
           /\ t.failed # {} => \A n \in u.all : Current(n, peers)
<1> DEFINE u == ReResolveReplicas(t, peers)
           r == FromRawReplicas(t.failed, peers)
<1>1. CASE t.failed = {}
  BY <1>1, Zenon DEF ReResolveReplicas
<1>2. CASE t.failed # {}
  <2>1. t.failed \in SUBSET HostIds /\ t.failed \subseteq DOMAIN peers
    BY Zenon DEF TabletRecords, Unresolved
  <2>2. /\ r.all \in SUBSET Nodes /\ r.per_dc \in [DCs -> SUBSET Nodes]
        /\ \A n \in r.all : Current(n, peers)
        /\ \A d \in DCs : r.per_dc[d] \subseteq r.all
        /\ {n.host_id : n \in r.all} = t.failed \cap DOMAIN peers
    BY <2>1, FromRawReplicasFresh, Zenon
  <2> HIDE DEF r
  <2>3. u = [t EXCEPT !.all = r.all, !.per_dc = r.per_dc, !.failed = {}]
    BY <1>2, Zenon DEF ReResolveReplicas, r
  <2> HIDE DEF u
  <2>4. /\ u \in TabletRecords /\ u.failed = {} /\ u.all = r.all /\ u.per_dc = r.per_dc
        /\ u.first_token = t.first_token /\ u.last_token = t.last_token
    BY <2>2, <2>3, Zenon DEF TabletRecords
  <2>5. HostsOf(u) = HostsOf(t)
    BY <1>2, <2>1, <2>2, <2>4, Zenon DEF HostsOf
  <2> QED BY <1>2, <2>2, <2>4, <2>5, Zenon DEF u
<1> QED BY <1>1, <1>2, Zenon

\* update_stale_nodes replaces the Node objects in both lists, or there is none to replace.
LEMMA StaleNodesReplaced ==
    ASSUME NEW t \in TabletRecords, NEW recreated, \A d \in DCs : t.per_dc[d] \subseteq t.all
    PROVE  LET w == UpdateStaleNodes(t, recreated) IN
           /\ w.all = Replace(t.all, recreated)
           /\ w.per_dc = [d \in DCs |-> Replace(t.per_dc[d], recreated)]
           /\ w.first_token = t.first_token /\ w.last_token = t.last_token
           /\ w.failed = t.failed
           /\ w = [first_token |-> t.first_token, last_token |-> t.last_token,
                   all |-> w.all, per_dc |-> w.per_dc, failed |-> t.failed]
<1> DEFINE w == UpdateStaleNodes(t, recreated)
<1>0. t = [first_token |-> t.first_token, last_token |-> t.last_token,
           all |-> t.all, per_dc |-> t.per_dc, failed |-> t.failed]
      /\ t.per_dc \in [DCs -> SUBSET Nodes]
  BY Zenon DEF TabletRecords
<1>1. CASE \A n \in t.all : n.host_id \notin DOMAIN recreated
  <2>1. w = t
    BY <1>1, Zenon DEF UpdateStaleNodes
  <2>2. \A S \in SUBSET t.all : Replace(S, recreated) = S
    BY <1>1, Zenon DEF Replace
  <2>3. \A d \in DCs : t.per_dc[d] \in SUBSET t.all
    BY Zenon
  <2>4. t.all = Replace(t.all, recreated) /\ \A d \in DCs : t.per_dc[d] = Replace(t.per_dc[d], recreated)
    BY <2>2, <2>3, Zenon
  <2>5. t.per_dc = [d \in DCs |-> Replace(t.per_dc[d], recreated)]
    BY <1>0, <2>4, Zenon
  <2> QED BY <1>0, <2>1, <2>4, <2>5, Zenon
<1>2. CASE ~ \A n \in t.all : n.host_id \notin DOMAIN recreated
  <2>1. w = [t EXCEPT !.all = Replace(@, recreated),
                      !.per_dc = [d \in DCs |-> Replace(@[d], recreated)]]
    BY <1>2, Zenon DEF UpdateStaleNodes
  <2> HIDE DEF w
  <2>2. w = [first_token |-> t.first_token, last_token |-> t.last_token,
             all |-> Replace(t.all, recreated),
             per_dc |-> [d \in DCs |-> Replace(t.per_dc[d], recreated)], failed |-> t.failed]
    BY <1>0, <2>1, Zenon
  <2> QED BY <2>2 DEF w
<1> QED BY <1>1, <1>2, Zenon

-----------------------------------------------------------------------------
(* Maintenance of one tablet *)

\* What ClusterState::new computes from the known peers `old` and `new`.
Changes(old, new, removed_nodes, recreated_nodes) ==
    /\ removed_nodes = DOMAIN old \ DOMAIN new
    /\ DOMAIN recreated_nodes = {h \in DOMAIN old \cap DOMAIN new : old[h] # new[h]}
    /\ \A h \in DOMAIN recreated_nodes : recreated_nodes[h] = new[h]

\* A tablet survives a refresh iff all of its hosts are still known.
LEMMA SurvivesIffHostsKnown ==
    ASSUME NEW old, NEW new, PeersOK(old), PeersOK(new), NEW removed_nodes, NEW recreated_nodes,
           Changes(old, new, removed_nodes, recreated_nodes),
           NEW t \in TabletRecords, FreshTablet(t, old)
    PROVE  Survives(t, removed_nodes, new) <=> HostsOf(t) \subseteq DOMAIN new
<1>1. CASE t.failed = {}
  <2>1. ReResolveReplicas(t, new) = t /\ ~Unresolved(t, new)
    BY <1>1, Zenon DEF ReResolveReplicas, Unresolved
  <2>2. HostsOf(t) = {n.host_id : n \in t.all}
    BY <1>1, Zenon DEF HostsOf
  <2>3. \A n \in t.all : n.host_id \in DOMAIN old
    BY Zenon DEF FreshTablet, Current
  <2> QED BY <2>1, <2>2, <2>3, Zenon DEF Survives, Changes
<1>2. CASE t.failed # {}
  <2>1. HostsOf(t) = t.failed
    BY <1>2, Zenon DEF HostsOf
  <2>2. CASE t.failed \subseteq DOMAIN new
    <3>1. ~Unresolved(t, new) /\ \A d \in DCs : t.per_dc[d] \subseteq t.all
      BY <2>2, Zenon DEF Unresolved, FreshTablet
    <3>2. \A n \in ReResolveReplicas(t, new).all : Current(n, new)
      BY <1>2, <3>1, ReResolved
    <3> QED BY <2>1, <2>2, <3>1, <3>2, Zenon DEF Survives, Changes, Current
  <2>3. CASE ~(t.failed \subseteq DOMAIN new)
    BY <2>1, <2>3, Zenon DEF Survives, Unresolved
  <2> QED BY <2>2, <2>3, Zenon
<1> QED BY <1>1, <1>2, Zenon

\* What perform_maintenance makes of a tablet that survives: one with the same tokens and
\* hosts, whose Node objects are all current.
LEMMA TabletMaintained ==
    ASSUME NEW old, NEW new, PeersOK(old), PeersOK(new), NEW removed_nodes, NEW recreated_nodes,
           Changes(old, new, removed_nodes, recreated_nodes),
           NEW t \in TabletRecords, FreshTablet(t, old), Survives(t, removed_nodes, new)
    PROVE  LET w == UpdateStaleNodes(ReResolveReplicas(t, new), recreated_nodes) IN
           /\ w \in TabletRecords /\ w.failed = {} /\ FreshTablet(w, new)
           /\ w.first_token = t.first_token /\ w.last_token = t.last_token
           /\ HostsOf(w) = HostsOf(t)
<1> DEFINE u == ReResolveReplicas(t, new)
           w == UpdateStaleNodes(u, recreated_nodes)
           R(n) == IF n.host_id \in DOMAIN recreated_nodes THEN recreated_nodes[n.host_id] ELSE n
<1>1. /\ u \in TabletRecords /\ u.failed = {}
      /\ u.first_token = t.first_token /\ u.last_token = t.last_token
      /\ \A d \in DCs : u.per_dc[d] \subseteq u.all
      /\ HostsOf(u) = HostsOf(t)
      /\ t.failed = {} => u = t
      /\ t.failed # {} => \A n \in u.all : Current(n, new)
  BY ReResolved, Zenon DEF Survives, FreshTablet
<1>2. \A n \in u.all : n.host_id \notin removed_nodes
  BY Zenon DEF Survives
<1> HIDE DEF u
<1>3. /\ w.all = Replace(u.all, recreated_nodes)
      /\ w.per_dc = [d \in DCs |-> Replace(u.per_dc[d], recreated_nodes)]
      /\ w.first_token = u.first_token /\ w.last_token = u.last_token
      /\ w.failed = u.failed
      /\ w = [first_token |-> u.first_token, last_token |-> u.last_token,
              all |-> w.all, per_dc |-> w.per_dc, failed |-> u.failed]
  BY <1>1, StaleNodesReplaced, Zenon
<1>4. \A n \in u.all : n \in Nodes /\ Current(R(n), new) /\ R(n).host_id = n.host_id
  <2> SUFFICES ASSUME NEW n \in u.all
               PROVE  n \in Nodes /\ Current(R(n), new) /\ R(n).host_id = n.host_id
    BY Zenon
  <2>1. n \in Nodes
    BY <1>1, Zenon DEF TabletRecords
  <2>2. CASE n.host_id \in DOMAIN recreated_nodes
    <3>1. R(n) = new[n.host_id] /\ n.host_id \in DOMAIN new
      BY <2>2, Zenon DEF Changes
    <3>2. new[n.host_id].host_id = n.host_id
      BY <3>1, Zenon DEF PeersOK
    <3> HIDE DEF R
    <3> QED BY <2>1, <3>1, <3>2, Zenon DEF Current
  <2>3. CASE n.host_id \notin DOMAIN recreated_nodes
    <3>1. Current(n, new)
      <4>1. CASE t.failed # {}
        BY <1>1, <4>1, Zenon
      <4>2. CASE t.failed = {}
        <5>1. n.host_id \in DOMAIN old /\ old[n.host_id] = n
          BY <1>1, <4>2, Zenon DEF FreshTablet, Current
        <5> QED BY <1>2, <2>3, <5>1, Zenon DEF Changes, Current
      <4> QED BY <4>1, <4>2, Zenon
    <3> QED BY <2>1, <2>3, <3>1, Zenon
  <2> QED BY <2>2, <2>3, Zenon
<1>5. \A n \in u.all : R(n) \in Nodes
  BY <1>4, Zenon DEF Current, PeersOK
<1>6. \A S \in SUBSET u.all : Replace(S, recreated_nodes) = {R(n) : n \in S}
  BY Zenon DEF Replace
<1> HIDE DEF R, w
<1>7. w.all = {R(n) : n \in u.all}
  BY <1>3, <1>6, Zenon
<1>8. \A d \in DCs : w.per_dc[d] = {R(n) : n \in u.per_dc[d]}
  BY <1>1, <1>3, <1>6, Zenon
<1>9. w.all \in SUBSET Nodes
  BY <1>5, <1>7, Zenon
<1>10. \A d \in DCs : w.per_dc[d] \subseteq w.all
  BY <1>1, <1>7, <1>8
<1>11. w.per_dc \in [DCs -> SUBSET Nodes]
  <2>1. \A d \in DCs : w.per_dc[d] \in SUBSET Nodes
    BY <1>9, <1>10, Zenon
  <2> QED BY <1>3, <2>1, Zenon
<1>12. w \in TabletRecords
  BY <1>1, <1>3, <1>9, <1>11, Zenon DEF TabletRecords
<1>13. FreshTablet(w, new)
  BY <1>4, <1>7, <1>10, Zenon DEF FreshTablet
<1>14. HostsOf(w) = HostsOf(t)
  <2>1. {n.host_id : n \in w.all} = {n.host_id : n \in u.all}
    BY <1>4, <1>7
  <2> QED BY <1>1, <1>3, <2>1 DEF HostsOf
<1> QED BY <1>1, <1>3, <1>12, <1>13, <1>14 DEF w, u

-----------------------------------------------------------------------------
(* Maintenance of a table *)

\* The tablets of a table: no overlaps, current Node objects, and a flag that tells of
\* replicas that are not resolved.
TableOK(table, peers) ==
    /\ table.tablet_list \in Seq(TabletRecords)
    /\ table.has_unknown_replicas \in BOOLEAN
    /\ Disjoint(table.tablet_list)
    /\ \A i \in 1..Len(table.tablet_list) :
          /\ FreshTablet(table.tablet_list[i], peers)
          /\ table.tablet_list[i].failed # {} => table.has_unknown_replicas

\* A tablet as TabletMap sees it.
AsRange(t) == [first |-> t.first_token, last |-> t.last_token, replicas |-> HostsOf(t)]

AsRanges(list) == {AsRange(list[i]) : i \in 1..Len(list)}

\* The table r is in order and resolved, and has the tablets of the list whose hosts are
\* all known.
MaintainedFrom(r, list, peers) ==
    /\ TableOK(r, peers)
    /\ \A i \in 1..Len(r.tablet_list) : r.tablet_list[i].failed = {}
    /\ AsRanges(r.tablet_list) = {s \in AsRanges(list) : s.replicas \subseteq DOMAIN peers}

\* perform_maintenance keeps a table in order and resolves all of its replicas; of its
\* tablets exactly those go that have a host which is no longer known.
LEMMA TableMaintained ==
    ASSUME NEW old, NEW new, PeersOK(old), PeersOK(new), NEW removed_nodes, NEW recreated_nodes,
           Changes(old, new, removed_nodes, recreated_nodes),
           NEW table, TableOK(table, old)
    PROVE  MaintainedFrom(PerformMaintenance(table, removed_nodes, new, recreated_nodes),
                          table.tablet_list, new)
<1> DEFINE list == table.tablet_list
           n == Len(list)
           Re(t) == ReResolveReplicas(t, new)
           W(t) == UpdateStaleNodes(ReResolveReplicas(t, new), recreated_nodes)
           alive == {i \in 1..n : Survives(list[i], removed_nodes, new)}
           r == PerformMaintenance(table, removed_nodes, new, recreated_nodes)
           out == r.tablet_list
           sv == Surviving(table, removed_nodes, new)
<1>1. /\ list \in Seq(TabletRecords) /\ n \in Nat /\ Disjoint(list)
      /\ \A i \in 1..n : /\ list[i] \in TabletRecords /\ FreshTablet(list[i], old)
                         /\ list[i].failed # {} => table.has_unknown_replicas
  BY DEF TableOK
<1>2. PICK m, at : SurvivorsAt(at, m, table, removed_nodes, new)
  <2>1. table.tablet_list \in Seq(TabletRecords)
        /\ \A i \in 1..Len(table.tablet_list) :
               table.tablet_list[i].failed # {} => table.has_unknown_replicas
    BY Zenon DEF TableOK
  <2> QED BY <2>1, SurvivingSelects, Zenon
<1>3. /\ m \in Nat /\ at \in [1..m -> 1..n]
      /\ \A k, l \in 1..m : k < l => at[k] < at[l]
      /\ \A k \in 1..m : at[k] \in alive
      /\ \A i \in alive : \E k \in 1..m : at[k] = i
  BY <1>2, Zenon DEF SurvivorsAt, Selects
<1>4. sv = [k \in 1..m |-> Re(list[at[k]])]
  BY <1>2, Zenon DEF SurvivorsAt
<1>5. \A i \in alive : /\ W(list[i]) \in TabletRecords /\ W(list[i]).failed = {}
                       /\ FreshTablet(W(list[i]), new)
                       /\ W(list[i]).first_token = list[i].first_token
                       /\ W(list[i]).last_token = list[i].last_token
                       /\ HostsOf(W(list[i])) = HostsOf(list[i])
  <2> SUFFICES ASSUME NEW i \in alive
               PROVE  /\ W(list[i]) \in TabletRecords /\ W(list[i]).failed = {}
                      /\ FreshTablet(W(list[i]), new)
                      /\ W(list[i]).first_token = list[i].first_token
                      /\ W(list[i]).last_token = list[i].last_token
                      /\ HostsOf(W(list[i])) = HostsOf(list[i])
    BY Zenon
  <2>1. list[i] \in TabletRecords /\ FreshTablet(list[i], old)
        /\ Survives(list[i], removed_nodes, new)
    BY <1>1, Zenon
  <2> QED BY <2>1, TabletMaintained
<1>6. \A i \in 1..n : i \in alive <=> HostsOf(list[i]) \subseteq DOMAIN new
  <2> SUFFICES ASSUME NEW i \in 1..n
               PROVE  Survives(list[i], removed_nodes, new) <=> HostsOf(list[i]) \subseteq DOMAIN new
    BY Zenon
  <2>1. list[i] \in TabletRecords /\ FreshTablet(list[i], old)
    BY <1>1, Zenon
  <2> QED BY <2>1, SurvivesIffHostsKnown, Zenon
<1>7. out = [i \in 1..Len(sv) |-> UpdateStaleNodes(sv[i], recreated_nodes)]
      /\ r.has_unknown_replicas = FALSE
  BY Zenon DEF PerformMaintenance
<1>8. Len(sv) = m /\ \A k \in 1..m : sv[k] = Re(list[at[k]])
  <2> DEFINE S == {Re(list[at[k]]) : k \in 1..m}
  <2>1. sv \in [1..m -> S]
    BY <1>4, Zenon
  <2>2. Len(sv) = m
    BY <1>3, <2>1, SequenceGiven, Zenon
  <2> QED BY <1>4, <2>2, Zenon
<1> HIDE DEF sv, out, r, list, n, alive, W
<1>9. out = [k \in 1..m |-> W(list[at[k]])]
  BY <1>7, <1>8, Zenon DEF W
<1>10. \A k \in 1..m : out[k] = W(list[at[k]]) /\ at[k] \in alive /\ at[k] \in 1..n
  BY <1>3, <1>9, Zenon
<1>11. out \in Seq(TabletRecords) /\ Len(out) = m
  <2>1. out \in [1..m -> TabletRecords]
    <3>1. \A k \in 1..m : out[k] \in TabletRecords
      BY <1>5, <1>10
    <3> QED BY <1>9, <3>1, Zenon
  <2> QED BY <1>3, <2>1, SequenceGiven
<1>12. \A k \in 1..m : /\ out[k].first_token = list[at[k]].first_token
                       /\ out[k].last_token = list[at[k]].last_token
                       /\ HostsOf(out[k]) = HostsOf(list[at[k]])
                       /\ FreshTablet(out[k], new) /\ out[k].failed = {}
  BY <1>5, <1>10
<1>13. Disjoint(out)
  <2>1. \A k \in 1..m : out[k].first_token <= out[k].last_token
    BY <1>1, <1>10, <1>12 DEF Disjoint, n
  <2>2. \A k, l \in 1..m : k < l => out[k].last_token < out[l].first_token
    <3> SUFFICES ASSUME NEW k \in 1..m, NEW l \in 1..m, k < l
                 PROVE  out[k].last_token < out[l].first_token
      BY Zenon
    <3>1. at[k] \in 1..n /\ at[l] \in 1..n /\ at[k] < at[l]
      BY <1>3, <1>10
    <3>2. list[at[k]].last_token < list[at[l]].first_token
      BY <1>1, <3>1 DEF Disjoint, n
    <3> QED BY <1>12, <3>2, Zenon
  <2> QED BY <1>11, <2>1, <2>2 DEF Disjoint
<1>14. TableOK(r, new)
  BY <1>7, <1>11, <1>12, <1>13, Zenon DEF TableOK, out
<1>15. AsRanges(out) = {s \in AsRanges(list) : s.replicas \subseteq DOMAIN new}
  <2>1. \A k \in 1..m : AsRange(out[k]) = AsRange(list[at[k]])
    BY <1>12, Zenon DEF AsRange
  <2>2. \A i \in 1..n : AsRange(list[i]).replicas = HostsOf(list[i])
    BY Zenon DEF AsRange
  <2>3. ASSUME NEW k \in 1..m
        PROVE  AsRange(out[k]) \in {s \in AsRanges(list) : s.replicas \subseteq DOMAIN new}
    <3>1. at[k] \in 1..n /\ HostsOf(list[at[k]]) \subseteq DOMAIN new
      BY <1>6, <1>10, Zenon
    <3> QED BY <2>1, <2>2, <3>1, Zenon DEF AsRanges, n
  <2>4. ASSUME NEW s \in AsRanges(list), s.replicas \subseteq DOMAIN new
        PROVE  \E k \in 1..m : s = AsRange(out[k])
    <3>1. PICK i \in 1..n : s = AsRange(list[i])
      BY Zenon DEF AsRanges, n
    <3>2. i \in alive
      BY <1>6, <2>2, <2>4, <3>1
    <3>3. PICK k \in 1..m : at[k] = i
      BY <1>3, <3>2, Zenon
    <3> QED BY <2>1, <3>1, <3>3, Zenon
  <2>5. AsRanges(out) = {AsRange(out[k]) : k \in 1..m}
    BY <1>11, Zenon DEF AsRanges
  <2> HIDE DEF AsRanges, AsRange
  <2> QED BY <2>3, <2>4, <2>5, Zenon
<1> QED BY <1>11, <1>12, <1>14, <1>15, Zenon DEF MaintainedFrom, r, out, list

\* add_tablet keeps a table in order, and the new tablet replaces those it overlaps.
LEMMA TabletAdded ==
    ASSUME NEW peers, PeersOK(peers), NEW table, TableOK(table, peers),
           NEW t \in TabletRecords, FreshTablet(t, peers), t.first_token <= t.last_token
    PROVE  LET r == AddTablet(table, t) IN
           /\ TableOK(r, peers)
           /\ Elements(r.tablet_list) =
                 {u \in Elements(table.tablet_list) : u.last_token < t.first_token
                                                      \/ t.last_token < u.first_token} \cup {t}
           /\ r.has_unknown_replicas = (table.has_unknown_replicas \/ t.failed # {})
<1> DEFINE list == table.tablet_list
           out == InsertTablet(list, t)
           r == AddTablet(table, t)
<1>1. list \in Seq(TabletRecords) /\ Disjoint(list)
  BY Zenon DEF TableOK
<1>2. r.tablet_list = out /\ r.has_unknown_replicas = (table.has_unknown_replicas \/ t.failed # {})
  BY Zenon DEF AddTablet
<1>3. /\ Disjoint(out)
      /\ Elements(out) = {u \in Elements(list) : u.last_token < t.first_token
                                                 \/ t.last_token < u.first_token} \cup {t}
  BY <1>1, InsertCorrect, Zenon
<1>4. out \in Seq(TabletRecords)
  <2> DEFINE left == PartitionPoint(Len(list), {i \in 1..Len(list) : list[i].last_token < t.first_token})
             right == PartitionPoint(Len(list), {i \in 1..Len(list) : list[i].first_token <= t.last_token})
  <2>1. left \in 0..Len(list) /\ right \in 0..Len(list)
    BY <1>1, PartitionPointPrefix
  <2>2. out = SubSeq(list, 1, left) \o <<t>> \o SubSeq(list, right + 1, Len(list))
    BY Zenon DEF InsertTablet
  <2> HIDE DEF left, right, out
  <2> QED BY <1>1, <2>1, <2>2
<1> HIDE DEF out, r
<1>5. ASSUME NEW i \in 1..Len(out)
      PROVE  FreshTablet(out[i], peers) /\ (out[i].failed # {} => r.has_unknown_replicas)
  <2>1. out[i] \in Elements(list) \cup {t}
    BY <1>3, <1>5, Zenon DEF Elements
  <2>2. CASE out[i] = t
    BY <1>2, <2>2, Zenon
  <2>3. CASE out[i] \in Elements(list)
    BY <1>2, <2>3, Zenon DEF TableOK, Elements
  <2> QED BY <2>1, <2>2, <2>3, Zenon
<1>6. r.has_unknown_replicas \in BOOLEAN
  BY <1>2, Zenon
<1>7. TableOK(r, peers)
  BY <1>2, <1>3, <1>4, <1>5, <1>6 DEF TableOK
<1> QED BY <1>2, <1>3, <1>7, Zenon DEF r

-----------------------------------------------------------------------------
(* The inductive invariant *)

\* The inductive invariant: every table is in order with respect to the known peers, and
\* TabletsInfo remembers that a tablet has unknown replicas.
TabletsInv ==
    /\ TypeOK
    /\ \A b \in DOMAIN tablets : TableOK(tablets[b], known_peers)
    /\ \A b \in DOMAIN tablets : \A i \in 1..Len(tablets[b].tablet_list) :
          tablets[b].tablet_list[i].failed # {} => has_unknown_replicas

\* In every state the known peers are filed under their host ids.
LEMMA KnownPeersOK == TypeOK => PeersOK(known_peers)
BY Zenon DEF TypeOK, PeersOK

\* What ClusterState::new leaves behind when no assertion fails: new known peers, and of
\* the tables that still exist the tablets whose hosts are all known.
Refreshed(peers, tables) ==
    /\ DOMAIN known_peers' = DOMAIN peers
    /\ PeersOK(known_peers')
    /\ refreshes < MaxRefreshes /\ refreshes' = refreshes + 1
    /\ has_unknown_replicas' = FALSE
    /\ panicked' = panicked
    /\ DOMAIN tablets' = DOMAIN tablets \cap tables
    /\ \A b \in DOMAIN tablets' :
          MaintainedFrom(tablets'[b], tablets[b].tablet_list, known_peers')

\* A refresh does that, or the worker dies in the assertion and nothing changes.
LEMMA RefreshStep ==
    ASSUME TabletsInv, NEW peers \in PeerMaps(PeerData), NEW tables \in SUBSET Tables,
           RefreshTopology(peers, tables)
    PROVE  \/ Refreshed(peers, tables)
           \/ panicked' = TRUE /\ UNCHANGED <<known_peers, tablets, has_unknown_replicas, refreshes>>
<1> DEFINE new == [h \in DOMAIN peers |-> NodeForPeer(h, peers[h])]
           removed == DOMAIN known_peers \ DOMAIN peers
           rec == {h \in DOMAIN known_peers \cap DOMAIN peers : known_peers[h] # new[h]}
           recreated == [h \in rec |-> new[h]]
           kept == DOMAIN tablets \cap tables
           maintained == removed # {} \/ rec # {} \/ has_unknown_replicas
<1>1. /\ ~panicked /\ refreshes < MaxRefreshes /\ refreshes \in 0..MaxRefreshes
      /\ panicked \in BOOLEAN /\ has_unknown_replicas \in BOOLEAN
  BY Zenon DEF RefreshTopology, TabletsInv, TypeOK
<1>2. \/ /\ ~maintained
         /\ tablets' = [b \in kept |-> tablets[b]]
         /\ known_peers' = new /\ has_unknown_replicas' = FALSE
         /\ refreshes' = refreshes + 1 /\ panicked' = panicked
      \/ /\ maintained
         /\ tablets' = [b \in kept |-> PerformMaintenance(tablets[b], removed, new, recreated)]
         /\ known_peers' = new /\ has_unknown_replicas' = FALSE
         /\ refreshes' = refreshes + 1 /\ panicked' = panicked
      \/ panicked' = TRUE /\ UNCHANGED <<known_peers, tablets, has_unknown_replicas, refreshes>>
  BY DEF RefreshTopology
<1>3. PeersOK(known_peers)
  BY KnownPeersOK, Zenon DEF TabletsInv
<1>4. DOMAIN peers \in SUBSET HostIds /\ \A h \in DOMAIN peers : peers[h] \in PeerData
  BY Zenon DEF PeerMaps
<1>5. DOMAIN new = DOMAIN peers /\ PeersOK(new)
  <2>1. ASSUME NEW h \in DOMAIN peers
        PROVE  NodeForPeer(h, peers[h]) \in Nodes /\ NodeForPeer(h, peers[h]).host_id = h
    <3>1. CASE h \in DOMAIN known_peers /\ known_peers[h].data = peers[h]
      BY <1>3, <3>1 DEF NodeForPeer, PeersOK
    <3>2. CASE ~(h \in DOMAIN known_peers /\ known_peers[h].data = peers[h])
      <4>1. refreshes + 1 \in 0..MaxRefreshes
        BY <1>1, TabletsAssumption
      <4> QED BY <1>4, <3>2, <4>1, Zenon DEF NodeForPeer, Nodes
    <3> QED BY <3>1, <3>2, Zenon
  <2> QED BY <1>4, <2>1, Zenon DEF PeersOK
<1>6. Changes(known_peers, new, removed, recreated)
  BY <1>5, Zenon DEF Changes
<1>7. \A b \in kept : TableOK(tablets[b], known_peers)
  BY Zenon DEF TabletsInv
<1> HIDE DEF new
<1>8. CASE /\ ~maintained
           /\ tablets' = [b \in kept |-> tablets[b]]
           /\ known_peers' = new /\ has_unknown_replicas' = FALSE
           /\ refreshes' = refreshes + 1 /\ panicked' = panicked
  <2>1. DOMAIN known_peers \subseteq DOMAIN new
        /\ \A h \in DOMAIN known_peers : known_peers[h] = new[h]
    BY <1>5, <1>8, Zenon
  <2>2. \A x : Current(x, known_peers) => Current(x, new)
    BY <2>1, Zenon DEF Current
  <2>3. ASSUME NEW b \in kept
        PROVE  MaintainedFrom(tablets[b], tablets[b].tablet_list, new)
    <3> DEFINE list == tablets[b].tablet_list
    <3>1. \A i \in 1..Len(list) : list[i].failed = {}
      BY <1>8, Zenon DEF TabletsInv
    <3>2. \A i \in 1..Len(list) : FreshTablet(list[i], known_peers) /\ FreshTablet(list[i], new)
      BY <1>7, <2>2, Zenon DEF TableOK, FreshTablet
    <3>3. TableOK(tablets[b], new)
      BY <1>7, <3>2, Zenon DEF TableOK
    <3>4. \A i \in 1..Len(list) : AsRange(list[i]).replicas \subseteq DOMAIN new
      BY <3>1, <3>2 DEF AsRange, HostsOf, FreshTablet, Current
    <3>5. AsRanges(list) = {s \in AsRanges(list) : s.replicas \subseteq DOMAIN new}
      BY <3>4, Zenon DEF AsRanges
    <3> QED BY <3>1, <3>3, <3>5, Zenon DEF MaintainedFrom
  <2>4. DOMAIN tablets' = kept /\ \A b \in kept : tablets'[b] = tablets[b]
    BY <1>8, Zenon
  <2>5. Refreshed(peers, tables)
    <3> HIDE DEF maintained, rec
    <3> QED BY <1>1, <1>5, <1>8, <2>3, <2>4 DEF Refreshed
  <2> QED BY <2>5, Zenon
<1>9. CASE /\ maintained
           /\ tablets' = [b \in kept |-> PerformMaintenance(tablets[b], removed, new, recreated)]
           /\ known_peers' = new /\ has_unknown_replicas' = FALSE
           /\ refreshes' = refreshes + 1 /\ panicked' = panicked
  <2> DEFINE P(b) == PerformMaintenance(tablets[b], removed, new, recreated)
  <2>1. \A b \in kept : MaintainedFrom(P(b), tablets[b].tablet_list, new)
    <3> HIDE DEF removed, recreated
    <3> QED BY <1>3, <1>5, <1>6, <1>7, TableMaintained
  <2> HIDE DEF P
  <2>2. DOMAIN tablets' = kept /\ \A b \in kept : tablets'[b] = P(b)
    BY <1>9 DEF P
  <2>3. Refreshed(peers, tables)
    <3> HIDE DEF maintained, rec, removed, recreated
    <3> QED BY <1>1, <1>5, <1>9, <2>1, <2>2 DEF Refreshed
  <2> QED BY <2>3, Zenon
<1> QED BY <1>2, <1>8, <1>9, Zenon

\* What update_tablets leaves behind: the new tablet has replaced those it overlaps.
LEMMA UpdateStep ==
    ASSUME TabletsInv, NEW b \in Tables, NEW raw \in RawTablets, UpdateTablets(b, raw)
    PROVE  LET t == FromRawTablet(raw, known_peers)
               old == IF b \in DOMAIN tablets THEN tablets[b] ELSE NewTable IN
           /\ DOMAIN tablets' = DOMAIN tablets \cup {b}
           /\ \A c \in DOMAIN tablets \ {b} : tablets'[c] = tablets[c]
           /\ tablets'[b] = AddTablet(old, t)
           /\ TableOK(old, known_peers) /\ TableOK(tablets'[b], known_peers)
           /\ Elements(tablets'[b].tablet_list) =
                 {u \in Elements(old.tablet_list) : u.last_token < t.first_token
                                                    \/ t.last_token < u.first_token} \cup {t}
           /\ t \in TabletRecords /\ t.first_token <= t.last_token
           /\ HostsOf(t) = raw.replicas
           /\ has_unknown_replicas' = (has_unknown_replicas \/ t.failed # {})
           /\ UNCHANGED <<known_peers, refreshes, panicked>>
<1> DEFINE t == FromRawTablet(raw, known_peers)
           old == IF b \in DOMAIN tablets THEN tablets[b] ELSE NewTable
<1>1. PeersOK(known_peers)
  BY KnownPeersOK, Zenon DEF TabletsInv
<1>2. /\ t \in TabletRecords /\ FreshTablet(t, known_peers)
      /\ t.first_token <= t.last_token /\ HostsOf(t) = raw.replicas
  BY <1>1, FromRawTabletFresh, Zenon
<1>3. TableOK(old, known_peers)
  <2>1. TableOK(NewTable, known_peers)
    BY DEF TableOK, NewTable, Disjoint
  <2> QED BY <2>1, Zenon DEF TabletsInv
<1>4. /\ tablets' = [c \in DOMAIN tablets \cup {b} |-> IF c = b THEN AddTablet(old, t) ELSE tablets[c]]
      /\ has_unknown_replicas' = (has_unknown_replicas \/ t.failed # {})
      /\ UNCHANGED <<known_peers, refreshes, panicked>>
  BY Zenon DEF UpdateTablets
<1> HIDE DEF t, old
<1>5. /\ TableOK(AddTablet(old, t), known_peers)
      /\ Elements(AddTablet(old, t).tablet_list) =
            {u \in Elements(old.tablet_list) : u.last_token < t.first_token
                                               \/ t.last_token < u.first_token} \cup {t}
  BY <1>1, <1>2, <1>3, TabletAdded
<1>6. /\ DOMAIN tablets' = DOMAIN tablets \cup {b}
      /\ \A c \in DOMAIN tablets \ {b} : tablets'[c] = tablets[c]
      /\ tablets'[b] = AddTablet(old, t)
  BY <1>4, Zenon
<1> QED BY <1>2, <1>3, <1>4, <1>5, <1>6 DEF t, old

\* The invariant holds at first, when there are no tablets.
LEMMA TabletsInvInit == Init => TabletsInv
<1> SUFFICES ASSUME Init PROVE TabletsInv
  BY Zenon
<1>1. PICK peers \in PeerMaps(PeerData) :
         known_peers = [h \in DOMAIN peers |-> [host_id |-> h, data |-> peers[h], created |-> 0]]
  BY Zenon DEF Init
<1>2. DOMAIN peers \in (SUBSET HostIds) \ {{}} /\ \A h \in DOMAIN peers : peers[h] \in PeerData
  BY Zenon DEF PeerMaps
<1>3. DOMAIN known_peers = DOMAIN peers
      /\ \A h \in DOMAIN peers : known_peers[h] \in Nodes /\ known_peers[h].host_id = h
  <2>1. 0 \in 0..MaxRefreshes
    BY TabletsAssumption
  <2> QED BY <1>1, <1>2, <2>1, Zenon DEF Nodes
<1>4. known_peers \in [DOMAIN known_peers -> Nodes]
  BY <1>1, <1>3, Zenon
<1>5. DOMAIN tablets = {}
  BY DEF Init
<1>6. refreshes \in 0..MaxRefreshes
  BY TabletsAssumption DEF Init
<1>7. has_unknown_replicas \in BOOLEAN /\ panicked \in BOOLEAN
  BY Zenon DEF Init
<1> QED BY <1>2, <1>3, <1>4, <1>5, <1>6, <1>7, Zenon DEF TabletsInv, TypeOK

\* Every step of the worker preserves the invariant.
LEMMA TabletsInvStep == TabletsInv /\ [Next]_vars => TabletsInv'
<1> SUFFICES ASSUME TabletsInv, [Next]_vars PROVE TabletsInv'
  BY Zenon
<1>0. TypeOK
  BY Zenon DEF TabletsInv
<1>1. ASSUME NEW b \in Tables, NEW raw \in RawTablets, UpdateTablets(b, raw)
      PROVE  TabletsInv'
  <2> DEFINE t == FromRawTablet(raw, known_peers)
             old == IF b \in DOMAIN tablets THEN tablets[b] ELSE NewTable
  <2>1. /\ DOMAIN tablets' = DOMAIN tablets \cup {b}
        /\ \A c \in DOMAIN tablets \ {b} : tablets'[c] = tablets[c]
        /\ TableOK(tablets'[b], known_peers)
        /\ Elements(tablets'[b].tablet_list) =
              {u \in Elements(old.tablet_list) : u.last_token < t.first_token
                                                 \/ t.last_token < u.first_token} \cup {t}
        /\ has_unknown_replicas' = (has_unknown_replicas \/ t.failed # {})
        /\ UNCHANGED <<known_peers, refreshes, panicked>>
    BY <1>1, UpdateStep, Zenon
  <2> HIDE DEF t
  <2>2. \A c \in DOMAIN tablets' : TableOK(tablets'[c], known_peers)
    BY <2>1, Zenon DEF TabletsInv
  <2>3. \A c \in DOMAIN tablets' : tablets'[c].tablet_list \in Seq(TabletRecords)
                                   /\ tablets'[c].has_unknown_replicas \in BOOLEAN
    BY <2>2, Zenon DEF TableOK
  <2>4. DOMAIN tablets' \subseteq Tables
    BY <1>0, <2>1, Zenon DEF TypeOK
  <2>5. has_unknown_replicas' \in BOOLEAN
    BY <2>1, Zenon
  <2>6. TypeOK'
    BY <1>0, <2>1, <2>3, <2>4, <2>5 DEF TypeOK
  <2>7. ASSUME NEW c \in DOMAIN tablets', NEW i \in 1..Len(tablets'[c].tablet_list),
               tablets'[c].tablet_list[i].failed # {}
        PROVE  has_unknown_replicas'
    <3>1. CASE c # b
      <4>1. c \in DOMAIN tablets /\ tablets'[c] = tablets[c]
        BY <2>1, <3>1, Zenon
      <4> QED BY <2>1, <2>7, <4>1, Zenon DEF TabletsInv
    <3>2. CASE c = b
      <4>1. tablets'[b].tablet_list[i] \in Elements(tablets'[b].tablet_list)
        BY <2>7, <3>2, Zenon DEF Elements
      <4>2. CASE tablets'[b].tablet_list[i] = t
        BY <2>1, <2>7, <3>2, <4>2, Zenon
      <4>3. CASE tablets'[b].tablet_list[i] \in Elements(old.tablet_list)
        <5>1. b \in DOMAIN tablets /\ old = tablets[b]
          BY <4>3 DEF NewTable, Elements
        <5> QED BY <2>1, <2>7, <3>2, <4>3, <5>1, Zenon DEF TabletsInv, Elements
      <4> QED BY <2>1, <4>1, <4>2, <4>3
    <3> QED BY <3>1, <3>2, Zenon
  <2> QED BY <2>1, <2>2, <2>6, <2>7, Zenon DEF TabletsInv
<1>2. ASSUME NEW peers \in PeerMaps(PeerData), NEW tables \in SUBSET Tables,
             RefreshTopology(peers, tables)
      PROVE  TabletsInv'
  <2>1. CASE Refreshed(peers, tables)
    <3>1. /\ DOMAIN known_peers' = DOMAIN peers /\ PeersOK(known_peers')
          /\ refreshes < MaxRefreshes /\ refreshes' = refreshes + 1
          /\ has_unknown_replicas' = FALSE /\ panicked' = panicked
          /\ DOMAIN tablets' = DOMAIN tablets \cap tables
          /\ \A b \in DOMAIN tablets' :
                /\ TableOK(tablets'[b], known_peers')
                /\ \A i \in 1..Len(tablets'[b].tablet_list) : tablets'[b].tablet_list[i].failed = {}
      BY <2>1, Zenon DEF Refreshed, MaintainedFrom
    <3>2. DOMAIN known_peers' \in (SUBSET HostIds) \ {{}}
      BY <3>1, Zenon DEF PeerMaps
    <3>3. known_peers' \in [DOMAIN known_peers' -> Nodes]
      <4>1. known_peers' = [h \in DOMAIN peers |-> NodeForPeer(h, peers[h])] \/ known_peers' = known_peers
        BY <1>2, Zenon DEF RefreshTopology
      <4>2. known_peers' = [h \in DOMAIN known_peers' |-> known_peers'[h]]
        BY <1>0, <4>1 DEF TypeOK
      <4> QED BY <3>1, <4>2, Zenon DEF PeersOK
    <3>4. refreshes' \in 0..MaxRefreshes
      BY <1>0, <3>1, TabletsAssumption DEF TypeOK
    <3>5. TypeOK'
      BY <1>0, <3>1, <3>2, <3>3, <3>4, Zenon DEF TypeOK, PeersOK, TableOK
    <3> QED BY <3>1, <3>5, Zenon DEF TabletsInv
  <2>2. CASE panicked' = TRUE /\ UNCHANGED <<known_peers, tablets, has_unknown_replicas, refreshes>>
    BY <2>2, Zenon DEF TabletsInv, TypeOK
  <2> QED BY <1>2, <2>1, <2>2, RefreshStep, Zenon
<1>3. CASE Dead
  BY <1>3, Zenon DEF Dead, vars, TabletsInv, TypeOK
<1>4. CASE UNCHANGED vars
  BY <1>4, Zenon DEF vars, TabletsInv, TypeOK
<1> QED BY <1>1, <1>2, <1>3, <1>4, Zenon DEF Next

-----------------------------------------------------------------------------
(* What a request relies on, and the abstract map *)

\* The invariant says what a request that is routed by tablets relies on.
LEMMA TabletsInvSound == TabletsInv => TabletsSound
<1> SUFFICES ASSUME TabletsInv PROVE TabletsSound
  BY Zenon
<1>1. \A b \in DOMAIN tablets : TableOK(tablets[b], known_peers)
  BY Zenon DEF TabletsInv
<1>2. TabletsDisjoint
  BY <1>1, Zenon DEF TabletsDisjoint, TableOK
<1>3. LookupFindsOwner
  BY <1>2, LookupInvariant, Zenon DEF TabletsInv
<1>4. NoStaleNodes
  BY <1>1 DEF NoStaleNodes, TableOK, FreshTablet, Current
<1>5. UnknownReplicasFlagged
  BY <1>1, Zenon DEF UnknownReplicasFlagged, TableOK, TabletsInv
<1> QED BY <1>2, <1>3, <1>4, <1>5, Zenon DEF TabletsSound

\* Through any history of learnt tablets and refreshes the lists of tablets are sorted
\* and free of overlaps, lookups are exact, tablets refer to current Node objects only,
\* and unknown replicas are remembered by both flags.
THEOREM TabletsSafe == Spec => []TabletsSound
<1>1. Init => TabletsInv
  BY TabletsInvInit, Zenon
<1>2. TabletsInv /\ [Next]_vars => TabletsInv'
  BY TabletsInvStep, Zenon
<1>3. TabletsInv => TabletsSound
  BY TabletsInvSound
<1> QED BY <1>1, <1>2, <1>3, PTL DEF Spec

\* What the lists of tablets hold for the abstract map.
LEMMA LearntAsRanges ==
    /\ \A b : Learnt(b) = IF b \in DOMAIN tablets THEN AsRanges(tablets[b].tablet_list) ELSE {}
    /\ \A b : Learnt(b)' = IF b \in DOMAIN tablets' THEN AsRanges(tablets'[b].tablet_list) ELSE {}
BY Zenon DEF Learnt, AsRanges, AsRange, HostsOf

\* The first ClusterState is an empty map.
LEMMA MapInitImplemented == Init => Map!MapInit
<1> SUFFICES ASSUME Init PROVE Map!MapInit
  BY Zenon
<1>1. DOMAIN known_peers \in (SUBSET HostIds) \ {{}}
  BY TabletsInvInit, Zenon DEF TabletsInv, TypeOK
<1>2. \A b \in Tables : Learnt(b) = {}
  BY DEF Init, Learnt
<1> QED BY <1>1, <1>2 DEF Map!MapInit

\* update_tablets replaces the tablets that the new one overlaps.
LEMMA UpdateImplements ==
    ASSUME TabletsInv, NEW b \in Tables, NEW raw \in RawTablets, UpdateTablets(b, raw)
    PROVE  Map!MapNext
<1> DEFINE t == FromRawTablet(raw, known_peers)
           old == IF b \in DOMAIN tablets THEN tablets[b] ELSE NewTable
           new == tablets'[b].tablet_list
           apart(u) == u.last_token < t.first_token \/ t.last_token < u.first_token
<1>1. /\ DOMAIN tablets' = DOMAIN tablets \cup {b}
      /\ \A c \in DOMAIN tablets \ {b} : tablets'[c] = tablets[c]
      /\ TableOK(old, known_peers)
      /\ Elements(new) = {u \in Elements(old.tablet_list) : apart(u)} \cup {t}
      /\ t \in TabletRecords /\ t.first_token <= t.last_token
      /\ HostsOf(t) = raw.replicas
      /\ UNCHANGED known_peers
  BY UpdateStep, Zenon
<1>2. AsRange(t) \in Map!Ranges
  BY <1>1 DEF AsRange, Map!Ranges, Map!Token, Token, TabletRecords, RawTablets
<1>3. Learnt(b) = AsRanges(old.tablet_list) /\ Learnt(b)' = AsRanges(new)
  <2>1. Learnt(b) = AsRanges(old.tablet_list)
    BY LearntAsRanges DEF NewTable, AsRanges
  <2>2. Learnt(b)' = AsRanges(new)
    <3>1. b \in DOMAIN tablets'
      BY <1>1, Zenon
    <3> QED BY <3>1, LearntAsRanges, Zenon
  <2> QED BY <2>1, <2>2, Zenon
<1>4. \A c \in Tables \ {b} : Learnt(c)' = Learnt(c)
  <2> SUFFICES ASSUME NEW c \in Tables \ {b} PROVE Learnt(c)' = Learnt(c)
    BY Zenon
  <2>1. c \in DOMAIN tablets' <=> c \in DOMAIN tablets
    BY <1>1, Zenon
  <2>2. CASE c \in DOMAIN tablets
    <3>1. tablets'[c] = tablets[c]
      BY <1>1, <2>2, Zenon
    <3> QED BY <2>1, <2>2, <3>1, LearntAsRanges, Zenon
  <2>3. CASE c \notin DOMAIN tablets
    BY <2>1, <2>3, Zenon DEF Learnt
  <2> QED BY <2>2, <2>3, Zenon
<1>5. \A list : AsRanges(list) = {AsRange(u) : u \in Elements(list)}
  BY Zenon DEF AsRanges, Elements
<1>6. \A u \in Elements(old.tablet_list) :
         apart(u) <=> ~Map!Overlap(AsRange(u), AsRange(t))
  <2> SUFFICES ASSUME NEW u \in Elements(old.tablet_list)
               PROVE  apart(u) <=> ~Map!Overlap(AsRange(u), AsRange(t))
    BY Zenon
  <2>1. u \in TabletRecords
    BY <1>1 DEF Elements, TableOK
  <2>2. /\ u.first_token \in Int /\ u.last_token \in Int
        /\ t.first_token \in Int /\ t.last_token \in Int
    BY <1>1, <2>1, TabletsAssumption DEF TabletRecords, Token
  <2> HIDE DEF t
  <2> QED BY <2>2 DEF AsRange, Map!Overlap
<1> HIDE DEF t, old, new
<1>7. AsRanges(new) = {s \in AsRanges(old.tablet_list) : ~Map!Overlap(s, AsRange(t))} \cup {AsRange(t)}
  BY <1>1, <1>5, <1>6
<1>8. Map!Learn(b, AsRange(t))
  BY <1>1, <1>3, <1>4, <1>7, Zenon DEF Map!Learn
<1>9. AsRange(t) \in [c \in Tables |-> Learnt(c)'][b]
  BY <1>3, <1>7, Zenon
<1> QED BY <1>2, <1>8, <1>9 DEF Map!MapNext

\* ClusterState::new forgets dropped tables and tablets of unknown hosts, nothing else.
LEMMA RefreshImplements ==
    ASSUME TabletsInv, NEW peers \in PeerMaps(PeerData), NEW tables \in SUBSET Tables,
           Refreshed(peers, tables)
    PROVE  Map!MapNext
<1>1. DOMAIN known_peers' \in (SUBSET HostIds) \ {{}}
  BY Zenon DEF Refreshed, PeerMaps
<1>2. /\ DOMAIN tablets' = DOMAIN tablets \cap tables
      /\ \A b \in DOMAIN tablets' :
            AsRanges(tablets'[b].tablet_list) =
               {s \in AsRanges(tablets[b].tablet_list) : s.replicas \subseteq DOMAIN known_peers'}
  BY Zenon DEF Refreshed, MaintainedFrom
<1>4. ASSUME NEW b \in Tables
      PROVE  Learnt(b)' = IF b \in tables
                          THEN {s \in Learnt(b) : s.replicas \subseteq DOMAIN known_peers'} ELSE {}
  BY <1>2, LearntAsRanges, Zenon
<1>5. Map!Refresh(tables)
  BY <1>1, <1>4 DEF Map!Refresh
<1> QED BY <1>5, Zenon DEF Map!MapNext

\* Every step of the worker is a step of the abstract map, or none.
LEMMA MapStepImplemented ==
    TabletsInv /\ [Next]_vars => [Map!MapNext]_<<DOMAIN known_peers, [b \in Tables |-> Learnt(b)]>>
<1> SUFFICES ASSUME TabletsInv, [Next]_vars
             PROVE  Map!MapNext \/ UNCHANGED <<DOMAIN known_peers, [b \in Tables |-> Learnt(b)]>>
  BY Zenon
<1>1. ASSUME UNCHANGED <<known_peers, tablets>>
      PROVE  UNCHANGED <<DOMAIN known_peers, [b \in Tables |-> Learnt(b)]>>
  BY <1>1 DEF Learnt
<1>2. ASSUME NEW b \in Tables, NEW raw \in RawTablets, UpdateTablets(b, raw)
      PROVE  Map!MapNext
  BY <1>2, UpdateImplements, Zenon
<1>3. ASSUME NEW peers \in PeerMaps(PeerData), NEW tables \in SUBSET Tables,
             RefreshTopology(peers, tables)
      PROVE  Map!MapNext \/ UNCHANGED <<known_peers, tablets>>
  BY <1>3, RefreshStep, RefreshImplements, Zenon
<1>4. CASE Dead \/ UNCHANGED vars
  BY <1>1, <1>4, Zenon DEF Dead, vars
<1> QED BY <1>1, <1>2, <1>3, <1>4, Zenon DEF Next

\* The sorted lists, flags and Node objects implement the plain map of TabletMap.
THEOREM TabletsImplementMap == Spec => ImplementsTabletMap
<1>1. Init => TabletsInv
  BY TabletsInvInit, Zenon
<1>2. TabletsInv /\ [Next]_vars => TabletsInv'
  BY TabletsInvStep, Zenon
<1>3. Init => Map!MapInit
  BY MapInitImplemented, Zenon
<1>4. TabletsInv /\ [Next]_vars => [Map!MapNext]_<<DOMAIN known_peers, [b \in Tables |-> Learnt(b)]>>
  BY MapStepImplemented, Zenon
<1> QED BY <1>1, <1>2, <1>3, <1>4, PTL DEF Spec, ImplementsTabletMap, Map!MapSpec

=============================================================================
