------------------------------ MODULE TabletMap ------------------------------
(***************************************************************************)
(* What the tablet information of a ClusterState promises: per table, the  *)
(* set of the tablets learnt from the servers, where a newer tablet        *)
(* replaces those it overlaps.  A topology refresh forgets the tablets of  *)
(* dropped tables and those with a replica on a host that is not known;    *)
(* nothing else is ever lost, and nothing is invented.                     *)
(***************************************************************************)
EXTENDS Integers

CONSTANTS
    HostIds,     \* host ids
    Tables,
    MaxToken   \* bound: tokens are 1..MaxToken

VARIABLES
    hosts,     \* the hosts known since the last refresh
    learnt     \* the tablets of each table

Token == 1..MaxToken

\* A range of tokens, both ends included, and the hosts that replicate it.
Ranges == {t \in [first : Token, last : Token, replicas : SUBSET HostIds] :
              t.first <= t.last /\ t.replicas # {}}

Overlap(s, t) == s.first <= t.last /\ t.first <= s.last

MapInit ==
    /\ hosts \in (SUBSET HostIds) \ {{}}
    /\ learnt = [b \in Tables |-> {}]

Learn(b, t) ==
    /\ learnt' = [learnt EXCEPT ![b] = {s \in @ : ~Overlap(s, t)} \cup {t}]
    /\ UNCHANGED hosts

Refresh(tables) ==
    /\ hosts' \in (SUBSET HostIds) \ {{}}
    /\ learnt' = [b \in Tables |->
                     IF b \in tables THEN {t \in learnt[b] : t.replicas \subseteq hosts'}
                     ELSE {}]

\* The tablet that a step learns is one of those known after it.
MapNext ==
    \/ \E b \in Tables : \E t \in learnt'[b] : t \in Ranges /\ Learn(b, t)
    \/ \E tables \in SUBSET Tables : Refresh(tables)

MapSpec == MapInit /\ [][MapNext]_<<hosts, learnt>>

=============================================================================
