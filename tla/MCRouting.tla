------------------------------- MODULE MCRouting -------------------------------
(***************************************************************************)
(* Instance of Routing: three nodes on the ring in two datacenters, with   *)
(* one more that is known but has no tokens; tokens of three bits.  The    *)
(* tablets are those of MCTablets.                                         *)
(***************************************************************************)
EXTENDS Routing, MCTablets

CONSTANTS n1, n2, n3, n4, dc1, dc2, dc9, rA, rB, r1, r2

TwoDcs == [ring |-> (-3 :> n1) @@ (-1 :> n2) @@ (0 :> n3) @@ (2 :> n1),
           dc |-> (n1 :> dc1) @@ (n2 :> dc1) @@ (n3 :> dc2) @@ (n4 :> dc1),
           rack |-> (n1 :> rA) @@ (n2 :> rB) @@ (n3 :> rA) @@ (n4 :> rA),
           shards |-> (n1 :> 3) @@ (n2 :> 2) @@ (n3 :> 0) @@ (n4 :> 1),
           msb |-> (n1 :> 0) @@ (n2 :> 1) @@ (n3 :> 0) @@ (n4 :> 0)]

NoRfs == [dc \in {} |-> 0]
Simple(n) == [kind |-> "Simple", rf |-> n, rfs |-> NoRfs]
Nts(f) == [kind |-> "NTS", rf |-> 0, rfs |-> f]
Unknown == [kind |-> "Other", rf |-> 0, rfs |-> NoRfs]

Base == [top |-> TwoDcs, strategies |-> {Simple(2), Nts((dc1 :> 1) @@ (dc2 :> 1))},
         strategy |-> Simple(2), token |-> -2, tablets |-> NoTablets, aware |-> TRUE, routed |-> TRUE,
         dc |-> None, rack |-> None, failover |-> FALSE, lwt |-> FALSE, latency |-> FALSE,
         target |-> None, enabled |-> {n1, n2, n3}]

Located(q) ==
    {q, [q EXCEPT !.dc = dc1], [q EXCEPT !.dc = dc1, !.rack = rA],
     [q EXCEPT !.dc = dc1, !.rack = rB, !.failover = TRUE], [q EXCEPT !.dc = dc2, !.failover = TRUE],
     [q EXCEPT !.dc = dc9]}

Replicated == {Simple(2), Nts((dc1 :> 1) @@ (dc2 :> 1)), Nts((dc1 :> 2) @@ (dc2 :> 0)), Unknown}

MCQueries ==
    UNION {Located([Base EXCEPT !.strategy = s, !.lwt = l, !.token = t]) :
              s \in Replicated, l \in BOOLEAN, t \in {1}}
    \cup UNION {Located([Base EXCEPT !.routed = FALSE]), Located([Base EXCEPT !.aware = FALSE, !.lwt = TRUE]),
                Located([Base EXCEPT !.enabled = {n1, n3}, !.token = 2]),
                Located([Base EXCEPT !.enabled = {}])}
    \cup {[Base EXCEPT !.tablets = ts, !.lwt = l, !.dc = d, !.failover = TRUE] :
              ts \in {<<[first |-> -3, last |-> 0, replicas |-> <<<<n2, 1>>, <<n3, 0>>>>]>>,
                      <<[first |-> 1, last |-> 3, replicas |-> <<<<n2, 1>>>>]>>},
              l \in BOOLEAN, d \in {None, dc2}}
    \cup {[Base EXCEPT !.target = <<n4, 0>>], [Base EXCEPT !.target = <<n1, NoShard>>]}
    \cup {[Base EXCEPT !.latency = TRUE, !.lwt = l, !.dc = dc1, !.enabled = {n1, n2}] : l \in BOOLEAN}

MCIdleQuery == [Base EXCEPT !.routed = FALSE]

MCHosts == {n1, n2}
Averaged == {NoAverage} \cup
    [known : {TRUE}, measures : {2}, average : {1, 4}, recent : {TRUE}]
MCLatencyStates ==
    {s \in [avgs : [MCHosts -> Averaged], min : {Unmeasured, 1, 4}] :
        s.min # Unmeasured => \E h \in MCHosts : s.avgs[h].measures > 0}

(* Lookups: every assignment of five tokens to four nodes.                 *)
MCDc(n) == CASE n = n1 -> dc1 [] n = n2 -> dc1 [] n = n3 -> dc1 [] n = n4 -> dc2
MCRack(n) == CASE n = n1 -> rA [] n = n2 -> rB [] n = n3 -> rA [] n = n4 -> None
Rings == [{-3, -1, 0, 2} -> {n1, n2, n3, n4}]
Asked == {Simple(1), Simple(3), Unknown} \cup
         {Nts((dc1 :> a) @@ (dc2 :> b)) : a \in {1, 2, 3}, b \in {0, 1}} \cup {Nts(dc1 :> 5)}
MCLookups ==
    {[top |-> [ring |-> ring, dc |-> [n \in {n1, n2, n3, n4} |-> MCDc(n)],
               rack |-> [n \in {n1, n2, n3, n4} |-> MCRack(n)]],
      strategies |-> {Simple(2), Nts((dc1 :> 2) @@ (dc2 :> 1)), Nts(dc1 :> 3), Unknown},
      strategy |-> s, token |-> t] : ring \in Rings, s \in Asked, t \in {-2, 3}}

MCPortSamples == {[nr_shards |-> k, range |-> <<a, a + l>>] : k \in 1 .. 4, a \in 20 .. 24, l \in 2 .. 12}
MCShardSamples == [nr_shards : 1 .. 5, msb_ignore : 0 .. 2]

MCClockReadings == {-1, 0, 2, 5}
MCPieces == {<<0>>, <<1, 2>>, <<3, 1, 0, 2>>, <<2, 0, 1, 1, 3, 2, 0>>}
MCKeyIndexes ==
    {<<[index |-> 0, sequence |-> 0]>>, <<[index |-> 1, sequence |-> 0]>>,
     <<[index |-> 0, sequence |-> 1], [index |-> 1, sequence |-> 0]>>,
     <<[index |-> 0, sequence |-> 0], [index |-> 2, sequence |-> 1]>>}
KeyValues == {Null, <<>>, <<1>>, <<1, 2>>, <<2, 2, 2>>}
MCKeySamples == UNION {[1 .. n -> KeyValues] : n \in 1 .. 3}
=============================================================================
