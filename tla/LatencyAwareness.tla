--------------------------- MODULE LatencyAwareness ---------------------------
(***************************************************************************)
(* latency_awareness (policies/load_balancing/default.rs): the average     *)
(* latency of every node, the minimum that a task recomputes at intervals, *)
(* and which nodes are penalised.  Latencies are small integers, zero is a *)
(* measure the code ignores; an average is any number between the old one  *)
(* and the new measure, which is where the weights of compute_next lie.    *)
(***************************************************************************)
EXTENDS Integers, FiniteSets, Functions

CONSTANTS Hosts,                \* the nodes requests are sent to
          Reporters,            \* the tasks that finish a request
          Latencies,            \* what they measure
          ExclusionThreshold,   \* exclusion_threshold
          MinimumMeasurements,  \* minimum_measurements
          MaxReports            \* bound on the reports of a behaviour

ASSUME LatencyConstants == /\ ExclusionThreshold \in Nat \ {0}
                           /\ MinimumMeasurements \in Nat
                           /\ Latencies \subseteq Nat

VARIABLES node_avgs,          \* known: the node is in the map; measures = 0: its entry is None
          last_min_latency,   \* Unmeasured until the first tick that finds one
          reporter,           \* the state of each report_request call
          measured,           \* history: reports of each node with a latency
          settled             \* history: nothing was reported since the last tick

latencyVars == <<node_avgs, last_min_latency, reporter, measured, settled>>

Unmeasured == -1
NoAverage == [known |-> FALSE, measures |-> 0, average |-> 0, recent |-> FALSE]
IdleReporter == [pc |-> "idle", host |-> CHOOSE h \in Hosts : TRUE, latency |-> 0]

LatencyInit ==
    /\ node_avgs = [h \in Hosts |-> NoAverage]
    /\ last_min_latency = Unmeasured
    /\ reporter = [r \in Reporters |-> IdleReporter]
    /\ measured = [h \in Hosts |-> 0]
    /\ settled = FALSE

Between(a, b) == IF a <= b THEN a .. b ELSE b .. a

(* TimestampedAverage::compute_next: the set of its results.               *)
ComputeNext(prev, latency) ==
    IF latency = 0 THEN {[prev EXCEPT !.known = TRUE]}
    ELSE {[known |-> TRUE, measures |-> prev.measures + 1, average |-> a, recent |-> TRUE] :
            a \in IF prev.measures = 0 THEN {latency} ELSE Between(prev.average, latency)}

Noted(h, latency) ==
    /\ measured' = IF latency = 0 THEN measured ELSE [measured EXCEPT ![h] = @ + 1]
    /\ settled' = FALSE

Reports == SumFunction(measured)

(* The usual path of report_request: under the read lock of the map.       *)
ReportKnown(r, h, latency) ==
    /\ Reports < MaxReports /\ reporter[r].pc = "idle" /\ node_avgs[h].known
    /\ \E next \in ComputeNext(node_avgs[h], latency) : node_avgs' = [node_avgs EXCEPT ![h] = next]
    /\ Noted(h, latency)
    /\ UNCHANGED <<last_min_latency, reporter>>

(* The node is not in the map: the read lock is dropped.                   *)
ReportUnknown(r, h, latency) ==
    /\ Reports < MaxReports /\ reporter[r].pc = "idle" /\ ~node_avgs[h].known
    /\ reporter' = [reporter EXCEPT ![r] = [pc |-> "insert", host |-> h, latency |-> latency]]
    /\ UNCHANGED <<node_avgs, last_min_latency, measured, settled>>

(* The insertion trusts what was read before the lock was dropped.         *)
ReportInsertStale(r) ==
    LET h == reporter[r].host
    IN /\ reporter[r].pc = "insert"
       /\ \E next \in ComputeNext(NoAverage, reporter[r].latency) :
             node_avgs' = [node_avgs EXCEPT ![h] = next]
       /\ Noted(h, reporter[r].latency)
       /\ reporter' = [reporter EXCEPT ![r] = IdleReporter]
       /\ UNCHANGED last_min_latency

(* Under the write lock the entry is read again, then inserted.            *)
ReportInsert(r) ==
    LET h == reporter[r].host
    IN /\ reporter[r].pc = "insert"
       /\ \E next \in ComputeNext(node_avgs[h], reporter[r].latency) :
             node_avgs' = [node_avgs EXCEPT ![h] = next]
       /\ Noted(h, reporter[r].latency)
       /\ reporter' = [reporter EXCEPT ![r] = IdleReporter]
       /\ UNCHANGED last_min_latency

EnoughMeasures(h) == node_avgs[h].measures >= MinimumMeasurements /\ node_avgs[h].measures > 0

(* MinAvgUpdater::tick: a tick that finds no node with enough measures     *)
(* leaves the minimum alone, as a stuttering step.                         *)
Tick ==
    LET averages == {node_avgs[h].average : h \in {x \in Hosts : EnoughMeasures(x)}}
    IN /\ averages # {}
       /\ last_min_latency' = CHOOSE a \in averages : \A b \in averages : a <= b
       /\ settled' = TRUE
       /\ UNCHANGED <<node_avgs, reporter, measured>>

(* retry_period passes without a new measure of the node.                  *)
RetryPeriodElapses(h) ==
    /\ node_avgs[h].recent
    /\ node_avgs' = [node_avgs EXCEPT ![h].recent = FALSE]
    /\ UNCHANGED <<last_min_latency, reporter, measured, settled>>

(* fast_enough says no, for a minimum that was read before.                *)
TooSlow(h, min_avg) ==
    /\ min_avg # Unmeasured
    /\ EnoughMeasures(h)
    /\ node_avgs[h].recent
    /\ node_avgs[h].average > ExclusionThreshold * min_avg

(* The predicate that generate_predicate makes.                            *)
Penalised(h) == TooSlow(h, last_min_latency)

LatencyNext ==
    \/ \E r \in Reporters, h \in Hosts, l \in Latencies : ReportKnown(r, h, l) \/ ReportUnknown(r, h, l)
    \/ \E r \in Reporters : ReportInsert(r)
    \/ Tick
    \/ \E h \in Hosts : RetryPeriodElapses(h)

LatencySpec == LatencyInit /\ [][LatencyNext]_latencyVars

(***************************************************************************)
(* Properties                                                              *)
(***************************************************************************)

(* No measure is lost: whatever the interleaving of report_request calls,  *)
(* among them two that both find a node missing from the map, the average  *)
(* of a node is over all the latencies that were reported for it.          *)
MeasuresCounted == \A h \in Hosts : node_avgs[h].measures = measured[h]

(* Right after the updater computed the minimum not every node with enough *)
(* measures is penalised: the fastest of them keeps the policy from        *)
(* giving up on all.                                                       *)
FastestNotPenalised ==
    settled => \E h \in Hosts : EnoughMeasures(h) /\ ~Penalised(h)

(* The averages are of all that was reported, and never rule out the       *)
(* fastest node.                                                           *)
LatenciesSound == MeasuresCounted /\ FastestNotPenalised
=============================================================================
