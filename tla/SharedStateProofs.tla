-------------------------- MODULE SharedStateProofs --------------------------
(***************************************************************************)
(* Safety of the three structures that requests share without a task that  *)
(* owns them: the last timestamp (an atomic), the average latencies (a map *)
(* under a lock, and an atomic minimum) and the cache of prepared          *)
(* statements (a concurrent map).  For every number of threads, reporters  *)
(* and callers, and without the bounds of the runs.                        *)
(***************************************************************************)
EXTENDS TimestampGenerator, LatencyAwareness, CachingSession, FiniteSetTheorems,
        WellFoundedInduction, TLAPS

-----------------------------------------------------------------------------
(* Timestamps                                                              *)

(* A thread that has computed a timestamp computed one above the value it  *)
(* loaded, and no timestamp returned so far is above `last`: so the one    *)
(* whose compare_exchange succeeds is above all of them.                   *)
ClockInv ==
    /\ last \in Int
    /\ drawing \in [Threads -> [pc : {"idle", "loaded", "computed"}, last : Int, cur : Int]]
    /\ \A t \in Threads : drawing[t].pc = "computed" => drawing[t].last < drawing[t].cur
    /\ stamps \in Seq(Int)
    /\ \A i \in DOMAIN stamps : stamps[i] <= last
    /\ StampsIncrease

(* compute_next returns an integer above the timestamp it starts from,     *)
(* also for a clock that went back.                                        *)
LEMMA NextStampAbove ==
    ASSUME NEW from \in Int, NEW clock \in Int
    PROVE  NextStamp(from, clock) \in Int /\ from < NextStamp(from, clock)
  BY DEF NextStamp

(* The generator starts without timestamps.                                *)
LEMMA ClockInvInit == ClockInit => ClockInv
  BY DEF ClockInit, ClockInv, StampsIncrease, Idle

(* Every step of next_timestamp keeps ClockInv.                            *)
LEMMA ClockInvStep == ClockInv /\ [ClockNext]_clockVars => ClockInv'
  <1> SUFFICES ASSUME ClockInv, [ClockNext]_clockVars PROVE ClockInv'
    BY Zenon
  <1>1. CASE UNCHANGED clockVars
    BY <1>1, Zenon DEF ClockInv, StampsIncrease, clockVars
  <1>2. ASSUME NEW t \in Threads, LoadLast(t) PROVE ClockInv'
    BY <1>2 DEF ClockInv, StampsIncrease, LoadLast
  <1>3. ASSUME NEW t \in Threads, NEW c \in ClockReadings, ComputeStamp(t, c) PROVE ClockInv'
    <2>1. /\ NextStamp(drawing[t].last, c) \in Int
          /\ drawing[t].last < NextStamp(drawing[t].last, c)
      BY NextStampAbove, ClockConstants, Zenon DEF ClockInv
    <2>2. QED
      BY <1>3, <2>1, Zenon DEF ClockInv, StampsIncrease, ComputeStamp
  <1>4. ASSUME NEW t \in Threads, CompareExchange(t) PROVE ClockInv'
    <2>1. CASE last # drawing[t].last
      BY <1>4, <2>1 DEF ClockInv, StampsIncrease, CompareExchange, Idle
    <2>2. CASE last = drawing[t].last
      <3>1. /\ last' = drawing[t].cur /\ stamps' = Append(stamps, drawing[t].cur)
            /\ drawing' = [drawing EXCEPT ![t] = Idle] /\ drawing[t].pc = "computed"
        BY <1>4, <2>2, Zenon DEF CompareExchange
      <3>2. last' \in Int /\ last < last' /\ stamps' \in Seq(Int)
        BY <2>2, <3>1 DEF ClockInv
      <3>3. /\ DOMAIN stamps' = 1 .. Len(stamps) + 1 /\ DOMAIN stamps = 1 .. Len(stamps)
            /\ stamps'[Len(stamps) + 1] = last'
            /\ \A i \in DOMAIN stamps : stamps'[i] = stamps[i] /\ stamps[i] \in Int /\ stamps[i] <= last
            /\ Len(stamps) \in Nat
        BY <3>1 DEF ClockInv
      <3>4. \A i \in DOMAIN stamps' : stamps'[i] <= last'
        <4> SUFFICES ASSUME NEW i \in DOMAIN stamps' PROVE stamps'[i] <= last'
          BY Zenon
        <4>1. i \in DOMAIN stamps \/ i = Len(stamps) + 1
          BY <3>3
        <4>2. last \in Int
          BY Zenon DEF ClockInv
        <4>3. QED
          BY <3>2, <3>3, <4>1, <4>2
      <3>5. StampsIncrease'
        <4> SUFFICES ASSUME NEW i \in DOMAIN stamps', NEW j \in DOMAIN stamps', i < j
                     PROVE  stamps'[i] < stamps'[j]
          BY Zenon DEF StampsIncrease
        <4>1. i \in DOMAIN stamps /\ (j \in DOMAIN stamps \/ j = Len(stamps) + 1)
          BY <3>3
        <4>2. CASE j \in DOMAIN stamps
          BY <3>3, <4>1, <4>2, Zenon DEF ClockInv, StampsIncrease
        <4>3. CASE j = Len(stamps) + 1
          <5>1. last \in Int
            BY Zenon DEF ClockInv
          <5>2. QED
            BY <3>2, <3>3, <4>1, <4>3, <5>1
        <4>4. QED
          BY <4>1, <4>2, <4>3, Zenon
      <3>6. /\ drawing' \in [Threads -> [pc : {"idle", "loaded", "computed"}, last : Int, cur : Int]]
            /\ \A u \in Threads : drawing'[u].pc = "computed" => drawing'[u].last < drawing'[u].cur
        BY <3>1 DEF ClockInv, Idle
      <3>7. QED
        BY <3>2, <3>4, <3>5, <3>6, Zenon DEF ClockInv
    <2>3. QED
      BY <2>1, <2>2, Zenon
  <1>5. QED
    BY <1>1, <1>2, <1>3, <1>4, Zenon DEF ClockNext

(* The monotonic generator of timestamps is monotonic: for any number of   *)
(* threads, whatever the system clock says and however compare_exchange    *)
(* calls race.                                                             *)
THEOREM TimestampsIncrease == ClockSpec => []StampsIncrease
  <1>1. ClockInv => StampsIncrease
    BY Zenon DEF ClockInv
  <1>2. QED
    BY <1>1, ClockInvInit, ClockInvStep, PTL DEF ClockSpec

-----------------------------------------------------------------------------
(* Latencies                                                               *)

Averages == [known : BOOLEAN, measures : Nat, average : Nat, recent : BOOLEAN]

(* The averages count what was reported; once the updater has run and      *)
(* nothing has been reported since, the minimum is the average of a node   *)
(* with enough measures, however old.                                      *)
LatencyInv ==
    /\ node_avgs \in [Hosts -> Averages]
    /\ measured \in [Hosts -> Nat]
    /\ reporter \in [Reporters -> [pc : {"idle", "insert"}, host : Hosts \cup {IdleReporter.host},
                                   latency : Nat]]
    /\ \A r \in Reporters : reporter[r].pc = "insert" =>
          reporter[r].host \in Hosts
    /\ MeasuresCounted
    /\ settled \in BOOLEAN
    /\ settled => \E h \in Hosts : EnoughMeasures(h) /\ node_avgs[h].average = last_min_latency

(* A set of averages that is not empty has a least one, which the CHOOSE   *)
(* of the tick picks.                                                      *)
LEMMA LeastAverage ==
    ASSUME NEW averages \in SUBSET Nat, averages # {}
    PROVE  (CHOOSE a \in averages : \A b \in averages : a <= b) \in averages
  <1>1. PICK a \in averages : \A b \in averages : <<b, a>> \notin OpToRel(<, Nat)
    BY WFMin, NatLessThanWellFounded, Zenon
  <1>2. ASSUME NEW b \in averages PROVE a <= b
    <2>1. a \in Nat /\ b \in Nat
      BY Zenon
    <2>2. ~(b < a)
      BY <1>1, <2>1, Zenon DEF OpToRel
    <2>3. QED
      BY <2>1, <2>2
  <1>3. QED
    BY <1>2, Zenon

(* compute_next adds one to the measures of a node exactly if the measure  *)
(* is not zero.                                                            *)
LEMMA ComputeNextCounts ==
    ASSUME NEW prev \in Averages, NEW latency \in Nat, NEW next \in ComputeNext(prev, latency)
    PROVE  /\ next \in Averages
           /\ next.measures = IF latency = 0 THEN prev.measures ELSE prev.measures + 1
  <1>1. CASE latency = 0
    BY <1>1, Zenon DEF Averages, ComputeNext
  <1>2. CASE latency # 0
    <2>1. PICK a \in (IF prev.measures = 0 THEN {latency} ELSE Between(prev.average, latency)) :
               next = [known |-> TRUE, measures |-> prev.measures + 1, average |-> a, recent |-> TRUE]
      BY <1>2, Zenon DEF ComputeNext
    <2>2. a \in Nat
      BY DEF Averages, Between
    <2>3. QED
      BY <1>2, <2>1, <2>2 DEF Averages
  <1>3. QED
    BY <1>1, <1>2, Zenon

(* No node is known at the start.                                          *)
LEMMA LatencyInvInit == LatencyInit => LatencyInv
  <1> SUFFICES ASSUME LatencyInit PROVE LatencyInv
    BY Zenon
  <1>1. NoAverage \in Averages /\ NoAverage.measures = 0
    BY Zenon DEF NoAverage, Averages
  <1>2. IdleReporter \in [pc : {"idle", "insert"}, host : Hosts \cup {IdleReporter.host}, latency : Nat]
        /\ IdleReporter.pc = "idle"
    BY Zenon DEF IdleReporter
  <1>3. node_avgs \in [Hosts -> Averages] /\ measured \in [Hosts -> Nat] /\ MeasuresCounted
    BY <1>1, Zenon DEF LatencyInit, MeasuresCounted
  <1>4. /\ reporter \in [Reporters -> [pc : {"idle", "insert"}, host : Hosts \cup {IdleReporter.host},
                                       latency : Nat]]
        /\ \A r \in Reporters : reporter[r].pc = "insert" => reporter[r].host \in Hosts
    BY <1>2, Zenon DEF LatencyInit
  <1>5. settled = FALSE
    BY Zenon DEF LatencyInit
  <1>6. QED
    BY <1>3, <1>4, <1>5, Zenon DEF LatencyInv

(* A report that is noted under the lock keeps the count, whether it finds *)
(* the node in the map or inserts it.                                      *)
LEMMA ReportCounted ==
    ASSUME LatencyInv, NEW h \in Hosts, NEW latency \in Nat,
           NEW next \in ComputeNext(node_avgs[h], latency),
           node_avgs' = [node_avgs EXCEPT ![h] = next], Noted(h, latency)
    PROVE  /\ node_avgs' \in [Hosts -> Averages] /\ measured' \in [Hosts -> Nat]
           /\ MeasuresCounted' /\ settled' = FALSE
  <1>1. node_avgs[h] \in Averages /\ measured[h] \in Nat
    BY Zenon DEF LatencyInv
  <1>2. /\ next \in Averages
        /\ next.measures = IF latency = 0 THEN node_avgs[h].measures ELSE node_avgs[h].measures + 1
    BY <1>1, ComputeNextCounts, Zenon
  <1>3. node_avgs[h].measures = measured[h]
    BY Zenon DEF LatencyInv, MeasuresCounted
  <1>4. node_avgs' \in [Hosts -> Averages]
    BY <1>2, Zenon DEF LatencyInv
  <1>5. measured' \in [Hosts -> Nat] /\ settled' = FALSE
    BY <1>1 DEF LatencyInv, Noted
  <1>6. ASSUME NEW g \in Hosts PROVE node_avgs'[g].measures = measured'[g]
    <2>1. CASE g = h
      BY <1>2, <1>3, <2>1, Zenon DEF LatencyInv, Noted
    <2>2. CASE g # h
      BY <2>2, Zenon DEF LatencyInv, Noted, MeasuresCounted
    <2>3. QED
      BY <2>1, <2>2, Zenon
  <1>7. QED
    BY <1>4, <1>5, <1>6, Zenon DEF MeasuresCounted

(* Every step of a report and of the updater keeps LatencyInv.             *)
LEMMA LatencyInvStep == LatencyInv /\ [LatencyNext]_latencyVars => LatencyInv'
  <1> SUFFICES ASSUME LatencyInv, [LatencyNext]_latencyVars PROVE LatencyInv'
    BY Zenon
  <1>1. CASE UNCHANGED latencyVars
    BY <1>1, Zenon DEF LatencyInv, MeasuresCounted, EnoughMeasures, latencyVars
  <1>2. ASSUME NEW r \in Reporters, NEW h \in Hosts, NEW l \in Latencies, ReportKnown(r, h, l)
        PROVE  LatencyInv'
    <2>1. PICK next \in ComputeNext(node_avgs[h], l) : node_avgs' = [node_avgs EXCEPT ![h] = next]
      BY <1>2, Zenon DEF ReportKnown
    <2>2. l \in Nat /\ Noted(h, l) /\ UNCHANGED reporter
      BY <1>2, LatencyConstants, Zenon DEF ReportKnown
    <2>3. /\ node_avgs' \in [Hosts -> Averages] /\ measured' \in [Hosts -> Nat]
          /\ MeasuresCounted' /\ settled' = FALSE
      BY <2>1, <2>2, ReportCounted, Zenon
    <2>4. QED
      BY <2>2, <2>3, Zenon DEF LatencyInv
  <1>3. ASSUME NEW r \in Reporters, NEW h \in Hosts, NEW l \in Latencies, ReportUnknown(r, h, l)
        PROVE  LatencyInv'
    <2>1. /\ reporter' = [reporter EXCEPT ![r] = [pc |-> "insert", host |-> h, latency |-> l]]
          /\ UNCHANGED <<node_avgs, last_min_latency, measured, settled>>
      BY <1>3, Zenon DEF ReportUnknown
    <2>2. /\ reporter' \in [Reporters -> [pc : {"idle", "insert"}, host : Hosts \cup {IdleReporter.host},
                                          latency : Nat]]
          /\ \A q \in Reporters : reporter'[q].pc = "insert" => reporter'[q].host \in Hosts
      BY <2>1, LatencyConstants, Zenon DEF LatencyInv
    <2>3. QED
      BY <2>1, <2>2, Zenon DEF LatencyInv, MeasuresCounted, EnoughMeasures
  <1>4. ASSUME NEW r \in Reporters, ReportInsert(r) PROVE LatencyInv'
    <2> DEFINE h == reporter[r].host
               l == reporter[r].latency
    <2>1. h \in Hosts /\ l \in Nat
      BY <1>4, Zenon DEF LatencyInv, ReportInsert
    <2>2. PICK next \in ComputeNext(node_avgs[h], l) : node_avgs' = [node_avgs EXCEPT ![h] = next]
      BY <1>4, Zenon DEF ReportInsert
    <2>3. Noted(h, l) /\ reporter' = [reporter EXCEPT ![r] = IdleReporter]
      BY <1>4, Zenon DEF ReportInsert
    <2> HIDE DEF h, l
    <2>4. /\ node_avgs' \in [Hosts -> Averages] /\ measured' \in [Hosts -> Nat]
          /\ MeasuresCounted' /\ settled' = FALSE
      BY <2>1, <2>2, <2>3, ReportCounted, Zenon
    <2>5. /\ reporter' \in [Reporters -> [pc : {"idle", "insert"}, host : Hosts \cup {IdleReporter.host},
                                          latency : Nat]]
          /\ \A q \in Reporters : reporter'[q].pc = "insert" => reporter'[q].host \in Hosts
      BY <2>3, Zenon DEF LatencyInv, IdleReporter
    <2>6. QED
      BY <2>4, <2>5, Zenon DEF LatencyInv
  <1>5. CASE Tick
    <2> DEFINE enough == {x \in Hosts : EnoughMeasures(x)}
               averages == {node_avgs[h].average : h \in enough}
    <2>1. averages # {} /\ last_min_latency' = CHOOSE a \in averages : \A b \in averages : a <= b
      BY <1>5, Zenon DEF Tick
    <2>2. settled' = TRUE /\ UNCHANGED <<node_avgs, reporter, measured>>
      BY <1>5, Zenon DEF Tick
    <2>3. averages \in SUBSET Nat
      BY DEF LatencyInv, Averages
    <2>4. last_min_latency' \in averages
      <3> HIDE DEF averages
      <3> QED BY <2>1, <2>3, LeastAverage, Zenon
    <2>5. \E h \in Hosts : EnoughMeasures(h) /\ node_avgs[h].average = last_min_latency'
      BY <2>4, Zenon
    <2>6. QED
      BY <2>2, <2>5, Zenon DEF LatencyInv, MeasuresCounted, EnoughMeasures
  <1>6. ASSUME NEW h \in Hosts, RetryPeriodElapses(h) PROVE LatencyInv'
    <2>1. /\ node_avgs' = [node_avgs EXCEPT ![h].recent = FALSE]
          /\ UNCHANGED <<last_min_latency, reporter, measured, settled>>
      BY <1>6, Zenon DEF RetryPeriodElapses
    <2>2. /\ node_avgs' \in [Hosts -> Averages]
          /\ \A g \in Hosts : /\ node_avgs'[g].measures = node_avgs[g].measures
                              /\ node_avgs'[g].average = node_avgs[g].average
      BY <2>1, Zenon DEF LatencyInv, Averages
    <2>3. QED
      BY <2>1, <2>2, Zenon DEF LatencyInv, MeasuresCounted, EnoughMeasures
  <1>7. QED
    BY <1>1, <1>2, <1>3, <1>4, <1>5, <1>6, Zenon DEF LatencyNext

(* A threshold of at least one leaves the smallest average within it.      *)
LEMMA WithinThreshold ==
    ASSUME NEW a \in Nat, NEW k \in Nat \ {0}
    PROVE  ~(a > k * a)
  <1>1. k - 1 \in Nat /\ k * a = (k - 1) * a + a /\ (k - 1) * a \in Nat
    OBVIOUS
  <1>2. QED
    BY <1>1

(* LatencyInv gives what the policy relies on.                             *)
LEMMA LatencyInvSound == LatencyInv => LatenciesSound
  <1> SUFFICES ASSUME LatencyInv PROVE LatenciesSound
    BY Zenon
  <1>1. ASSUME settled PROVE \E h \in Hosts : EnoughMeasures(h) /\ ~Penalised(h)
    <2>1. PICK h \in Hosts : EnoughMeasures(h) /\ node_avgs[h].average = last_min_latency
      BY <1>1, Zenon DEF LatencyInv
    <2>2. node_avgs[h].average \in Nat
      BY Zenon DEF LatencyInv, Averages
    <2>3. ~(node_avgs[h].average > ExclusionThreshold * last_min_latency)
      BY <2>1, <2>2, WithinThreshold, LatencyConstants, Zenon
    <2>4. QED
      BY <2>1, <2>3, Zenon DEF Penalised, TooSlow
  <1>2. QED
    BY <1>1, Zenon DEF LatencyInv, LatenciesSound, FastestNotPenalised

(* For any number of nodes, reporters and measures: no report is lost to a *)
(* race of two that both miss the node in the map, and the node with the   *)
(* smallest average is not penalised after the updater has run.            *)
THEOREM LatenciesKeptSound == LatencySpec => []LatenciesSound
  BY LatencyInvInit, LatencyInvStep, LatencyInvSound, PTL DEF LatencySpec

-----------------------------------------------------------------------------
(* The cache of prepared statements                                        *)

CallerStates == {"rest", "prepare", "length", "first", "remove", "insert"}
CallerType == [Callers -> [at : CallerStates, query : Queries \cup {"none"},
                           victim : Queries \cup {"none"}]]

(* What the test of the length established still holds for the one caller  *)
(* that is about to change the map.                                        *)
RoomFor(c) ==
    /\ Cardinality(cache) <= max_capacity
    /\ caller[c].at = "first" => cache # {}
    /\ caller[c].at = "remove" => caller[c].victim \in cache
    /\ caller[c].at = "insert" => Cardinality(cache) < max_capacity

(* Without a race one caller at a time is between the test of the length   *)
(* and the insertion, and the map has room for it or will have.            *)
CachingInv ==
    /\ max_capacity \in Nat
    /\ IsFiniteSet(cache)
    /\ raced \in BOOLEAN
    /\ caller \in CallerType
    /\ cache \subseteq Queries \cup {"none"}
    /\ ~raced => \A c, d \in Callers : Changing(c) /\ Changing(d) => c = d
    /\ ~raced /\ max_capacity > 0 => /\ Cardinality(cache) <= max_capacity
                                     /\ \A c \in Callers : RoomFor(c)

(* The map is empty when the session is built.                             *)
LEMMA CachingInvInit == CachingInit => CachingInv
  <1> SUFFICES ASSUME CachingInit PROVE CachingInv
    BY Zenon
  <1>1. IsFiniteSet(cache) /\ Cardinality(cache) = 0 /\ max_capacity \in Nat
    BY FS_EmptySet, CachingConstants, Zenon DEF CachingInit
  <1>2. caller \in CallerType /\ \A c \in Callers : caller[c].at = "rest"
    BY Zenon DEF CachingInit, CallerType, CallerStates, Resting
  <1>3. (\A c \in Callers : ~Changing(c)) /\ raced = FALSE /\ cache = {}
    BY <1>2, Zenon DEF Changing, CachingInit
  <1>4. \A c \in Callers : RoomFor(c)
    BY <1>1, <1>2 DEF RoomFor
  <1>5. Cardinality(cache) <= max_capacity
    BY <1>1
  <1>6. QED
    BY <1>1, <1>2, <1>3, <1>4, <1>5, Zenon DEF CachingInv

(* A caller that does not touch the map, and is not about to, changes      *)
(* nothing for the others.                                                 *)
LEMMA QuietStep ==
    ASSUME CachingInv, NEW c \in Callers, caller' \in CallerType,
           \A d \in Callers \ {c} : caller'[d] = caller[d],
           caller'[c].at \in {"rest", "prepare", "length"},
           UNCHANGED <<max_capacity, cache, raced>>
    PROVE  CachingInv'
  <1>1. ASSUME NEW d \in Callers, Changing(d)' PROVE Changing(d) /\ d # c
    BY <1>1, Zenon DEF Changing
  <1>2. ASSUME NEW d \in Callers, ~raced, max_capacity > 0 PROVE RoomFor(d)'
    <2>1. RoomFor(d) /\ Cardinality(cache) <= max_capacity
      BY <1>2, Zenon DEF CachingInv
    <2>2. CASE d = c
      BY <2>1, <2>2, Zenon DEF RoomFor
    <2>3. CASE d # c
      BY <2>1, <2>3, Zenon DEF RoomFor
    <2>4. QED
      BY <2>2, <2>3, Zenon
  <1>3. ~raced => \A d, e \in Callers : Changing(d)' /\ Changing(e)' => d = e
    BY <1>1, Zenon DEF CachingInv
  <1>4. QED
    BY <1>2, <1>3, Zenon DEF CachingInv

(* A step of a caller that is between the test of the length and the end   *)
(* of the insertion: it is enough that it is alone and leaves itself room. *)
LEMMA ChangingStep ==
    ASSUME CachingInv, NEW c \in Callers, caller' \in CallerType,
           \A d \in Callers \ {c} : caller'[d] = caller[d],
           IsFiniteSet(cache'), cache' \subseteq Queries \cup {"none"},
           UNCHANGED max_capacity, raced' \in BOOLEAN,
           ~raced' => \A d \in Callers \ {c} : ~Changing(d),
           ~raced' /\ max_capacity > 0 => RoomFor(c)'
    PROVE  CachingInv'
  <1>1. ASSUME NEW d \in Callers, ~raced', Changing(d)' PROVE d = c
    BY <1>1, Zenon DEF Changing
  <1>2. ASSUME NEW d \in Callers, ~raced', max_capacity' > 0 PROVE RoomFor(d)'
    <2>1. CASE d = c
      BY <1>2, <2>1, Zenon
    <2>2. CASE d # c
      <3>1. caller'[d].at \notin {"first", "remove", "insert"}
        BY <1>2, <2>2, Zenon DEF Changing
      <3>2. Cardinality(cache') <= max_capacity'
        BY <1>2, Zenon DEF RoomFor
      <3>3. QED
        BY <3>1, <3>2, Zenon DEF RoomFor
    <2>3. QED
      BY <2>1, <2>2, Zenon
  <1>3. ~raced' => \A d, e \in Callers : Changing(d)' /\ Changing(e)' => d = e
    BY <1>1, Zenon
  <1>4. ~raced' /\ max_capacity' > 0 => Cardinality(cache') <= max_capacity'
    BY Zenon DEF RoomFor
  <1>5. max_capacity' \in Nat
    BY Zenon DEF CachingInv
  <1>6. QED
    BY <1>2, <1>3, <1>4, <1>5, Zenon DEF CachingInv

(* Every access to the map keeps CachingInv.                               *)
LEMMA CachingInvStep == CachingInv /\ [CachingNext]_cachingVars => CachingInv'
  <1> SUFFICES ASSUME CachingInv, [CachingNext]_cachingVars PROVE CachingInv'
    BY Zenon
  <1>1. CASE UNCHANGED cachingVars
    BY <1>1, Zenon DEF CachingInv, RoomFor, Changing, cachingVars
  <1>2. ASSUME NEW c \in Callers, Lookup(c) PROVE CachingInv'
    <2>1. /\ caller' \in CallerType /\ caller'[c].at \in {"rest", "prepare", "length"}
          /\ \A d \in Callers \ {c} : caller'[d] = caller[d]
      BY <1>2 DEF CachingInv, Lookup, CallerType, CallerStates, Resting
    <2>2. QED
      BY <1>2, <2>1, QuietStep, Zenon DEF Lookup
  <1>3. ASSUME NEW c \in Callers, PrepareReturns(c) PROVE CachingInv'
    <2>1. /\ caller' \in CallerType /\ caller'[c].at \in {"rest", "prepare", "length"}
          /\ \A d \in Callers \ {c} : caller'[d] = caller[d]
      BY <1>3 DEF CachingInv, PrepareReturns, CallerType, CallerStates, Resting
    <2>2. QED
      BY <1>3, <2>1, QuietStep, Zenon DEF PrepareReturns
  <1>4. ASSUME NEW c \in Callers, Changing(c), ~raced
        PROVE  /\ \A d \in Callers \ {c} : ~Changing(d)
               /\ max_capacity > 0 => RoomFor(c)
    BY <1>4, Zenon DEF CachingInv
  <1>5. IsFiniteSet(cache) /\ Cardinality(cache) \in Nat /\ max_capacity \in Nat
    BY FS_CardinalityType, Zenon DEF CachingInv
  <1>6. ASSUME NEW c \in Callers, CheckLength(c) PROVE CachingInv'
    <2>1. /\ caller' \in CallerType /\ \A d \in Callers \ {c} : caller'[d] = caller[d]
          /\ caller'[c].at = IF max_capacity = Cardinality(cache) THEN "first" ELSE "insert"
          /\ UNCHANGED <<max_capacity, cache>>
      BY <1>6 DEF CachingInv, CheckLength, CallerType, CallerStates
    <2>2. raced' = (raced \/ \E d \in Callers \ {c} : Changing(d))
      BY <1>6, Zenon DEF CheckLength
    <2>3. raced' \in BOOLEAN /\ (~raced' => ~raced /\ \A d \in Callers \ {c} : ~Changing(d))
      BY <2>2, Zenon
    <2>4. ASSUME ~raced, max_capacity > 0 PROVE RoomFor(c)'
      <3>1. Cardinality(cache) <= max_capacity
        BY <2>4, Zenon DEF CachingInv
      <3>2. max_capacity = Cardinality(cache) => cache # {}
        BY <2>4, FS_EmptySet
      <3>3. QED
        BY <1>5, <2>1, <3>1, <3>2 DEF RoomFor
    <2>5. IsFiniteSet(cache') /\ cache' \subseteq Queries \cup {"none"}
      BY <2>1, Zenon DEF CachingInv
    <2>6. QED
      BY <2>1, <2>3, <2>4, <2>5, ChangingStep, Zenon
  <1>7. ASSUME NEW c \in Callers, FirstEntry(c) PROVE CachingInv'
    <2>1. /\ caller[c].at = "first" /\ Changing(c) /\ UNCHANGED <<max_capacity, cache, raced>>
      BY <1>7, Zenon DEF FirstEntry, Changing
    <2>2. /\ caller' \in CallerType /\ \A d \in Callers \ {c} : caller'[d] = caller[d]
          /\ cache # {} => caller'[c].at = "remove" /\ caller'[c].victim \in cache
      BY <1>7 DEF FirstEntry, CachingInv, CallerType, CallerStates
    <2>3. ASSUME ~raced, max_capacity > 0 PROVE RoomFor(c)'
      BY <1>4, <2>1, <2>2, <2>3, Zenon DEF RoomFor
    <2>4. /\ IsFiniteSet(cache') /\ cache' \subseteq Queries \cup {"none"} /\ raced' \in BOOLEAN
      BY <2>1, Zenon DEF CachingInv
    <2>5. ~raced' => \A d \in Callers \ {c} : ~Changing(d)
      BY <1>4, <2>1, Zenon
    <2>6. QED
      BY <2>1, <2>2, <2>3, <2>4, <2>5, ChangingStep, Zenon
  <1>8. ASSUME NEW c \in Callers, RemoveEntry(c) PROVE CachingInv'
    <2>1. /\ caller[c].at = "remove" /\ Changing(c) /\ UNCHANGED <<max_capacity, raced>>
          /\ cache' = cache \ {caller[c].victim}
      BY <1>8, Zenon DEF RemoveEntry, Changing
    <2>2. /\ caller' \in CallerType /\ \A d \in Callers \ {c} : caller'[d] = caller[d]
          /\ caller'[c].at = "insert"
      BY <1>8 DEF RemoveEntry, CachingInv, CallerType, CallerStates
    <2>3. /\ IsFiniteSet(cache')
          /\ Cardinality(cache') = IF caller[c].victim \in cache THEN Cardinality(cache) - 1
                                   ELSE Cardinality(cache)
      BY <1>5, <2>1, FS_RemoveElement, Zenon
    <2>4. ASSUME ~raced, max_capacity > 0 PROVE RoomFor(c)'
      <3>1. caller[c].victim \in cache /\ Cardinality(cache) <= max_capacity
        BY <1>4, <2>1, <2>4, Zenon DEF RoomFor
      <3>2. QED
        BY <1>5, <2>1, <2>2, <2>3, <3>1 DEF RoomFor
    <2>5. cache' \subseteq Queries \cup {"none"} /\ raced' \in BOOLEAN
      BY <2>1, Zenon DEF CachingInv
    <2>6. ~raced' => \A d \in Callers \ {c} : ~Changing(d)
      BY <1>4, <2>1, Zenon
    <2>7. QED
      BY <2>1, <2>2, <2>3, <2>4, <2>5, <2>6, ChangingStep, Zenon
  <1>9. ASSUME NEW c \in Callers, InsertEntry(c) PROVE CachingInv'
    <2>1. /\ caller[c].at = "insert" /\ Changing(c) /\ UNCHANGED <<max_capacity, raced>>
          /\ cache' = cache \cup {caller[c].query}
      BY <1>9, Zenon DEF InsertEntry, Changing
    <2>2. /\ caller' \in CallerType /\ \A d \in Callers \ {c} : caller'[d] = caller[d]
          /\ caller'[c].at = "rest" /\ caller[c].query \in Queries \cup {"none"}
      BY <1>9, Zenon DEF InsertEntry, CachingInv, CallerType, CallerStates, Resting
    <2>3. /\ IsFiniteSet(cache')
          /\ Cardinality(cache') = IF caller[c].query \in cache THEN Cardinality(cache)
                                   ELSE Cardinality(cache) + 1
      BY <1>5, <2>1, FS_AddElement, Zenon
    <2>4. ASSUME ~raced, max_capacity > 0 PROVE RoomFor(c)'
      <3>1. Cardinality(cache) < max_capacity
        BY <1>4, <2>1, <2>4, Zenon DEF RoomFor
      <3>2. QED
        BY <1>5, <2>1, <2>2, <2>3, <3>1 DEF RoomFor
    <2>5. cache' \subseteq Queries \cup {"none"} /\ raced' \in BOOLEAN
      BY <2>1, <2>2, Zenon DEF CachingInv
    <2>6. ~raced' => \A d \in Callers \ {c} : ~Changing(d)
      BY <1>4, <2>1, Zenon
    <2>7. QED
      BY <2>1, <2>2, <2>3, <2>4, <2>5, <2>6, ChangingStep
  <1>10. QED
    BY <1>1, <1>2, <1>3, <1>6, <1>7, <1>8, <1>9, Zenon DEF CachingNext

(* For any number of callers and statements: as long as executions change  *)
(* the map one at a time, a cache of a capacity above zero never holds     *)
(* more than its capacity.                                                 *)
THEOREM CacheBounded == CachingSpec => []CacheWithinCapacity
  <1>1. CachingInv => CacheWithinCapacity
    BY Zenon DEF CachingInv, CacheWithinCapacity
  <1>2. QED
    BY <1>1, CachingInvInit, CachingInvStep, PTL DEF CachingSpec
=============================================================================
