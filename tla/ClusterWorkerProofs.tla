-------------------------- MODULE ClusterWorkerProofs --------------------------
(***************************************************************************)
(* What the cluster worker publishes, for every set of hosts, contact      *)
(* points and clients, every host filter and every capacity: the nodes of  *)
(* a ClusterState are never none, their pools follow the keyspace of the   *)
(* session, and an answered refresh is as recent as the call it answers.   *)
(***************************************************************************)
EXTENDS ClusterWorker, TLAPS

Active == reading.stage \in {"current", "known", "contacts"}

\* Where the worker and the reading of the metadata are, and what has been built by then.
ControlInv ==
    /\ DOMAIN reading = {"initial", "stage", "left", "metadata"}
    /\ reading.initial \in BOOLEAN
    /\ answers # All("none") => Active
    /\ Active \/ reading.stage = "failed" => worker \in {"starting", "refreshing"}
    /\ reading.stage = "done" => /\ worker \in {"starting", "refreshing", "pools"}
                                 /\ reading.metadata.peers # {}
    /\ worker = "pools" => reading.stage = "done" /\ DOMAIN next_nodes # {}
    /\ worker # "pools" => next_nodes = << >>
    /\ reading.initial => worker \in {"starting", "pools", "closed"} /\ cur_request = None
    /\ reading.initial /\ Active => known_peers # {}
    /\ KnownPeersNonempty

\* Who waits for a refresh: nobody twice, and nobody who is being served.
QueueInv ==
    /\ refresh_channel \in Seq(Clients)
    /\ call \in [Clients -> {"idle", "waiting"}]
    /\ cur_request \in Clients \cup {None}
    /\ cur_request # None => call[cur_request] = "waiting"
    /\ \A i \in 1..Len(refresh_channel) :
          call[refresh_channel[i]] = "waiting" /\ refresh_channel[i] # cur_request
    /\ \A i, j \in 1..Len(refresh_channel) : refresh_channel[i] = refresh_channel[j] => i = j

\* What has been read for a client is at least as recent as its call.
FreshInv ==
    /\ epoch \in Nat
    /\ asked_at \in [Clients -> Nat]
    /\ \A c \in Clients : asked_at[c] <= epoch
    /\ DOMAIN answers = Queries
    /\ \A q \in Queries : /\ answers[q].read_at \in Nat
                          /\ answers[q].is # "rows" => answers[q].peers = {}
    /\ \A q \in Queries, c \in Clients :
          answers[q].is = "rows" /\ cur_request = c => answers[q].read_at >= asked_at[c]
    /\ reading.stage = "done" =>
          \A c \in Clients : cur_request = c => reading.metadata.read_at >= asked_at[c]

\* The pools that live are those of the nodes and of a task that tells them the keyspace.
PoolsInv ==
    /\ DOMAIN pools = PoolsOf(known_nodes) \cup PoolsOf(next_nodes) \cup task.todo
    /\ \A q \in DOMAIN pools : pools[q] = used_keyspace \/ q \in task.todo
    /\ DOMAIN task = {"running", "todo"}
    /\ ~task.running => task.todo = {}
    /\ use_keyspace_call \in Keyspaces \cup {None}
    /\ task.running => use_keyspace_call = used_keyspace /\ used_keyspace \in Keyspaces

\* The inductive invariant.
WorkerInv == ControlInv /\ QueueInv /\ FreshInv /\ PoolsInv

-----------------------------------------------------------------------------
(* The outcomes of the steps of the metadata reader and of the network      *)

\* A step of read_metadata: it goes on, fails, or is done with metadata that has peers
\* and that is of the time of one of the answers, unless it is the first.
ReaderOutcome ==
    /\ Active /\ UNCHANGED <<cluster, worker, requests, keyspace, state>>
    /\ DOMAIN reading' = DOMAIN reading /\ reading'.initial = reading.initial
    /\ \/ /\ reading'.stage \in {"current", "known", "contacts"} /\ known_peers' = known_peers
          /\ answers' \in {All("none"), All("waiting")}
       \/ reading'.stage = "failed" /\ answers' = All("none")
       \/ /\ reading'.stage = "done" /\ answers' = All("none")
          /\ reading'.metadata.peers # {}
          /\ \/ reading.initial
             \/ \E q \in Queries : /\ answers[q].is = "rows"
                                   /\ answers[q].read_at = reading'.metadata.read_at

\* A step of the cluster or the network: time passes, and answers come or fail.
NetworkOutcome ==
    /\ UNCHANGED <<reading, known_peers, worker, requests, keyspace, state>>
    /\ epoch' \in {epoch, epoch + 1}
    /\ \/ answers' = answers
       \/ /\ answers # All("none")
          /\ DOMAIN answers' = Queries
          /\ \A q \in Queries : \/ answers'[q] = answers[q]
                                \/ answers'[q] = Answer("error")
                                \/ answers'[q].is = "rows" /\ answers'[q].read_at = epoch

\* A refresh begins, for the first of the channel or for nobody.
RefreshBegins ==
    /\ worker = "select" /\ worker' = "refreshing"
    /\ StartReading(FALSE)
    /\ UNCHANGED <<cluster, known_peers, call, asked_at, keyspace, state>>
    /\ \/ cur_request' = None /\ refresh_channel' = refresh_channel
       \/ /\ refresh_channel # << >>
          /\ cur_request' = Head(refresh_channel) /\ refresh_channel' = Tail(refresh_channel)

-----------------------------------------------------------------------------
(* Lemmas about the steps *)

\* There is an answer to each query of query_metadata, empty in the beginning.
LEMMA AllAnswers ==
    ASSUME NEW is
    PROVE  /\ DOMAIN All(is) = Queries
           /\ \A q \in Queries : All(is)[q] = Answer(is)
BY Zenon DEF All

\* Peers only come with rows, so that metadata with peers is of the time of an answer.
LEMMA ReadAtIsOfAnAnswer ==
    ASSUME FreshInv, QueryPeers # {}
    PROVE  \E q \in Queries : answers[q].is = "rows" /\ answers[q].read_at = ReadAt
<1> DEFINE rows == {r \in {"local", "peers"} : answers[r].is = "rows"}
           epochs == {answers[q].read_at : q \in rows}
<1>1. "local" \in Queries /\ "peers" \in Queries
  BY DEF Queries
<1>2. rows # {}
  <2>1. answers["local"].peers # {} \/ answers["peers"].peers # {}
    BY DEF QueryPeers
  <2>2. answers["local"].is = "rows" \/ answers["peers"].is = "rows"
    BY <1>1, <2>1, Zenon DEF FreshInv
  <2> QED BY <2>2, Zenon
<1>3. \A q \in rows : q \in {"local", "peers"} /\ answers[q].is = "rows" /\ answers[q].read_at \in Nat
  BY <1>1, Zenon DEF FreshInv
<1>4. \E n \in epochs : \A m \in epochs : n <= m
  <2>1. PICK q \in rows : TRUE
    BY <1>2
  <2>2. CASE \A r \in rows : answers[q].read_at <= answers[r].read_at
    BY <2>1, <2>2, Zenon
  <2>3. CASE \E r \in rows : ~(answers[q].read_at <= answers[r].read_at)
    <3>1. PICK r \in rows : ~(answers[q].read_at <= answers[r].read_at)
      BY <2>3
    <3>2. answers[q].read_at \in Nat /\ answers[r].read_at \in Nat
      BY <1>3, <2>1, <3>1
    <3>3. answers[r].read_at <= answers[q].read_at /\ answers[r].read_at <= answers[r].read_at
      BY <3>1, <3>2
    <3>4. q # r
      BY <3>1, <3>3
    <3>5. \A s \in rows : s = q \/ s = r
      BY <1>3, <3>4
    <3> QED BY <3>1, <3>3, <3>5, Zenon
  <2> QED BY <2>2, <2>3, Zenon
<1>5. epochs # {}
  BY <1>2, Zenon
<1>6. ReadAt = CHOOSE n \in epochs : \A m \in epochs : n <= m
  BY <1>5, Zenon DEF ReadAt
<1>7. ReadAt \in epochs
  BY <1>4, <1>6, Zenon
<1> QED BY <1>1, <1>3, <1>7, Zenon

\* Once the answer to a query is there, or is waited for, a reading is under way.
LEMMA AnswersMeanActive ==
    ASSUME ControlInv, NEW q \in Queries, answers[q].is # "none"
    PROVE  Active
<1>1. answers # All("none")
  <2> SUFFICES ASSUME answers = All("none") PROVE FALSE
    OBVIOUS
  <2>1. answers[q] = Answer("none")
    BY AllAnswers, Zenon
  <2> QED BY <2>1 DEF Answer
<1> QED BY <1>1, Zenon DEF ControlInv

\* A fetch that failed is repeated elsewhere, or the reading has failed.
LEMMA FetchFailedOutcome ==
    ASSUME ControlInv, Active, FetchFailed
    PROVE  /\ DOMAIN reading' = DOMAIN reading /\ reading'.initial = reading.initial
           /\ known_peers' = known_peers
           /\ reading'.stage \in {"known", "contacts", "failed"}
<1>1. DOMAIN reading = {"initial", "stage", "left", "metadata"}
  BY Zenon DEF ControlInv
<1>2. ASSUME NEW st \in {"known", "contacts"}, NEW candidates, TryNext(st, candidates)
      PROVE  /\ DOMAIN reading' = DOMAIN reading /\ reading'.initial = reading.initial
             /\ known_peers' = known_peers
             /\ reading'.stage \in {"known", "contacts", "failed"}
  <2>1. PICK e \in candidates :
           /\ reading' = [reading EXCEPT !.stage = st, !.left = candidates \ {e}]
           /\ known_peers' = known_peers
    BY <1>2, Zenon DEF TryNext
  <2> QED BY <1>1, <2>1
<1>3. CASE /\ reading' = [reading EXCEPT !.stage = "failed"]
           /\ known_peers' = known_peers
  BY <1>1, <1>3
<1>4. \/ \E st \in {"known", "contacts"} : \E candidates : TryNext(st, candidates)
      \/ reading' = [reading EXCEPT !.stage = "failed"] /\ known_peers' = known_peers
  <2> DEFINE first == reading.stage = "current"
             candidates == IF first THEN {e \in known_peers : e.address # endpoint.address}
                           ELSE reading.left
  <2>1. \/ TryNext(IF first THEN "known" ELSE reading.stage, candidates)
        \/ TryNext("contacts", ContactPoints)
        \/ reading' = [reading EXCEPT !.stage = "failed"] /\ known_peers' = known_peers
    BY Zenon DEF FetchFailed
  <2>2. (IF first THEN "known" ELSE reading.stage) \in {"known", "contacts"}
    BY DEF Active
  <2> HIDE DEF first, candidates
  <2> QED BY <2>1, <2>2, Zenon
<1> QED BY <1>2, <1>3, <1>4, Zenon

\* What a step of the metadata reader does.
LEMMA ReaderStepOutcome ==
    ASSUME WorkerInv, ReaderStep
    PROVE  ReaderOutcome
<1>1. UNCHANGED <<cluster, worker, requests, keyspace, state>>
  BY Zenon DEF ReaderStep, FetchMetadata, QueryReturns
<1>2. ControlInv /\ FreshInv /\ DOMAIN reading = {"initial", "stage", "left", "metadata"}
  BY Zenon DEF WorkerInv, ControlInv
<1>3. CASE FetchMetadata
  <2>1. Active /\ answers = All("none")
    BY <1>3, Zenon DEF FetchMetadata, Active, Querying
  <2>2. CASE answers' = All("waiting") /\ UNCHANGED <<reading, known_peers>>
    BY <1>1, <1>2, <2>1, <2>2, Zenon DEF ReaderOutcome, Active
  <2>3. CASE FetchFailed /\ UNCHANGED answers
    BY <1>1, <1>2, <2>1, <2>3, FetchFailedOutcome, Zenon DEF ReaderOutcome
  <2> QED BY <1>3, <2>2, <2>3, Zenon DEF FetchMetadata
<1>4. CASE QueryReturns
  <2>1. Active
    <3>1. \E q \in Queries : answers[q].is \in {"rows", "error"}
      BY <1>4, Zenon DEF QueryReturns, Queries
    <3> QED BY <1>2, <3>1, AnswersMeanActive
  <2>2. answers' = All("none")
    BY <1>4, Zenon DEF QueryReturns
  <2>3. CASE FetchFailed
    BY <1>1, <1>2, <2>1, <2>2, <2>3, FetchFailedOutcome, Zenon DEF ReaderOutcome
  <2>4. CASE ~QueryError /\ ReadOk([read_at |-> ReadAt, peers |-> QueryPeers])
    <3>1. QueryPeers # {}
      BY <2>4, Zenon DEF QueryError
    <3>2. \E q \in Queries : answers[q].is = "rows" /\ answers[q].read_at = ReadAt
      BY <1>2, <3>1, ReadAtIsOfAnAnswer, Zenon
    <3>3. reading' = [reading EXCEPT !.stage = "done",
                                     !.metadata = [read_at |-> ReadAt, peers |-> QueryPeers]]
      BY <2>4, Zenon DEF ReadOk
    <3>4. /\ DOMAIN reading' = DOMAIN reading /\ reading'.initial = reading.initial
          /\ reading'.stage = "done"
          /\ reading'.metadata = [read_at |-> ReadAt, peers |-> QueryPeers]
      BY <1>2, <3>3
    <3> QED BY <1>1, <2>1, <2>2, <3>1, <3>2, <3>4 DEF ReaderOutcome
  <2>5. CASE reading.initial /\ ReadOk(DummyMetadata)
    <3>1. known_peers # {}
      BY <1>2, <2>1, <2>5, Zenon DEF ControlInv
    <3>2. DummyMetadata.peers # {}
      BY <3>1 DEF DummyMetadata
    <3>3. reading' = [reading EXCEPT !.stage = "done", !.metadata = DummyMetadata]
      BY <2>5, Zenon DEF ReadOk
    <3>4. /\ DOMAIN reading' = DOMAIN reading /\ reading'.initial = reading.initial
          /\ reading'.stage = "done" /\ reading'.metadata = DummyMetadata
      BY <1>2, <3>3
    <3> QED BY <1>1, <2>1, <2>2, <2>5, <3>2, <3>4, Zenon DEF ReaderOutcome
  <2> QED BY <1>4, <2>3, <2>4, <2>5, Zenon DEF QueryReturns
<1> QED BY <1>3, <1>4, Zenon DEF ReaderStep

\* What a step of the cluster, of the network or of the router does.
LEMMA NetworkStepOutcome ==
    ASSUME WorkerInv,
           \/ NetworkStep(PoolFilled) \/ NetworkStep(KeepaliveFails)
           \/ NetworkStep(ReaderUnblocked) \/ NetworkResets
           \/ \E k \in EventKinds : NetworkStep(HandleEvent(k))
           \/ \E q \in Queries : NetworkStep(QueryAnswered(q)) \/ ServerError(q)
           \/ \E h \in Hosts : Join(h) \/ Leave(h) \/ Relocate(h) \/ Crash(h) \/ Restart(h)
    PROVE  NetworkOutcome
<1> USE DEF NetworkOutcome
<1>0. ControlInv /\ DOMAIN answers = Queries
  BY Zenon DEF WorkerInv, FreshInv
<1>1. CASE NetworkStep(PoolFilled) \/ NetworkStep(ReaderUnblocked)
           \/ \E k \in EventKinds : NetworkStep(HandleEvent(k))
  BY <1>1, Zenon DEF NetworkStep, PoolFilled, ReaderUnblocked, HandleEvent, cluster
<1>2. ASSUME Broken, UNCHANGED <<worker, requests, keyspace, state>> PROVE NetworkOutcome
  <2>1. answers' = [q \in Queries |->
                       IF answers[q].is = "waiting" THEN Answer("error") ELSE answers[q]]
    BY <1>2, Zenon DEF Broken
  <2>2. answers = All("none") => answers' = answers
    <3> SUFFICES ASSUME answers = All("none") PROVE answers' = answers
      OBVIOUS
    <3>1. \A q \in Queries : answers[q] = Answer("none") /\ answers[q].is # "waiting"
      BY AllAnswers DEF Answer
    <3>2. answers' = [q \in Queries |-> Answer("none")]
      BY <2>1, <3>1, Zenon
    <3> QED BY <3>2, Zenon DEF All
  <2>3. /\ DOMAIN answers' = Queries
        /\ \A q \in Queries : answers'[q] = answers[q] \/ answers'[q] = Answer("error")
    BY <2>1, Zenon
  <2>4. UNCHANGED <<reading, known_peers, epoch>>
    BY <1>2, Zenon DEF Broken, cluster
  <2> QED BY <1>2, <2>2, <2>3, <2>4, Zenon
<1>3. CASE NetworkStep(KeepaliveFails) \/ NetworkResets
  BY <1>2, <1>3, Zenon DEF NetworkStep, KeepaliveFails, NetworkResets, Fault
<1>4. ASSUME NEW q \in Queries, NEW a, Answered(q, a),
             a = Answer("error") \/ (a.is = "rows" /\ a.read_at = epoch),
             UNCHANGED <<worker, requests, keyspace, state>>
      PROVE  NetworkOutcome
  <2>1. answers' = [answers EXCEPT ![q] = a] /\ answers[q].is = "waiting"
        /\ UNCHANGED <<reading, known_peers, epoch>>
    BY <1>4, Zenon DEF Answered, cluster
  <2>2. answers # All("none")
    <3> SUFFICES ASSUME answers = All("none") PROVE FALSE
      OBVIOUS
    <3>1. answers[q] = Answer("none")
      BY AllAnswers, Zenon
    <3> QED BY <2>1, <3>1 DEF Answer
  <2>3. /\ DOMAIN answers' = Queries
        /\ \A r \in Queries : answers'[r] = IF r = q THEN a ELSE answers[r]
    BY <1>0, <2>1, Zenon
  <2> QED BY <1>4, <2>1, <2>2, <2>3, Zenon
<1>5. CASE \E q \in Queries : NetworkStep(QueryAnswered(q)) \/ ServerError(q)
  <2>1. PICK q \in Queries : NetworkStep(QueryAnswered(q)) \/ ServerError(q)
    BY <1>5, Zenon
  <2>2. CASE NetworkStep(QueryAnswered(q))
    <3> DEFINE a == [is |-> "rows", read_at |-> epoch, peers |-> Rows(q)]
    <3>1. Answered(q, a) /\ UNCHANGED <<worker, requests, keyspace, state>>
      BY <2>2, Zenon DEF NetworkStep, QueryAnswered
    <3>2. a.is = "rows" /\ a.read_at = epoch
      OBVIOUS
    <3> HIDE DEF a
    <3> QED BY <1>4, <3>1, <3>2, Zenon
  <2>3. CASE ServerError(q)
    BY <1>4, <2>3, Zenon DEF ServerError, QueryFails, Fault
  <2> QED BY <2>1, <2>2, <2>3, Zenon
<1>6. CASE \E h \in Hosts : Join(h) \/ Leave(h) \/ Relocate(h) \/ Crash(h) \/ Restart(h)
  <2>1. CASE \E ms, al, rk : ChangeTopology(ms, al, rk)
    BY <2>1, Zenon DEF ChangeTopology
  <2>2. CASE \E al : ChangeStatus(al)
    BY <2>2, Zenon DEF ChangeStatus, Fault
  <2> QED BY <1>6, <2>1, <2>2, Zenon DEF Join, Leave, Relocate, Crash, Restart
<1> QED BY <1>1, <1>3, <1>5, <1>6, Zenon

\* What the branches of the select that begin a refresh do.
LEMMA RefreshBeginsOutcome ==
    ASSUME SleepOver \/ TakeRefreshRequest \/ TakeTopologyEvent \/ TakeRepair
    PROVE  RefreshBegins
BY Zenon DEF SleepOver, TakeRefreshRequest, TakeTopologyEvent, TakeRepair, PerformRefresh,
             RefreshBegins

-----------------------------------------------------------------------------
(* The steps keep the invariant *)

\* The pools of the nodes stay as they are when the worker's state does.
LEMMA PoolsUntouched ==
    ASSUME PoolsInv, UNCHANGED <<keyspace, state>>
    PROVE  PoolsInv'
<1>1. UNCHANGED <<use_keyspace_call, used_keyspace, task, known_nodes, next_nodes, pools>>
  BY Zenon DEF keyspace, state
<1>2. PoolsOf(known_nodes)' = PoolsOf(known_nodes) /\ PoolsOf(next_nodes)' = PoolsOf(next_nodes)
  BY <1>1, Zenon DEF PoolsOf
<1>3. DOMAIN pools' = PoolsOf(known_nodes)' \cup PoolsOf(next_nodes)' \cup task'.todo
  BY <1>1, <1>2, Zenon DEF PoolsInv
<1>4. \A q \in DOMAIN pools' : pools'[q] = used_keyspace' \/ q \in task'.todo
  BY <1>1, Zenon DEF PoolsInv
<1> QED BY <1>1, <1>3, <1>4 DEF PoolsInv

\* A step that none of the parts of the invariant sees keeps it.
LEMMA UnseenStep ==
    ASSUME WorkerInv,
           UNCHANGED <<reading, answers, known_peers, epoch, worker, requests, keyspace, state>>
    PROVE  WorkerInv'
<1>1. UNCHANGED <<refresh_channel, cur_request, call, asked_at, use_keyspace_call, used_keyspace,
                  task, known_nodes, next_nodes, pools>>
  BY Zenon DEF requests, keyspace, state
<1>2. ControlInv'
  BY <1>1, Zenon DEF WorkerInv, ControlInv, KnownPeersNonempty, Connected, Active
<1>3. QueueInv'
  BY <1>1, Zenon DEF WorkerInv, QueueInv
<1>4. FreshInv'
  BY <1>1, Zenon DEF WorkerInv, FreshInv
<1>5. PoolsInv'
  BY PoolsUntouched, Zenon DEF WorkerInv
<1> QED BY <1>2, <1>3, <1>4, <1>5, Zenon DEF WorkerInv

\* The pools and the queue are not touched by the reader and the network.
LEMMA PoolsAndQueueUntouched ==
    ASSUME WorkerInv, UNCHANGED <<requests, keyspace, state>>
    PROVE  QueueInv' /\ PoolsInv'
<1>1. UNCHANGED <<refresh_channel, cur_request, call, asked_at, use_keyspace_call, used_keyspace,
                  task, known_nodes, next_nodes, pools>>
  BY Zenon DEF requests, keyspace, state
<1>2. QueueInv'
  BY <1>1, Zenon DEF WorkerInv, QueueInv
<1>3. PoolsInv'
  BY PoolsUntouched, Zenon DEF WorkerInv
<1> QED BY <1>2, <1>3

\* read_metadata keeps the invariant.
LEMMA ReaderKeeps ==
    ASSUME WorkerInv, ReaderOutcome
    PROVE  WorkerInv'
<1>1. /\ UNCHANGED <<epoch, worker, cur_request, asked_at, next_nodes, known_nodes>>
      /\ UNCHANGED <<requests, keyspace, state>>
  BY Zenon DEF ReaderOutcome, cluster, requests, state
<1>2. /\ Active /\ reading'.initial = reading.initial
      /\ DOMAIN reading' = {"initial", "stage", "left", "metadata"}
      /\ worker \in {"starting", "refreshing"}
  BY Zenon DEF ReaderOutcome, WorkerInv, ControlInv
<1>3. ControlInv'
  <2>1. Active' <=> reading'.stage \in {"current", "known", "contacts"}
    BY Zenon DEF Active
  <2>2. KnownPeersNonempty'
    BY <1>1, <1>2, Zenon DEF WorkerInv, ControlInv, KnownPeersNonempty, Connected
  <2>3. next_nodes = << >> /\ worker # "pools"
    BY <1>2 DEF WorkerInv, ControlInv
  <2>4. reading.initial => worker \in {"starting", "pools", "closed"} /\ cur_request = None
    BY Zenon DEF WorkerInv, ControlInv
  <2>5. reading.initial \in BOOLEAN /\ (reading.initial => known_peers # {})
    BY <1>2, Zenon DEF WorkerInv, ControlInv
  <2>6. CASE /\ reading'.stage \in {"current", "known", "contacts"} /\ known_peers' = known_peers
             /\ answers' \in {All("none"), All("waiting")}
    BY <1>1, <1>2, <2>1, <2>2, <2>3, <2>4, <2>5, <2>6 DEF ControlInv
  <2>7. CASE reading'.stage = "failed" /\ answers' = All("none")
    BY <1>1, <1>2, <2>1, <2>2, <2>3, <2>4, <2>5, <2>7 DEF ControlInv
  <2>8. CASE reading'.stage = "done" /\ answers' = All("none") /\ reading'.metadata.peers # {}
    BY <1>1, <1>2, <2>1, <2>2, <2>3, <2>4, <2>5, <2>8 DEF ControlInv
  <2> QED BY <2>6, <2>7, <2>8, Zenon DEF ReaderOutcome
<1>4. FreshInv'
  <2>1. ASSUME NEW is \in {"none", "waiting"}, answers' = All(is)
        PROVE  /\ DOMAIN answers' = Queries
               /\ \A q \in Queries : /\ answers'[q].read_at \in Nat
                                       /\ answers'[q].is # "rows" /\ answers'[q].peers = {}
    <3>1. DOMAIN answers' = Queries /\ \A q \in Queries : answers'[q] = Answer(is)
      BY <2>1, AllAnswers, Zenon
    <3> QED BY <3>1 DEF Answer
  <2>2. /\ DOMAIN answers' = Queries
        /\ \A q \in Queries : /\ answers'[q].read_at \in Nat
                                /\ answers'[q].is # "rows" /\ answers'[q].peers = {}
    BY <2>1, Zenon DEF ReaderOutcome
  <2>3. reading'.stage = "done" =>
           \A c \in Clients : cur_request = c => reading'.metadata.read_at >= asked_at[c]
    <3> SUFFICES ASSUME reading'.stage = "done", NEW c \in Clients, cur_request = c
                 PROVE  reading'.metadata.read_at >= asked_at[c]
      OBVIOUS
    <3>1. ~reading.initial
      BY WorkerAssumption, Zenon DEF WorkerInv, ControlInv
    <3>2. PICK q \in Queries : /\ answers[q].is = "rows"
                                /\ answers[q].read_at = reading'.metadata.read_at
      BY <3>1 DEF ReaderOutcome
    <3>3. answers[q].read_at >= asked_at[c]
      BY <3>2, Zenon DEF WorkerInv, FreshInv
    <3> QED BY <3>2, <3>3, Zenon
  <2>4. /\ epoch \in Nat /\ asked_at \in [Clients -> Nat]
        /\ \A c \in Clients : asked_at[c] <= epoch
    BY Zenon DEF WorkerInv, FreshInv
  <2> QED BY <1>1, <2>2, <2>3, <2>4, Zenon DEF FreshInv
<1> QED BY <1>1, <1>3, <1>4, PoolsAndQueueUntouched, Zenon DEF WorkerInv

\* The cluster and the network keep the invariant.
LEMMA NetworkKeeps ==
    ASSUME WorkerInv, NetworkOutcome
    PROVE  WorkerInv'
<1>1. /\ UNCHANGED <<reading, known_peers, worker, cur_request, asked_at, next_nodes, known_nodes>>
      /\ UNCHANGED <<requests, keyspace, state>>
  BY Zenon DEF NetworkOutcome, requests, state
<1>2. ControlInv'
  <2>1. answers' # All("none") => Active
    BY Zenon DEF NetworkOutcome, WorkerInv, ControlInv
  <2> QED BY <1>1, <2>1, Zenon DEF WorkerInv, ControlInv, KnownPeersNonempty, Connected, Active
<1>3. FreshInv'
  <2>1. /\ epoch \in Nat /\ asked_at \in [Clients -> Nat]
        /\ \A c \in Clients : asked_at[c] <= epoch
    BY Zenon DEF WorkerInv, FreshInv
  <2>2. epoch' \in Nat /\ epoch <= epoch'
    BY <2>1 DEF NetworkOutcome
  <2>3. \A c \in Clients : asked_at[c] <= epoch'
    BY <2>1, <2>2
  <2>4. DOMAIN answers' = Queries
    BY Zenon DEF NetworkOutcome, WorkerInv, FreshInv
  <2>5. ASSUME NEW q \in Queries
        PROVE  /\ answers'[q].read_at \in Nat
               /\ answers'[q].is # "rows" => answers'[q].peers = {}
               /\ \A c \in Clients :
                     answers'[q].is = "rows" /\ cur_request = c => answers'[q].read_at >= asked_at[c]
    <3>1. CASE answers'[q] = answers[q]
      BY <3>1, Zenon DEF WorkerInv, FreshInv
    <3>2. CASE answers'[q] = Answer("error")
      BY <3>2 DEF Answer
    <3>3. CASE answers'[q].is = "rows" /\ answers'[q].read_at = epoch
      BY <2>1, <3>3
    <3> QED BY <3>1, <3>2, <3>3, Zenon DEF NetworkOutcome
  <2>6. reading.stage = "done" =>
           \A c \in Clients : cur_request = c => reading.metadata.read_at >= asked_at[c]
    BY Zenon DEF WorkerInv, FreshInv
  <2> QED BY <1>1, <2>1, <2>2, <2>3, <2>4, <2>5, <2>6, Zenon DEF FreshInv
<1> QED BY <1>1, <1>2, <1>3, PoolsAndQueueUntouched, Zenon DEF WorkerInv

\* The beginning of a refresh keeps the invariant: nothing has been read for the client.
LEMMA RefreshBeginsKeeps ==
    ASSUME WorkerInv, RefreshBegins
    PROVE  WorkerInv'
<1>1. /\ UNCHANGED <<epoch, known_peers, call, asked_at, keyspace, state, next_nodes, known_nodes>>
      /\ worker = "select" /\ worker' = "refreshing"
      /\ answers' = All("none")
      /\ reading' = [initial |-> FALSE, stage |-> "current", left |-> {}, metadata |-> NoMetadata]
  BY Zenon DEF RefreshBegins, StartReading, cluster, state
<1>2. /\ DOMAIN reading' = {"initial", "stage", "left", "metadata"}
      /\ reading'.initial = FALSE /\ reading'.stage = "current"
  BY <1>1
<1>3. ControlInv'
  <2>1. Active'
    BY <1>2 DEF Active
  <2>2. ~reading.initial /\ next_nodes = << >> /\ DOMAIN known_nodes # {}
    BY <1>1 DEF WorkerInv, ControlInv, KnownPeersNonempty, Connected
  <2> QED BY <1>1, <1>2, <2>1, <2>2 DEF ControlInv, KnownPeersNonempty, Connected
<1>4. QueueInv'
  <2>0. QueueInv
    BY DEF WorkerInv
  <2>1. CASE cur_request' = None /\ refresh_channel' = refresh_channel
    <3>1. \A i \in 1..Len(refresh_channel) : refresh_channel[i] # None
      BY <2>0, WorkerAssumption DEF QueueInv
    <3> QED BY <1>1, <2>0, <2>1, <3>1, Zenon DEF QueueInv
  <2>2. CASE /\ refresh_channel # << >>
             /\ cur_request' = Head(refresh_channel) /\ refresh_channel' = Tail(refresh_channel)
    <3>1. refresh_channel \in Seq(Clients) /\ call' = call /\ call \in [Clients -> {"idle", "waiting"}]
      BY <1>1, <2>0, Zenon DEF QueueInv
    <3>2. /\ refresh_channel' \in Seq(Clients) /\ cur_request' \in Clients
          /\ cur_request' = refresh_channel[1] /\ 1 \in 1..Len(refresh_channel)
          /\ \A i \in 1..Len(refresh_channel') :
                /\ i + 1 \in 1..Len(refresh_channel) /\ i + 1 # 1 /\ i \in Nat
                /\ refresh_channel'[i] = refresh_channel[i+1]
      BY <2>2, <3>1
    <3>3. call'[cur_request'] = "waiting"
      BY <2>0, <3>1, <3>2, Zenon DEF QueueInv
    <3>4. \A i \in 1..Len(refresh_channel') :
             call'[refresh_channel'[i]] = "waiting" /\ refresh_channel'[i] # cur_request'
      BY <2>0, <3>1, <3>2 DEF QueueInv
    <3>5. \A i, j \in 1..Len(refresh_channel') : refresh_channel'[i] = refresh_channel'[j] => i = j
      <4> SUFFICES ASSUME NEW i \in 1..Len(refresh_channel'), NEW j \in 1..Len(refresh_channel'),
                          refresh_channel'[i] = refresh_channel'[j]
                   PROVE  i = j
        OBVIOUS
      <4>1. /\ i + 1 \in 1..Len(refresh_channel) /\ refresh_channel'[i] = refresh_channel[i+1]
            /\ j + 1 \in 1..Len(refresh_channel) /\ refresh_channel'[j] = refresh_channel[j+1]
        BY <3>2, Zenon
      <4>2. \A k, l \in 1..Len(refresh_channel) : refresh_channel[k] = refresh_channel[l] => k = l
        BY <2>0, Zenon DEF QueueInv
      <4>3. i + 1 = j + 1
        <5> DEFINE k == i + 1  l == j + 1
        <5> HIDE DEF k, l
        <5>1. k \in 1..Len(refresh_channel) /\ l \in 1..Len(refresh_channel)
              /\ refresh_channel[k] = refresh_channel[l]
          BY <4>1, Zenon DEF k, l
        <5>2. k = l
          BY <4>2, <5>1, Zenon
        <5> QED BY <5>2 DEF k, l
      <4> QED BY <3>2, <4>3
    <3> QED BY <3>1, <3>2, <3>3, <3>4, <3>5, Zenon DEF QueueInv
  <2> QED BY <2>1, <2>2, Zenon DEF RefreshBegins
<1>5. FreshInv'
  <2>1. DOMAIN answers' = Queries /\ \A q \in Queries : answers'[q] = Answer("none")
    BY <1>1, AllAnswers, Zenon
  <2>2. \A q \in Queries : /\ answers'[q].read_at \in Nat /\ answers'[q].is # "rows"
                            /\ answers'[q].peers = {}
    BY <2>1 DEF Answer
  <2>3. reading'.stage # "done"
    BY <1>2
  <2>4. /\ epoch \in Nat /\ asked_at \in [Clients -> Nat]
        /\ \A c \in Clients : asked_at[c] <= epoch
    BY Zenon DEF WorkerInv, FreshInv
  <2> QED BY <1>1, <2>1, <2>2, <2>3, <2>4, Zenon DEF FreshInv
<1>6. PoolsInv'
  BY <1>1, PoolsUntouched, Zenon DEF WorkerInv
<1> QED BY <1>3, <1>4, <1>5, <1>6, Zenon DEF WorkerInv

-----------------------------------------------------------------------------
(* The nodes and their pools *)

\* A state without nodes has no pools.
LEMMA NoNodesNoPools == PoolsOf(<< >>) = {}
BY DEF PoolsOf

\* ClusterState::new gives the keyspace of the worker to the pools it creates.
LEMMA NewPoolsUseKeyspace ==
    ASSUME NEW created
    PROVE  /\ DOMAIN NewPools(created) = DOMAIN pools \cup created
           /\ \A q \in DOMAIN pools : NewPools(created)[q] = pools[q]
           /\ \A q \in created \ DOMAIN pools : NewPools(created)[q] = used_keyspace
BY Zenon DEF NewPools

\* The pools that stay alive keep their keyspace.
LEMMA KeptPools ==
    ASSUME NEW live
    PROVE  /\ DOMAIN Keep(live) = DOMAIN pools \cap live
           /\ \A q \in DOMAIN pools \cap live : Keep(live)[q] = pools[q]
BY Zenon DEF Keep

\* A ClusterState is built, with a node for each peer.
LEMMA MetadataReadKeeps ==
    ASSUME WorkerInv, MetadataRead
    PROVE  WorkerInv'
<1>1. /\ UNCHANGED <<epoch, reading, answers, known_peers, refresh_channel, cur_request, call, asked_at,
                     use_keyspace_call, used_keyspace, task, known_nodes>>
      /\ worker \in {"starting", "refreshing"} /\ reading.stage = "done" /\ worker' = "pools"
  BY Zenon DEF MetadataRead, cluster, reader, requests, keyspace
<1> DEFINE built == [id \in {p.host_id : p \in reading.metadata.peers} |->
                       NodeOf(CHOOSE p \in reading.metadata.peers : p.host_id = id)]
<1>2. next_nodes' = built /\ pools' = NewPools(PoolsOf(built) \ DOMAIN pools)
  BY Zenon DEF MetadataRead, ClusterStateNew
<1>3. DOMAIN built = {p.host_id : p \in reading.metadata.peers}
  BY Zenon
<1> HIDE DEF built
<1>4. ControlInv'
  <2>1. reading.metadata.peers # {} /\ next_nodes = << >>
    BY <1>1 DEF WorkerInv, ControlInv
  <2>2. DOMAIN next_nodes' # {}
    BY <1>2, <1>3, <2>1, Zenon
  <2>3. answers = All("none") /\ ~Active
    BY <1>1 DEF WorkerInv, ControlInv, Active
  <2>4. KnownPeersNonempty'
    BY <1>1, Zenon DEF WorkerInv, ControlInv, KnownPeersNonempty, Connected
  <2>5. reading.initial => cur_request = None
    BY Zenon DEF WorkerInv, ControlInv
  <2>6. DOMAIN reading = {"initial", "stage", "left", "metadata"} /\ reading.initial \in BOOLEAN
    BY Zenon DEF WorkerInv, ControlInv
  <2>7. ~Active'
    BY <1>1, <2>3, Zenon DEF Active
  <2> QED BY <1>1, <2>1, <2>2, <2>3, <2>4, <2>5, <2>6, <2>7 DEF ControlInv
<1>5. QueueInv'
  BY <1>1, Zenon DEF WorkerInv, QueueInv
<1>6. FreshInv'
  BY <1>1, Zenon DEF WorkerInv, FreshInv
<1>7. PoolsInv'
  <2>0. PoolsInv /\ next_nodes = << >>
    BY <1>1 DEF WorkerInv, ControlInv
  <2>1. DOMAIN pools = PoolsOf(known_nodes) \cup task.todo
    BY <2>0, NoNodesNoPools, Zenon DEF PoolsInv
  <2>2. DOMAIN pools' = DOMAIN pools \cup (PoolsOf(built) \ DOMAIN pools)
    BY <1>2, NewPoolsUseKeyspace, Zenon
  <2>3. PoolsOf(known_nodes)' = PoolsOf(known_nodes) /\ PoolsOf(next_nodes)' = PoolsOf(built)
    BY <1>1, <1>2, Zenon DEF PoolsOf
  <2>4. DOMAIN pools' = PoolsOf(known_nodes)' \cup PoolsOf(next_nodes)' \cup task'.todo
    BY <1>1, <2>1, <2>2, <2>3
  <2>5. ASSUME NEW q \in DOMAIN pools'
        PROVE  pools'[q] = used_keyspace \/ q \in task.todo
    <3>1. CASE q \in DOMAIN pools
      BY <1>2, <2>0, <3>1, NewPoolsUseKeyspace, Zenon DEF PoolsInv
    <3>2. CASE q \notin DOMAIN pools
      BY <1>2, <2>2, <3>2, NewPoolsUseKeyspace, Zenon
    <3> QED BY <3>1, <3>2
  <2>6. PoolsOf(known_nodes') = PoolsOf(known_nodes)' /\ PoolsOf(next_nodes') = PoolsOf(next_nodes)'
    BY Zenon DEF PoolsOf
  <2> QED BY <1>1, <2>0, <2>4, <2>5, Zenon DEF PoolsInv
<1> QED BY <1>4, <1>5, <1>6, <1>7, Zenon DEF WorkerInv

\* perform_refresh responds to the client it was for, and to nobody else.
LEMMA RespondKeeps ==
    ASSUME WorkerInv, Respond
    PROVE  /\ QueueInv'
           /\ cur_request' = None
           /\ asked_at' \in [Clients -> Nat]
           /\ \A c \in Clients : asked_at'[c] <= epoch
<1>0. QueueInv /\ FreshInv
  BY DEF WorkerInv
<1>1. /\ refresh_channel' = refresh_channel /\ cur_request' = None
      /\ DOMAIN call' = Clients
      /\ \A c \in Clients : call'[c] = IF c = cur_request THEN "idle" ELSE call[c]
      /\ call' \in [Clients -> {"idle", "waiting"}]
  <2>1. call' = [c \in Clients |-> IF c = cur_request THEN "idle" ELSE call[c]]
    BY Zenon DEF Respond
  <2>2. call \in [Clients -> {"idle", "waiting"}]
    BY <1>0, Zenon DEF QueueInv
  <2>3. call' \in [Clients -> {"idle", "waiting"}]
    BY <2>1, <2>2
  <2>4. refresh_channel' = refresh_channel /\ cur_request' = None
    BY Zenon DEF Respond
  <2> QED BY <2>1, <2>3, <2>4, Zenon
<1>2. \A i \in 1..Len(refresh_channel) :
         /\ refresh_channel[i] \in Clients /\ refresh_channel[i] # cur_request
         /\ call[refresh_channel[i]] = "waiting"
  BY <1>0 DEF QueueInv
<1>3. \A i \in 1..Len(refresh_channel) :
         call'[refresh_channel[i]] = "waiting" /\ refresh_channel[i] # None
  BY <1>1, <1>2, WorkerAssumption, Zenon
<1>4. QueueInv'
  BY <1>0, <1>1, <1>3, Zenon DEF QueueInv
<1>5. asked_at' = [c \in Clients |-> IF c = cur_request THEN 0 ELSE asked_at[c]]
  BY Zenon DEF Respond
<1>6. /\ epoch \in Nat /\ asked_at \in [Clients -> Nat]
      /\ \A c \in Clients : asked_at[c] <= epoch
  BY <1>0, Zenon DEF FreshInv
<1> QED BY <1>1, <1>4, <1>5, <1>6

\* The new ClusterState is published, and the pools of the former one go unless the task
\* that sets the keyspace still has them.
LEMMA PoolsInitializedKeeps ==
    ASSUME WorkerInv, PoolsInitialized
    PROVE  WorkerInv'
<1>1. /\ UNCHANGED <<epoch, known_peers, answers, use_keyspace_call, used_keyspace, task>>
      /\ worker = "pools" /\ worker' = "select" /\ Respond
      /\ known_nodes' = next_nodes /\ next_nodes' = << >>
      /\ pools' = Keep(PoolsOf(next_nodes) \cup task.todo)
  BY Zenon DEF PoolsInitialized, Publish, cluster, keyspace
<1>2. reading' = [initial |-> FALSE, stage |-> "idle", left |-> {}, metadata |-> NoMetadata]
  BY Zenon DEF PoolsInitialized
<1>3. /\ DOMAIN reading' = {"initial", "stage", "left", "metadata"}
      /\ reading'.initial = FALSE /\ reading'.stage = "idle"
  BY <1>2
<1>4. /\ reading.stage = "done" /\ DOMAIN next_nodes # {}
      /\ answers = All("none")
  <2>1. reading.stage = "done" /\ DOMAIN next_nodes # {}
    BY <1>1 DEF WorkerInv, ControlInv
  <2>2. ~Active
    BY <2>1 DEF Active
  <2> QED BY <2>1, <2>2, Zenon DEF WorkerInv, ControlInv
<1>5. ControlInv'
  <2>1. ~Active'
    BY <1>3 DEF Active
  <2> QED BY <1>1, <1>3, <1>4, <2>1, Zenon DEF ControlInv, KnownPeersNonempty, Connected
<1>6. QueueInv'
  BY <1>1, RespondKeeps, Zenon
<1>7. FreshInv'
  <2>1. /\ cur_request' = None /\ asked_at' \in [Clients -> Nat]
        /\ \A c \in Clients : asked_at'[c] <= epoch
    BY <1>1, RespondKeeps, Zenon
  <2>2. epoch \in Nat /\ DOMAIN answers = Queries /\ \A q \in Queries : answers[q] = Answer("none")
    BY <1>4, AllAnswers, Zenon DEF WorkerInv, FreshInv
  <2>3. \A q \in Queries : /\ answers[q].read_at \in Nat /\ answers[q].is # "rows"
                            /\ answers[q].peers = {}
    BY <2>2 DEF Answer
  <2>4. reading'.stage # "done"
    BY <1>3
  <2> QED BY <1>1, <2>1, <2>2, <2>3, <2>4, Zenon DEF FreshInv
<1>8. PoolsInv'
  <2>0. PoolsInv
    BY DEF WorkerInv
  <2> DEFINE live == PoolsOf(next_nodes) \cup task.todo
  <2>1. /\ DOMAIN pools' = DOMAIN pools \cap live
        /\ \A q \in DOMAIN pools \cap live : pools'[q] = pools[q]
    <3> HIDE DEF live
    <3>1. pools' = Keep(live)
      BY <1>1 DEF live
    <3> QED BY <3>1, KeptPools, Zenon
  <2>2. DOMAIN pools' = PoolsOf(next_nodes) \cup task.todo
    BY <2>0, <2>1, Zenon DEF PoolsInv
  <2>3. PoolsOf(known_nodes)' = PoolsOf(next_nodes) /\ PoolsOf(next_nodes)' = {}
    BY <1>1, NoNodesNoPools, Zenon DEF PoolsOf
  <2>4. DOMAIN pools' = PoolsOf(known_nodes)' \cup PoolsOf(next_nodes)' \cup task'.todo
    BY <1>1, <2>2, <2>3, Zenon
  <2>5. \A q \in DOMAIN pools' : pools'[q] = used_keyspace \/ q \in task.todo
    BY <2>0, <2>1, Zenon DEF PoolsInv
  <2> QED BY <1>1, <2>0, <2>4, <2>5, Zenon DEF PoolsInv
<1> QED BY <1>5, <1>6, <1>7, <1>8, Zenon DEF WorkerInv

\* A refresh that failed leaves the published state as it was.
LEMMA MetadataFailedKeeps ==
    ASSUME WorkerInv, MetadataFailed
    PROVE  WorkerInv'
<1>1. /\ UNCHANGED <<epoch, known_peers, answers, keyspace, state>>
      /\ reading.stage = "failed" /\ Respond
      /\ reading' = [reading EXCEPT !.stage = "idle"]
      /\ worker' = IF worker = "starting" THEN "closed" ELSE "select"
  BY Zenon DEF MetadataFailed, cluster
<1>2. /\ DOMAIN reading' = {"initial", "stage", "left", "metadata"}
      /\ reading'.initial = reading.initial /\ reading'.stage = "idle"
      /\ reading.initial \in BOOLEAN
  <2>1. DOMAIN reading = {"initial", "stage", "left", "metadata"} /\ reading.initial \in BOOLEAN
    BY Zenon DEF WorkerInv, ControlInv
  <2> QED BY <1>1, <2>1
<1>3. worker \in {"starting", "refreshing"} /\ next_nodes = << >> /\ answers = All("none")
  BY <1>1 DEF WorkerInv, ControlInv, Active
<1>4. ControlInv'
  <2>1. ~Active'
    BY <1>2 DEF Active
  <2>2. reading.initial => worker = "starting"
    BY <1>3 DEF WorkerInv, ControlInv
  <2>3. next_nodes' = next_nodes /\ known_nodes' = known_nodes
    BY <1>1, Zenon DEF state
  <2>4. KnownPeersNonempty'
    BY <1>2, <2>3, Zenon DEF WorkerInv, ControlInv, KnownPeersNonempty, Connected
  <2>5. cur_request' = None
    BY <1>1, RespondKeeps, Zenon
  <2> QED BY <1>1, <1>2, <1>3, <2>1, <2>2, <2>3, <2>4, <2>5 DEF ControlInv
<1>5. QueueInv'
  BY <1>1, RespondKeeps, Zenon
<1>6. FreshInv'
  <2>1. /\ cur_request' = None /\ asked_at' \in [Clients -> Nat]
        /\ \A c \in Clients : asked_at'[c] <= epoch
    BY <1>1, RespondKeeps, Zenon
  <2>2. epoch \in Nat /\ DOMAIN answers = Queries /\ \A q \in Queries : answers[q] = Answer("none")
    BY <1>3, AllAnswers, Zenon DEF WorkerInv, FreshInv
  <2>3. \A q \in Queries : /\ answers[q].read_at \in Nat /\ answers[q].is # "rows"
                            /\ answers[q].peers = {}
    BY <2>2 DEF Answer
  <2>4. reading'.stage # "done"
    BY <1>2
  <2> QED BY <1>1, <2>1, <2>2, <2>3, <2>4, Zenon DEF FreshInv
<1>7. PoolsInv'
  BY <1>1, PoolsUntouched, Zenon DEF WorkerInv
<1> QED BY <1>4, <1>5, <1>6, <1>7, Zenon DEF WorkerInv

-----------------------------------------------------------------------------
(* The API of the session and the task that tells the keyspace *)

\* A call of refresh_metadata: the client is queued once.
LEMMA RefreshMetadataKeeps ==
    ASSUME WorkerInv, NEW c \in Clients, RefreshMetadata(c)
    PROVE  WorkerInv'
<1>1. /\ UNCHANGED <<epoch, known_peers, reading, answers, worker, cur_request, keyspace, state>>
      /\ call[c] = "idle"
      /\ refresh_channel' = Append(refresh_channel, c)
      /\ call' = [call EXCEPT ![c] = "waiting"]
      /\ asked_at' = [asked_at EXCEPT ![c] = epoch]
  BY Zenon DEF RefreshMetadata, cluster, reader
<1>2. ControlInv'
  BY <1>1, Zenon DEF WorkerInv, ControlInv, KnownPeersNonempty, Connected, Active, state
<1>3. QueueInv'
  <2>0. QueueInv
    BY DEF WorkerInv
  <2>1. refresh_channel \in Seq(Clients) /\ call \in [Clients -> {"idle", "waiting"}]
    BY <2>0, Zenon DEF QueueInv
  <2>2. /\ refresh_channel' \in Seq(Clients) /\ Len(refresh_channel') = Len(refresh_channel) + 1
        /\ Len(refresh_channel) \in Nat
        /\ refresh_channel'[Len(refresh_channel')] = c
        /\ \A i \in 1..Len(refresh_channel) : refresh_channel'[i] = refresh_channel[i]
    BY <1>1, <2>1
  <2>3. \A i \in 1..Len(refresh_channel') :
           i \in 1..Len(refresh_channel) \/ i = Len(refresh_channel')
    BY <2>2
  <2>4. call' \in [Clients -> {"idle", "waiting"}] /\ call'[c] = "waiting"
        /\ \A d \in Clients : d # c => call'[d] = call[d]
    BY <1>1, <2>1
  <2>5. cur_request # c /\ \A i \in 1..Len(refresh_channel) : refresh_channel[i] # c
    <3>1. cur_request # c
      BY <1>1, <2>0, WorkerAssumption DEF QueueInv
    <3>2. \A i \in 1..Len(refresh_channel) : refresh_channel[i] # c
      BY <1>1, <2>0 DEF QueueInv
    <3> QED BY <3>1, <3>2
  <2>6. \A i \in 1..Len(refresh_channel) : refresh_channel[i] \in Clients
    BY <2>1
  <2>7. cur_request # None => call'[cur_request] = "waiting"
    BY <2>0, <2>4, <2>5, Zenon DEF QueueInv
  <2>8. \A i \in 1..Len(refresh_channel') :
           call'[refresh_channel'[i]] = "waiting" /\ refresh_channel'[i] # cur_request
    <3>1. \A i \in 1..Len(refresh_channel) :
             call'[refresh_channel[i]] = "waiting" /\ refresh_channel[i] # cur_request
      BY <2>0, <2>4, <2>5, <2>6, Zenon DEF QueueInv
    <3> QED BY <2>2, <2>3, <2>4, <2>5, <3>1
  <2>9. \A i, j \in 1..Len(refresh_channel') : refresh_channel'[i] = refresh_channel'[j] => i = j
    <3>1. \A i, j \in 1..Len(refresh_channel) : refresh_channel[i] = refresh_channel[j] => i = j
      BY <2>0, Zenon DEF QueueInv
    <3> QED BY <2>2, <2>3, <2>5, <3>1
  <2> QED BY <1>1, <2>0, <2>2, <2>4, <2>7, <2>8, <2>9, Zenon DEF QueueInv
<1>4. FreshInv'
  <2>0. FreshInv /\ QueueInv
    BY DEF WorkerInv
  <2>1. cur_request # c
    BY <1>1, <2>0, WorkerAssumption DEF QueueInv
  <2>2. /\ epoch \in Nat /\ asked_at \in [Clients -> Nat]
        /\ \A d \in Clients : asked_at[d] <= epoch
    BY <2>0, Zenon DEF FreshInv
  <2>3. /\ asked_at' \in [Clients -> Nat] /\ \A d \in Clients : asked_at'[d] <= epoch
        /\ \A d \in Clients : d # c => asked_at'[d] = asked_at[d]
    BY <1>1, <2>2
  <2>4. \A d \in Clients : cur_request = d => asked_at'[d] = asked_at[d]
    BY <2>1, <2>3, Zenon
  <2>5. \A q \in Queries, d \in Clients :
           answers[q].is = "rows" /\ cur_request = d => answers[q].read_at >= asked_at'[d]
    BY <2>0, <2>4, Zenon DEF FreshInv
  <2>6. reading.stage = "done" =>
           \A d \in Clients : cur_request = d => reading.metadata.read_at >= asked_at'[d]
    BY <2>0, <2>4, Zenon DEF FreshInv
  <2> QED BY <1>1, <2>0, <2>3, <2>5, <2>6, Zenon DEF FreshInv
<1>5. PoolsInv'
  BY <1>1, PoolsUntouched, Zenon DEF WorkerInv
<1> QED BY <1>2, <1>3, <1>4, <1>5, Zenon DEF WorkerInv

\* Steps that only concern the keyspace leave the refreshes alone.
LEMMA RefreshesUntouched ==
    ASSUME WorkerInv,
           UNCHANGED <<epoch, known_peers, reading, answers, worker, requests, known_nodes, next_nodes>>
    PROVE  ControlInv' /\ QueueInv' /\ FreshInv'
<1>1. UNCHANGED <<refresh_channel, cur_request, call, asked_at>>
  BY Zenon DEF requests
<1>2. ControlInv'
  BY <1>1, Zenon DEF WorkerInv, ControlInv, KnownPeersNonempty, Connected, Active
<1>3. QueueInv'
  BY <1>1, Zenon DEF WorkerInv, QueueInv
<1>4. FreshInv'
  BY <1>1, Zenon DEF WorkerInv, FreshInv
<1> QED BY <1>2, <1>3, <1>4

\* Session::use_keyspace is called, when no other call is under way.
LEMMA UseKeyspaceKeeps ==
    ASSUME WorkerInv, NEW k \in Keyspaces, UseKeyspace(k)
    PROVE  WorkerInv'
<1>1. /\ UNCHANGED <<epoch, known_peers, reading, answers, worker, requests, known_nodes, next_nodes>>
      /\ UNCHANGED <<pools, used_keyspace, task>>
      /\ use_keyspace_call = None /\ use_keyspace_call' = k
  BY Zenon DEF UseKeyspace, cluster, reader, state
<1>2. PoolsInv
  BY DEF WorkerInv
<1>3. ~task.running
  BY <1>1, <1>2, WorkerAssumption, Zenon DEF PoolsInv
<1>4. PoolsInv'
  <2>1. PoolsOf(known_nodes)' = PoolsOf(known_nodes) /\ PoolsOf(next_nodes)' = PoolsOf(next_nodes)
    BY <1>1, Zenon DEF PoolsOf
  <2> QED BY <1>1, <1>2, <1>3, <2>1 DEF PoolsInv
<1> QED BY <1>1, <1>4, RefreshesUntouched, Zenon DEF WorkerInv

\* The worker takes the request: from now on the pools of the published nodes are to be
\* told, which are all there are.
LEMMA TakeUseKeyspaceKeeps ==
    ASSUME WorkerInv, TakeUseKeyspace
    PROVE  WorkerInv'
<1>1. /\ UNCHANGED <<epoch, known_peers, reading, answers, worker, requests, known_nodes, next_nodes>>
      /\ UNCHANGED <<pools, use_keyspace_call>>
      /\ worker = "select" /\ use_keyspace_call # None /\ ~task.running
      /\ used_keyspace' = use_keyspace_call
      /\ task' = [running |-> TRUE, todo |-> PoolsOf(known_nodes)]
  BY Zenon DEF TakeUseKeyspace, cluster, reader, state
<1>2. PoolsInv /\ next_nodes = << >>
  BY <1>1 DEF WorkerInv, ControlInv
<1>3. DOMAIN task' = {"running", "todo"} /\ task'.running = TRUE /\ task'.todo = PoolsOf(known_nodes)
  BY <1>1
<1>4. DOMAIN pools = PoolsOf(known_nodes)
  <2>1. task.todo = {} /\ PoolsOf(next_nodes) = {}
    BY <1>1, <1>2, NoNodesNoPools, Zenon DEF PoolsInv
  <2> QED BY <1>2, <2>1 DEF PoolsInv
<1>5. PoolsOf(known_nodes)' = PoolsOf(known_nodes) /\ PoolsOf(next_nodes)' = {}
  BY <1>1, <1>2, NoNodesNoPools, Zenon DEF PoolsOf
<1>6. DOMAIN pools' = PoolsOf(known_nodes)' \cup PoolsOf(next_nodes)' \cup task'.todo
  BY <1>1, <1>3, <1>4, <1>5
<1>7. use_keyspace_call \in Keyspaces
  BY <1>1, <1>2, Zenon DEF PoolsInv
<1>8. PoolsInv'
  BY <1>1, <1>3, <1>4, <1>6, <1>7, Zenon DEF PoolsInv
<1> QED BY <1>1, <1>8, RefreshesUntouched, Zenon DEF WorkerInv

\* A pool is told; one that only the task still had goes.
LEMMA PoolUsesKeyspaceKeeps ==
    ASSUME WorkerInv, NEW q \in task.todo, PoolUsesKeyspace(q)
    PROVE  WorkerInv'
<1> DEFINE live == PoolsOf(known_nodes) \cup PoolsOf(next_nodes) \cup (task.todo \ {q})
<1>1. /\ UNCHANGED <<epoch, known_peers, reading, answers, worker, requests, known_nodes, next_nodes>>
      /\ UNCHANGED <<use_keyspace_call, used_keyspace>>
      /\ pools' = [p \in live |-> IF p = q THEN use_keyspace_call ELSE pools[p]]
      /\ task' = [task EXCEPT !.todo = @ \ {q}]
  BY Zenon DEF PoolUsesKeyspace, cluster, reader
<1>2. PoolsInv
  BY DEF WorkerInv
<1>3. /\ DOMAIN task' = {"running", "todo"} /\ task'.running = task.running
      /\ task'.todo = task.todo \ {q}
  BY <1>1, <1>2 DEF PoolsInv
<1>4. task.running /\ use_keyspace_call = used_keyspace
  BY <1>2, Zenon DEF PoolsInv
<1>5. live \subseteq DOMAIN pools
  BY <1>2, Zenon DEF PoolsInv
<1>6. DOMAIN pools' = live /\ \A p \in live : pools'[p] = IF p = q THEN use_keyspace_call ELSE pools[p]
  BY <1>1, Zenon
<1>7. \A p \in live : pools'[p] = used_keyspace \/ p \in task'.todo
  BY <1>2, <1>3, <1>4, <1>5, <1>6 DEF PoolsInv
<1>8. PoolsOf(known_nodes)' = PoolsOf(known_nodes) /\ PoolsOf(next_nodes)' = PoolsOf(next_nodes)
  BY <1>1, Zenon DEF PoolsOf
<1>9. DOMAIN pools' = PoolsOf(known_nodes)' \cup PoolsOf(next_nodes)' \cup task'.todo
  BY <1>3, <1>6, <1>8, Zenon
<1> HIDE DEF live
<1>10. PoolsInv'
  BY <1>1, <1>2, <1>3, <1>4, <1>6, <1>7, <1>9, Zenon DEF PoolsInv
<1> QED BY <1>1, <1>10, RefreshesUntouched, Zenon DEF WorkerInv

\* The task has told them all.
LEMMA UseKeyspaceDoneKeeps ==
    ASSUME WorkerInv, UseKeyspaceDone
    PROVE  WorkerInv'
<1>1. /\ UNCHANGED <<epoch, known_peers, reading, answers, worker, requests, known_nodes, next_nodes>>
      /\ UNCHANGED <<pools, used_keyspace>>
      /\ task.todo = {} /\ use_keyspace_call' = None
      /\ task' = [running |-> FALSE, todo |-> {}]
  BY Zenon DEF UseKeyspaceDone, cluster, reader, state
<1>2. DOMAIN task' = {"running", "todo"} /\ task'.running = FALSE /\ task'.todo = {}
  BY <1>1
<1>3. PoolsInv'
  <2>1. PoolsOf(known_nodes)' = PoolsOf(known_nodes) /\ PoolsOf(next_nodes)' = PoolsOf(next_nodes)
    BY <1>1, Zenon DEF PoolsOf
  <2> QED BY <1>1, <1>2, <2>1 DEF WorkerInv, PoolsInv
<1> QED BY <1>1, <1>3, RefreshesUntouched, Zenon DEF WorkerInv

-----------------------------------------------------------------------------
(* The theorems *)

\* Cluster::new: a session starts without nodes and without pools.
LEMMA WorkerInitially == Init => WorkerInv
<1> SUFFICES ASSUME Init PROVE WorkerInv
  OBVIOUS
<1>1. /\ reading = [initial |-> TRUE, stage |-> "current", left |-> {}, metadata |-> NoMetadata]
      /\ answers = All("none") /\ worker = "starting" /\ epoch = 0 /\ known_peers = ContactPoints
      /\ refresh_channel = << >> /\ cur_request = None
      /\ call = [c \in Clients |-> "idle"] /\ asked_at = [c \in Clients |-> 0]
      /\ use_keyspace_call = None /\ used_keyspace = None /\ task = [running |-> FALSE, todo |-> {}]
      /\ known_nodes = << >> /\ next_nodes = << >> /\ pools = << >>
  BY Zenon DEF Init
<1>2. ControlInv
  <2>1. known_peers # {}
    BY <1>1, ReaderAssumption, Zenon DEF ContactPoints
  <2> QED BY <1>1, <2>1 DEF ControlInv, Active, KnownPeersNonempty, Connected
<1>3. QueueInv
  BY <1>1 DEF QueueInv
<1>4. FreshInv
  <2>1. DOMAIN answers = Queries /\ \A q \in Queries : answers[q] = Answer("none")
    BY <1>1, AllAnswers, Zenon
  <2>2. \A q \in Queries : /\ answers[q].read_at \in Nat /\ answers[q].is # "rows"
                            /\ answers[q].peers = {}
    BY <2>1 DEF Answer
  <2>3. /\ epoch \in Nat /\ asked_at \in [Clients -> Nat]
        /\ \A c \in Clients : asked_at[c] <= epoch
    BY <1>1
  <2>4. reading.stage # "done"
    BY <1>1
  <2> QED BY <2>1, <2>2, <2>3, <2>4, Zenon DEF FreshInv
<1>5. PoolsInv
  BY <1>1, NoNodesNoPools DEF PoolsInv
<1> QED BY <1>2, <1>3, <1>4, <1>5 DEF WorkerInv

\* Every step of the worker, its clients, the reader and the network keeps the invariant.
LEMMA WorkerInductive == WorkerInv /\ [Next]_vars => WorkerInv'
<1> SUFFICES ASSUME WorkerInv, [Next]_vars PROVE WorkerInv'
  OBVIOUS
<1>1. CASE UNCHANGED vars
  BY <1>1, UnseenStep, Zenon DEF vars, cluster, reader
<1>2. CASE ReaderStep
  BY <1>2, ReaderStepOutcome, ReaderKeeps, Zenon
<1>3. CASE SleepOver \/ TakeRefreshRequest \/ TakeTopologyEvent \/ TakeRepair
  BY <1>3, RefreshBeginsOutcome, RefreshBeginsKeeps, Zenon
<1>4. CASE TakeOtherEvent
  BY <1>4, UnseenStep, Zenon DEF TakeOtherEvent, cluster
<1>5. CASE TakeUseKeyspace
  BY <1>5, TakeUseKeyspaceKeeps, Zenon
<1>6. CASE MetadataRead
  BY <1>6, MetadataReadKeeps, Zenon
<1>7. CASE PoolsInitialized
  BY <1>7, PoolsInitializedKeeps, Zenon
<1>8. CASE MetadataFailed
  BY <1>8, MetadataFailedKeeps, Zenon
<1>9. CASE \E c \in Clients : RefreshMetadata(c)
  BY <1>9, RefreshMetadataKeeps, Zenon
<1>10. CASE \E k \in Keyspaces : UseKeyspace(k)
  BY <1>10, UseKeyspaceKeeps, Zenon
<1>11. CASE \E q \in task.todo : PoolUsesKeyspace(q)
  BY <1>11, PoolUsesKeyspaceKeeps, Zenon
<1>12. CASE UseKeyspaceDone
  BY <1>12, UseKeyspaceDoneKeeps, Zenon
<1>13. CASE ~WorkerStep
  <2>1. Closed => UNCHANGED vars
    BY DEF Closed
  <2> QED BY <1>1, <1>9, <1>10, <1>11, <1>12, <1>13, <2>1, NetworkStepOutcome, NetworkKeeps, Zenon DEF Next
<1> QED BY <1>2, <1>3, <1>4, <1>5, <1>6, <1>7, <1>8, <1>13, Zenon DEF WorkerStep

\* The pools of the nodes are among those that live.
LEMMA WorkerInvServes == WorkerInv => PublishedNodesServe
<1> SUFFICES ASSUME WorkerInv PROVE PublishedNodesServe
  OBVIOUS
<1>1. KnownPeersNonempty
  BY Zenon DEF WorkerInv, ControlInv
<1>2. PoolsUseKeyspace
  BY Zenon DEF WorkerInv, PoolsInv, PoolsUseKeyspace
<1> QED BY <1>1, <1>2, Zenon DEF PublishedNodesServe

\* Every ClusterState that the worker publishes has nodes, and every pool of its nodes and
\* of the next state uses the keyspace of the session or is about to be told of it: whatever
\* fails while the metadata is read, and whatever node comes while the keyspace changes.
THEOREM PublishedNodesServed == Spec => []PublishedNodesServe
<1>1. Init => WorkerInv
  BY WorkerInitially
<1>2. WorkerInv /\ [Next]_vars => WorkerInv'
  BY WorkerInductive
<1>3. WorkerInv => PublishedNodesServe
  BY WorkerInvServes
<1> QED BY <1>1, <1>2, <1>3, PTL DEF Spec

\* Only the end of perform_refresh answers a call while the new state is waited for, and
\* what it publishes is at least as recent as the call.
LEMMA AnswersAreFresh ==
    ASSUME WorkerInv, Next, NEW c \in Clients,
           worker = "pools", call[c] = "waiting", call'[c] = "idle"
    PROVE  published_at' >= asked_at[c]
<1>0. call \in [Clients -> {"idle", "waiting"}]
  BY Zenon DEF WorkerInv, QueueInv
<1>1. call' # call
  BY Zenon
<1>2. reading.stage = "done"
  BY DEF WorkerInv, ControlInv
<1>3. ~\E d \in Clients : RefreshMetadata(d)
  <2> SUFFICES ASSUME NEW d \in Clients, call' = [call EXCEPT ![d] = "waiting"] PROVE FALSE
    BY Zenon DEF RefreshMetadata
  <2> QED BY <1>0
<1>4. PoolsInitialized
  <2>1. ~WorkerStep => FALSE
    <3>1. ~UNCHANGED <<requests, keyspace>>
      BY <1>1, Zenon DEF requests
    <3>2. ~UNCHANGED vars /\ ~UNCHANGED requests
      BY <1>1, Zenon DEF vars, requests
    <3>3. NetworkOutcome => FALSE
      BY <3>2, Zenon DEF NetworkOutcome
    <3>4. ~\E k \in Keyspaces : UseKeyspace(k)
      BY <3>2, Zenon DEF UseKeyspace
    <3>5. ~UseKeyspaceDone /\ ~\E q \in task.todo : PoolUsesKeyspace(q)
      BY <3>2, Zenon DEF UseKeyspaceDone, PoolUsesKeyspace
    <3>6. ~Closed
      BY <3>2, Zenon DEF Closed
    <3> QED BY <1>3, <3>3, <3>4, <3>5, <3>6, NetworkStepOutcome, Zenon DEF Next
  <2>2. ~ReaderStep /\ ~MetadataRead
    BY <1>1, Zenon DEF ReaderStep, MetadataRead, requests
  <2>3. ~MetadataFailed
    BY <1>2 DEF MetadataFailed
  <2>4. ~(SleepOver \/ TakeRefreshRequest \/ TakeTopologyEvent \/ TakeRepair)
    BY RefreshBeginsOutcome DEF RefreshBegins
  <2>5. ~TakeOtherEvent /\ ~TakeUseKeyspace
    BY DEF TakeOtherEvent, TakeUseKeyspace
  <2> QED BY <2>1, <2>2, <2>3, <2>4, <2>5, Zenon DEF WorkerStep
<1>5. published_at' = reading.metadata.read_at
  BY <1>4, Zenon DEF PoolsInitialized, Publish
<1>6. c = cur_request
  <2>1. call' = [d \in Clients |-> IF d = cur_request THEN "idle" ELSE call[d]]
    BY <1>4, Zenon DEF PoolsInitialized, Respond
  <2> QED BY <2>1
<1> QED BY <1>2, <1>5, <1>6, Zenon DEF WorkerInv, FreshInv

\* The answer of refresh_metadata means that the topology published is at least as recent
\* as the call, though the worker may have been in another refresh when it was made.
THEOREM RefreshesAreFresh == Spec => RefreshIsFresh
<1>1. Init => WorkerInv
  BY WorkerInitially
<1>2. WorkerInv /\ [Next]_vars => WorkerInv'
  BY WorkerInductive
<1>3. WorkerInv /\ [Next]_vars =>
        [\A c \in Clients : (worker = "pools" /\ call[c] = "waiting" /\ call'[c] = "idle")
                                => published_at' >= asked_at[c]]_vars
  BY AnswersAreFresh, Zenon
<1> QED BY <1>1, <1>2, <1>3, PTL DEF Spec, RefreshIsFresh

=============================================================================
