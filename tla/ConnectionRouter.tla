-------------------------- MODULE ConnectionRouter --------------------------
(***************************************************************************)
(* The router of one CQL connection (scylla/src/network/connection.rs):    *)
(* callers of `RouterHandle::send_request`, which may be cancelled at any  *)
(* await point; the bounded submit channel; the writer, which allocates a  *)
(* stream id per request and may be suspended in a write, a coalescing     *)
(* delay or a flush; the reader, which looks the handler of a response up  *)
(* by its stream id; the orphaner; and the keepaliver.  The server may     *)
(* answer in any order, fall silent, or send a frame nobody asked for.     *)
(*                                                                         *)
(* A request id is never reused by the code (a 64-bit counter).  Here an   *)
(* id with no trace left in any structure stands for the next fresh one.   *)
(***************************************************************************)
EXTENDS Integers, Sequences, FiniteSets

CONSTANTS
    Requests,         \* request ids (external: any number of callers)
    MaxStreams,       \* number of stream ids; 32768 in the code
    SubmitCapacity,   \* capacity of submit_channel; 1024 in the code
    OrphanThreshold,  \* OLD_ORPHAN_COUNT_THRESHOLD
    Coalescing,       \* is write_coalescing_delay set?
    KeepaliveId,      \* the id of the keepaliver's requests; Nil: no keepalives
    Nil

StreamIds == 0..(MaxStreams - 1)

Frames == [stream : StreamIds, req : Requests]

NoReply == [kind |-> "none"]
Response(q) == [kind |-> "response", to |-> q]
Error(k) == [kind |-> k]
Errors == {Error("no_stream"), Error("broken"), Error("channel_error")}

ASSUME RouterAssumption ==
    /\ MaxStreams \in Nat \ {0}
    /\ SubmitCapacity \in Nat \ {0}
    /\ OrphanThreshold \in Nat
    /\ Coalescing \in BOOLEAN
    /\ KeepaliveId \in Requests \cup {Nil}
    /\ Nil \notin Requests \cup Int \cup Frames

VARIABLES
    caller,             \* the future of send_request: "idle", "sending", "waiting"
    reply,              \* contents of the caller's oneshot channel
    submit_channel,     \* queued tasks
    notifications,      \* the unbounded channel of orphan notifications
    used,               \* StreamIdSet::used_bitmap
    handlers,           \* ResponseHandlerMap::handlers
    request_to_stream,  \* ResponseHandlerMap::request_to_stream
    orphans,            \* OrphanageTracker::orphans
    old,                \* the orphans older than OLD_AGE_ORPHAN_THRESHOLD
    writer,             \* "recv", "writing", "try_recv", "delay", "flushing"
    current,            \* the frame the writer is writing, or Nil
    buffer,             \* frames in the BufWriter
    wire,               \* frames the server has and has not answered
    status,             \* "up", "broken" or "dropped"
    server              \* "alive" or "silent"

callers == <<caller, reply>>
map == <<used, handlers, request_to_stream, orphans, old>>
output == <<writer, current, buffer>>
vars == <<callers, submit_channel, notifications, map, output, wire, status, server>>

\* The structures of the router have the types of the code; in particular the
\* submit channel stays within its capacity and an old orphan is an orphan.
TypeOK ==
    /\ caller \in [Requests -> {"idle", "sending", "waiting"}]
    /\ reply \in [Requests -> {NoReply} \cup Errors \cup {Response(q) : q \in Requests}]
    /\ submit_channel \in Seq(Requests)
    /\ Len(submit_channel) <= SubmitCapacity
    /\ notifications \in Seq(Requests)
    /\ used \in SUBSET StreamIds
    /\ handlers \in [StreamIds -> Requests \cup {Nil}]
    /\ request_to_stream \in [Requests -> StreamIds \cup {Nil}]
    /\ orphans \in SUBSET StreamIds
    /\ old \in SUBSET orphans
    /\ writer \in {"recv", "writing", "try_recv", "delay", "flushing"}
    /\ current \in Frames \cup {Nil}
    /\ buffer \in SUBSET Frames
    /\ wire \in SUBSET Frames
    /\ status \in {"up", "broken", "dropped"}
    /\ server \in {"alive", "silent"}

InSeq(x, s) == \E i \in 1..Len(s) : s[i] = x

Distinct(s) == \A i, j \in 1..Len(s) : s[i] = s[j] => i = j

\* Frames on their way to, or at, the server.
InFlight == buffer \cup wire \cup ({current} \ {Nil})

\* No structure holds the id: it may stand for a fresh one.
Fresh(r) ==
    /\ caller[r] = "idle"
    /\ ~InSeq(r, submit_channel)
    /\ ~InSeq(r, notifications)
    /\ \A s \in StreamIds : handlers[s] # r
    /\ \A f \in InFlight : f.req # r

Init ==
    /\ caller = [r \in Requests |-> "idle"]
    /\ reply = [r \in Requests |-> NoReply]
    /\ submit_channel = <<>>
    /\ notifications = <<>>
    /\ used = {}
    /\ handlers = [s \in StreamIds |-> Nil]
    /\ request_to_stream = [r \in Requests |-> Nil]
    /\ orphans = {}
    /\ old = {}
    /\ writer = "recv"
    /\ current = Nil
    /\ buffer = {}
    /\ wire = {}
    /\ status = "up"
    /\ server = "alive"

-----------------------------------------------------------------------------
(* send_request *)

\* oneshot::Sender::send: lost when the receiving future has been dropped.
Reply(r, x) == reply' = [reply EXCEPT ![r] = IF caller[r] = "waiting" THEN x ELSE @]

\* The request id is allocated and the future reaches submit_channel.send().
SendRequest(r) ==
    /\ status # "dropped"
    /\ r # KeepaliveId
    /\ Fresh(r)
    /\ caller' = [caller EXCEPT ![r] = "sending"]
    /\ UNCHANGED <<reply, submit_channel, notifications, map, output, wire, status, server>>

\* The bounded channel has room for the task.
Submit(r) ==
    /\ caller[r] = "sending"
    /\ status = "up"
    /\ Len(submit_channel) < SubmitCapacity
    /\ submit_channel' = Append(submit_channel, r)
    /\ caller' = [caller EXCEPT ![r] = "waiting"]
    /\ UNCHANGED <<reply, notifications, map, output, wire, status, server>>

\* The receiving half is gone: ChannelError; the orphan notification that the
\* dropped notifier sends goes nowhere.
SubmitFails(r) ==
    /\ caller[r] = "sending"
    /\ status # "up"
    /\ caller' = [caller EXCEPT ![r] = "idle"]
    /\ UNCHANGED <<reply, submit_channel, notifications, map, output, wire, status, server>>

\* receiver.await returns and notifier.disable() is called (or, when the
\* channel was closed, the notifier is dropped with a dead router).
Receive(r) ==
    /\ caller[r] = "waiting"
    /\ reply[r] # NoReply
    /\ r # KeepaliveId
    /\ caller' = [caller EXCEPT ![r] = "idle"]
    /\ reply' = [reply EXCEPT ![r] = NoReply]
    /\ UNCHANGED <<submit_channel, notifications, map, output, wire,
                   status, server>>

\* The future is dropped before it completed: OrphanhoodNotifier::drop.
Cancel(r) ==
    /\ caller[r] \in {"sending", "waiting"}
    /\ r # KeepaliveId
    /\ caller' = [caller EXCEPT ![r] = "idle"]
    /\ reply' = [reply EXCEPT ![r] = NoReply]
    /\ notifications' = IF status = "up" THEN Append(notifications, r) ELSE notifications
    /\ UNCHANGED <<submit_channel, map, output, wire, status, server>>

-----------------------------------------------------------------------------
(* router *)

\* One of the joined futures failed.  They are dropped: the tasks queued in
\* submit_channel are dropped with their oneshot senders, the keepaliver's
\* request is dropped.  Every handler left is answered with the error.
Break ==
    /\ status' = "broken"
    /\ caller' = [r \in Requests |-> IF r = KeepaliveId THEN "idle" ELSE caller[r]]
    /\ reply' = [r \in Requests |->
                    IF r = KeepaliveId THEN NoReply
                    ELSE IF caller[r] # "waiting" \/ reply[r] # NoReply THEN reply[r]
                    ELSE IF \E s \in StreamIds : handlers[s] = r THEN Error("broken")
                    ELSE IF InSeq(r, submit_channel) THEN Error("channel_error")
                    ELSE reply[r]]
    /\ submit_channel' = <<>>
    /\ notifications' = <<>>
    /\ used' = {}
    /\ handlers' = [s \in StreamIds |-> Nil]
    /\ request_to_stream' = [r \in Requests |-> Nil]
    /\ orphans' = {}
    /\ old' = {}
    /\ writer' = "recv"
    /\ current' = Nil
    /\ buffer' = {}
    /\ wire' = {}
    /\ UNCHANGED server

\* The last Arc<Connection> is dropped.  A caller in send_request holds one,
\* the keepaliver does not; dropping the RemoteHandle aborts the router.
DropConnection ==
    /\ status # "dropped"
    /\ \A r \in Requests : caller[r] # "idle" => r = KeepaliveId
    /\ status' = "dropped"
    /\ caller' = [r \in Requests |-> "idle"]
    /\ reply' = [r \in Requests |-> NoReply]
    /\ submit_channel' = <<>>
    /\ notifications' = <<>>
    /\ used' = {}
    /\ handlers' = [s \in StreamIds |-> Nil]
    /\ request_to_stream' = [r \in Requests |-> Nil]
    /\ orphans' = {}
    /\ old' = {}
    /\ writer' = "recv"
    /\ current' = Nil
    /\ buffer' = {}
    /\ wire' = {}
    /\ UNCHANGED server

-----------------------------------------------------------------------------
(* writer *)

\* StreamIdSet::allocate: the lowest free stream id.
LowestFree(u) ==
    CHOOSE s \in StreamIds \ u : \A t \in StreamIds \ u : s <= t

\* ResponseHandlerMap::allocate and alloc_stream_id; with no free stream id
\* the caller is told so, and the inner loop of the writer ends.
Allocate(r) ==
    \/ /\ used # StreamIds
       /\ LET s == LowestFree(used) IN
              /\ used' = used \cup {s}
              /\ handlers' = [handlers EXCEPT ![s] = r]
              /\ request_to_stream' = [request_to_stream EXCEPT ![r] = s]
              /\ current' = [stream |-> s, req |-> r]
       /\ writer' = "writing"
       /\ UNCHANGED reply
    \/ /\ used = StreamIds
       /\ Reply(r, Error("no_stream"))
       /\ writer' = "flushing"
       /\ UNCHANGED <<used, handlers, request_to_stream, current>>

\* recv(), or try_recv() before or after the coalescing delay, yields a task.
WriterTake ==
    /\ status = "up"
    /\ writer \in {"recv", "try_recv", "delay"}
    /\ submit_channel # <<>>
    /\ Allocate(Head(submit_channel))
    /\ submit_channel' = Tail(submit_channel)
    /\ UNCHANGED <<caller, notifications, orphans, old, buffer, wire,
                   status, server>>

\* write_all() completes.  The BufWriter may have had to write out what it
\* held, and writes a large frame through.
WriterWrote ==
    /\ status = "up"
    /\ writer = "writing"
    /\ writer' = "try_recv"
    /\ current' = Nil
    /\ \E sent \in {{}, buffer, buffer \cup {current}} :
          /\ buffer' = (buffer \cup {current}) \ sent
          /\ wire' = wire \cup sent
    /\ UNCHANGED <<callers, submit_channel, notifications, map, status, server>>

\* try_recv() finds the channel empty.
WriterNoTask ==
    /\ status = "up"
    /\ writer \in {"try_recv", "delay"}
    /\ submit_channel = <<>>
    /\ writer' = IF writer = "try_recv" /\ Coalescing THEN "delay" ELSE "flushing"
    /\ UNCHANGED <<callers, submit_channel, notifications, map, current, buffer,
                   wire, status, server>>

WriterFlushed ==
    /\ status = "up"
    /\ writer = "flushing"
    /\ writer' = "recv"
    /\ wire' = wire \cup buffer
    /\ buffer' = {}
    /\ UNCHANGED <<callers, submit_channel, notifications, map, current,
                   status, server>>

WriterError ==
    /\ status = "up"
    /\ writer \in {"writing", "flushing"}
    /\ Break

-----------------------------------------------------------------------------
(* reader *)

\* Mutant: the stream id of an orphan is not freed when its response comes.
LookupOrphanLeaks(s) ==
    /\ s \in orphans
    /\ orphans' = orphans \ {s}
    /\ old' = old \ {s}
    /\ UNCHANGED <<callers, used, handlers, request_to_stream>>

\* HandlerLookupResult::Orphaned: the response is dropped.
LookupOrphan(s) ==
    /\ s \in orphans
    /\ used' = used \ {s}
    /\ orphans' = orphans \ {s}
    /\ old' = old \ {s}
    /\ UNCHANGED <<callers, handlers, request_to_stream>>

\* Mutant: the mapping request_id -> stream_id outlives the handler.
LookupKeepsMapping(s, q) ==
    /\ s \notin orphans
    /\ handlers[s] # Nil
    /\ used' = used \ {s}
    /\ handlers' = [handlers EXCEPT ![s] = Nil]
    /\ Reply(handlers[s], Response(q))
    /\ UNCHANGED <<caller, request_to_stream, orphans, old>>

\* HandlerLookupResult::Handler: the response to request q goes to the handler
\* registered for the stream id.
LookupHandler(s, q) ==
    /\ s \notin orphans
    /\ handlers[s] # Nil
    /\ used' = used \ {s}
    /\ handlers' = [handlers EXCEPT ![s] = Nil]
    /\ request_to_stream' = [request_to_stream EXCEPT ![handlers[s]] = Nil]
    /\ Reply(handlers[s], Response(q))
    /\ UNCHANGED <<caller, orphans, old>>

\* A response to a frame the server has.
ReaderResponse(f) ==
    /\ status = "up"
    /\ server = "alive"
    /\ f \in wire
    /\ wire' = wire \ {f}
    /\ LookupOrphan(f.stream) \/ LookupHandler(f.stream, f.req)
    /\ UNCHANGED <<submit_channel, notifications, output, status, server>>

\* HandlerLookupResult::Missing: a frame on a stream with no handler.
ReaderUnexpectedStream ==
    /\ status = "up"
    /\ server = "alive"
    /\ \E s \in StreamIds : s \notin orphans /\ handlers[s] = Nil
    /\ Break

\* The socket is closed, or a frame header does not parse.
ReaderError ==
    /\ status = "up"
    /\ Break

-----------------------------------------------------------------------------
(* orphaner *)

\* Mutant: orphaning frees the stream id at once.
OrphanFreesStream(r, s) ==
    /\ used' = used \ {s}
    /\ handlers' = [handlers EXCEPT ![s] = Nil]
    /\ request_to_stream' = [request_to_stream EXCEPT ![r] = Nil]
    /\ UNCHANGED <<orphans, old>>

\* Mutant: orphaning keeps the handler.
OrphanKeepsHandler(r, s) ==
    /\ orphans' = orphans \cup {s}
    /\ request_to_stream' = [request_to_stream EXCEPT ![r] = Nil]
    /\ UNCHANGED <<used, handlers, old>>

\* The stream id goes to the orphanage tracker and stays in use; the handler
\* is freed.
OrphanStream(r, s) ==
    /\ orphans' = orphans \cup {s}
    /\ handlers' = [handlers EXCEPT ![s] = Nil]
    /\ request_to_stream' = [request_to_stream EXCEPT ![r] = Nil]
    /\ UNCHANGED <<used, old>>

\* A notification is received; a request that has no stream id is ignored.
Orphan ==
    /\ status = "up"
    /\ notifications # <<>>
    /\ notifications' = Tail(notifications)
    /\ LET r == Head(notifications) IN
          \/ request_to_stream[r] = Nil /\ UNCHANGED map
          \/ request_to_stream[r] # Nil /\ OrphanStream(r, request_to_stream[r])
    /\ UNCHANGED <<callers, submit_channel, output, wire, status, server>>

\* OLD_AGE_ORPHAN_THRESHOLD passes for an orphan.
OrphanAges(s) ==
    /\ s \in orphans \ old
    /\ old' = old \cup {s}
    /\ UNCHANGED <<callers, submit_channel, notifications, used, handlers,
                   request_to_stream, orphans, output, wire, status, server>>

\* Mutant: one old orphan too many is tolerated.
TooManyOrphansLate ==
    /\ status = "up"
    /\ Cardinality(old) > OrphanThreshold + 1
    /\ Break

\* The interval ticks with more than OLD_ORPHAN_COUNT_THRESHOLD old orphans.
TooManyOrphans ==
    /\ status = "up"
    /\ Cardinality(old) > OrphanThreshold
    /\ Break

-----------------------------------------------------------------------------
(* keepaliver *)

\* The interval ticks: issue_keepalive_query calls send_request.
KeepaliveStart ==
    /\ KeepaliveId # Nil
    /\ status = "up"
    /\ Fresh(KeepaliveId)
    /\ caller' = [caller EXCEPT ![KeepaliveId] = "sending"]
    /\ UNCHANGED <<reply, submit_channel, notifications, map, output, wire, status, server>>

KeepaliveSucceeds ==
    /\ KeepaliveId # Nil
    /\ status = "up"
    /\ reply[KeepaliveId].kind = "response"
    /\ caller' = [caller EXCEPT ![KeepaliveId] = "idle"]
    /\ reply' = [reply EXCEPT ![KeepaliveId] = NoReply]
    /\ UNCHANGED <<submit_channel, notifications, map, output, wire, status, server>>

\* KeepaliveRequestError: no stream id could be allocated.
KeepaliveFails ==
    /\ KeepaliveId # Nil
    /\ status = "up"
    /\ reply[KeepaliveId] \in Errors
    /\ Break

\* Mutant: the timeout only covers the wait for the response.
KeepaliveTimeoutOnWait ==
    /\ KeepaliveId # Nil
    /\ status = "up"
    /\ caller[KeepaliveId] = "waiting"
    /\ reply[KeepaliveId] = NoReply
    /\ Break

\* KeepaliveTimeout, before the query completed: the timeout covers the wait
\* for room in the submit channel too.
KeepaliveTimeout ==
    /\ KeepaliveId # Nil
    /\ status = "up"
    /\ caller[KeepaliveId] # "idle"
    /\ reply[KeepaliveId] = NoReply
    /\ Break

-----------------------------------------------------------------------------

\* The server stops answering (external).
ServerSilent ==
    /\ server = "alive"
    /\ server' = "silent"
    /\ UNCHANGED <<callers, submit_channel, notifications, map, output, wire, status>>

\* Nothing happens on a dropped connection.
Dropped == status = "dropped" /\ UNCHANGED vars

Next ==
    \/ \E r \in Requests :
          \/ SendRequest(r) \/ Submit(r) \/ SubmitFails(r) \/ Receive(r) \/ Cancel(r)
    \/ WriterTake \/ WriterWrote \/ WriterNoTask \/ WriterFlushed \/ WriterError
    \/ \E f \in wire : ReaderResponse(f)
    \/ ReaderUnexpectedStream \/ ReaderError
    \/ Orphan \/ (\E s \in StreamIds : OrphanAges(s)) \/ TooManyOrphans
    \/ KeepaliveStart \/ KeepaliveSucceeds \/ KeepaliveFails \/ KeepaliveTimeout
    \/ DropConnection \/ ServerSilent \/ Dropped

Spec == Init /\ [][Next]_vars

\* The runtime polls the router and every waiting caller again and again,
\* timers fire, and a server that is alive drains its socket and answers the
\* keepalives.  Nothing is assumed of a silent server, nor of cancellations.
Fairness ==
    /\ \A r \in Requests :
          WF_vars(Submit(r)) /\ WF_vars(SubmitFails(r)) /\ WF_vars(Receive(r))
    /\ WF_vars(WriterTake) /\ WF_vars(WriterNoTask)
    /\ WF_vars(server = "alive" /\ (WriterWrote \/ WriterFlushed))
    /\ \A f \in Frames : f.req = KeepaliveId => WF_vars(ReaderResponse(f))
    /\ WF_vars(Orphan)
    /\ \A s \in StreamIds : WF_vars(OrphanAges(s))
    /\ WF_vars(TooManyOrphans)
    /\ WF_vars(KeepaliveStart) /\ WF_vars(KeepaliveSucceeds)
    /\ WF_vars(KeepaliveFails) /\ WF_vars(KeepaliveTimeout)

FairSpec == Spec /\ Fairness

-----------------------------------------------------------------------------
(* Properties *)

\* A caller only ever receives the response to its own request, although
\* stream ids are reused, answers come in any order, and responses to
\* cancelled requests still arrive.
NoMisdelivery ==
    \A r \in Requests : reply[r].kind = "response" => reply[r].to = r

\* Two frames in flight never share a stream id, and the ids in use are
\* exactly those of the frames in flight: none is freed while the server may
\* still answer on it, none stays taken after the answer was read.
StreamsMatchFrames ==
    /\ \A f, g \in InFlight : f.stream = g.stream => f = g
    /\ used = {f.stream : f \in InFlight}

\* The maps of ResponseHandlerMap agree: an id in use has a handler or is an
\* orphan, never both, and request_to_stream is the inverse of handlers.  Hence
\* `assert!(prev_handler.is_none())` in allocate never fires.
MapConsistent ==
    /\ \A s \in StreamIds :
          (s \in used) <=> (s \in orphans \/ handlers[s] # Nil)
    /\ \A s \in orphans : handlers[s] = Nil
    /\ \A r \in Requests, s \in StreamIds :
          handlers[s] = r <=> request_to_stream[r] = s

\* Whoever waits will be answered by somebody: a caller with an empty oneshot
\* has its task in the submit channel or its handler in the map of a live
\* router.  In particular a late orphan notification never takes the handler
\* of an awaited request, and a broken connection leaves nobody waiting.
WaiterHasAnswerer ==
    \A r \in Requests :
        caller[r] = "waiting" /\ reply[r] = NoReply =>
            /\ status = "up"
            /\ \/ InSeq(r, submit_channel)
               \/ \E s \in StreamIds : handlers[s] = r

\* Neither the handler map nor a frame in flight knows the request.
Unallocated(r) ==
    /\ \A s \in StreamIds : handlers[s] # r
    /\ \A f \in InFlight : f.req # r

\* A request is in one place at a time: a frame is being written, buffered or
\* sent, and on a stream that is no orphan it belongs to the request whose
\* handler is registered for it; a queued task is queued once and has no stream
\* id yet; a caller that has its reply has no handler; a notified caller is gone.
SingleOwner ==
    /\ buffer \cap wire = {} /\ current \notin buffer \cup wire
    /\ \A f \in InFlight : f.stream \notin orphans => handlers[f.stream] = f.req
    /\ writer = "writing" <=> current # Nil
    /\ Distinct(submit_channel)
    /\ \A r \in Requests :
          InSeq(r, submit_channel) =>
              caller[r] # "sending" /\ reply[r] = NoReply /\ Unallocated(r)
    /\ \A r \in Requests : caller[r] = "sending" => reply[r] = NoReply /\ Unallocated(r)
    /\ \A r \in Requests :
          reply[r] # NoReply => caller[r] = "waiting" /\ \A s \in StreamIds : handlers[s] # r
    /\ \A r \in Requests : InSeq(r, notifications) => caller[r] = "idle"

\* Stream ids are exclusive: the ids in use are those of the frames in flight,
\* one for each, and each of these belongs to one request.
StreamsExclusive == StreamsMatchFrames /\ SingleOwner

\* With keepalives on, and a server that answers every frame as long as it is
\* alive, every request is answered, with a response or an error, even when the
\* server falls silent for good.
EveryWaiterAnswered ==
    (\A f \in Frames : WF_vars(ReaderResponse(f))) =>
        \A r \in Requests : caller[r] = "waiting" ~> caller[r] # "waiting"

\* A connection does not stay up while more than OLD_ORPHAN_COUNT_THRESHOLD
\* stream ids stay orphaned, although the server still answers the keepalives.
StuckOrphansShutDown ==
    \A S \in SUBSET StreamIds :
        Cardinality(S) > OrphanThreshold =>
            (status = "up" /\ S \subseteq orphans)
                ~> (status # "up" \/ ~(S \subseteq orphans))

\* The comment in send_request: dropping the notifier marks the stream id of
\* the request as orphaned and frees its resources.  So a handler that nobody
\* awaits is one whose notification is still on its way.
AbandonedIsOrphaned ==
    \A s \in StreamIds :
        handlers[s] # Nil /\ caller[handlers[s]] # "waiting"
            => InSeq(handlers[s], notifications)

=============================================================================
