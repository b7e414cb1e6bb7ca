----------------------- MODULE ConnectionRouterProofs -----------------------
(***************************************************************************)
(* Proofs of the safety invariants of ConnectionRouter for every number of *)
(* callers, stream ids and queue slots, with and without keepalives and    *)
(* write coalescing.  The inductive invariant adds SingleOwner to the      *)
(* properties: without it, a task queued twice or a frame of a request     *)
(* whose handler is another's would not be excluded.                       *)
(***************************************************************************)
EXTENDS ConnectionRouter, TLAPS, WellFoundedInduction

\* Appending adds exactly the new element.
LEMMA InSeqAppend ==
    ASSUME NEW S, NEW s \in Seq(S), NEW x \in S, NEW y
    PROVE  InSeq(y, Append(s, x)) <=> InSeq(y, s) \/ y = x
<1>1. ASSUME InSeq(y, Append(s, x)) PROVE InSeq(y, s) \/ y = x
  BY <1>1 DEF InSeq
<1>2. ASSUME InSeq(y, s) PROVE InSeq(y, Append(s, x))
  BY <1>2 DEF InSeq
<1>3. InSeq(x, Append(s, x))
  <2>1. Len(s) + 1 \in 1..Len(Append(s, x)) /\ Append(s, x)[Len(s) + 1] = x
    OBVIOUS
  <2> QED BY <2>1, Zenon DEF InSeq
<1> QED BY <1>1, <1>2, <1>3, Zenon

\* The elements of a sequence are its head and the elements of its tail.
LEMMA InSeqHeadTail ==
    ASSUME NEW S, NEW s \in Seq(S), s # <<>>, NEW y
    PROVE  /\ Head(s) \in S
           /\ InSeq(Head(s), s)
           /\ InSeq(y, s) <=> y = Head(s) \/ InSeq(y, Tail(s))
<1>1. 1 \in 1..Len(s) /\ s[1] = Head(s) /\ Head(s) \in S
  OBVIOUS
<1>2. InSeq(Head(s), s)
  BY <1>1, Zenon DEF InSeq
<1>3. ASSUME InSeq(y, s) PROVE y = Head(s) \/ InSeq(y, Tail(s))
  <2>1. PICK i \in 1..Len(s) : s[i] = y
    BY <1>3, Zenon DEF InSeq
  <2>2. CASE i = 1
    BY <2>1, <2>2
  <2>3. CASE i # 1
    <3>1. i - 1 \in 1..Len(Tail(s)) /\ Tail(s)[i - 1] = y
      BY <2>1, <2>3
    <3> QED BY <3>1, Zenon DEF InSeq
  <2> QED BY <2>2, <2>3, Zenon
<1>4. ASSUME InSeq(y, Tail(s)) PROVE InSeq(y, s)
  <2>1. PICK i \in 1..Len(Tail(s)) : Tail(s)[i] = y
    BY <1>4, Zenon DEF InSeq
  <2>2. i + 1 \in 1..Len(s) /\ s[i + 1] = y
    BY <2>1
  <2> QED BY <2>2, Zenon DEF InSeq
<1> QED BY <1>1, <1>2, <1>3, <1>4, Zenon

\* A sequence without repetitions stays one.
LEMMA DistinctAppend ==
    ASSUME NEW S, NEW s \in Seq(S), NEW x \in S, Distinct(s), ~InSeq(x, s)
    PROVE  Distinct(Append(s, x))
BY DEF Distinct, InSeq

\* The tail of a sequence without repetitions has none, and has lost the head.
LEMMA DistinctTail ==
    ASSUME NEW S, NEW s \in Seq(S), s # <<>>, Distinct(s)
    PROVE  /\ Distinct(Tail(s))
           /\ ~InSeq(Head(s), Tail(s))
<1>1. Distinct(Tail(s))
  BY DEF Distinct
<1>2. ASSUME InSeq(Head(s), Tail(s)) PROVE FALSE
  <2>1. PICK i \in 1..Len(Tail(s)) : Tail(s)[i] = Head(s)
    BY <1>2, Zenon DEF InSeq
  <2>2. i + 1 \in 1..Len(s) /\ 1 \in 1..Len(s) /\ s[i + 1] = s[1]
    BY <2>1
  <2> QED BY <2>2 DEF Distinct
<1> QED BY <1>1, <1>2, Zenon

\* An empty sequence has no elements.
LEMMA InSeqEmpty == \A y : ~InSeq(y, <<>>)
BY DEF InSeq

\* StreamIdSet::allocate finds a free stream id whenever there is one.
LEMMA LowestFreeIsFree ==
    ASSUME NEW u \in SUBSET StreamIds, u # StreamIds
    PROVE  LowestFree(u) \in StreamIds \ u
<1> DEFINE T == StreamIds \ u
<1>1. T \subseteq Nat /\ T # {}
  <2>1. StreamIds \subseteq Nat
    BY RouterAssumption DEF StreamIds
  <2> QED BY <2>1, Zenon
<1>2. PICK m \in T : \A k \in T : <<k, m>> \notin OpToRel(<, Nat)
  BY <1>1, WFMin, NatLessThanWellFounded, Zenon
<1>3. \A k \in T : m <= k
  <2>1. \A k \in T : ~(k < m)
    BY <1>1, <1>2, Zenon DEF OpToRel
  <2> QED BY <1>1, <2>1
<1> QED BY <1>3, Zenon DEF LowestFree

-----------------------------------------------------------------------------

\* The inductive invariant.
IndInv ==
    /\ TypeOK
    /\ NoMisdelivery
    /\ StreamsMatchFrames
    /\ MapConsistent
    /\ WaiterHasAnswerer
    /\ SingleOwner

\* A connection starts with no request, no handler and no frame.
LEMMA InitIndInv == Init => IndInv
<1> SUFFICES ASSUME Init PROVE IndInv
  BY Zenon
<1> USE RouterAssumption DEF Init
<1>1. TypeOK
  BY DEF TypeOK
<1>2. NoMisdelivery
  BY Zenon DEF NoMisdelivery, NoReply
<1>3. InFlight = {}
  BY Zenon DEF InFlight
<1>4. StreamsMatchFrames
  BY <1>3, Zenon DEF StreamsMatchFrames
<1>5. MapConsistent
  BY DEF MapConsistent, StreamIds
<1>6. WaiterHasAnswerer
  BY Zenon DEF WaiterHasAnswerer
<1>7. SingleOwner
  BY <1>3, InSeqEmpty DEF SingleOwner, Distinct
<1> QED BY <1>1, <1>2, <1>4, <1>5, <1>6, <1>7, Zenon DEF IndInv

\* A caller, or the keepaliver, enters send_request with a fresh request id.
LEMMA SendRequestIndInv ==
    ASSUME IndInv, NEW r \in Requests, Fresh(r),
           caller' = [caller EXCEPT ![r] = "sending"],
           UNCHANGED <<reply, submit_channel, notifications, map, output, wire,
                       status, server>>
    PROVE  IndInv'
<1> USE DEF IndInv, map, output
<1>1. TypeOK'
  BY Zenon DEF TypeOK
<1>2. NoMisdelivery'
  BY Zenon DEF NoMisdelivery
<1>3. InFlight' = InFlight
  BY Zenon DEF InFlight
<1>4. StreamsMatchFrames'
  BY <1>3, Zenon DEF StreamsMatchFrames
<1>5. MapConsistent'
  BY Zenon DEF MapConsistent
<1>6. WaiterHasAnswerer'
  BY Zenon DEF WaiterHasAnswerer, TypeOK
<1>7. SingleOwner'
  BY <1>3 DEF SingleOwner, TypeOK, Fresh, Unallocated
<1> QED BY <1>1, <1>2, <1>4, <1>5, <1>6, <1>7, Zenon

\* The task enters submit_channel once, with no stream id.
LEMMA SubmitIndInv ==
    ASSUME IndInv, NEW r \in Requests, Submit(r)
    PROVE  IndInv'
<1> USE DEF IndInv, map, output, Submit
<1>1. TypeOK'
  BY RouterAssumption DEF TypeOK
<1>2. NoMisdelivery'
  BY Zenon DEF NoMisdelivery
<1>3. InFlight' = InFlight
  BY Zenon DEF InFlight
<1>4. StreamsMatchFrames'
  BY <1>3, Zenon DEF StreamsMatchFrames
<1>5. MapConsistent'
  BY Zenon DEF MapConsistent
<1>6. submit_channel \in Seq(Requests) /\ submit_channel' = Append(submit_channel, r)
  BY Zenon DEF TypeOK
<1>7. \A q : InSeq(q, submit_channel') <=> InSeq(q, submit_channel) \/ q = r
  BY <1>6, InSeqAppend
<1>8. WaiterHasAnswerer'
  BY <1>7, Zenon DEF WaiterHasAnswerer, TypeOK
<1>9. ~InSeq(r, submit_channel)
  BY Zenon DEF SingleOwner
<1>10. Distinct(submit_channel')
  BY <1>6, <1>9, DistinctAppend DEF SingleOwner
<1>11. SingleOwner'
  BY <1>3, <1>7, <1>10 DEF SingleOwner, TypeOK, Unallocated
<1> QED BY <1>1, <1>2, <1>4, <1>5, <1>8, <1>11, Zenon

\* A caller leaves send_request: with its reply, with ChannelError, or
\* cancelled, in which case a notification may be sent.
LEMMA LeaveIndInv ==
    ASSUME IndInv, NEW r \in Requests,
           caller' = [caller EXCEPT ![r] = "idle"],
           reply' = [reply EXCEPT ![r] = NoReply],
           notifications' \in {notifications, Append(notifications, r)},
           UNCHANGED <<submit_channel, map, output, wire, status, server>>
    PROVE  IndInv'
<1> USE DEF IndInv, map, output
<1>0. notifications \in Seq(Requests)
  BY Zenon DEF TypeOK
<1>1. TypeOK'
  <2>1. notifications' \in Seq(Requests)
    BY <1>0
  <2> QED BY <2>1, Zenon DEF TypeOK
<1>2. NoMisdelivery'
  BY Zenon DEF NoMisdelivery, TypeOK, NoReply
<1>3. InFlight' = InFlight
  BY Zenon DEF InFlight
<1>4. StreamsMatchFrames'
  BY <1>3, Zenon DEF StreamsMatchFrames
<1>5. MapConsistent'
  BY Zenon DEF MapConsistent
<1>6. WaiterHasAnswerer'
  BY Zenon DEF WaiterHasAnswerer, TypeOK
<1>7. \A q : InSeq(q, notifications') => InSeq(q, notifications) \/ q = r
  <2>1. CASE notifications' = notifications
    BY <2>1, Zenon
  <2>2. CASE notifications' = Append(notifications, r)
    BY <1>0, <2>2, InSeqAppend, Zenon
  <2> QED BY <2>1, <2>2, Zenon
<1>8. SingleOwner'
  BY <1>3, <1>7 DEF SingleOwner, TypeOK, Unallocated
<1> QED BY <1>1, <1>2, <1>4, <1>5, <1>6, <1>8, Zenon

\* When the connection breaks, whoever waits is in the map or in the queue, and
\* is answered.
LEMMA BreakIndInv ==
    ASSUME IndInv, Break
    PROVE  IndInv'
<1> USE RouterAssumption DEF IndInv, Break
<1>1. TypeOK'
  BY DEF TypeOK, Errors
<1>2. NoMisdelivery'
  BY Zenon DEF NoMisdelivery, TypeOK, NoReply, Error
<1>3. InFlight' = {}
  BY Zenon DEF InFlight
<1>4. StreamsMatchFrames'
  BY <1>3, Zenon DEF StreamsMatchFrames
<1>5. MapConsistent'
  BY DEF MapConsistent, StreamIds
<1>6. WaiterHasAnswerer'
  BY Zenon DEF WaiterHasAnswerer, TypeOK, NoReply, Error
<1>7. SingleOwner'
  BY <1>3, InSeqEmpty DEF SingleOwner, TypeOK, Unallocated, Distinct
<1> QED BY <1>1, <1>2, <1>4, <1>5, <1>6, <1>7, Zenon

\* Nobody waits when the last Arc<Connection> is dropped.
LEMMA DropIndInv ==
    ASSUME IndInv, DropConnection
    PROVE  IndInv'
<1> USE RouterAssumption DEF IndInv, DropConnection
<1>1. TypeOK'
  BY DEF TypeOK
<1>2. NoMisdelivery'
  BY Zenon DEF NoMisdelivery, NoReply
<1>3. InFlight' = {}
  BY Zenon DEF InFlight
<1>4. StreamsMatchFrames'
  BY <1>3, Zenon DEF StreamsMatchFrames
<1>5. MapConsistent'
  BY DEF MapConsistent, StreamIds
<1>6. WaiterHasAnswerer'
  BY Zenon DEF WaiterHasAnswerer
<1>7. SingleOwner'
  BY <1>3, InSeqEmpty, SMTT(60) DEF SingleOwner, Unallocated, Distinct
<1> QED BY <1>1, <1>2, <1>4, <1>5, <1>6, <1>7, Zenon

\* The writer takes a task: its request had no stream id, the new stream id had
\* no handler and no frame.
LEMMA WriterTakeIndInv ==
    ASSUME IndInv, WriterTake
    PROVE  IndInv'
<1> DEFINE r == Head(submit_channel)
<1> USE RouterAssumption DEF IndInv, WriterTake
<1>1. /\ submit_channel \in Seq(Requests)
      /\ submit_channel # <<>>
      /\ submit_channel' = Tail(submit_channel)
      /\ submit_channel' \in Seq(Requests)
      /\ Len(submit_channel') <= SubmitCapacity
  BY DEF TypeOK
<1>2. /\ r \in Requests
      /\ InSeq(r, submit_channel)
      /\ ~InSeq(r, submit_channel')
      /\ Distinct(submit_channel')
      /\ \A q : InSeq(q, submit_channel) <=> q = r \/ InSeq(q, submit_channel')
  BY <1>1, InSeqHeadTail, DistinctTail DEF SingleOwner
<1>3. Unallocated(r) /\ caller[r] # "sending" /\ reply[r] = NoReply /\ current = Nil
  BY <1>2, Zenon DEF SingleOwner
<1>4. CASE used # StreamIds
  <2> DEFINE s == LowestFree(used)
             f == [stream |-> s, req |-> r]
  <2>1. s \in StreamIds /\ s \notin used
    BY <1>4, LowestFreeIsFree, Zenon DEF TypeOK
  <2>2. /\ used' = used \cup {s}
        /\ handlers' = [handlers EXCEPT ![s] = r]
        /\ request_to_stream' = [request_to_stream EXCEPT ![r] = s]
        /\ current' = f
        /\ writer' = "writing"
        /\ reply' = reply
    BY <1>4, Zenon DEF Allocate
  <2> HIDE DEF s, r
  <2>3. f \in Frames /\ f.stream = s /\ f.req = r
    BY <1>2, <2>1, Zenon DEF Frames
  <2>4. InFlight' = InFlight \cup {f} /\ InFlight \subseteq Frames
    BY <1>3, <2>2, <2>3, Zenon DEF InFlight, TypeOK
  <2>5. TypeOK'
    BY <1>1, <1>2, <2>1, <2>2, <2>3, Zenon DEF TypeOK
  <2>6. NoMisdelivery'
    BY <2>2, Zenon DEF NoMisdelivery
  <2>7. StreamsMatchFrames'
    <3>1. \A g \in InFlight : g.stream # s
      BY <2>1, Zenon DEF StreamsMatchFrames
    <3>2. \A g, h \in InFlight' : g.stream = h.stream => g = h
      BY <2>3, <2>4, <3>1, Zenon DEF StreamsMatchFrames
    <3>3. used' = {g.stream : g \in InFlight'}
      BY <2>2, <2>3, <2>4, Zenon DEF StreamsMatchFrames
    <3> QED BY <3>2, <3>3, Zenon DEF StreamsMatchFrames
  <2>8. MapConsistent'
    BY <1>2, <1>3, <2>1, <2>2 DEF MapConsistent, TypeOK, Unallocated
  <2>9. WaiterHasAnswerer'
    BY <1>2, <2>1, <2>2, SMTT(60) DEF WaiterHasAnswerer, TypeOK, MapConsistent
  <2>10. SingleOwner'
    <3>1. \A g \in InFlight' : g.stream \notin orphans' => handlers'[g.stream] = g.req
      BY <2>1, <2>2, <2>3, <2>4 DEF SingleOwner, StreamsMatchFrames, TypeOK, Frames
    <3>2. writer' = "writing" <=> current' # Nil
      BY <2>2, <2>3, Zenon
    <3>3. \A q \in Requests : q # r /\ Unallocated(q) => Unallocated(q)'
      BY <2>1, <2>2, <2>3, <2>4 DEF Unallocated, TypeOK
    <3>4. \A q \in Requests :
            reply'[q] # NoReply => caller'[q] = "waiting" /\ \A t \in StreamIds : handlers'[t] # q
      BY <1>3, <2>1, <2>2, SMTT(60) DEF SingleOwner, TypeOK
    <3>5. \A q \in Requests : InSeq(q, submit_channel') =>
             caller'[q] # "sending" /\ reply'[q] = NoReply /\ Unallocated(q)'
      BY <1>2, <2>2, <3>3, Zenon DEF SingleOwner
    <3>6. \A q \in Requests : caller'[q] = "sending" => reply'[q] = NoReply /\ Unallocated(q)'
      BY <1>3, <2>2, <3>3, Zenon DEF SingleOwner
    <3>7. f \notin InFlight
      BY <2>1, <2>3 DEF StreamsMatchFrames
    <3>8. buffer' \cap wire' = {} /\ current' \notin buffer' \cup wire'
      BY <2>2, <3>7, Zenon DEF SingleOwner, InFlight
    <3> QED BY <1>2, <3>1, <3>2, <3>4, <3>5, <3>6, <3>8, Zenon DEF SingleOwner
  <2> QED BY <2>5, <2>6, <2>7, <2>8, <2>9, <2>10, Zenon
<1>5. CASE used = StreamIds
  <2>1. /\ reply' = [reply EXCEPT ![r] = IF caller[r] = "waiting"
                                         THEN Error("no_stream") ELSE @]
        /\ writer' = "flushing"
        /\ UNCHANGED <<used, handlers, request_to_stream, current>>
    BY <1>5, Zenon DEF Allocate, Reply
  <2> HIDE DEF r
  <2>2. InFlight' = InFlight
    BY <2>1, Zenon DEF InFlight
  <2>3. TypeOK'
    BY <1>1, <1>2, <2>1, Zenon DEF TypeOK, Errors
  <2>4. NoMisdelivery'
    BY <1>2, <2>1, Zenon DEF NoMisdelivery, TypeOK, Error
  <2>5. StreamsMatchFrames'
    BY <2>1, <2>2, Zenon DEF StreamsMatchFrames
  <2>6. MapConsistent'
    BY <2>1, Zenon DEF MapConsistent
  <2>7. WaiterHasAnswerer'
    BY <1>2, <2>1, SMTT(60) DEF WaiterHasAnswerer, TypeOK, NoReply, Error
  <2>8. SingleOwner'
    BY <1>2, <1>3, <2>1, <2>2 DEF SingleOwner, TypeOK, Unallocated
  <2> QED BY <2>3, <2>4, <2>5, <2>6, <2>7, <2>8, Zenon
<1> QED BY <1>4, <1>5, Zenon

\* The writer finishes a frame, finds no task, or flushes: frames move towards
\* the server and none appears or disappears.
LEMMA WriterMovesIndInv ==
    ASSUME IndInv,
           InFlight' = InFlight,
           writer' \in {"recv", "try_recv", "delay", "flushing"},
           current' = Nil,
           buffer' \in SUBSET Frames, wire' \in SUBSET Frames, buffer' \cap wire' = {},
           UNCHANGED <<callers, submit_channel, notifications, map, status, server>>
    PROVE  IndInv'
<1> USE DEF IndInv, callers, map
<1>1. TypeOK'
  BY Zenon DEF TypeOK
<1>2. NoMisdelivery'
  BY Zenon DEF NoMisdelivery
<1>3. StreamsMatchFrames'
  BY Zenon DEF StreamsMatchFrames
<1>4. MapConsistent'
  BY Zenon DEF MapConsistent
<1>5. WaiterHasAnswerer'
  BY SMTT(60) DEF WaiterHasAnswerer
<1>6. SingleOwner'
  BY RouterAssumption DEF SingleOwner, Unallocated
<1> QED BY <1>1, <1>2, <1>3, <1>4, <1>5, <1>6, Zenon

\* The three steps of the writer that allocate nothing.
LEMMA WriterIndInv ==
    ASSUME IndInv, WriterWrote \/ WriterNoTask \/ WriterFlushed
    PROVE  IndInv'
<1> USE RouterAssumption DEF IndInv
<1>1. CASE WriterWrote
  <2>1. current \in Frames /\ current # Nil
    BY <1>1, Zenon DEF WriterWrote, TypeOK, SingleOwner
  <2>2. PICK sent \in {{}, buffer, buffer \cup {current}} :
           /\ buffer' = (buffer \cup {current}) \ sent
           /\ wire' = wire \cup sent
    BY <1>1, Zenon DEF WriterWrote
  <2>3. current' = Nil /\ writer' = "try_recv"
    BY <1>1, Zenon DEF WriterWrote
  <2>4. buffer' \in SUBSET Frames /\ wire' \in SUBSET Frames /\ buffer' \cap wire' = {}
    BY <2>1, <2>2 DEF TypeOK, SingleOwner
  <2>5. InFlight' = InFlight
    BY <2>1, <2>2, <2>3, Zenon DEF InFlight
  <2> QED BY <1>1, <2>3, <2>4, <2>5, WriterMovesIndInv, SMTT(60) DEF WriterWrote
<1>2. CASE WriterNoTask
  <2>1. current = Nil
    BY <1>2, Zenon DEF WriterNoTask, SingleOwner
  <2>2. InFlight' = InFlight
    BY <1>2, Zenon DEF WriterNoTask, InFlight
  <2>3. buffer' \in SUBSET Frames /\ wire' \in SUBSET Frames /\ buffer' \cap wire' = {}
    BY <1>2, Zenon DEF WriterNoTask, TypeOK, SingleOwner
  <2> QED BY <1>2, <2>1, <2>2, <2>3, WriterMovesIndInv, SMTT(60) DEF WriterNoTask
<1>3. CASE WriterFlushed
  <2>1. current = Nil
    BY <1>3, Zenon DEF WriterFlushed, SingleOwner
  <2>2. InFlight' = InFlight
    BY <1>3, Zenon DEF WriterFlushed, InFlight
  <2>3. buffer' \in SUBSET Frames /\ wire' \in SUBSET Frames /\ buffer' \cap wire' = {}
    BY <1>3, SMTT(60) DEF WriterFlushed, TypeOK
  <2> QED BY <1>3, <2>1, <2>2, <2>3, WriterMovesIndInv, SMTT(60) DEF WriterFlushed
<1> QED BY <1>1, <1>2, <1>3, Zenon

\* A response arrives.  Its frame is the only one on its stream, so the handler
\* registered for the stream is that of the request it answers; the stream id
\* is free again once the frame is gone.
LEMMA ReaderResponseIndInv ==
    ASSUME IndInv, NEW f \in wire, ReaderResponse(f)
    PROVE  IndInv'
<1> DEFINE s == f.stream
<1> USE RouterAssumption DEF IndInv
<1>1. /\ wire' = wire \ {f}
      /\ UNCHANGED <<submit_channel, notifications, output, status, server>>
      /\ caller' = caller
      /\ status = "up"
  BY Zenon DEF ReaderResponse, LookupOrphan, LookupHandler, callers
<1>2. f \in InFlight /\ f \in Frames /\ s \in StreamIds /\ f.req \in Requests
  BY Zenon DEF InFlight, TypeOK, Frames
<1>3. \A g \in InFlight : g # f => g.stream # s
  BY <1>2, Zenon DEF StreamsMatchFrames
<1>4. f \notin buffer /\ f # current
  BY Zenon DEF SingleOwner
<1>5. InFlight' = InFlight \ {f}
  BY <1>1, <1>4, Zenon DEF InFlight, output
<1>6. used' = used \ {s} => StreamsMatchFrames'
  <2>1. ASSUME used' = used \ {s} PROVE used' = {g.stream : g \in InFlight'}
    BY <1>2, <1>3, <1>5, <2>1, Zenon DEF StreamsMatchFrames
  <2> QED BY <1>5, <2>1, Zenon DEF StreamsMatchFrames
<1>7. CASE LookupOrphan(s)
  <2> USE <1>7 DEF LookupOrphan, callers
  <2>1. TypeOK'
    BY <1>1, <1>7, Zenon DEF TypeOK, output
  <2>2. NoMisdelivery'
    BY <1>7, Zenon DEF NoMisdelivery
  <2>3. MapConsistent'
    BY <1>2, <1>7 DEF MapConsistent
  <2>4. WaiterHasAnswerer'
    BY <1>1, <1>7, SMTT(60) DEF WaiterHasAnswerer
  <2>5. SingleOwner'
    BY <1>1, <1>3, <1>5, <1>7 DEF SingleOwner, Unallocated, output
  <2> QED BY <1>6, <1>7, <2>1, <2>2, <2>3, <2>4, <2>5
<1>8. CASE LookupHandler(s, f.req)
  <2> DEFINE r == f.req
  <2>1. /\ handlers[s] = r /\ s \notin orphans /\ r \in Requests
        /\ used' = used \ {s}
        /\ handlers' = [handlers EXCEPT ![s] = Nil]
        /\ request_to_stream' = [request_to_stream EXCEPT ![r] = Nil]
        /\ reply' = [reply EXCEPT ![r] = IF caller[r] = "waiting" THEN Response(r) ELSE @]
        /\ UNCHANGED <<orphans, old>>
    BY <1>2, <1>8, Zenon DEF LookupHandler, Reply, SingleOwner
  <2>2. \A t \in StreamIds : t # s => handlers[t] # r
    BY <1>2, <2>1 DEF MapConsistent
  <2> HIDE DEF r, s
  <2>3. TypeOK'
    BY <1>1, <1>2, <2>1 DEF TypeOK, output
  <2>4. NoMisdelivery'
    BY <2>1, Zenon DEF NoMisdelivery, TypeOK, Response
  <2>5. MapConsistent'
    BY <1>2, <2>1, <2>2, SMTT(60) DEF MapConsistent, TypeOK, StreamIds
  <2>6. WaiterHasAnswerer'
    <3> SUFFICES ASSUME NEW q \in Requests, caller'[q] = "waiting", reply'[q] = NoReply
                 PROVE  status' = "up" /\ (InSeq(q, submit_channel')
                                           \/ \E t \in StreamIds : handlers'[t] = q)
      BY SMTT(60) DEF WaiterHasAnswerer
    <3>1. q # r
      BY <1>1, <2>1 DEF TypeOK, NoReply, Response
    <3>2. reply[q] = NoReply
      BY <2>1, <3>1, SMTT(60) DEF TypeOK
    <3> QED BY <1>1, <2>1, <3>1, <3>2, SMTT(60) DEF WaiterHasAnswerer, TypeOK
  <2>7. SingleOwner'
    <3>1. \A g \in InFlight' : g.stream \notin orphans' => handlers'[g.stream] = g.req
      BY <1>3, <1>5, <2>1 DEF SingleOwner, TypeOK
    <3>2. \A q \in Requests : Unallocated(q) => Unallocated(q)'
      BY <1>2, <1>5, <2>1, SMTT(60) DEF Unallocated, TypeOK
    <3>3. ~InSeq(r, submit_channel) /\ caller[r] # "sending"
      BY <1>2, <2>1, SMTT(60) DEF SingleOwner, Unallocated
    <3>4. \A q \in Requests : reply'[q] # NoReply =>
             caller'[q] = "waiting" /\ \A t \in StreamIds : handlers'[t] # q
      BY <1>1, <1>2, <2>1, <2>2 DEF SingleOwner, TypeOK
    <3> QED BY <1>1, <2>1, <3>1, <3>2, <3>3, <3>4, SMTT(60) DEF SingleOwner, TypeOK, output
  <2> QED BY <1>6, <2>1, <2>3, <2>4, <2>5, <2>6, <2>7, SMTT(60)
<1> QED BY <1>7, <1>8, Zenon DEF ReaderResponse

\* A notification is handled: its caller is gone, so no awaited request loses
\* its handler, and the stream id stays in use.
LEMMA OrphanIndInv ==
    ASSUME IndInv, Orphan
    PROVE  IndInv'
<1> DEFINE r == Head(notifications)
           s == request_to_stream[r]
<1> USE RouterAssumption DEF IndInv
<1>1. /\ notifications \in Seq(Requests)
      /\ notifications # <<>>
      /\ notifications' = Tail(notifications)
      /\ notifications' \in Seq(Requests)
      /\ UNCHANGED <<callers, submit_channel, output, wire, status, server>>
  BY DEF TypeOK, Orphan
<1>2. /\ r \in Requests
      /\ InSeq(r, notifications)
      /\ \A q : InSeq(q, notifications') => InSeq(q, notifications)
  BY <1>1, InSeqHeadTail, SMTT(60)
<1>3. caller[r] = "idle"
  BY <1>2, Zenon DEF SingleOwner
<1>4. InFlight' = InFlight
  BY <1>1, Zenon DEF InFlight, output
<1>5. NoMisdelivery'
  BY <1>1, Zenon DEF NoMisdelivery, callers
<1>6. CASE s = Nil /\ UNCHANGED map
  <2>1. TypeOK'
    BY <1>1, <1>6, Zenon DEF TypeOK, map, output, callers
  <2>2. StreamsMatchFrames'
    BY <1>4, <1>6, Zenon DEF StreamsMatchFrames, map
  <2>3. MapConsistent'
    BY <1>6 DEF MapConsistent, map
  <2>4. WaiterHasAnswerer'
    BY <1>1, <1>6, SMTT(60) DEF WaiterHasAnswerer, map, callers
  <2>5. SingleOwner'
    BY <1>1, <1>2, <1>4, <1>6, SMTT(60) DEF SingleOwner, Unallocated, map, output, callers
  <2> QED BY <1>5, <2>1, <2>2, <2>3, <2>4, <2>5, SMTT(60)
<1>7. CASE s # Nil /\ OrphanStream(r, s)
  <2>1. /\ s \in StreamIds /\ handlers[s] = r
        /\ orphans' = orphans \cup {s}
        /\ handlers' = [handlers EXCEPT ![s] = Nil]
        /\ request_to_stream' = [request_to_stream EXCEPT ![r] = Nil]
        /\ UNCHANGED <<used, old>>
    BY <1>2, <1>7, Zenon DEF OrphanStream, TypeOK, MapConsistent
  <2>2. \A t \in StreamIds : t # s => handlers[t] # r
    BY <1>2, <2>1, SMTT(60) DEF MapConsistent
  <2> HIDE DEF r, s
  <2>3. TypeOK'
    BY <1>1, <1>2, <2>1, Zenon DEF TypeOK, output, callers
  <2>4. StreamsMatchFrames'
    BY <1>4, <2>1 DEF StreamsMatchFrames
  <2>5. MapConsistent'
    BY <1>2, <2>1, <2>2, SMTT(60) DEF MapConsistent, TypeOK, StreamIds
  <2>6. WaiterHasAnswerer'
    BY <1>1, <1>3, <2>1, SMTT(60) DEF WaiterHasAnswerer, TypeOK, callers
  <2>7. SingleOwner'
    BY <1>1, <1>2, <1>4, <2>1 DEF SingleOwner, Unallocated, TypeOK, output, callers
  <2> QED BY <1>5, <2>3, <2>4, <2>5, <2>6, <2>7
<1> QED BY <1>6, <1>7, Zenon DEF Orphan

\* An orphan ages, the server falls silent, or nothing happens: no property
\* but the type invariant looks at what changes.
LEMMA QuietIndInv ==
    ASSUME IndInv,
           old' \in SUBSET orphans, server' \in {"alive", "silent"},
           UNCHANGED <<callers, submit_channel, notifications, used, handlers,
                       request_to_stream, orphans, output, wire, status>>
    PROVE  IndInv'
<1> USE DEF IndInv, callers, output
<1>1. InFlight' = InFlight
  BY Zenon DEF InFlight
<1>2. TypeOK'
  BY Zenon DEF TypeOK
<1>3. NoMisdelivery' /\ MapConsistent'
  BY Zenon DEF NoMisdelivery, MapConsistent
<1>4. StreamsMatchFrames' /\ WaiterHasAnswerer'
  BY <1>1, SMTT(60) DEF StreamsMatchFrames, WaiterHasAnswerer
<1>5. SingleOwner'
  BY <1>1 DEF SingleOwner, Unallocated
<1> QED BY <1>2, <1>3, <1>4, <1>5, Zenon

-----------------------------------------------------------------------------

\* Every step of the connection preserves the inductive invariant.
LEMMA NextIndInv == IndInv /\ [Next]_vars => IndInv'
<1> SUFFICES ASSUME IndInv, [Next]_vars PROVE IndInv'
  BY Zenon
<1>1. ASSUME NEW r \in Requests, SendRequest(r) PROVE IndInv'
  BY <1>1, SendRequestIndInv, Zenon DEF SendRequest
<1>2. ASSUME NEW r \in Requests, Submit(r) PROVE IndInv'
  BY <1>2, SubmitIndInv, Zenon
<1>3. ASSUME NEW r \in Requests, SubmitFails(r) PROVE IndInv'
  <2>1. reply' = [reply EXCEPT ![r] = NoReply]
    BY <1>3, Zenon DEF SubmitFails, IndInv, SingleOwner, TypeOK
  <2> QED BY <1>3, <2>1, LeaveIndInv, Zenon DEF SubmitFails
<1>4. ASSUME NEW r \in Requests, Receive(r) PROVE IndInv'
  BY <1>4, LeaveIndInv, Zenon DEF Receive
<1>5. ASSUME NEW r \in Requests, Cancel(r) PROVE IndInv'
  BY <1>5, LeaveIndInv, Zenon DEF Cancel
<1>6. CASE WriterTake
  BY <1>6, WriterTakeIndInv, Zenon
<1>7. CASE WriterWrote \/ WriterNoTask \/ WriterFlushed
  BY <1>7, WriterIndInv, Zenon
<1>8. ASSUME NEW f \in wire, ReaderResponse(f) PROVE IndInv'
  BY <1>8, ReaderResponseIndInv
<1>9. CASE Break
  BY <1>9, BreakIndInv, Zenon
<1>10. CASE WriterError \/ ReaderUnexpectedStream \/ ReaderError \/ TooManyOrphans
            \/ KeepaliveFails \/ KeepaliveTimeout
  BY <1>9, <1>10, SMTT(60) DEF WriterError, ReaderUnexpectedStream, ReaderError,
                     TooManyOrphans, KeepaliveFails, KeepaliveTimeout
<1>11. CASE Orphan
  BY <1>11, OrphanIndInv, Zenon
<1>12. ASSUME NEW s \in StreamIds, OrphanAges(s) PROVE IndInv'
  BY <1>12, QuietIndInv, Zenon DEF OrphanAges, IndInv, TypeOK
<1>13. CASE KeepaliveStart
  <2>1. KeepaliveId \in Requests
    BY <1>13, RouterAssumption, Zenon DEF KeepaliveStart
  <2> QED BY <1>13, <2>1, SendRequestIndInv, Zenon DEF KeepaliveStart
<1>14. CASE KeepaliveSucceeds
  <2>1. KeepaliveId \in Requests
    BY <1>14, RouterAssumption DEF KeepaliveSucceeds
  <2> QED BY <1>14, <2>1, LeaveIndInv, ZenonT(60) DEF KeepaliveSucceeds
<1>15. CASE DropConnection
  BY <1>15, DropIndInv, Zenon
<1>16. CASE ServerSilent
  BY <1>16, QuietIndInv, Zenon DEF ServerSilent, map, IndInv, TypeOK
<1>17. CASE UNCHANGED vars
  BY <1>17, QuietIndInv, Zenon DEF vars, map, IndInv, TypeOK
<1> QED BY <1>1, <1>2, <1>3, <1>4, <1>5, <1>6, <1>7, <1>8, <1>10, <1>11, <1>12,
           <1>13, <1>14, <1>15, <1>16, <1>17, Zenon DEF Next, Dropped

\* The inductive invariant holds in every state of every behaviour.
THEOREM Invariance == Spec => []IndInv
BY InitIndInv, NextIndInv, PTL DEF Spec

\* Every variable keeps its type; the submit channel never exceeds its capacity.
THEOREM TypeCorrect == Spec => []TypeOK
<1>1. IndInv => TypeOK
  BY Zenon DEF IndInv
<1> QED BY <1>1, Invariance, PTL

\* No caller ever receives the response to another request, whatever the
\* interleaving of cancellations, late responses and reused stream ids.
THEOREM ResponsesReachTheirRequest == Spec => []NoMisdelivery
<1>1. IndInv => NoMisdelivery
  BY Zenon DEF IndInv
<1> QED BY <1>1, Invariance, PTL

\* A stream id is in use exactly while a frame is in flight on it, it is in
\* flight on one frame only, and a request is in one place only, however
\* callers, router and server interleave.
THEOREM StreamIdsAreExclusive == Spec => []StreamsExclusive
<1>1. IndInv => StreamsExclusive
  BY Zenon DEF IndInv, StreamsExclusive
<1> QED BY <1>1, Invariance, PTL

\* The three maps of ResponseHandlerMap never disagree, so its assertion holds.
THEOREM HandlerMapConsistent == Spec => []MapConsistent
<1>1. IndInv => MapConsistent
  BY Zenon DEF IndInv
<1> QED BY <1>1, Invariance, PTL

\* No caller is left waiting with neither a queued task nor a handler.
THEOREM NobodyWaitsForNothing == Spec => []WaiterHasAnswerer
<1>1. IndInv => WaiterHasAnswerer
  BY Zenon DEF IndInv
<1> QED BY <1>1, Invariance, PTL

=============================================================================
