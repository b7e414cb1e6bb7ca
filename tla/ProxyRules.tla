------------------------------ MODULE ProxyRules ------------------------------
(***************************************************************************)
(* What the proxy does with the frames of one connection between a driver  *)
(* and a real node (scylla-proxy/src/proxy.rs, ProxyWorker, and            *)
(* scylla-proxy/src/actions.rs): the receivers read them, the processors   *)
(* look for the first rule that applies, a task carries out its reaction,  *)
(* the senders write what the processors and the tasks give them.  The     *)
(* end of the connection is in Proxy.                                      *)
(*                                                                         *)
(* A frame is known by the request it belongs to, its opcode, who made it  *)
(* and whether it is compressed on the wire.  Delays are the steps that a  *)
(* task has not taken yet.                                                 *)
(***************************************************************************)
EXTENDS Integers, Sequences, FiniteSets

CONSTANTS
  RuleSets,      \* [requests, responses]: sequences of [when, reaction]
  MaxRequests,   \* requests of the driver, STARTUP included
  Algorithms,    \* what STARTUP may ask for: "none", or a compression
  Patterns,        \* the patterns that the body of a frame contains, by its opcode
  ConnectionNo   \* the number of this connection at its doorkeeper

VARIABLES
  rules,       \* request_rules and response_rules, as evaluation leaves them
  queues,      \* sockets and channels, in order
  tasks,       \* reactions under way: [to, frame]
  negotiated,  \* the OnceLock of CompressionWriter: <<>> until STARTUP
  registered,  \* event_registered_flag
  failed,      \* the workers of the connection that ended with an error or a panic
  verdicts,    \* history: what was decided about each frame
  wants,       \* the compression of this driver
  given        \* the rules at the start

rulesVars == <<rules, queues, tasks, negotiated, registered, failed, verdicts, wants, given>>

Frame(id, opcode, maker, compressed) == [id |-> id, opcode |-> opcode, maker |-> maker, compressed |-> compressed]

Queues == {"from_driver", "requests", "cluster", "at_node", "from_node", "responses", "driver", "at_driver"}

RulesInit ==
  /\ given \in RuleSets /\ rules = given
  /\ wants \in Algorithms
  /\ queues = [q \in Queues |-> <<>>]
  /\ tasks = {} /\ negotiated = <<>> /\ registered = FALSE /\ failed = {} /\ verdicts = <<>>
-----------------------------------------------------------------------------
(* Conditions *)

Cond(kind, opcode, number, of) == [kind |-> kind, opcode |-> opcode, number |-> number, of |-> of]
True_ == Cond("True", "", 0, <<>>)
False_ == Cond("False", "", 0, <<>>)
Not(c) == Cond("Not", "", 0, <<c>>)
And(c, d) == Cond("And", "", 0, <<c, d>>)
Or(c, d) == Cond("Or", "", 0, <<c, d>>)
RequestOpcodeIs(op) == Cond("RequestOpcode", op, 0, <<>>)
ResponseOpcodeIs(op) == Cond("ResponseOpcode", op, 0, <<>>)
RandomWithProbability == Cond("Random", "", 0, <<>>)
ConnectionSeqNo(n) == Cond("ConnectionSeqNo", "", n, <<>>)
BodyContains(pattern) == Cond("Body", pattern, 0, <<>>)
TrueForLimitedTimes(n) == Cond("Limited", "", n, <<>>)
RegisteredAnyEvent == Cond("Registered", "", 0, <<>>)

\* all and any: each condition is put before those that were given earlier.
RECURSIVE Heaped(_, _)
Heaped(kind, cs) ==
  IF Len(cs) = 1 THEN cs[1]
  ELSE Cond(kind, "", 0, <<cs[Len(cs)], Heaped(kind, SubSeq(cs, 1, Len(cs) - 1))>>)
AllOf(cs) == IF cs = <<>> THEN True_ ELSE Heaped("And", cs)
AnyOf(cs) == IF cs = <<>> THEN False_ ELSE Heaped("Or", cs)

\* The outcome of an evaluation, and the condition it leaves.
Says(v, c) == [v |-> v, c |-> c]
Of(b) == IF b THEN "yes" ELSE "no"

\* The second side only where the first does not decide.
BothSides(c, first, second) ==
  IF first.v = (IF c.kind = "And" THEN "yes" ELSE "no")
  THEN Says(second.v, [c EXCEPT !.of = <<first.c, second.c>>])
  ELSE Says(first.v, [c EXCEPT !.of = <<first.c, c.of[2]>>])

\* Condition::eval, for a frame of the given direction: a set, for the random one.
RECURSIVE Eval(_, _, _)
Eval(c, direction, frame) ==
  CASE c.kind = "True" -> {Says("yes", c)}
    [] c.kind = "False" -> {Says("no", c)}
    [] c.kind = "Not" -> {Says(CASE o.v = "yes" -> "no" [] o.v = "no" -> "yes" [] OTHER -> o.v, [c EXCEPT !.of = <<o.c>>]) :
                            o \in Eval(c.of[1], direction, frame)}
    [] c.kind \in {"And", "Or"} -> {BothSides(c, first, second) : first \in Eval(c.of[1], direction, frame),
                                                                  second \in Eval(c.of[2], direction, frame)}
    [] c.kind = "RequestOpcode" -> {Says(IF direction = "request" THEN Of(frame.opcode = c.opcode) ELSE "panic", c)}
    [] c.kind = "ResponseOpcode" -> {Says(IF direction = "response" THEN Of(frame.opcode = c.opcode) ELSE "panic", c)}
    [] c.kind = "ConnectionSeqNo" -> {Says(Of(c.number = ConnectionNo), c)}
    [] c.kind = "Body" -> {Says(IF c.opcode = "" THEN "panic" ELSE Of(c.opcode \in Patterns[frame.opcode]), c)}
    [] c.kind = "Random" -> {Says("yes", c), Says("no", c)}
    [] c.kind = "Limited" -> {IF c.number > 0 THEN Says("yes", [c EXCEPT !.number = @ - 1]) ELSE Says("no", c)}
    [] c.kind = "Registered" -> {Says(Of(registered \/ frame.opcode = "register"), c)}

\* The first rule that applies, if any (its index, or 0; -1 for a panic), and
\* the rules, of which those up to it were evaluated.
RECURSIVE Matches(_, _, _, _)
Matches(rs, i, direction, frame) ==
  IF i > Len(rs) THEN {[at |-> 0, rules |-> rs]}
  ELSE UNION {LET after == [rs EXCEPT ![i].when = o.c]
              IN CASE o.v = "yes" -> {[at |-> i, rules |-> after]}
                   [] o.v = "panic" -> {[at |-> -1, rules |-> after]}
                   [] OTHER -> Matches(after, i + 1, direction, frame)
              : o \in Eval(rs[i].when, direction, frame)}
-----------------------------------------------------------------------------
(* Reactions *)

Reaction(passes, forges) == [passes |-> passes, forges |-> forges]
Noop == Reaction(TRUE, <<>>)
DropFrame == Reaction(FALSE, <<>>)
ForgeResponse(opcode) == Reaction(FALSE, <<opcode>>)

\* The forged frame goes to the sender of this one, with the same flags.
Forged(frame, opcode) == Frame(frame.id, opcode, "proxy", frame.compressed)

TasksFor(frame, reaction, addressee, sender) ==
  (IF reaction.passes THEN {[to |-> addressee, frame |-> frame]} ELSE {})
    \cup {[to |-> sender, frame |-> Forged(frame, reaction.forges[i])] : i \in DOMAIN reaction.forges}

Verdict(direction, frame, at) == [direction |-> direction, frame |-> frame, at |-> at]

\* What one turn of a processor does with the frame it took from its queue.
Decide(direction, from, addressee, sender, m) ==
  LET frame == Head(queues[from])
      rs == IF direction = "request" THEN "requests" ELSE "responses"
      taken == [queues EXCEPT ![from] = Tail(@)]
  IN /\ rules' = [rules EXCEPT ![rs] = m.rules]
     /\ verdicts' = Append(verdicts, Verdict(direction, frame, m.at))
     /\ tasks' = IF m.at > 0 THEN tasks \cup TasksFor(frame, m.rules[m.at].reaction, addressee, sender) ELSE tasks
     /\ queues' = IF m.at = 0 THEN [taken EXCEPT ![addressee] = Append(@, frame)] ELSE taken
     /\ failed' = IF m.at < 0 THEN failed \cup {direction} ELSE failed

\* set_from_startup: the first STARTUP decides.
Negotiated(frame) == IF frame.opcode = "startup" /\ negotiated = <<>> THEN <<wants>> ELSE negotiated

\* request_processor and response_processor
ProcessRequest ==
  LET frame == Head(queues.requests)
  IN /\ "request" \notin failed /\ queues.requests # <<>>
     /\ registered' = (registered \/ frame.opcode = "register")
     /\ \E m \in Matches(rules.requests, 1, "request", frame) :
          /\ negotiated' = Negotiated(frame)
          /\ Decide("request", "requests", "cluster", "driver", m)
     /\ UNCHANGED <<wants, given>>

ProcessResponse ==
  /\ "response" \notin failed /\ queues.responses # <<>>
  /\ \E m \in Matches(rules.responses, 1, "response", Head(queues.responses)) :
       Decide("response", "responses", "driver", "cluster", m)
  /\ UNCHANGED <<negotiated, registered, wants, given>>

\* A delay is over.  (A pass and a forging of one task are independent.)
TaskActs(t) ==
  /\ t \in tasks /\ tasks' = tasks \ {t}
  /\ queues' = [queues EXCEPT ![t.to] = Append(@, t.frame)]
  /\ UNCHANGED <<rules, negotiated, registered, failed, verdicts, wants, given>>
-----------------------------------------------------------------------------
(* Receivers and senders *)

\* maybe_decompress_body, maybe_compress_body
Codable(frame) == frame.compressed => negotiated # <<>> /\ negotiated[1] # "none"

\* One frame from a socket to a channel, or from a channel to a socket.
Moves(from, to, worker) ==
  /\ worker \notin failed /\ queues[from] # <<>>
  /\ IF Codable(Head(queues[from]))
     THEN queues' = [queues EXCEPT ![from] = Tail(@), ![to] = Append(@, Head(queues[from]))] /\ UNCHANGED failed
     ELSE queues' = [queues EXCEPT ![from] = Tail(@)] /\ failed' = failed \cup {worker}
  /\ UNCHANGED <<rules, tasks, negotiated, registered, verdicts, wants, given>>

\* turn_off_rules
TurnOffRules ==
  /\ rules # [requests |-> <<>>, responses |-> <<>>] /\ failed \cap {"request", "response"} = {}
  /\ rules' = [requests |-> <<>>, responses |-> <<>>]
  /\ UNCHANGED <<queues, tasks, negotiated, registered, failed, verdicts, wants, given>>
-----------------------------------------------------------------------------
(* The driver and the node.  The driver sends STARTUP, and the rest once it is *)
(* READY; both compress all that follows, when they have agreed to.           *)

\* What the driver has sent so far
SentSoFar == Len(queues.from_driver) + Len(queues.requests) + Cardinality({i \in DOMAIN verdicts : verdicts[i].direction = "request"})

DriverSends(opcode) ==
  /\ SentSoFar < MaxRequests /\ failed = {}
  /\ IF SentSoFar = 0 THEN opcode = "startup"
     ELSE opcode # "startup" /\ \E i \in DOMAIN queues.at_driver : queues.at_driver[i].opcode = "ready"
  /\ queues' = [queues EXCEPT !.from_driver = Append(@, Frame(SentSoFar + 1, opcode, "driver", opcode # "startup" /\ wants # "none"))]
  /\ UNCHANGED <<rules, tasks, negotiated, registered, failed, verdicts, wants, given>>

Answered(id) ==
  \/ \E q \in {"from_node", "responses"}, i \in 1..(2 * MaxRequests) :
       i \in DOMAIN queues[q] /\ queues[q][i].id = id /\ queues[q][i].maker = "node"
  \/ \E i \in DOMAIN verdicts : verdicts[i].direction = "response" /\ verdicts[i].frame.id = id

NodeAnswers(i) ==
  LET request == queues.at_node[i]
      opcode == IF request.opcode = "query" THEN "result" ELSE "ready"
      agreed == wants # "none" /\ \E j \in DOMAIN queues.at_node : queues.at_node[j].opcode = "startup"
  IN /\ request.maker = "driver" /\ ~ Answered(request.id) /\ failed = {}
     /\ queues' = [queues EXCEPT !.from_node = Append(@, Frame(request.id, opcode, "node", agreed))]
     /\ UNCHANGED <<rules, tasks, negotiated, registered, failed, verdicts, wants, given>>

\* What the proxy does by itself
RulesStep ==
  \/ Moves("from_driver", "requests", "receiver_from_driver")
  \/ ProcessRequest
  \/ Moves("cluster", "at_node", "sender_to_cluster")
  \/ Moves("from_node", "responses", "receiver_from_cluster")
  \/ ProcessResponse
  \/ Moves("driver", "at_driver", "sender_to_driver")
  \/ \E t \in tasks : TaskActs(t)

RulesNext ==
  \/ RulesStep
  \/ TurnOffRules
  \/ \E opcode \in {"startup", "register", "query"} : DriverSends(opcode)
  \/ \E i \in DOMAIN queues.at_node : NodeAnswers(i)
-----------------------------------------------------------------------------
(* Properties *)

\* The queues a frame of the direction passes, and how often it is there or on its
\* way.
Towards(direction) == IF direction = "request" THEN {"cluster", "at_node"} ELSE {"driver", "at_driver"}
Opposite(direction) == IF direction = "request" THEN "response" ELSE "request"
Copies(direction, id, makers) ==
  Cardinality({t \in tasks : t.to \in Towards(direction) /\ t.frame.id = id /\ t.frame.maker \in makers})
    + Cardinality({<<q, i>> \in Towards(direction) \X (1..(4 * MaxRequests)) :
                     i \in DOMAIN queues[q] /\ queues[q][i].id = id /\ queues[q][i].maker \in makers})

RuleOf(v) == (IF v.direction = "request" THEN given.requests ELSE given.responses)[v.at]
Passed(v) == v.at = 0 \/ (v.at > 0 /\ RuleOf(v).reaction.passes)
ForgedBy(id, direction) ==
  Cardinality({i \in DOMAIN verdicts : /\ verdicts[i].direction = direction /\ verdicts[i].frame.id = id
                                       /\ verdicts[i].at > 0 /\ RuleOf(verdicts[i]).reaction.forges # <<>>})

\* A frame that was decided about goes to its addressee exactly once, if the first
\* rule that applies to it passes it or none applies, and else never; a frame is
\* forged for its sender exactly once if that rule says so, and else never; at
\* no time is one lost or doubled, however long the delays.
FramesGoWhereRulesSay ==
  failed \subseteq {"request", "response"} =>
    \A i \in DOMAIN verdicts :
      LET v == verdicts[i]
      IN /\ Copies(v.direction, v.frame.id, {"driver", "node"}) = (IF Passed(v) THEN 1 ELSE 0)
         /\ Copies(Opposite(v.direction), v.frame.id, {"proxy"}) = ForgedBy(v.frame.id, v.direction)

\* The frames to which no rule applies arrive in the order in which they came,
\* though others are delayed, dropped and forged around them.
UnmatchedInOrder ==
  \A direction \in {"request", "response"} :
    LET arrived == queues[IF direction = "request" THEN "at_node" ELSE "at_driver"]
        Place(f) == {i \in DOMAIN verdicts : verdicts[i].direction = direction /\ verdicts[i].at = 0 /\ verdicts[i].frame = f}
    IN \A i, j \in DOMAIN arrived :
         i < j => \A p \in Place(arrived[i]), q \in Place(arrived[j]) : p < q

\* No frame that driver and node compress by agreement meets a worker that does
\* not know of it: the STARTUP is looked at before it can have an effect, even
\* where a rule answers it, drops it or delays it.
CompressionKnown == failed \subseteq {"request", "response"}

\* A rule limited to a number of times, as the only condition of a kind of request,
\* applies to the first so many of them; built by Condition::all with the limit
\* last, it counts the frames of every kind, since the last is evaluated first.
LimitedRulesCount ==
  rules.requests # <<>> /\ given.requests[1].when.kind = "And" =>
    LET of == given.requests[1].when.of
        Seen == {i \in DOMAIN verdicts : verdicts[i].direction = "request"}
        Earlier(i) == {j \in Seen : j < i}
        applied == {i \in Seen : verdicts[i].at = 1}
    IN /\ of[1].kind = "RequestOpcode" /\ of[2].kind = "Limited" =>
            applied = {i \in Seen : /\ verdicts[i].frame.opcode = of[1].opcode
                                    /\ Cardinality({j \in Earlier(i) : verdicts[j].frame.opcode = of[1].opcode}) < of[2].number}
       /\ of[1].kind = "Limited" /\ of[2].kind = "RequestOpcode" =>
            applied = {i \in Seen : verdicts[i].frame.opcode = of[2].opcode /\ Cardinality(Earlier(i)) < of[1].number}

ArrivedAt(q, id, maker) == \E i \in DOMAIN queues[q] : queues[q][i].id = id /\ queues[q][i].maker = maker
RefusedBy(direction, id) ==
  \E i \in DOMAIN verdicts : verdicts[i].direction = direction /\ verdicts[i].frame.id = id /\ ~ Passed(verdicts[i])

\* Each request of the driver is at some time at the node, and each answer of the
\* node at the driver, unless a rule says otherwise or a processor panicked over
\* a rule of the wrong kind.
FramesSettle ==
  /\ \A id \in 1..MaxRequests :
       (SentSoFar >= id) ~> (ArrivedAt("at_node", id, "driver") \/ RefusedBy("request", id) \/ "request" \in failed)
  /\ \A id \in 1..MaxRequests :
       ArrivedAt("from_node", id, "node")
         ~> (ArrivedAt("at_driver", id, "node") \/ RefusedBy("response", id) \/ "response" \in failed)

\* Frames go where the rules say, in order and readable, and rules apply as often
\* as they say.
ProxyFramesSound == FramesGoWhereRulesSay /\ UnmatchedInOrder /\ CompressionKnown /\ LimitedRulesCount
=============================================================================
