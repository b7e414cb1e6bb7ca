--------------------------------- MODULE MCWire ---------------------------------
(***************************************************************************)
(* The codec of the CQL protocol and the proxy that tests put between the  *)
(* driver and the nodes, side by side: a behaviour is one of the codec, of *)
(* the tasks of a proxy, or of the frames of one connection through it.    *)
(* The inputs are those of MCCodec; a proxy of one real node with one      *)
(* connection, of one simulated node with two, and of one of each; and     *)
(* rules for requests and responses that use every condition.              *)
(***************************************************************************)
EXTENDS MCCodec, Proxy, ProxyRules

VARIABLE part

vars == <<part, codecVars, proxyVars, rulesVars>>

CodecIdle == sample = NoSample /\ bound = SerializedValues(<<>>, 0) /\ added = <<>> /\ attempts = MaxAttempts
ProxyIdle == ProxyInit /\ setup = CHOOSE s \in Setups : TRUE
RulesIdle == RulesInit /\ given = (CHOOSE g \in RuleSets : TRUE) /\ wants = CHOOSE a \in Algorithms : TRUE

Init ==
  \/ part = "codec" /\ CodecInit /\ ProxyIdle /\ RulesIdle
  \/ part = "tasks" /\ ProxyInit /\ CodecIdle /\ RulesIdle
  \/ part = "frames" /\ RulesInit /\ CodecIdle /\ ProxyIdle

TasksPart(A) == part = "tasks" /\ A /\ UNCHANGED <<part, codecVars, rulesVars>>
FramesPart(A) == part = "frames" /\ A /\ UNCHANGED <<part, codecVars, proxyVars>>

Next ==
  \/ part = "codec" /\ CodecNext /\ UNCHANGED <<part, proxyVars, rulesVars>>
  \/ TasksPart(ProxyNext)
  \/ FramesPart(RulesNext)

\* The tasks of the proxy run whenever they can: they wait for nothing but the
\* channels and the sockets they read.
Fairness == WF_vars(TasksPart(ProxyStep)) /\ WF_vars(FramesPart(RulesStep))

Spec == Init /\ [][Next]_vars /\ Fairness

MCSetups ==
  {[nodes |-> <<"real">>, real |-> {"real"}, limit |-> [n \in {"real"} |-> 1]],
   [nodes |-> <<"dry">>, real |-> {}, limit |-> [n \in {"dry"} |-> 2]],
   [nodes |-> <<"dry", "real">>, real |-> {"real"}, limit |-> [n \in {"dry", "real"} |-> IF n = "dry" THEN 1 ELSE 0]]}

Rule(when, reaction) == [when |-> when, reaction |-> reaction]

MCRuleSets ==
  {[requests |-> <<>>, responses |-> <<>>],
   [requests |-> <<Rule(RequestOpcodeIs("startup"), ForgeResponse("ready")), Rule(BodyContains("pattern"), Noop)>>,
    responses |-> <<>>],
   [requests |-> <<Rule(And(RequestOpcodeIs("query"), TrueForLimitedTimes(1)), ForgeResponse("error"))>>,
    responses |-> <<Rule(And(RegisteredAnyEvent, Not(ResponseOpcodeIs("ready"))), Noop)>>],
   [requests |-> <<Rule(AllOf(<<RequestOpcodeIs("query"), TrueForLimitedTimes(2)>>), DropFrame)>>,
    responses |-> <<Rule(AnyOf(<<ResponseOpcodeIs("result"), ConnectionSeqNo(1)>>), ForgeResponse("query"))>>],
   [requests |-> <<Rule(And(RequestOpcodeIs("register"), RandomWithProbability), Noop),
                   Rule(Or(False_, And(RequestOpcodeIs("query"), ResponseOpcodeIs("result"))), DropFrame)>>,
    responses |-> <<Rule(True_, Noop)>>]}

MCPatterns == [op \in {"startup", "register", "query", "ready", "result", "error"} |-> IF op = "query" THEN {"pattern"} ELSE {}]

\* The proxy does no harm to the test it serves: to its connections or its frames.
ProxySound == ProxyTasksSound /\ ProxyFramesSound

\* The proxy does not keep a test waiting: finish returns, connections that a rule
\* drops end, frames arrive.
ProxySettles == FinishEnds /\ DroppedConnectionsEnd /\ FramesSettle
=============================================================================
