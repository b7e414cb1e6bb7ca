----------------------------- MODULE MCStatements -----------------------------
(***************************************************************************)
(* What happens around the execution of statements: paging, prepared       *)
(* statements, their cache, and the setup of the connections.  The parts   *)
(* do not share state; a behaviour is a behaviour of one of them.          *)
(***************************************************************************)
EXTENDS Pager, Repreparation, CachingSession, ConnectionSetup

VARIABLE part

vars == <<part, pagerVars, reprepareVars, cachingVars, setupVars>>

PagerIdle ==
  /\ iteration = [is_idempotent |-> TRUE] /\ worker = [at |-> "done"] /\ channel = <<>> /\ hist = NewCollector
  /\ pager = [at |-> "dropped", pages |-> <<>>] /\ tries = <<>> /\ doubtful = 0

ReprepareIdle ==
  /\ remembered = {} /\ space = {} /\ version = 1 /\ statements = {} /\ op = NoOp /\ events = 0

CachingIdle ==
  /\ max_capacity = 0 /\ cache = {} /\ caller = {} /\ raced = FALSE /\ executions = 0

SetupIdle ==
  /\ conf = {} /\ peer = {} /\ setup = [at |-> "failed"] /\ frame = NoFrame

Init ==
  \/ part = "pager" /\ PagerInit /\ ReprepareIdle /\ CachingIdle /\ SetupIdle
  \/ part = "reprepare" /\ PagerIdle /\ ReprepareInit /\ CachingIdle /\ SetupIdle
  \/ part = "caching" /\ PagerIdle /\ ReprepareIdle /\ CachingInit /\ SetupIdle
  \/ part = "setup" /\ PagerIdle /\ ReprepareIdle /\ CachingIdle /\ SetupInit

PagerPart(A) == part = "pager" /\ A /\ UNCHANGED <<part, reprepareVars, cachingVars, setupVars>>
RepreparePart(A) == part = "reprepare" /\ A /\ UNCHANGED <<part, pagerVars, cachingVars, setupVars>>

Next ==
  \/ PagerPart(PagerNext)
  \/ RepreparePart(ReprepareNext)
  \/ part = "caching" /\ CachingNext /\ UNCHANGED <<part, pagerVars, reprepareVars, setupVars>>
  \/ part = "setup" /\ SetupNext /\ UNCHANGED <<part, pagerVars, reprepareVars, cachingVars>>

\* The worker of the pager is a task of its own, and the nodes answer it; the
\* user polls the pager until it ends or is dropped.  The requests of prepared
\* statements are answered.
Fairness ==
  /\ WF_vars(PagerPart(WorkerStep))
  /\ WF_vars(PagerPart(UserStep))
  /\ WF_vars(RepreparePart(ClientStep))

Spec == Init /\ [][Next]_vars /\ Fairness

\* One empty page, and two pages of which the first is empty.
MCPageRows == {<<0>>, <<0, 1>>}

MCHosts == <<"h1", "h2">>

Given(text, kind) == [text |-> text, kind |-> kind]

\* One text twice with values, a mixture, and two prepared statements.
MCBatches ==
  {<<Given("a", "values"), Given("b", "query"), Given("a", "values")>>,
   <<Given("a", "prepared"), Given("b", "values")>>,
   <<Given("a", "prepared"), Given("b", "prepared")>>}

\* What was started for a statement comes to an end: the worker of a pager that
\* was dropped, an iteration that is polled, and every operation on prepared
\* statements.
StatementsEnd == DropStopsWorker /\ IterationEnds /\ OperationsEnd
=============================================================================
