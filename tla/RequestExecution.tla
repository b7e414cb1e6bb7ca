-------------------------- MODULE RequestExecution --------------------------
(***************************************************************************)
(* The execution of one request: Session::run_request with its fibers      *)
(* (run_request_speculative_fiber), the loop that starts speculative       *)
(* fibers (speculative_execution::execute) and the request timeout.        *)
(*                                                                         *)
(* The load balancing plan is a list of `plan` targets that the fibers     *)
(* share; `next` of them have been taken.  A fiber takes the next target,  *)
(* chooses a connection, sends an attempt, and asks its retry session what *)
(* to do after an error.  A fiber that ends is handled by the select loop  *)
(* in the same step.  Once there is a result, the other fibers are         *)
(* dropped.                                                                *)
(***************************************************************************)
EXTENDS RetryPolicy, FiniteSets

CONSTANTS
  MaxPlan,          \* bound on the length of a plan
  MaxRetryCount,    \* bound on max_retry_count of the speculative policy
  Levels            \* the consistency levels a statement may ask for

\* RequestError, by kind
RequestErrors == AttemptErrorKinds \cup {"ConnectionPoolError", "EmptyPlan", "RequestTimeout"}

ASSUME ExecutionAssumption ==
  /\ MaxPlan \in Nat
  /\ MaxRetryCount \in Nat
  /\ Levels \subseteq Consistencies
  /\ None \notin RequestErrors \cup {"Completed", "IgnoredWriteError"} \cup Consistencies

Fibers == 0..MaxRetryCount
-----------------------------------------------------------------------------
VARIABLES
  statement,          \* the statement and its profile, fixed for the request
  plan,               \* number of targets in the plan
  next,               \* number of targets taken from it
  fiber,              \* the fibers
  retries_remaining,  \* speculative fibers that may still be started
  sleeping,           \* the timer of the next speculative fiber is armed
  last_error,         \* the last ignorable error of a fiber, in execute
  result,             \* result of the runner
  attempts,           \* number of attempts sent, of all fibers
  applied             \* number of answered attempts that may have been applied

vars == <<statement, plan, next, fiber, retries_remaining, sleeping, last_error, result,
          attempts, applied>>

Statements ==
  [is_idempotent: BOOLEAN, speculative: BOOLEAN, max_retry_count: 0..MaxRetryCount,
   consistency: Levels, retry_policy: Policies]

\* Mutant: speculation without regard to idempotence.
SpeculatingAlways == statement.speculative

Speculating == statement.speculative /\ statement.is_idempotent

NewFiber ==
  [at |-> "plan", consistency |-> statement.consistency,
   session |-> {}, last_error |-> None]

Unborn == [at |-> "unborn", consistency |-> None, session |-> {}, last_error |-> None]

Live(f) == fiber[f].at \in {"plan", "connect", "sent"}

Init ==
  /\ statement \in Statements
  /\ ~Speculating => statement.max_retry_count = 0
  /\ plan \in 0..MaxPlan
  /\ next = 0
  /\ fiber = [f \in Fibers |-> IF f = 0 THEN NewFiber ELSE Unborn]
  /\ retries_remaining = statement.max_retry_count
  /\ sleeping = Speculating
  /\ last_error = None
  /\ result = None
  /\ attempts = 0
  /\ applied = 0
-----------------------------------------------------------------------------
(* speculative_execution: what becomes of the output of a fiber. *)

\* DbError::can_speculative_retry
CanSpeculativeRetry(kind) ==
  kind \in {"Unavailable", "Overloaded", "IsBootstrapping", "ReadTimeout", "WriteTimeout",
            "WriteFailure", "ServerError"}

\* can_be_ignored
CanBeIgnored(out) ==
  \/ out \in {"ConnectionPoolError", "BrokenConnection", "UnableToAllocStreamId"}
  \/ CanSpeculativeRetry(out)

\* Mutant: an empty plan of one fiber ends the request at once.
CollectEagerly(f, out) ==
  LET running == {g \in Fibers \ {f} : Live(g)}
      last    == IF CanBeIgnored(out) THEN out ELSE last_error
  IN  /\ retries_remaining' = IF out = None THEN 0 ELSE retries_remaining
      /\ last_error' = last
      /\ result' = IF out # None /\ ~CanBeIgnored(out) THEN out
                   ELSE IF out = None \/ (running = {} /\ retries_remaining' = 0)
                        THEN IF last = None THEN "EmptyPlan" ELSE last
                        ELSE None

\* Fiber f, the one that was polled, ends with out (None if there was no target
\* for it); without speculation this is the result of the request.
Collect(f, out) ==
  LET running == {g \in Fibers \ {f} : Live(g)}
      last    == IF CanBeIgnored(out) THEN out ELSE last_error
  IN  IF Speculating
      THEN /\ retries_remaining' = IF out = None THEN 0 ELSE retries_remaining
           /\ last_error' = last
           /\ result' = IF out # None /\ ~CanBeIgnored(out) THEN out
                        ELSE IF running = {} /\ retries_remaining' = 0
                             THEN IF last = None THEN "EmptyPlan" ELSE last
                             ELSE None
      ELSE /\ result' = IF out = None THEN "EmptyPlan" ELSE out
           /\ UNCHANGED <<retries_remaining, last_error>>

\* The number of the next fiber.
Started == Cardinality({f \in Fibers : fiber[f].at # "unborn"})

\* Mutant: the timer is not armed again for the fiber after the next.
SleepOverOnce ==
  /\ result = None /\ sleeping
  /\ sleeping' = FALSE
  /\ IF retries_remaining > 0
     THEN /\ fiber' = [fiber EXCEPT ![Started] = NewFiber]
          /\ retries_remaining' = retries_remaining - 1
     ELSE UNCHANGED <<fiber, retries_remaining>>
  /\ UNCHANGED <<statement, plan, next, last_error, result, attempts, applied>>

\* The timer fires: one more fiber, if any is left, and the timer is armed again.
SleepOver ==
  /\ result = None /\ sleeping
  /\ IF retries_remaining > 0
     THEN /\ fiber' = [fiber EXCEPT ![Started] = NewFiber]
          /\ retries_remaining' = retries_remaining - 1
          /\ UNCHANGED sleeping
     ELSE /\ sleeping' = FALSE
          /\ UNCHANGED <<fiber, retries_remaining>>
  /\ UNCHANGED <<statement, plan, next, last_error, result, attempts, applied>>
-----------------------------------------------------------------------------
(* run_request_speculative_fiber *)

\* Fiber f ends with output out.
End(f, out) ==
  /\ fiber' = [fiber EXCEPT ![f] = [Unborn EXCEPT !.at = "ended"]]
  /\ Collect(f, out)

\* Fiber f goes on as g; nothing is reported to the select loop.
GoOn(f, g) ==
  /\ fiber' = [fiber EXCEPT ![f] = g]
  /\ UNCHANGED <<retries_remaining, last_error, result>>

\* The head of 'nodes_in_plan: the next target of the shared plan, or the end
\* of the fiber with its last error, if it has had any.
NextTarget(f) ==
  /\ result = None /\ fiber[f].at = "plan"
  /\ IF next < plan
     THEN /\ next' = next + 1
          /\ GoOn(f, [fiber[f] EXCEPT !.at = "connect"])
     ELSE /\ End(f, fiber[f].last_error)
          /\ UNCHANGED next
  /\ UNCHANGED <<statement, plan, sleeping, attempts, applied>>

\* The head of 'same_node_retries: a connection of the node's pool.
ChooseConnection(f) ==
  /\ result = None /\ fiber[f].at = "connect"
  /\ \/ /\ GoOn(f, [fiber[f] EXCEPT !.at = "sent"])
        /\ attempts' = attempts + 1
     \/ /\ GoOn(f, [fiber[f] EXCEPT !.at = "plan",
                                    !.last_error = "ConnectionPoolError"])
        /\ UNCHANGED attempts
  /\ UNCHANGED <<statement, plan, next, sleeping, applied>>

\* The answer to an attempt is a result.
AttemptSucceeds(f) ==
  /\ result = None /\ fiber[f].at = "sent"
  /\ End(f, "Completed")
  /\ applied' = applied + 1
  /\ UNCHANGED <<statement, plan, next, sleeping, attempts>>

\* What the retry session is told: error, idempotence, and the consistency of
\* the statement (not that of the attempt).
Decide(f, e) ==
  DecideShouldRetry(statement.retry_policy, fiber[f].session, e, statement.is_idempotent,
                    statement.consistency)

\* The attempt fails with e, and the retry session decides what to do.
AttemptFails(f, e) ==
  /\ result = None /\ fiber[f].at = "sent"
  /\ LET d == Decide(f, e)
         g == [fiber[f] EXCEPT !.session = d.session, !.last_error = e.kind,
                               !.consistency = IF d.cl = None THEN @ ELSE d.cl]
     IN  \/ d.what = "RetrySameTarget"  /\ GoOn(f, [g EXCEPT !.at = "connect"])
         \/ d.what = "RetryNextTarget"  /\ GoOn(f, [g EXCEPT !.at = "plan"])
         \/ d.what = "DontRetry"        /\ End(f, e.kind)
         \/ d.what = "IgnoreWriteError" /\ End(f, "IgnoredWriteError")
  /\ applied' = IF NotApplied(e) THEN applied ELSE applied + 1
  /\ UNCHANGED <<statement, plan, next, sleeping, attempts>>

\* tokio::time::timeout around the runner.  A request without a timeout is one
\* that never takes this step.
Timeout ==
  /\ result = None
  /\ result' = "RequestTimeout"
  /\ UNCHANGED <<statement, plan, next, fiber, retries_remaining, sleeping, last_error,
                 attempts, applied>>

\* The request has been answered.
Done == result # None /\ UNCHANGED vars

Answer(f) ==
  \/ AttemptSucceeds(f)
  \/ \E e \in AttemptErrors(fiber[f].consistency) : AttemptFails(f, e)

Next ==
  \/ SleepOver \/ Timeout \/ Done
  \/ \E f \in Fibers : NextTarget(f) \/ ChooseConnection(f) \/ Answer(f)

\* The timer of speculation fires and the fibers are polled.  Neither that nodes
\* answer nor that there is a request timeout is assumed.
Fairness ==
  /\ WF_vars(SleepOver)
  /\ \A f \in Fibers : WF_vars(NextTarget(f) \/ ChooseConnection(f))

Spec == Init /\ [][Next]_vars /\ Fairness
-----------------------------------------------------------------------------
(* Properties *)

\* What a fiber, or the loop of execute, remembers of an error.
LastErrors == AttemptErrorKinds \cup {"ConnectionPoolError", None}

\* The fields of a fiber, the counters and the results have the types of the code.
TypeOK ==
  /\ statement \in Statements
  /\ plan \in 0..MaxPlan
  /\ next \in 0..plan
  /\ fiber \in [Fibers -> [at: {"unborn", "plan", "connect", "sent", "ended"},
                           consistency: Consistencies \cup {None},
                           session: SUBSET {"unavailable", "read_timeout", "write_timeout", "retry"},
                           last_error: LastErrors]]
  /\ retries_remaining \in 0..statement.max_retry_count
  /\ sleeping \in BOOLEAN
  /\ last_error \in LastErrors
  /\ result \in RequestErrors \cup {"Completed", "IgnoredWriteError", None}
  /\ attempts \in Nat
  /\ applied \in 0..attempts

\* A statement that is not known to be idempotent is never sent again once an
\* attempt may have been applied: neither by a retry (the policies look at
\* is_idempotent) nor by a speculative fiber (run_request does), over all the
\* attempts of all fibers, the unanswered ones included.
NoDoubleApply ==
  ~statement.is_idempotent =>
     applied + Cardinality({f \in Fibers : fiber[f].at = "sent"}) <= 1

\* EmptyPlan is reported only for an empty plan: a fiber that finds the shared
\* plan used up ends with nothing, but those that used it up bring an error.
EmptyPlanMeansEmpty ==
  result = "EmptyPlan" => plan = 0

\* With speculation, an error that another node might not give is returned only
\* when no fiber is running any more, and all the fibers the policy allows have
\* been started or the plan has been used up.
ErrorIsLast ==
  (Speculating /\ CanBeIgnored(result)) =>
     /\ \A f \in Fibers : ~Live(f)
     /\ Started = 1 + statement.max_retry_count \/ next = plan

\* An error that the user gets is final: no fiber could still have had a result.
ErrorsAreFinal == EmptyPlanMeansEmpty /\ ErrorIsLast

\* How often a session retries on the same target.
SameTargetRetries ==
  CASE statement.retry_policy = "default" -> 2
    [] statement.retry_policy = "downgrading" -> 1
    [] statement.retry_policy = "fallthrough" -> 0

\* However the nodes answer, the attempts are bounded by the plan and by the
\* flags of the retry sessions, one session for each fiber.
AttemptsBounded == attempts <= next + SameTargetRetries * Started

\* Fewer replicas, or as many at most in one data centre instead of in each.
Lower(cl, than) ==
  \/ Required(cl) < Required(than)
  \/ than = "EachQuorum" /\ Required(cl) <= Required(than)

\* A retry at another level is a retry at a lower level, as the documentation of
\* the downgrading policy says, also when it follows retries on other targets.
ConsistencyOnlyLowered ==
  [][\A f \in Fibers :
       (fiber[f].at = "sent" /\ Live(f)' /\ fiber'[f].consistency # fiber[f].consistency) =>
          Lower(fiber'[f].consistency, fiber[f].consistency)]_vars

\* If no attempt stays unanswered for ever, the request ends even without a
\* timeout: retries do not go on for ever, and the loop of execute never waits
\* for a timer that is not armed.
EveryRequestEnds ==
  (\A f \in Fibers : []<>(fiber[f].at # "sent")) => <>(result # None)
=============================================================================
