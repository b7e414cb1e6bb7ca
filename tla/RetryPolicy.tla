---------------------------- MODULE RetryPolicy ----------------------------
(***************************************************************************)
(* The retry policies of the driver (scylla/src/policies/retry): what a    *)
(* retry session decides after a failed attempt.  A session is the set of  *)
(* the flags it has raised so far.  An error keeps what the policies look  *)
(* at: its kind, how many replicas answered or are alive (known_ok), how   *)
(* many were required, whether data came with a read, and the type of a    *)
(* write.                                                                  *)
(***************************************************************************)
EXTENDS Naturals

CONSTANTS
  Replicas,      \* the replication factor, which fixes what a level requires
  ErrorKinds,    \* the kinds of errors that attempts meet
  None           \* the absence of an error, of a level, of a result

ASSUME ReplicasAssumption == Replicas \in Nat \ {0}
-----------------------------------------------------------------------------
Consistencies == {"One", "Two", "Three", "Quorum", "EachQuorum", "Serial"}

IsSerial(cl) == cl = "Serial"

\* How many replicas must answer, in the data centre a node reports about.
Required(cl) ==
  CASE cl = "One"   -> 1
    [] cl = "Two"   -> 2
    [] cl = "Three" -> 3
    [] OTHER        -> Replicas \div 2 + 1

\* The trouble of one node, after which the request may have been applied.
NodeTrouble == {"BrokenConnection", "Overloaded", "ServerError", "TruncateError"}

\* RequestAttemptError, of the kinds that the policies or can_be_ignored tell
\* apart; "Invalid" stands for the errors that any node would give.
AttemptErrorKinds ==
  NodeTrouble \cup {"IsBootstrapping", "UnableToAllocStreamId", "Invalid", "WriteFailure",
                    "Unavailable", "ReadTimeout", "WriteTimeout"}

ASSUME ErrorKindsAssumption == ErrorKinds \subseteq AttemptErrorKinds

AttemptError(kind, known_ok, cl, data, write_type) ==
  [kind |-> kind, known_ok |-> known_ok, required |-> Required(cl), data |-> data,
   write_type |-> write_type]

\* What an attempt at level cl may fail with: a coordinator that reports a lack of
\* replicas has counted fewer than the level requires, except for a read that
\* only got digests.
AttemptErrors(cl) ==
  LET few == 0..(Required(cl) - 1) IN
     {AttemptError(k, 0, cl, FALSE, None) :
        k \in ErrorKinds \ {"Unavailable", "ReadTimeout", "WriteTimeout"}}
  \cup {AttemptError(k, n, cl, FALSE, None) : k \in ErrorKinds \cap {"Unavailable"}, n \in few}
  \cup {AttemptError(k, n, cl, d, None) :
          k \in ErrorKinds \cap {"ReadTimeout"}, n \in 0..Required(cl), d \in BOOLEAN}
  \cup {AttemptError(k, n, cl, FALSE, t) :
          k \in ErrorKinds \cap {"WriteTimeout"}, n \in few,
          t \in {"Simple", "UnloggedBatch", "BatchLog"}}

\* The errors after which the request was certainly not applied by the node:
\* it was not sent, was refused before it was executed, or was a read.
NotApplied(e) ==
  e.kind \in {"UnableToAllocStreamId", "IsBootstrapping", "Unavailable", "ReadTimeout"}
-----------------------------------------------------------------------------
(* RetryDecision, with the session it leaves behind. *)
Decision(what, cl, session) == [what |-> what, cl |-> cl, session |-> session]

DontRetry(s) == Decision("DontRetry", None, s)
RetryNextTarget(s) == Decision("RetryNextTarget", None, s)
RetrySameTarget(cl, s) == Decision("RetrySameTarget", cl, s)

\* An error that is retried once: the flag is raised with the retry.
Once(flag, s, d) == IF flag \in s THEN DontRetry(s) ELSE d

FallthroughDecide(s, e, is_idempotent, cl) == DontRetry(s)

\* Mutant: a write that may have been applied is sent again all the same.
DefaultDecideBlind(s, e, is_idempotent, cl) ==
  IF e.kind \in NodeTrouble THEN RetryNextTarget(s) ELSE DontRetry(s)

\* Mutant: the session does not remember that it has retried after a timeout.
DefaultDecideForgets(s, e, is_idempotent, cl) ==
  IF e.kind = "ReadTimeout" /\ e.known_ok >= e.required /\ ~e.data
  THEN RetrySameTarget(None, s)
  ELSE DontRetry(s)

DefaultDecide(s, e, is_idempotent, cl) ==
  CASE IsSerial(cl) -> DontRetry(s)
    [] ~IsSerial(cl) /\ e.kind \in NodeTrouble ->
         IF is_idempotent THEN RetryNextTarget(s) ELSE DontRetry(s)
    [] ~IsSerial(cl) /\ e.kind = "Unavailable" ->
         Once("unavailable", s, RetryNextTarget(s \cup {"unavailable"}))
    [] ~IsSerial(cl) /\ e.kind = "ReadTimeout" ->
         IF e.known_ok >= e.required /\ ~e.data
         THEN Once("read_timeout", s, RetrySameTarget(None, s \cup {"read_timeout"}))
         ELSE DontRetry(s)
    [] ~IsSerial(cl) /\ e.kind = "WriteTimeout" ->
         IF is_idempotent /\ e.write_type = "BatchLog"
         THEN Once("write_timeout", s, RetrySameTarget(None, s \cup {"write_timeout"}))
         ELSE DontRetry(s)
    [] ~IsSerial(cl) /\ e.kind \in {"IsBootstrapping", "UnableToAllocStreamId"} ->
         RetryNextTarget(s)
    [] OTHER -> DontRetry(s)

\* Mutant: one replica more than is known to be there is asked for.
MaxLikelyToWorkClOneMore(known_ok, previous_cl, s) ==
  CASE known_ok >= 2 -> RetrySameTarget("Three", s)
    [] known_ok = 1 -> RetrySameTarget("Two", s)
    [] OTHER -> RetrySameTarget("One", s)

MaxLikelyToWorkCl(known_ok, previous_cl, s) ==
  CASE known_ok >= 3 -> RetrySameTarget("Three", s)
    [] known_ok = 2 -> RetrySameTarget("Two", s)
    [] known_ok = 1 \/ (known_ok = 0 /\ previous_cl = "EachQuorum") -> RetrySameTarget("One", s)
    [] OTHER -> DontRetry(s)

DowngradingDecide(s, e, is_idempotent, cl) ==
  LET retried == s \cup {"retry"} IN
  CASE IsSerial(cl) ->
         IF e.kind = "Unavailable" THEN RetryNextTarget(s) ELSE DontRetry(s)
    [] ~IsSerial(cl) /\ e.kind \in NodeTrouble ->
         IF is_idempotent THEN RetryNextTarget(s) ELSE DontRetry(s)
    [] ~IsSerial(cl) /\ e.kind = "Unavailable" ->
         Once("retry", s, MaxLikelyToWorkCl(e.known_ok, cl, retried))
    [] ~IsSerial(cl) /\ e.kind = "ReadTimeout" ->
         Once("retry", s,
              IF e.known_ok < e.required THEN MaxLikelyToWorkCl(e.known_ok, cl, retried)
              ELSE IF ~e.data THEN RetrySameTarget(None, retried) ELSE DontRetry(s))
    [] ~IsSerial(cl) /\ e.kind = "WriteTimeout" ->
         IF ~is_idempotent THEN DontRetry(s)
         ELSE Once("retry", s,
                CASE e.write_type = "Simple" /\ e.known_ok > 0 ->
                       Decision("IgnoreWriteError", None, retried)
                  [] e.write_type = "UnloggedBatch" ->
                       MaxLikelyToWorkCl(e.known_ok, cl, retried)
                  [] e.write_type = "BatchLog" -> RetrySameTarget(None, retried)
                  [] OTHER -> DontRetry(retried))
    [] ~IsSerial(cl) /\ e.kind \in {"IsBootstrapping", "UnableToAllocStreamId"} ->
         RetryNextTarget(s)
    [] OTHER -> DontRetry(s)

Policies == {"default", "downgrading", "fallthrough"}

\* RetrySession::decide_should_retry of the session's policy.
DecideShouldRetry(policy, s, e, is_idempotent, cl) ==
  CASE policy = "default"     -> DefaultDecide(s, e, is_idempotent, cl)
    [] policy = "downgrading" -> DowngradingDecide(s, e, is_idempotent, cl)
    [] policy = "fallthrough" -> FallthroughDecide(s, e, is_idempotent, cl)
=============================================================================
