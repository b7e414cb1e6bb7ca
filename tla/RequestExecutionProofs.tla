----------------------- MODULE RequestExecutionProofs -----------------------
(***************************************************************************)
(* Proofs of the safety properties of RequestExecution for every length of *)
(* the plan, every number of speculative fibers, every replication factor  *)
(* and all answers of the nodes.  The inductive invariant says which       *)
(* fibers exist, who has an error to show for the targets that were taken, *)
(* that the one fiber of a statement that is not idempotent ends with the  *)
(* attempt that may have been applied, and pays for every attempt with a   *)
(* target of the plan or a flag of a retry session.                        *)
(***************************************************************************)
EXTENDS RequestExecution, FiniteSetTheorems, TLAPS

Flags == {"unavailable", "read_timeout", "write_timeout", "retry"}

\* The flags that a session raises with a retry on the same target.
FlagsOf(policy) ==
  CASE policy = "default" -> {"read_timeout", "write_timeout"}
    [] policy = "downgrading" -> {"retry"}
    [] policy = "fallthrough" -> {}

SameTargetFlags == FlagsOf(statement.retry_policy)

Born == {f \in Fibers : fiber[f].at # "unborn"}
Sent == {f \in Fibers : fiber[f].at = "sent"}
Connecting == {f \in Fibers : fiber[f].at = "connect"}

\* The retries on the same target that were paid for; those of a fiber that has
\* ended count as used up.
Paid ==
  {p \in Fibers \X SameTargetFlags : fiber[p[1]].at = "ended" \/ p[2] \in fiber[p[1]].session}

\* Fibers are started one after the other, and none without speculation.
FibersInOrder ==
  /\ \E n \in 1..(MaxRetryCount + 1) :
        /\ Born = 0..(n - 1)
        /\ n + retries_remaining <= 1 + statement.max_retry_count
        /\ n + retries_remaining = 1 + statement.max_retry_count \/ next = plan
  /\ sleeping => Speculating
  /\ ~Speculating => statement.max_retry_count = 0
  /\ \A f \in Fibers : fiber[f].at = "unborn" => fiber[f].session = {}

\* The one fiber of a statement that is not idempotent is gone once an attempt
\* may have been applied.
AppliedOnce ==
  ~statement.is_idempotent => applied = 0 \/ (applied = 1 /\ \A f \in Fibers : ~Live(f))

\* Somebody has an error, or will have an answer, for the targets that were taken.
TargetsAccountedFor ==
  result = None /\ next > 0 =>
    \/ last_error # None
    \/ \E f \in Fibers : \/ fiber[f].at \in {"connect", "sent"}
                         \/ fiber[f].at = "plan" /\ fiber[f].last_error # None

\* Every attempt has its target in the plan or its flag in a session.
AttemptsPaid == attempts + Cardinality(Connecting) <= next + Cardinality(Paid)

\* Until a session lowers the consistency, a fiber uses that of the statement.
LoweredOnce ==
  \A f \in Fibers :
     Live(f) /\ "retry" \notin fiber[f].session => fiber[f].consistency = statement.consistency

\* Only the loop of execute keeps an error.
NoErrorKept == ~Speculating => last_error = None

\* The inductive invariant.
RequestInv ==
  /\ TypeOK
  /\ applied + Cardinality(Sent) <= attempts
  /\ FibersInOrder
  /\ AppliedOnce
  /\ TargetsAccountedFor
  /\ ErrorsAreFinal
  /\ AttemptsPaid
  /\ LoweredOnce
  /\ NoErrorKept

-----------------------------------------------------------------------------
(* What a retry session decides *)

\* A retry on the same target raises a flag that the session had not raised, so
\* that it happens once for each flag; after an error that leaves it open whether
\* the request was applied, only an idempotent one is retried; the consistency
\* is changed at most once in a session.
DecisionSound(d, policy, s, e, is_idempotent) ==
  /\ d.what \in {"DontRetry", "RetryNextTarget", "RetrySameTarget", "IgnoreWriteError"}
  /\ d.session \in SUBSET Flags /\ s \subseteq d.session
  /\ d.cl \in Consistencies \cup {None}
  /\ d.what \in {"RetryNextTarget", "RetrySameTarget"} => is_idempotent \/ NotApplied(e)
  /\ d.what = "RetrySameTarget" =>
       \E flag \in FlagsOf(policy) : flag \notin s /\ d.session = s \cup {flag}
  /\ d.cl # None => "retry" \in d.session /\ "retry" \notin s

\* The level that is likely to work is tried on the same target, or not at all.
LEMMA MaxLikelyDecision ==
  ASSUME NEW known_ok, NEW cl, NEW s
  PROVE  MaxLikelyToWorkCl(known_ok, cl, s)
            \in {RetrySameTarget(c, s) : c \in {"One", "Two", "Three"}} \cup {DontRetry(s)}
<1>1. CASE known_ok >= 3
  BY <1>1, Zenon DEF MaxLikelyToWorkCl
<1>2. CASE ~(known_ok >= 3)
  BY <1>2, Zenon DEF MaxLikelyToWorkCl
<1> QED BY <1>1, <1>2, Zenon

\* The decisions of the default session are sound.
LEMMA DefaultDecisionSound ==
  ASSUME NEW s \in SUBSET Flags, NEW e, NEW is_idempotent \in BOOLEAN, NEW cl
  PROVE  DecisionSound(DefaultDecide(s, e, is_idempotent, cl), "default", s, e, is_idempotent)
BY DEF DecisionSound, DefaultDecide, DontRetry, RetryNextTarget, RetrySameTarget, Decision, Once,
       Flags, FlagsOf, NotApplied

\* The decisions of the downgrading session are sound.
LEMMA DowngradingDecisionSound ==
  ASSUME NEW s \in SUBSET Flags, NEW e, NEW is_idempotent \in BOOLEAN, NEW cl
  PROVE  DecisionSound(DowngradingDecide(s, e, is_idempotent, cl), "downgrading", s, e, is_idempotent)
<1> DEFINE d == DowngradingDecide(s, e, is_idempotent, cl)
           retried == s \cup {"retry"}
<1>1. retried \in SUBSET Flags
  BY Zenon DEF Flags
<1>2. ASSUME d = DontRetry(s) \/ d = DontRetry(retried) \/ d = Decision("IgnoreWriteError", None, retried)
      PROVE  DecisionSound(d, "downgrading", s, e, is_idempotent)
  <2> HIDE DEF d
  <2> QED BY <1>1, <1>2 DEF DecisionSound, DontRetry, Decision
<1>3. ASSUME d = RetryNextTarget(s), is_idempotent \/ NotApplied(e)
      PROVE  DecisionSound(d, "downgrading", s, e, is_idempotent)
  <2> HIDE DEF d
  <2> QED BY <1>1, <1>3, Zenon DEF DecisionSound, RetryNextTarget, Decision
<1>4. ASSUME NEW c \in Consistencies \cup {None}, d = RetrySameTarget(c, retried), "retry" \notin s,
             is_idempotent \/ NotApplied(e)
      PROVE  DecisionSound(d, "downgrading", s, e, is_idempotent)
  <2> HIDE DEF d
  <2> QED BY <1>1, <1>4, Zenon DEF DecisionSound, RetrySameTarget, Decision, FlagsOf
<1>5. CASE d \in {DontRetry(s), DontRetry(retried), Decision("IgnoreWriteError", None, retried)}
  BY <1>2, <1>5, Zenon
<1>6. CASE d = RetryNextTarget(s) /\ (is_idempotent \/ NotApplied(e))
  BY <1>3, <1>6, Zenon
<1>7. CASE /\ \E c \in Consistencies \cup {None} : d = RetrySameTarget(c, retried)
           /\ "retry" \notin s
           /\ is_idempotent \/ NotApplied(e)
  BY <1>4, <1>7, Zenon
<1>8. \/ d \in {DontRetry(s), DontRetry(retried), Decision("IgnoreWriteError", None, retried)}
      \/ d = RetryNextTarget(s) /\ (is_idempotent \/ NotApplied(e))
      \/ /\ \E c \in Consistencies \cup {None} : d = RetrySameTarget(c, retried)
         /\ "retry" \notin s
         /\ is_idempotent \/ NotApplied(e)
  <2>1. CASE IsSerial(cl)
    BY <2>1, Zenon DEF DowngradingDecide, NotApplied
  <2>2. CASE ~IsSerial(cl) /\ e.kind \in NodeTrouble
    <3>1. d = IF is_idempotent THEN RetryNextTarget(s) ELSE DontRetry(s)
      BY <2>2, Zenon DEF DowngradingDecide, NodeTrouble
    <3> HIDE DEF d
    <3> QED BY <3>1, Zenon
  <2>3. CASE ~IsSerial(cl) /\ e.kind = "Unavailable"
    BY <2>3, MaxLikelyDecision DEF DowngradingDecide, NodeTrouble, Once, NotApplied, Consistencies
  <2>4. CASE ~IsSerial(cl) /\ e.kind = "ReadTimeout"
    BY <2>4, MaxLikelyDecision DEF DowngradingDecide, NodeTrouble, Once, NotApplied, Consistencies
  <2>5. CASE ~IsSerial(cl) /\ e.kind = "WriteTimeout"
    BY <2>5, MaxLikelyDecision DEF DowngradingDecide, NodeTrouble, Once, Consistencies
  <2>6. CASE ~IsSerial(cl) /\ e.kind \notin NodeTrouble \cup {"Unavailable", "ReadTimeout", "WriteTimeout"}
    BY <2>6, Zenon DEF DowngradingDecide, NotApplied
  <2> QED BY <2>1, <2>2, <2>3, <2>4, <2>5, <2>6, Zenon
<1> QED BY <1>5, <1>6, <1>7, <1>8, Zenon

\* Whatever the policy, its decisions are sound.
LEMMA DecisionsSound ==
  ASSUME NEW policy \in Policies, NEW s \in SUBSET Flags, NEW e, NEW is_idempotent \in BOOLEAN,
         NEW cl
  PROVE  DecisionSound(DecideShouldRetry(policy, s, e, is_idempotent, cl), policy, s, e, is_idempotent)
<1>1. CASE policy = "default"
  BY <1>1, DefaultDecisionSound, Zenon DEF DecideShouldRetry
<1>2. CASE policy = "downgrading"
  BY <1>2, DowngradingDecisionSound, Zenon DEF DecideShouldRetry
<1>3. CASE policy = "fallthrough"
  BY <1>3, Zenon DEF DecideShouldRetry, FallthroughDecide, DecisionSound, DontRetry, Decision
<1> QED BY <1>1, <1>2, <1>3, Zenon DEF Policies

\* A level that the downgrading session changes to is lower than that of the
\* attempt that failed, because the error says how many replicas there are.
LEMMA DowngradeLowers ==
  ASSUME NEW policy \in Policies, NEW s \in SUBSET Flags, NEW is_idempotent \in BOOLEAN,
         NEW cl \in Consistencies, NEW e \in AttemptErrors(cl),
         DecideShouldRetry(policy, s, e, is_idempotent, cl).cl # None
  PROVE  Lower(DecideShouldRetry(policy, s, e, is_idempotent, cl).cl, cl)
<1> DEFINE d == DecideShouldRetry(policy, s, e, is_idempotent, cl)
           retried == s \cup {"retry"}
<1>1. Required(cl) \in Nat \ {0}
  BY ReplicasAssumption DEF Required, Consistencies
<1>2. /\ e.required = Required(cl) /\ e.known_ok \in Nat
      /\ e.kind \in {"Unavailable", "WriteTimeout"} => e.known_ok < Required(cl)
  BY <1>1 DEF AttemptErrors, AttemptError
<1>3. policy = "downgrading" /\ d = DowngradingDecide(s, e, is_idempotent, cl)
  <2>1. CASE policy = "default"
    BY <2>1, Zenon DEF DecideShouldRetry, DefaultDecide, DontRetry, RetryNextTarget, RetrySameTarget,
                Decision, Once
  <2>2. CASE policy = "fallthrough"
    BY <2>2, Zenon DEF DecideShouldRetry, FallthroughDecide, DontRetry, Decision
  <2> QED BY <2>1, <2>2, Zenon DEF Policies, DecideShouldRetry
<1>4. d = MaxLikelyToWorkCl(e.known_ok, cl, retried) /\ e.known_ok < Required(cl)
  <2>1. ASSUME NEW t, NEW what PROVE Decision(what, None, t).cl = None
    BY Zenon DEF Decision
  <2>2. CASE IsSerial(cl) \/ e.kind \in NodeTrouble
    BY <1>3, <2>1, <2>2, Zenon DEF DowngradingDecide, DontRetry, RetryNextTarget, NodeTrouble
  <2>3. CASE ~IsSerial(cl) /\ e.kind = "Unavailable"
    BY <1>2, <1>3, <2>1, <2>3, Zenon DEF DowngradingDecide, DontRetry, NodeTrouble, Once
  <2>4. CASE ~IsSerial(cl) /\ e.kind = "ReadTimeout"
    BY <1>2, <1>3, <2>1, <2>4, Zenon DEF DowngradingDecide, DontRetry, RetrySameTarget, NodeTrouble, Once
  <2>5. CASE ~IsSerial(cl) /\ e.kind = "WriteTimeout"
    BY <1>2, <1>3, <2>1, <2>5, Zenon DEF DowngradingDecide, DontRetry, RetrySameTarget, NodeTrouble, Once
  <2>6. CASE ~IsSerial(cl) /\ e.kind \notin NodeTrouble \cup {"Unavailable", "ReadTimeout", "WriteTimeout"}
    BY <1>3, <2>1, <2>6, Zenon DEF DowngradingDecide, DontRetry, RetryNextTarget
  <2> QED BY <2>2, <2>3, <2>4, <2>5, <2>6, Zenon
<1>5. \/ d.cl = "Three" /\ e.known_ok >= 3
      \/ d.cl = "Two" /\ e.known_ok = 2
      \/ d.cl = "One" /\ (e.known_ok = 1 \/ cl = "EachQuorum")
  <2>1. d.cl # None
    BY Zenon
  <2> HIDE DEF d
  <2> QED BY <1>2, <1>4, <2>1 DEF MaxLikelyToWorkCl, RetrySameTarget, DontRetry, Decision
<1>6. Required("One") = 1 /\ Required("Two") = 2 /\ Required("Three") = 3
  BY Zenon DEF Required
<1> HIDE DEF d
<1>7. Lower(d.cl, cl)
  BY <1>1, <1>2, <1>4, <1>5, <1>6 DEF Lower
<1> QED BY <1>7, Zenon DEF d

-----------------------------------------------------------------------------
(* Counting fibers *)

FiberType ==
  [at: {"unborn", "plan", "connect", "sent", "ended"}, consistency: Consistencies \cup {None},
   session: SUBSET Flags, last_error: LastErrors]

\* Sets of fibers are finite, and count as expected.
LEMMA FibersFinite ==
  /\ \A S \in SUBSET Fibers : IsFiniteSet(S) /\ Cardinality(S) \in Nat
  /\ \A S \in SUBSET Fibers, f \in Fibers :
       /\ f \notin S => Cardinality(S \cup {f}) = Cardinality(S) + 1
       /\ f \in S => Cardinality(S \ {f}) = Cardinality(S) - 1
       /\ f \notin S => Cardinality(S \ {f}) = Cardinality(S)
<1>1. IsFiniteSet(Fibers)
  BY ExecutionAssumption, FS_Interval DEF Fibers
<1>2. \A S \in SUBSET Fibers : IsFiniteSet(S) /\ Cardinality(S) \in Nat
  BY <1>1, FS_Subset, FS_CardinalityType, Zenon
<1>3. ASSUME NEW S \in SUBSET Fibers, NEW f \in Fibers
      PROVE  /\ f \notin S => Cardinality(S \cup {f}) = Cardinality(S) + 1
             /\ f \in S => Cardinality(S \ {f}) = Cardinality(S) - 1
             /\ f \notin S => Cardinality(S \ {f}) = Cardinality(S)
  BY <1>2, FS_AddElement, FS_RemoveElement, Zenon
<1> QED BY <1>2, <1>3, Zenon

\* The flags of the sessions that were paid for are finitely many, at most as
\* many as the fibers that were started allow.
LEMMA PaidFinite ==
  ASSUME TypeOK, \A f \in Fibers : fiber[f].at = "unborn" => fiber[f].session = {}
  PROVE  /\ IsFiniteSet(Fibers \X SameTargetFlags)
         /\ IsFiniteSet(Paid) /\ Cardinality(Paid) \in Nat
         /\ Cardinality(Paid) <= SameTargetRetries * Started
<1>1. IsFiniteSet(SameTargetFlags) /\ Cardinality(SameTargetFlags) = SameTargetRetries
  <2>1. \A x, y : x # y => IsFiniteSet({x, y}) /\ Cardinality({x, y}) = 2
    <3> SUFFICES ASSUME NEW x, NEW y, x # y PROVE IsFiniteSet({x, y}) /\ Cardinality({x, y}) = 2
      BY Zenon
    <3>1. IsFiniteSet({x}) /\ Cardinality({x}) = 1
      BY FS_Singleton, Zenon
    <3>2. {x, y} = {x} \cup {y}
      BY Zenon
    <3> QED BY <3>1, <3>2, FS_AddElement
  <2>2. IsFiniteSet({"retry"}) /\ Cardinality({"retry"}) = 1
    BY FS_Singleton, Zenon
  <2>3. IsFiniteSet({"read_timeout", "write_timeout"}) /\ Cardinality({"read_timeout", "write_timeout"}) = 2
    BY <2>1, Zenon
  <2>4. statement.retry_policy \in {"default", "downgrading", "fallthrough"}
    BY Zenon DEF TypeOK, Statements, Policies
  <2> QED BY <2>2, <2>3, <2>4, FS_EmptySet, Zenon DEF SameTargetFlags, FlagsOf, SameTargetRetries
<1>2. IsFiniteSet(Fibers) /\ IsFiniteSet(Born)
  BY FibersFinite, Zenon DEF Born
<1>3. IsFiniteSet(Fibers \X SameTargetFlags)
  BY <1>1, <1>2, FS_Product, Zenon
<1>4. Paid \in SUBSET (Fibers \X SameTargetFlags)
  BY Zenon DEF Paid
<1>5. IsFiniteSet(Paid) /\ Cardinality(Paid) \in Nat
  BY <1>3, <1>4, FS_Subset, FS_CardinalityType, Zenon
<1>6. Paid \in SUBSET (Born \X SameTargetFlags)
  BY Zenon DEF Paid, Born
<1>7. IsFiniteSet(Born \X SameTargetFlags)
      /\ Cardinality(Born \X SameTargetFlags) = Cardinality(Born) * Cardinality(SameTargetFlags)
  BY <1>1, <1>2, FS_Product, Zenon
<1>8. Cardinality(Paid) <= Cardinality(Born) * SameTargetRetries
  BY <1>1, <1>6, <1>7, FS_Subset
<1>9. Cardinality(Born) * SameTargetRetries = SameTargetRetries * Started
  <2>1. Cardinality(Born) = Started
    BY Zenon DEF Born, Started
  <2>2. Cardinality(Born) \in Nat /\ SameTargetRetries \in Nat
    BY <1>1, <1>2, FS_CardinalityType, Zenon
  <2> QED BY <2>1, <2>2
<1> QED BY <1>3, <1>5, <1>8, <1>9, Zenon

\* What the step of one fiber does to the sets of fibers.
LEMMA FiberStep ==
  ASSUME TypeOK, NEW f \in Fibers, NEW g \in FiberType, fiber' = [fiber EXCEPT ![f] = g],
         UNCHANGED statement, fiber[f].at # "ended",
         g.at = "ended" \/ fiber[f].session \subseteq g.session
  PROVE  /\ fiber' \in [Fibers -> FiberType] /\ fiber'[f] = g
         /\ \A h \in Fibers \ {f} : fiber'[h] = fiber[h]
         /\ Sent' = IF g.at = "sent" THEN Sent \cup {f} ELSE Sent \ {f}
         /\ Connecting' = IF g.at = "connect" THEN Connecting \cup {f} ELSE Connecting \ {f}
         /\ Born' = IF g.at # "unborn" THEN Born \cup {f} ELSE Born \ {f}
         /\ Paid \subseteq Paid' /\ SameTargetFlags' = SameTargetFlags
<1>1. fiber \in [Fibers -> FiberType]
  BY Zenon DEF TypeOK, FiberType, Flags
<1>2. fiber' \in [Fibers -> FiberType] /\ fiber'[f] = g /\ \A h \in Fibers \ {f} : fiber'[h] = fiber[h]
  BY <1>1, Zenon
<1>3. Sent' = IF g.at = "sent" THEN Sent \cup {f} ELSE Sent \ {f}
  BY <1>2, Zenon DEF Sent
<1>4. Connecting' = IF g.at = "connect" THEN Connecting \cup {f} ELSE Connecting \ {f}
  BY <1>2, Zenon DEF Connecting
<1>5. Born' = IF g.at # "unborn" THEN Born \cup {f} ELSE Born \ {f}
  BY <1>2, Zenon DEF Born
<1>6. SameTargetFlags' = SameTargetFlags
  BY Zenon DEF SameTargetFlags, FlagsOf
<1>7. ASSUME NEW p \in Paid PROVE p \in Paid'
  <2>1. p \in Fibers \X SameTargetFlags /\ p[1] \in Fibers
        /\ (fiber[p[1]].at = "ended" \/ p[2] \in fiber[p[1]].session)
    BY Zenon DEF Paid
  <2>2. fiber'[p[1]].at = "ended" \/ p[2] \in fiber'[p[1]].session
    BY <1>2, <2>1, Zenon
  <2> QED BY <1>6, <2>1, <2>2, Zenon DEF Paid
<1> QED BY <1>2, <1>3, <1>4, <1>5, <1>6, <1>7, Zenon

-----------------------------------------------------------------------------
(* The steps of an execution *)

\* A request starts with one fiber and nothing taken, sent or applied.
LEMMA InitRequestInv == Init => RequestInv
<1> SUFFICES ASSUME Init PROVE RequestInv
  BY Zenon
<1>1. /\ statement \in Statements /\ plan \in 0..MaxPlan /\ next = 0
      /\ fiber = [f \in Fibers |-> IF f = 0 THEN NewFiber ELSE Unborn]
      /\ retries_remaining = statement.max_retry_count /\ sleeping = Speculating
      /\ last_error = None /\ result = None /\ attempts = 0 /\ applied = 0
      /\ ~Speculating => statement.max_retry_count = 0
  BY Zenon DEF Init
<1>2. /\ statement.consistency \in Consistencies /\ statement.max_retry_count \in 0..MaxRetryCount
      /\ statement.max_retry_count \in Nat /\ 0 \in Fibers /\ MaxRetryCount \in Nat
  BY <1>1, ExecutionAssumption DEF Statements, Fibers
<1>3. TypeOK
  <2>1. fiber \in [Fibers -> FiberType]
    BY <1>1, <1>2, Zenon DEF FiberType, NewFiber, Unborn, LastErrors
  <2>2. Speculating \in BOOLEAN
    BY <1>1, Zenon DEF Speculating, Statements
  <2> QED BY <1>1, <1>2, <2>1, <2>2 DEF TypeOK, FiberType, Flags, LastErrors
<1>4. Sent = {} /\ Connecting = {} /\ Born = {0}
  BY <1>1, <1>2, Zenon DEF Sent, Connecting, Born, NewFiber, Unborn
<1>5. Paid = {}
  BY <1>1, <1>2, Zenon DEF Paid, NewFiber, Unborn
<1>6. Cardinality({}) = 0
  BY FS_EmptySet, Zenon
<1>7. FibersInOrder
  <2>1. \A f \in Fibers : fiber[f].at = "unborn" => fiber[f].session = {}
    BY <1>1, Zenon DEF NewFiber, Unborn
  <2>2. Born = 0..(1 - 1) /\ 1 \in 1..(MaxRetryCount + 1)
    BY <1>2, <1>4
  <2>3. 1 + retries_remaining = 1 + statement.max_retry_count
    BY <1>1, Zenon
  <2> QED BY <1>1, <1>2, <2>1, <2>2, <2>3 DEF FibersInOrder
<1>8. AppliedOnce /\ TargetsAccountedFor
  BY <1>1 DEF AppliedOnce, TargetsAccountedFor
<1>9. ErrorsAreFinal
  BY <1>1, ExecutionAssumption, Zenon
     DEF ErrorsAreFinal, EmptyPlanMeansEmpty, ErrorIsLast, CanBeIgnored, CanSpeculativeRetry,
         RequestErrors, AttemptErrorKinds, NodeTrouble
<1>10. AttemptsPaid /\ LoweredOnce /\ NoErrorKept
  BY <1>1, <1>4, <1>5, <1>6 DEF AttemptsPaid, LoweredOnce, NoErrorKept, Live, NewFiber, Unborn
<1> QED BY <1>1, <1>3, <1>4, <1>6, <1>7, <1>8, <1>9, <1>10 DEF RequestInv

\* A fiber goes on: with a target, an attempt or an error, and with every attempt
\* paid for.
LEMMA GoOnRequestInv ==
  ASSUME RequestInv, result = None, NEW f \in Fibers, Live(f), NEW g \in FiberType,
         g.at \in {"plan", "connect", "sent"}, fiber[f].session \subseteq g.session,
         g.at = "plan" => g.last_error # None,
         "retry" \notin g.session => g.consistency = fiber[f].consistency,
         GoOn(f, g), UNCHANGED <<statement, plan, sleeping>>,
         next' \in next..plan,
         attempts' \in Nat, applied' \in Nat,
         ~statement.is_idempotent => applied' = applied,
         applied' + Cardinality(Sent') <= attempts',
         attempts' + Cardinality(Connecting') <= next' + Cardinality(Paid')
  PROVE  RequestInv'
<1>1. /\ fiber' = [fiber EXCEPT ![f] = g]
      /\ UNCHANGED <<retries_remaining, last_error, result>>
  BY Zenon DEF GoOn
<1>2. TypeOK /\ fiber[f].at \notin {"ended", "unborn"}
  BY Zenon DEF RequestInv, Live
<1>3. /\ fiber' \in [Fibers -> FiberType] /\ fiber'[f] = g
      /\ \A h \in Fibers \ {f} : fiber'[h] = fiber[h]
      /\ Sent' = IF g.at = "sent" THEN Sent \cup {f} ELSE Sent \ {f}
      /\ Born' = IF g.at # "unborn" THEN Born \cup {f} ELSE Born \ {f}
  BY <1>1, <1>2, FiberStep, Zenon
<1>4. Born' = Born
  BY <1>2, <1>3, Zenon DEF Born
<1>5. plan \in Nat /\ next \in 0..plan /\ next' \in 0..plan /\ next <= next'
  BY <1>2, ExecutionAssumption DEF TypeOK
<1>6. TypeOK'
  <2>1. Sent' \in SUBSET Fibers
    BY Zenon DEF Sent
  <2>2. Cardinality(Sent') \in Nat
    BY <2>1, FibersFinite, Zenon
  <2>3. applied' \in 0..attempts'
    BY <2>2
  <2> QED BY <1>1, <1>2, <1>3, <1>5, <2>3, Zenon DEF TypeOK, FiberType, Flags
<1>7. FibersInOrder'
  <2>1. PICK n \in 1..(MaxRetryCount + 1) :
            /\ Born = 0..(n - 1)
            /\ n + retries_remaining <= 1 + statement.max_retry_count
            /\ n + retries_remaining = 1 + statement.max_retry_count \/ next = plan
    BY Zenon DEF RequestInv, FibersInOrder
  <2>2. next = plan => next' = plan
    BY <1>5
  <2>3. \A h \in Fibers : fiber'[h].at = "unborn" => fiber'[h].session = {}
    BY <1>3, SMTT(60) DEF RequestInv, FibersInOrder
  <2>4. Speculating' = Speculating
    BY Zenon DEF Speculating
  <2> QED BY <1>1, <1>4, <2>1, <2>2, <2>3, <2>4, Zenon DEF RequestInv, FibersInOrder
<1>8. AppliedOnce'
  BY Zenon DEF RequestInv, AppliedOnce
<1>9. TargetsAccountedFor'
  BY <1>3, Zenon DEF TargetsAccountedFor
<1>10. ErrorsAreFinal'
  BY <1>1, ExecutionAssumption, Zenon
     DEF ErrorsAreFinal, EmptyPlanMeansEmpty, ErrorIsLast, CanBeIgnored, CanSpeculativeRetry,
         RequestErrors, AttemptErrorKinds, NodeTrouble
<1>11. AttemptsPaid'
  BY Zenon DEF AttemptsPaid
<1>12. LoweredOnce'
  BY <1>2, <1>3, Zenon DEF RequestInv, LoweredOnce, Live
<1>13. NoErrorKept'
  BY <1>1, Zenon DEF RequestInv, NoErrorKept, Speculating
<1> QED BY <1>6, <1>7, <1>8, <1>9, <1>10, <1>11, <1>12, <1>13, Zenon DEF RequestInv

\* Without speculation there is one fiber, the number 0.
LEMMA OneFiber ==
  ASSUME RequestInv, ~Speculating
  PROVE  \A f \in Fibers : fiber[f].at # "unborn" => f = 0
<1>1. PICK n \in 1..(MaxRetryCount + 1) :
          Born = 0..(n - 1) /\ n + retries_remaining <= 1 + statement.max_retry_count
  BY Zenon DEF RequestInv, FibersInOrder
<1>2. statement.max_retry_count = 0 /\ retries_remaining \in Nat
  BY DEF RequestInv, FibersInOrder, TypeOK
<1>3. n = 1
  BY <1>1, <1>2, ExecutionAssumption, SMTT(60)
<1> QED BY <1>1, <1>3 DEF Born

\* A fiber ends and execute looks at its output: the request may have a result
\* then, which is an error only if no other fiber could bring a better one.
LEMMA EndRequestInv ==
  ASSUME RequestInv, result = None, NEW f \in Fibers, Live(f),
         NEW out \in LastErrors \cup {"Completed", "IgnoredWriteError"},
         out = None => fiber[f].at = "plan" /\ fiber[f].last_error = None /\ next = plan,
         End(f, out), UNCHANGED <<statement, plan, next, sleeping, attempts>>,
         applied' \in {applied, applied + 1},
         applied' # applied => fiber[f].at = "sent"
  PROVE  RequestInv'
<1> DEFINE g == [Unborn EXCEPT !.at = "ended"]
           running == {h \in Fibers \ {f} : Live(h)}
<1>1. g \in FiberType /\ g.at = "ended" /\ g.session = {}
  BY Zenon DEF FiberType, Unborn, LastErrors
<1>2. fiber' = [fiber EXCEPT ![f] = g] /\ Collect(f, out)
  BY Zenon DEF End
<1>3. TypeOK /\ fiber[f].at \notin {"ended", "unborn"}
  BY SMTT(60) DEF RequestInv, Live
<1> HIDE DEF g
<1>4. /\ fiber' \in [Fibers -> FiberType] /\ fiber'[f] = g
      /\ \A h \in Fibers \ {f} : fiber'[h] = fiber[h]
      /\ Sent' = IF g.at = "sent" THEN Sent \cup {f} ELSE Sent \ {f}
      /\ Connecting' = IF g.at = "connect" THEN Connecting \cup {f} ELSE Connecting \ {f}
      /\ Born' = IF g.at # "unborn" THEN Born \cup {f} ELSE Born \ {f}
      /\ Paid \subseteq Paid' /\ SameTargetFlags' = SameTargetFlags
  BY <1>1, <1>2, <1>3, FiberStep, ZenonT(60)
<1>5. Born' = Born /\ Sent' = Sent \ {f} /\ Connecting' = Connecting \ {f}
  BY <1>1, <1>3, <1>4, Zenon DEF Born
<1>6. \A h \in Fibers : Live(h)' <=> h \in running
  BY <1>1, <1>4, Zenon DEF Live
<1>7. Sent \in SUBSET Fibers /\ Connecting \in SUBSET Fibers
  BY Zenon DEF Sent, Connecting
<1>8. Speculating' = Speculating
  BY SMTT(60) DEF Speculating
<1>9. /\ Cardinality(Sent) \in Nat /\ Cardinality(Sent') \in Nat
      /\ Cardinality(Connecting) \in Nat /\ Cardinality(Connecting') \in Nat
      /\ Cardinality(Connecting') <= Cardinality(Connecting)
      /\ Cardinality(Sent') = IF fiber[f].at = "sent" THEN Cardinality(Sent) - 1 ELSE Cardinality(Sent)
  <2>1. \A S \in SUBSET Fibers : /\ Cardinality(S) \in Nat /\ Cardinality(S \ {f}) \in Nat
                                 /\ f \in S => Cardinality(S \ {f}) = Cardinality(S) - 1
                                 /\ f \notin S => Cardinality(S \ {f}) = Cardinality(S)
    BY FibersFinite, Zenon
  <2>2. f \in Sent <=> fiber[f].at = "sent"
    BY Zenon DEF Sent
  <2>3. Cardinality(Connecting \ {f}) <= Cardinality(Connecting)
    BY <1>7, <2>1
  <2> QED BY <1>5, <1>7, <2>1, <2>2, <2>3, SMTT(60)
<1>10. applied' \in Nat /\ attempts' \in Nat /\ applied' + Cardinality(Sent') <= attempts'
  BY <1>9 DEF RequestInv, TypeOK
<1>11. ~CanBeIgnored(None) /\ None \notin {"Completed", "IgnoredWriteError", "EmptyPlan"}
  BY ExecutionAssumption, SMTT(60)
      DEF CanBeIgnored, CanSpeculativeRetry, RequestErrors, AttemptErrorKinds, NodeTrouble
<1>12. /\ retries_remaining' \in {0, retries_remaining}
       /\ retries_remaining' # retries_remaining => out = None
       /\ last_error' \in LastErrors
       /\ result' \in LastErrors \cup {"EmptyPlan", "Completed", "IgnoredWriteError"}
  BY <1>2, <1>3, SMTT(60)
      DEF Collect, CanBeIgnored, CanSpeculativeRetry, LastErrors, AttemptErrorKinds,
                    NodeTrouble, TypeOK
<1>13. TypeOK'
  <2>1. result' \in RequestErrors \cup {"Completed", "IgnoredWriteError", None}
    BY <1>12, Zenon DEF LastErrors, RequestErrors
  <2>2. retries_remaining' \in 0..statement.max_retry_count
    <3>1. retries_remaining \in 0..statement.max_retry_count /\ statement.max_retry_count \in Nat
      BY <1>3, ExecutionAssumption DEF TypeOK, Statements
    <3> QED BY <1>12, <3>1
  <2>3. applied' \in 0..attempts'
    BY <1>9, <1>10, SMTT(60)
  <2> QED BY <1>3, <1>4, <1>10, <1>12, <2>1, <2>2, <2>3, SMTT(60) DEF TypeOK, FiberType, Flags
<1>14. FibersInOrder'
  <2>1. PICK n \in 1..(MaxRetryCount + 1) :
            /\ Born = 0..(n - 1)
            /\ n + retries_remaining <= 1 + statement.max_retry_count
            /\ n + retries_remaining = 1 + statement.max_retry_count \/ next = plan
    BY Zenon DEF RequestInv, FibersInOrder
  <2>2. retries_remaining \in Nat /\ statement.max_retry_count \in Nat /\ n \in Nat
    BY <1>3, ExecutionAssumption, SMTT(60) DEF TypeOK, Statements
  <2>3. /\ n + retries_remaining' <= 1 + statement.max_retry_count
        /\ n + retries_remaining' = 1 + statement.max_retry_count \/ next = plan
    BY <1>12, <2>1, <2>2
  <2>4. \A h \in Fibers : fiber'[h].at = "unborn" => fiber'[h].session = {}
    BY <1>1, <1>4, Zenon DEF RequestInv, FibersInOrder
  <2> QED BY <1>5, <1>8, <2>1, <2>3, <2>4, SMTT(60) DEF RequestInv, FibersInOrder
<1>15. AppliedOnce'
  <2> SUFFICES ASSUME ~statement.is_idempotent
               PROVE  (applied' = 0 \/ applied' = 1) /\ \A h \in Fibers : ~Live(h)'
    BY Zenon DEF AppliedOnce
  <2>1. ~Speculating
    BY Zenon DEF Speculating
  <2>2. running = {}
    BY <1>3, <2>1, OneFiber, Zenon DEF Live
  <2>3. applied = 0
    BY Zenon DEF RequestInv, AppliedOnce
  <2> QED BY <1>6, <2>2, <2>3
<1>16. /\ result' = "EmptyPlan" =>
             out = None /\ last_error = None /\ (Speculating => running = {})
       /\ Speculating /\ result' = None => last_error' # None \/ (out = None /\ last_error' = last_error)
       /\ ~Speculating => result' # None
       /\ Speculating /\ CanBeIgnored(result') => running = {} /\ retries_remaining' = 0
  <2>1. CASE Speculating
    <3>1. /\ retries_remaining' = IF out = None THEN 0 ELSE retries_remaining
          /\ last_error' = IF CanBeIgnored(out) THEN out ELSE last_error
          /\ result' = IF out # None /\ ~CanBeIgnored(out) THEN out
                       ELSE IF running = {} /\ retries_remaining' = 0
                            THEN IF last_error' = None THEN "EmptyPlan" ELSE last_error'
                            ELSE None
      BY <1>2, <2>1, Zenon DEF Collect
    <3>2. out # "EmptyPlan" /\ (last_error' = "EmptyPlan" => FALSE)
      BY <1>12, ExecutionAssumption, SMTT(60)
          DEF LastErrors, RequestErrors, AttemptErrorKinds, NodeTrouble
    <3> QED BY <1>11, <2>1, <3>1, <3>2, Zenon
  <2>2. CASE ~Speculating
    <3>1. result' = IF out = None THEN "EmptyPlan" ELSE out
      BY <1>2, <2>2, Zenon DEF Collect
    <3>2. out # "EmptyPlan"
      BY ExecutionAssumption, SMTT(60) DEF LastErrors, RequestErrors, AttemptErrorKinds, NodeTrouble
    <3>3. last_error = None
      BY <2>2, SMTT(60) DEF RequestInv, NoErrorKept
    <3> QED BY <1>11, <2>2, <3>1, <3>2, <3>3, Zenon
  <2> QED BY <2>1, <2>2, Zenon
<1>17. TargetsAccountedFor'
  <2> SUFFICES ASSUME result' = None, next > 0, last_error' = None
               PROVE  \E h \in Fibers : \/ fiber'[h].at \in {"connect", "sent"}
                                        \/ fiber'[h].at = "plan" /\ fiber'[h].last_error # None
    BY SMTT(60) DEF TargetsAccountedFor
  <2>1. out = None /\ last_error = None
    BY <1>16, SMTT(60)
  <2>2. PICK h \in Fibers : \/ fiber[h].at \in {"connect", "sent"}
                            \/ fiber[h].at = "plan" /\ fiber[h].last_error # None
    BY <2>1, Zenon DEF RequestInv, TargetsAccountedFor
  <2>3. h # f
    BY <2>1, <2>2, Zenon
  <2> QED BY <1>4, <2>2, <2>3, SMTT(60)
<1>18. EmptyPlanMeansEmpty'
  <2> SUFFICES ASSUME result' = "EmptyPlan" PROVE plan = 0
    BY Zenon DEF EmptyPlanMeansEmpty
  <2>1. out = None /\ last_error = None /\ running = {}
    <3>1. CASE Speculating
      BY <1>16, <3>1, Zenon
    <3>2. CASE ~Speculating
      BY <1>3, <1>16, <3>2, OneFiber, Zenon DEF Live
    <3> QED BY <3>1, <3>2, Zenon
  <2>2. \A h \in Fibers : /\ fiber[h].at \notin {"connect", "sent"}
                          /\ fiber[h].at = "plan" => fiber[h].last_error = None
    BY <2>1, Zenon DEF Live
  <2>3. ~(next > 0)
    BY <2>1, <2>2, SMTT(60) DEF RequestInv, TargetsAccountedFor
  <2> QED BY <1>3, <2>1, <2>3, ExecutionAssumption DEF TypeOK
<1>19. ErrorIsLast'
  <2> SUFFICES ASSUME Speculating, CanBeIgnored(result')
               PROVE  /\ \A h \in Fibers : ~Live(h)'
                      /\ Started' = 1 + statement.max_retry_count \/ next = plan
    BY <1>8, Zenon DEF ErrorIsLast, CanBeIgnored, CanSpeculativeRetry
  <2>1. running = {} /\ retries_remaining' = 0
    BY <1>16, Zenon
  <2>2. PICK n \in 1..(MaxRetryCount + 1) :
            /\ Born = 0..(n - 1)
            /\ n + retries_remaining = 1 + statement.max_retry_count \/ next = plan
    BY Zenon DEF RequestInv, FibersInOrder
  <2>3. n \in Nat \ {0} /\ n - 1 \in Int
    BY ExecutionAssumption
  <2>4. Cardinality(0..(n - 1)) = IF 0 > n - 1 THEN 0 ELSE n - 1 - 0 + 1
    BY <2>3, FS_Interval, SMTT(60)
  <2>5. Started' = n
    <3>1. Cardinality(Born) = n
      BY <2>2, <2>3, <2>4
    <3>2. Started' = Cardinality(Born')
      BY Zenon DEF Started, Born
    <3> QED BY <1>5, <3>1, <3>2, Zenon
  <2>6. retries_remaining # retries_remaining' => next = plan
    BY <1>12, Zenon
  <2> QED BY <1>6, <2>1, <2>2, <2>3, <2>5, <2>6, SMTT(60)
<1>20. AttemptsPaid'
  <2>1. IsFiniteSet(Fibers \X SameTargetFlags) /\ Cardinality(Paid) \in Nat
    BY PaidFinite, SMTT(60) DEF RequestInv, FibersInOrder
  <2>2. Paid' \in SUBSET (Fibers \X SameTargetFlags)
    BY <1>4, SMTT(60) DEF Paid
  <2>3. IsFiniteSet(Paid') /\ Cardinality(Paid') \in Nat
    BY <2>1, <2>2, FS_Subset, FS_CardinalityType, SMTT(60)
  <2>4. Cardinality(Paid) <= Cardinality(Paid')
    BY <1>4, <2>3, FS_Subset, Zenon
  <2>5. next \in Nat /\ attempts \in Nat
    BY <1>3, ExecutionAssumption DEF TypeOK
  <2> QED BY <1>9, <2>1, <2>3, <2>4, <2>5, SMTT(60) DEF RequestInv, AttemptsPaid
<1>21. LoweredOnce'
  BY <1>1, <1>4, Zenon DEF RequestInv, LoweredOnce, Live
<1>22. NoErrorKept'
  BY <1>2, <1>8, Zenon DEF RequestInv, NoErrorKept, Collect
<1> QED BY <1>10, <1>13, <1>14, <1>15, <1>17, <1>18, <1>19, <1>20, <1>21, <1>22, SMTT(60)
        DEF RequestInv, ErrorsAreFinal

\* The timer starts the fiber whose number is next.
LEMMA SleepOverRequestInv ==
  ASSUME RequestInv, SleepOver
  PROVE  RequestInv'
<1>1. PICK n \in 1..(MaxRetryCount + 1) :
            /\ Born = 0..(n - 1)
            /\ n + retries_remaining <= 1 + statement.max_retry_count
            /\ n + retries_remaining = 1 + statement.max_retry_count \/ next = plan
  BY Zenon DEF RequestInv, FibersInOrder
<1>2. /\ n \in Nat \ {0} /\ n - 1 \in Int /\ retries_remaining \in 0..statement.max_retry_count
      /\ statement.max_retry_count \in 0..MaxRetryCount /\ MaxRetryCount \in Nat /\ TypeOK
  BY ExecutionAssumption DEF RequestInv, TypeOK, Statements
<1>3. /\ result = None /\ Speculating /\ Speculating' = Speculating
      /\ UNCHANGED <<statement, plan, next, last_error, result, attempts, applied>>
  BY Zenon DEF SleepOver, Speculating, RequestInv, FibersInOrder
<1>4. CASE retries_remaining > 0
  <2>1. Started = n
    <3>1. Cardinality(0..(n - 1)) = IF 0 > n - 1 THEN 0 ELSE n - 1 - 0 + 1
      BY <1>2, FS_Interval
    <3>2. Cardinality(Born) = n
      BY <1>1, <1>2, <3>1
    <3> QED BY <3>2, Zenon DEF Started, Born
  <2>2. n \in Fibers /\ n \notin Born /\ n + 1 \in 1..(MaxRetryCount + 1)
    BY <1>1, <1>2, <1>4 DEF Fibers
  <2>3. /\ fiber' = [fiber EXCEPT ![n] = NewFiber]
        /\ retries_remaining' = retries_remaining - 1 /\ UNCHANGED sleeping
    BY <1>4, <2>1, Zenon DEF SleepOver
  <2>4. fiber[n].at = "unborn" /\ fiber[n].session = {}
    BY <2>2, SMTT(60) DEF Born, RequestInv, FibersInOrder
  <2>5. /\ NewFiber \in FiberType /\ NewFiber.at = "plan" /\ NewFiber.session = {}
        /\ NewFiber.consistency = statement.consistency
    BY <1>2, ExecutionAssumption, Zenon DEF NewFiber, FiberType, LastErrors, TypeOK, Statements
  <2>6. /\ fiber' \in [Fibers -> FiberType] /\ fiber'[n] = NewFiber
        /\ \A h \in Fibers \ {n} : fiber'[h] = fiber[h]
        /\ Sent' = Sent \ {n} /\ Connecting' = Connecting \ {n} /\ Born' = Born \cup {n}
        /\ Paid \subseteq Paid' /\ SameTargetFlags' = SameTargetFlags
    BY <1>2, <1>3, <2>2, <2>3, <2>4, <2>5, FiberStep, Zenon
  <2>7. Sent' = Sent /\ Connecting' = Connecting
    BY <2>4, <2>6, Zenon DEF Sent, Connecting
  <2>8. TypeOK'
    <3>1. retries_remaining' \in 0..statement.max_retry_count
      BY <1>2, <1>4, <2>3
    <3> QED BY <1>2, <1>3, <2>3, <2>6, <3>1, Zenon DEF TypeOK, FiberType, Flags
  <2>9. FibersInOrder'
    <3>1. Born' = 0..((n + 1) - 1)
      BY <1>1, <1>2, <2>6
    <3>2. (n + 1) + retries_remaining' = n + retries_remaining
      BY <1>2, <2>3
    <3>3. \A h \in Fibers : fiber'[h].at = "unborn" => fiber'[h].session = {}
      BY <2>5, <2>6, Zenon DEF RequestInv, FibersInOrder
    <3> QED BY <1>1, <1>3, <2>2, <2>3, <3>1, <3>2, <3>3, Zenon DEF RequestInv, FibersInOrder
  <2>10. AppliedOnce'
    BY <1>3, SMTT(60) DEF AppliedOnce, Speculating
  <2>11. TargetsAccountedFor'
    BY <1>3, <2>4, <2>6, Zenon DEF RequestInv, TargetsAccountedFor
  <2>12. ErrorsAreFinal'
    BY <1>3, ExecutionAssumption, Zenon
       DEF ErrorsAreFinal, EmptyPlanMeansEmpty, ErrorIsLast, CanBeIgnored, CanSpeculativeRetry,
           RequestErrors, AttemptErrorKinds, NodeTrouble
  <2>13. AttemptsPaid'
    <3>1. IsFiniteSet(Fibers \X SameTargetFlags) /\ Cardinality(Paid) \in Nat
      BY <1>2, PaidFinite, Zenon DEF RequestInv, FibersInOrder
    <3>2. Paid' \in SUBSET (Fibers \X SameTargetFlags)
      BY <2>6, Zenon DEF Paid
    <3>3. IsFiniteSet(Paid') /\ Cardinality(Paid') \in Nat
      BY <3>1, <3>2, FS_Subset, FS_CardinalityType, Zenon
    <3>4. Cardinality(Paid) <= Cardinality(Paid')
      BY <2>6, <3>3, FS_Subset, Zenon
    <3>5. Connecting \in SUBSET Fibers
      BY Zenon DEF Connecting
    <3>6. next \in Nat /\ attempts \in Nat /\ Cardinality(Connecting) \in Nat
      BY <1>2, <3>5, FibersFinite, ExecutionAssumption, SMTT(60) DEF TypeOK
    <3> QED BY <1>3, <2>7, <3>1, <3>3, <3>4, <3>6, SMTT(60) DEF RequestInv, AttemptsPaid
  <2>14. LoweredOnce' /\ NoErrorKept'
    BY <1>3, <2>5, <2>6, SMTT(60) DEF RequestInv, LoweredOnce, NoErrorKept, Live
  <2> QED BY <1>3, <2>7, <2>8, <2>9, <2>10, <2>11, <2>12, <2>13, <2>14, Zenon DEF RequestInv
<1>5. CASE ~(retries_remaining > 0)
  <2>1. sleeping' = FALSE /\ UNCHANGED <<fiber, retries_remaining>>
    BY <1>5, SMTT(60) DEF SleepOver
  <2>2. TypeOK' /\ FibersInOrder'
    BY <1>2, <1>3, <2>1, Zenon DEF RequestInv, TypeOK, FibersInOrder, Born
  <2> QED BY <1>3, <2>1, <2>2, Zenon
          DEF RequestInv, AppliedOnce, TargetsAccountedFor, ErrorsAreFinal, EmptyPlanMeansEmpty,
              ErrorIsLast, AttemptsPaid, LoweredOnce, NoErrorKept, Live, Started, Sent, Connecting,
              Paid, SameTargetFlags
<1> QED BY <1>4, <1>5, Zenon

\* The timeout drops the fibers where they are; a request that was answered does
\* nothing more.
LEMMA TimeoutRequestInv ==
  ASSUME RequestInv, Timeout \/ UNCHANGED vars
  PROVE  RequestInv'
<1>1. CASE Timeout
  <2>1. /\ result' = "RequestTimeout"
        /\ UNCHANGED <<statement, plan, next, fiber, retries_remaining, sleeping, last_error,
                       attempts, applied>>
    BY <1>1, Zenon DEF Timeout
  <2>2. result' # None /\ ~CanBeIgnored(result') /\ result' # "EmptyPlan"
    BY <2>1, ExecutionAssumption, Zenon DEF RequestErrors, CanBeIgnored, CanSpeculativeRetry
  <2>3. TypeOK'
    BY <2>1, Zenon DEF RequestInv, TypeOK, RequestErrors
  <2>4. ErrorsAreFinal'
    BY <2>2, SMTT(60)
        DEF ErrorsAreFinal, EmptyPlanMeansEmpty, ErrorIsLast, CanBeIgnored, CanSpeculativeRetry
  <2>5. FibersInOrder' /\ AppliedOnce' /\ TargetsAccountedFor'
    BY <2>1, <2>2, SMTT(60)
        DEF RequestInv, FibersInOrder, AppliedOnce, TargetsAccountedFor, Born, Live, Speculating
  <2> QED BY <2>1, <2>3, <2>4, <2>5, Zenon
          DEF RequestInv, AttemptsPaid, LoweredOnce, NoErrorKept, Live, Sent, Connecting,
              Paid, SameTargetFlags, Speculating
<1>2. CASE UNCHANGED vars
  <2>1. TypeOK' /\ FibersInOrder' /\ AppliedOnce' /\ TargetsAccountedFor'
    BY <1>2
        DEF vars, RequestInv, TypeOK, FibersInOrder, AppliedOnce, TargetsAccountedFor, Born, Live,
                Speculating
  <2>2. ErrorsAreFinal'
    BY <1>2, Zenon DEF vars, RequestInv, ErrorsAreFinal, EmptyPlanMeansEmpty, ErrorIsLast, CanBeIgnored,
                CanSpeculativeRetry, Live, Started, Speculating
  <2> QED BY <1>2, <2>1, <2>2, SMTT(60)
          DEF vars, RequestInv, AttemptsPaid, LoweredOnce, NoErrorKept, Live, Sent, Connecting,
              Paid, SameTargetFlags, Speculating
<1> QED BY <1>1, <1>2, SMTT(60)

\* What the step of a live fiber does to the numbers of fibers and of flags.
LEMMA Counts ==
  ASSUME RequestInv, NEW f \in Fibers, Live(f), NEW g \in FiberType, fiber' = [fiber EXCEPT ![f] = g],
         UNCHANGED statement, g.at # "ended", fiber[f].session \subseteq g.session
  PROVE  /\ Cardinality(Sent) \in Nat /\ Cardinality(Connecting) \in Nat
         /\ Cardinality(Paid) \in Nat /\ Cardinality(Paid') \in Nat
         /\ Cardinality(Sent') = CASE g.at = "sent" /\ fiber[f].at # "sent" -> Cardinality(Sent) + 1
                                   [] g.at # "sent" /\ fiber[f].at = "sent" -> Cardinality(Sent) - 1
                                   [] OTHER -> Cardinality(Sent)
         /\ Cardinality(Connecting') =
               CASE g.at = "connect" /\ fiber[f].at # "connect" -> Cardinality(Connecting) + 1
                 [] g.at # "connect" /\ fiber[f].at = "connect" -> Cardinality(Connecting) - 1
                 [] OTHER -> Cardinality(Connecting)
         /\ Cardinality(Paid) <= Cardinality(Paid')
         /\ (\E flag \in SameTargetFlags : flag \in g.session \ fiber[f].session) =>
               Cardinality(Paid) + 1 <= Cardinality(Paid')
<1>1. TypeOK /\ fiber[f].at # "ended"
  BY Zenon DEF RequestInv, Live
<1>2. /\ fiber'[f] = g
      /\ Sent' = IF g.at = "sent" THEN Sent \cup {f} ELSE Sent \ {f}
      /\ Connecting' = IF g.at = "connect" THEN Connecting \cup {f} ELSE Connecting \ {f}
      /\ Paid \subseteq Paid' /\ SameTargetFlags' = SameTargetFlags
  BY <1>1, FiberStep, Zenon
<1>3. /\ Sent \in SUBSET Fibers /\ Connecting \in SUBSET Fibers
      /\ f \in Sent <=> fiber[f].at = "sent"
      /\ f \in Connecting <=> fiber[f].at = "connect"
  BY SMTT(60) DEF Sent, Connecting
<1>4. \A S \in SUBSET Fibers : /\ Cardinality(S) \in Nat
                               /\ f \notin S => Cardinality(S \cup {f}) = Cardinality(S) + 1
                               /\ f \in S => Cardinality(S \ {f}) = Cardinality(S) - 1
                               /\ f \notin S => S \ {f} = S
                               /\ f \in S => S \cup {f} = S
  BY FibersFinite, SMTT(60)
<1>5. /\ IsFiniteSet(Fibers \X SameTargetFlags)
      /\ IsFiniteSet(Paid) /\ Cardinality(Paid) \in Nat
  BY <1>1, PaidFinite, SMTT(60) DEF RequestInv, FibersInOrder
<1>6. Paid' \in SUBSET (Fibers \X SameTargetFlags)
  BY <1>2, Zenon DEF Paid
<1>7. IsFiniteSet(Paid') /\ Cardinality(Paid') \in Nat
  BY <1>5, <1>6, FS_Subset, FS_CardinalityType, Zenon
<1>8. Cardinality(Paid) <= Cardinality(Paid')
  BY <1>2, <1>7, FS_Subset, SMTT(60)
<1>9. ASSUME NEW flag \in SameTargetFlags, flag \in g.session \ fiber[f].session
      PROVE  Cardinality(Paid) + 1 <= Cardinality(Paid')
  <2>1. <<f, flag>> \notin Paid
    BY <1>1, <1>9, Zenon DEF Paid
  <2>2. <<f, flag>> \in Paid'
    BY <1>2, <1>9, Zenon DEF Paid
  <2>3. Cardinality(Paid \cup {<<f, flag>>}) = Cardinality(Paid) + 1
    BY <1>5, <2>1, FS_AddElement, Zenon
  <2>4. Paid \cup {<<f, flag>>} \in SUBSET Paid'
    BY <1>2, <2>2, Zenon
  <2> QED BY <1>7, <2>3, <2>4, FS_Subset, SMTT(60)
<1>10. Cardinality(Sent') = CASE g.at = "sent" /\ fiber[f].at # "sent" -> Cardinality(Sent) + 1
                              [] g.at # "sent" /\ fiber[f].at = "sent" -> Cardinality(Sent) - 1
                              [] OTHER -> Cardinality(Sent)
  BY <1>2, <1>3, <1>4, Zenon
<1>11. Cardinality(Connecting') =
               CASE g.at = "connect" /\ fiber[f].at # "connect" -> Cardinality(Connecting) + 1
                 [] g.at # "connect" /\ fiber[f].at = "connect" -> Cardinality(Connecting) - 1
                 [] OTHER -> Cardinality(Connecting)
  BY <1>2, <1>3, <1>4, Zenon
<1> QED BY <1>3, <1>4, <1>5, <1>7, <1>8, <1>9, <1>10, <1>11, Zenon

\* A fiber takes a target of the plan, or ends with the error it had.
LEMMA NextTargetRequestInv ==
  ASSUME RequestInv, NEW f \in Fibers, NextTarget(f)
  PROVE  RequestInv'
<1>1. /\ result = None /\ fiber[f].at = "plan" /\ Live(f) /\ TypeOK /\ fiber[f] \in FiberType
      /\ UNCHANGED <<statement, plan, sleeping, attempts, applied>>
  BY Zenon DEF NextTarget, Live, RequestInv, TypeOK, FiberType, Flags
<1>2. /\ next \in Nat /\ plan \in Nat /\ next <= plan /\ attempts \in Nat /\ applied \in Nat
      /\ applied + Cardinality(Sent) <= attempts
      /\ attempts + Cardinality(Connecting) <= next + Cardinality(Paid)
  BY <1>1, ExecutionAssumption, SMTT(60) DEF TypeOK, RequestInv, AttemptsPaid
<1>3. CASE next < plan
  <2> DEFINE g == [fiber[f] EXCEPT !.at = "connect"]
  <2>1. next' = next + 1 /\ GoOn(f, g)
    BY <1>3, Zenon DEF NextTarget
  <2>2. /\ g \in FiberType /\ g.at = "connect" /\ g.session = fiber[f].session
        /\ g.consistency = fiber[f].consistency
    BY <1>1, Zenon DEF FiberType
  <2> HIDE DEF g
  <2>3. fiber' = [fiber EXCEPT ![f] = g]
    BY <2>1, Zenon DEF GoOn
  <2>4. /\ Cardinality(Sent) \in Nat /\ Cardinality(Connecting) \in Nat
        /\ Cardinality(Paid) \in Nat /\ Cardinality(Paid') \in Nat
        /\ Cardinality(Sent') = Cardinality(Sent)
        /\ Cardinality(Connecting') = Cardinality(Connecting) + 1
        /\ Cardinality(Paid) <= Cardinality(Paid')
    BY <1>1, <2>2, <2>3, Counts, Zenon
  <2>5. next' \in next..plan /\ attempts' + Cardinality(Connecting') <= next' + Cardinality(Paid')
    BY <1>1, <1>2, <1>3, <2>1, <2>4
  <2> QED BY <1>1, <1>2, <2>1, <2>2, <2>4, <2>5, GoOnRequestInv, Zenon
<1>4. CASE ~(next < plan)
  <2>1. End(f, fiber[f].last_error) /\ UNCHANGED next /\ next = plan
    BY <1>2, <1>4, SMTT(60) DEF NextTarget
  <2>2. fiber[f].last_error \in LastErrors
    BY <1>1, Zenon DEF FiberType
  <2> QED BY <1>1, <2>1, <2>2, EndRequestInv, Zenon
<1> QED BY <1>3, <1>4, Zenon

\* A fiber sends an attempt to the target it has, or finds no connection to it.
LEMMA ChooseConnectionRequestInv ==
  ASSUME RequestInv, NEW f \in Fibers, ChooseConnection(f)
  PROVE  RequestInv'
<1>1. /\ result = None /\ fiber[f].at = "connect" /\ Live(f) /\ TypeOK /\ fiber[f] \in FiberType
      /\ UNCHANGED <<statement, plan, next, sleeping, applied>>
  BY Zenon DEF ChooseConnection, Live, RequestInv, TypeOK, FiberType, Flags
<1>2. /\ next \in Nat /\ plan \in Nat /\ next \in next..plan /\ attempts \in Nat /\ applied \in Nat
      /\ applied + Cardinality(Sent) <= attempts
      /\ attempts + Cardinality(Connecting) <= next + Cardinality(Paid)
  BY <1>1, ExecutionAssumption, SMTT(60) DEF TypeOK, RequestInv, AttemptsPaid
<1>3. ASSUME NEW g \in FiberType, g.at \in {"sent", "plan"}, g.session = fiber[f].session,
             g.consistency = fiber[f].consistency, g.at = "plan" => g.last_error # None,
             GoOn(f, g), attempts' = IF g.at = "sent" THEN attempts + 1 ELSE attempts
      PROVE  RequestInv'
  <2>1. fiber' = [fiber EXCEPT ![f] = g]
    BY <1>3, Zenon DEF GoOn
  <2>2. /\ Cardinality(Sent) \in Nat /\ Cardinality(Connecting) \in Nat
        /\ Cardinality(Paid) \in Nat /\ Cardinality(Paid') \in Nat
        /\ Cardinality(Sent') = IF g.at = "sent" THEN Cardinality(Sent) + 1 ELSE Cardinality(Sent)
        /\ Cardinality(Connecting') = Cardinality(Connecting) - 1
        /\ Cardinality(Paid) <= Cardinality(Paid')
    BY <1>1, <1>3, <2>1, Counts, Zenon
  <2>3. /\ attempts' \in Nat /\ applied' + Cardinality(Sent') <= attempts'
        /\ attempts' + Cardinality(Connecting') <= next' + Cardinality(Paid')
    BY <1>1, <1>2, <1>3, <2>2
  <2> QED BY <1>1, <1>2, <1>3, <2>3, GoOnRequestInv, Zenon
<1>4. CASE GoOn(f, [fiber[f] EXCEPT !.at = "sent"]) /\ attempts' = attempts + 1
  BY <1>1, <1>3, <1>4, Zenon DEF FiberType
<1>5. CASE /\ GoOn(f, [fiber[f] EXCEPT !.at = "plan", !.last_error = "ConnectionPoolError"])
           /\ UNCHANGED attempts
  <2> DEFINE g == [fiber[f] EXCEPT !.at = "plan", !.last_error = "ConnectionPoolError"]
  <2>1. /\ g \in FiberType /\ g.at = "plan" /\ g.session = fiber[f].session
        /\ g.consistency = fiber[f].consistency /\ g.last_error # None
    BY <1>1, ExecutionAssumption, ZenonT(60) DEF FiberType, LastErrors, RequestErrors
  <2> HIDE DEF g
  <2> QED BY <1>3, <1>5, <2>1, Zenon DEF g
<1> QED BY <1>4, <1>5, Zenon DEF ChooseConnection

\* The answer of a node ends the fiber, or lets it go on as its session decides.
LEMMA AnswerRequestInv ==
  ASSUME RequestInv, NEW f \in Fibers, Answer(f)
  PROVE  RequestInv'
<1>1. /\ result = None /\ fiber[f].at = "sent" /\ Live(f) /\ TypeOK /\ fiber[f] \in FiberType
      /\ UNCHANGED <<statement, plan, next, sleeping, attempts>>
  BY Zenon DEF Answer, AttemptSucceeds, AttemptFails, Live, RequestInv, TypeOK, FiberType, Flags
<1>2. /\ next \in Nat /\ plan \in Nat /\ next \in next..plan /\ attempts \in Nat /\ applied \in Nat
      /\ applied + Cardinality(Sent) <= attempts
      /\ attempts + Cardinality(Connecting) <= next + Cardinality(Paid)
  BY <1>1, ExecutionAssumption DEF TypeOK, RequestInv, AttemptsPaid
<1>3. \A out \in AttemptErrorKinds \cup {"Completed", "IgnoredWriteError"} :
         out # None /\ out \in LastErrors \cup {"Completed", "IgnoredWriteError"}
  BY ExecutionAssumption, SMTT(60) DEF LastErrors, RequestErrors
<1>4. ASSUME AttemptSucceeds(f) PROVE RequestInv'
  <2>1. End(f, "Completed") /\ applied' = applied + 1
    BY <1>4, Zenon DEF AttemptSucceeds
  <2> QED BY <1>1, <1>3, <2>1, EndRequestInv, ZenonT(60)
<1>5. ASSUME NEW e \in AttemptErrors(fiber[f].consistency), AttemptFails(f, e) PROVE RequestInv'
  <2> DEFINE d == Decide(f, e)
             g == [fiber[f] EXCEPT !.session = d.session, !.last_error = e.kind,
                                   !.consistency = IF d.cl = None THEN @ ELSE d.cl]
  <2>1. e.kind \in AttemptErrorKinds
    BY ErrorKindsAssumption, SMTT(90) DEF AttemptErrors, AttemptError
  <2>2. DecisionSound(d, statement.retry_policy, fiber[f].session, e, statement.is_idempotent)
    <3>1. /\ statement.retry_policy \in Policies /\ fiber[f].session \in SUBSET Flags
          /\ statement.is_idempotent \in BOOLEAN
      BY <1>1, Zenon DEF TypeOK, Statements, FiberType
    <3> QED BY <3>1, DecisionsSound, Zenon DEF Decide
  <2>3. /\ \/ d.what = "RetrySameTarget"  /\ GoOn(f, [g EXCEPT !.at = "connect"])
           \/ d.what = "RetryNextTarget"  /\ GoOn(f, [g EXCEPT !.at = "plan"])
           \/ d.what = "DontRetry"        /\ End(f, e.kind)
           \/ d.what = "IgnoreWriteError" /\ End(f, "IgnoredWriteError")
        /\ applied' = IF NotApplied(e) THEN applied ELSE applied + 1
    BY <1>5, Zenon DEF AttemptFails
  <2> HIDE DEF d
  <2>4. CASE End(f, e.kind)
    BY <1>1, <1>3, <2>1, <2>3, <2>4, EndRequestInv, Zenon
  <2>5. CASE End(f, "IgnoredWriteError")
    BY <1>1, <1>3, <2>3, <2>5, EndRequestInv, SMTT(60)
  <2>6. ASSUME NEW at \in {"connect", "plan"}, GoOn(f, [g EXCEPT !.at = at]),
               d.what = IF at = "connect" THEN "RetrySameTarget" ELSE "RetryNextTarget"
        PROVE  RequestInv'
    <3> DEFINE h == [g EXCEPT !.at = at]
               cl == IF d.cl = None THEN fiber[f].consistency ELSE d.cl
    <3>1. /\ h \in FiberType /\ h.at = at /\ h.session = d.session /\ h.last_error = e.kind
          /\ h.consistency = cl
      <4>1. d.session \in SUBSET Flags /\ e.kind \in LastErrors /\ cl \in Consistencies \cup {None}
        BY <1>1, <2>1, <2>2, Zenon DEF DecisionSound, LastErrors, FiberType
      <4>2. h = [fiber[f] EXCEPT !.session = d.session, !.last_error = e.kind,
                                 !.consistency = cl, !.at = at]
        BY SMTT(60)
      <4> HIDE DEF h, cl
      <4> QED BY <1>1, <4>1, <4>2, Zenon DEF FiberType
    <3> HIDE DEF h
    <3>2. /\ h \in FiberType /\ h.at = at /\ h.session = d.session /\ h.last_error # None
          /\ fiber[f].session \subseteq h.session
          /\ "retry" \notin h.session => h.consistency = fiber[f].consistency
      BY <1>3, <2>1, <2>2, <3>1, Zenon DEF DecisionSound
    <3>3. GoOn(f, h) /\ fiber' = [fiber EXCEPT ![f] = h]
      BY <2>6, Zenon DEF GoOn, h
    <3>4. ~statement.is_idempotent => applied' = applied
      BY <2>2, <2>3, <2>6, Zenon DEF DecisionSound
    <3>5. at = "connect" => \E flag \in SameTargetFlags : flag \in h.session \ fiber[f].session
      BY <2>2, <2>6, <3>2, Zenon DEF DecisionSound, SameTargetFlags
    <3>6. /\ Cardinality(Sent) \in Nat /\ Cardinality(Connecting) \in Nat
          /\ Cardinality(Paid) \in Nat /\ Cardinality(Paid') \in Nat
          /\ Cardinality(Sent') = Cardinality(Sent) - 1
          /\ Cardinality(Connecting') =
                IF at = "connect" THEN Cardinality(Connecting) + 1 ELSE Cardinality(Connecting)
          /\ Cardinality(Paid) <= Cardinality(Paid')
          /\ at = "connect" => Cardinality(Paid) + 1 <= Cardinality(Paid')
      BY <1>1, <3>2, <3>3, <3>5, Counts, Zenon
    <3>7. /\ applied' \in Nat /\ applied' + Cardinality(Sent') <= attempts'
          /\ attempts' + Cardinality(Connecting') <= next' + Cardinality(Paid')
      BY <1>1, <1>2, <2>3, <3>6
    <3> QED BY <1>1, <1>2, <3>2, <3>3, <3>4, <3>7, GoOnRequestInv, Zenon
  <2>7. CASE d.what = "RetrySameTarget" /\ GoOn(f, [g EXCEPT !.at = "connect"])
    BY <2>6, <2>7, Zenon
  <2>8. CASE d.what = "RetryNextTarget" /\ GoOn(f, [g EXCEPT !.at = "plan"])
    BY <2>6, <2>8, Zenon
  <2> QED BY <2>3, <2>4, <2>5, <2>7, <2>8, SMTT(60)
<1> QED BY <1>4, <1>5, Zenon DEF Answer

\* Every step preserves the inductive invariant.
LEMMA NextRequestInv == RequestInv /\ [Next]_vars => RequestInv'
<1> SUFFICES ASSUME RequestInv, [Next]_vars PROVE RequestInv'
  BY Zenon
<1>1. CASE SleepOver
  BY <1>1, SleepOverRequestInv, Zenon
<1>2. CASE Timeout \/ Done \/ UNCHANGED vars
  BY <1>2, TimeoutRequestInv, Zenon DEF Done
<1>3. ASSUME NEW f \in Fibers, NextTarget(f) \/ ChooseConnection(f) \/ Answer(f) PROVE RequestInv'
  BY <1>3, NextTargetRequestInv, ChooseConnectionRequestInv, AnswerRequestInv, Zenon
<1> QED BY <1>1, <1>2, <1>3, Zenon DEF Next

-----------------------------------------------------------------------------
(* What holds of every execution *)

\* The inductive invariant holds throughout the execution of a request.
THEOREM RequestInvariance == Spec => []RequestInv
<1>1. Init => RequestInv
  BY InitRequestInv, Zenon
<1>2. RequestInv /\ [Next]_vars => RequestInv'
  BY NextRequestInv, Zenon
<1> QED BY <1>1, <1>2, PTL DEF Spec

\* However many targets, speculative fibers and failures, a statement that is not
\* known to be idempotent is applied at most once: run_request does not speculate
\* with it, and no policy sends it again after an error that leaves it open.
THEOREM AppliedAtMostOnce == Spec => []NoDoubleApply
<1>1. RequestInv => NoDoubleApply
  <2> SUFFICES ASSUME RequestInv, ~statement.is_idempotent
               PROVE  applied + Cardinality(Sent) <= 1
    BY Zenon DEF NoDoubleApply, Sent
  <2>1. ~Speculating
    BY Zenon DEF Speculating
  <2>2. Sent \in SUBSET {0}
    BY <2>1, OneFiber, Zenon DEF Sent
  <2>3. CASE Sent = {}
    BY <2>3, FS_EmptySet DEF RequestInv, AppliedOnce
  <2>4. CASE Sent = {0}
    <3>1. applied = 0
      BY <2>4, Zenon DEF RequestInv, AppliedOnce, Live, Sent
    <3>2. Cardinality({0}) = 1
      BY FS_Singleton, Zenon
    <3> QED BY <2>4, <3>1, <3>2
  <2> QED BY <2>2, <2>3, <2>4, Zenon
<1> QED BY <1>1, RequestInvariance, PTL

\* An ignorable error is returned by execute only when no fiber could still bring
\* a result, and EmptyPlan only for a plan without targets.
THEOREM ReturnedErrorsAreFinal == Spec => []ErrorsAreFinal
<1>1. RequestInv => ErrorsAreFinal
  BY Zenon DEF RequestInv
<1> QED BY <1>1, RequestInvariance, PTL

\* The attempts of a request are bounded by the targets taken from the plan and
\* by the flags of the retry sessions, whatever the nodes answer.
THEOREM AttemptsAreBounded == Spec => []AttemptsBounded
<1>1. RequestInv => AttemptsBounded
  <2> SUFFICES ASSUME RequestInv PROVE attempts <= next + SameTargetRetries * Started
    BY Zenon DEF AttemptsBounded
  <2>1. TypeOK /\ attempts + Cardinality(Connecting) <= next + Cardinality(Paid)
    BY Zenon DEF RequestInv, AttemptsPaid
  <2>2. Cardinality(Paid) \in Nat /\ Cardinality(Paid) <= SameTargetRetries * Started
    BY <2>1, PaidFinite, Zenon DEF RequestInv, FibersInOrder
  <2>3. Connecting \in SUBSET Fibers
    BY Zenon DEF Connecting
  <2>4. Cardinality(Connecting) \in Nat /\ attempts \in Nat /\ next \in Nat
    BY <2>1, <2>3, FibersFinite, ExecutionAssumption DEF TypeOK
  <2>5. SameTargetRetries * Started \in Int
    <3>1. SameTargetRetries \in Nat
      BY <2>1, Zenon DEF SameTargetRetries, TypeOK, Statements, Policies
    <3>2. Born \in SUBSET Fibers /\ Started = Cardinality(Born)
      BY Zenon DEF Born, Started
    <3>3. Started \in Nat
      BY <3>2, FibersFinite, Zenon
    <3> QED BY <3>1, <3>3
  <2> QED BY <2>1, <2>2, <2>4, <2>5
<1> QED BY <1>1, RequestInvariance, PTL

\* A retry at another consistency level is one at a lower level than that of the
\* attempt that failed, although the session is told the level of the statement.
THEOREM ConsistencyIsOnlyLowered == Spec => ConsistencyOnlyLowered
<1> DEFINE A == \A f \in Fibers :
       (fiber[f].at = "sent" /\ Live(f)' /\ fiber'[f].consistency # fiber[f].consistency) =>
          Lower(fiber'[f].consistency, fiber[f].consistency)
<1>1. ASSUME RequestInv, [Next]_vars PROVE [A]_vars
  <2> SUFFICES ASSUME Next, NEW f \in Fibers, fiber[f].at = "sent", Live(f)',
                      fiber'[f].consistency # fiber[f].consistency
               PROVE  Lower(fiber'[f].consistency, fiber[f].consistency)
    BY <1>1, SMTT(60)
  <2>1. TypeOK /\ fiber \in [Fibers -> FiberType] /\ fiber[f] \in FiberType
    BY <1>1, Zenon DEF RequestInv, TypeOK, FiberType, Flags
  <2>2. ~(Timeout \/ Done)
    BY Zenon DEF Timeout, Done, vars
  <2>3. ~SleepOver
    <3> SUFFICES ASSUME SleepOver PROVE FALSE
      BY Zenon
    <3>1. fiber' = [fiber EXCEPT ![Started] = NewFiber]
      BY Zenon DEF SleepOver
    <3>2. Started = f
      BY <2>1, <3>1, Zenon
    <3>3. PICK n \in 1..(MaxRetryCount + 1) : Born = 0..(n - 1)
      BY <1>1, Zenon DEF RequestInv, FibersInOrder
    <3>4. n \in Nat \ {0} /\ n - 1 \in Int
      BY ExecutionAssumption
    <3>5. Cardinality(0..(n - 1)) = IF 0 > n - 1 THEN 0 ELSE n - 1 - 0 + 1
      BY <3>4, FS_Interval
    <3>6. Cardinality(Born) = n
      BY <3>3, <3>4, <3>5
    <3>7. f = n
      BY <3>2, <3>6, Zenon DEF Started, Born
    <3>8. f \in Born
      BY Zenon DEF Born
    <3> QED BY <3>3, <3>4, <3>7, <3>8, SMTT(60)
  <2>4. PICK k \in Fibers : NextTarget(k) \/ ChooseConnection(k) \/ Answer(k)
    BY <2>2, <2>3, SMTT(60) DEF Next
  <2>5. k = f
    BY <2>1, <2>4, Zenon
        DEF NextTarget, ChooseConnection, Answer, AttemptSucceeds, AttemptFails, GoOn, End
  <2>6. ~AttemptSucceeds(f)
    BY <2>1, Zenon DEF AttemptSucceeds, End, Unborn, Live
  <2>7. PICK e \in AttemptErrors(fiber[f].consistency) : AttemptFails(f, e)
    BY <2>4, <2>5, <2>6, Zenon DEF NextTarget, ChooseConnection, Answer
  <2> DEFINE d == Decide(f, e)
  <2>8. ASSUME End(f, e.kind) \/ End(f, "IgnoredWriteError") PROVE FALSE
    BY <2>1, <2>8 DEF End, Unborn, Live
  <2>9. fiber'[f].consistency = IF d.cl = None THEN fiber[f].consistency ELSE d.cl
    <3> HIDE DEF d
    <3>1. \E at \in {"connect", "plan"} :
             fiber' = [fiber EXCEPT ![f] =
                         [[fiber[f] EXCEPT !.session = d.session, !.last_error = e.kind,
                                          !.consistency = IF d.cl = None THEN @ ELSE d.cl]
                            EXCEPT !.at = at]]
      BY <2>7, <2>8, SMTT(60) DEF AttemptFails, GoOn, d
    <3> QED BY <2>1, <3>1 DEF FiberType
  <2>10. d.cl # None /\ fiber'[f].consistency = d.cl
    BY <2>9, SMTT(60)
  <2>11. /\ statement.retry_policy \in Policies /\ fiber[f].session \in SUBSET Flags
         /\ statement.is_idempotent \in BOOLEAN /\ statement.consistency \in Consistencies
    BY <2>1, ExecutionAssumption, SMTT(60) DEF TypeOK, Statements, FiberType
  <2>12. DecisionSound(d, statement.retry_policy, fiber[f].session, e, statement.is_idempotent)
    BY <2>11, DecisionsSound, SMTT(60) DEF Decide
  <2>13. fiber[f].consistency = statement.consistency
    <3> HIDE DEF d
    <3>1. "retry" \notin fiber[f].session
      BY <2>10, <2>12, SMTT(60) DEF DecisionSound
    <3> QED BY <1>1, <3>1, SMTT(60) DEF RequestInv, LoweredOnce, Live
  <2>14. d = DecideShouldRetry(statement.retry_policy, fiber[f].session, e,
                               statement.is_idempotent, statement.consistency)
    BY SMTT(60) DEF Decide
  <2> HIDE DEF d
  <2>15. Lower(d.cl, statement.consistency)
    <3>1. e \in AttemptErrors(statement.consistency)
      BY <2>13, Zenon
    <3>2. DecideShouldRetry(statement.retry_policy, fiber[f].session, e,
                            statement.is_idempotent, statement.consistency).cl # None
      BY <2>10, <2>14, Zenon
    <3>3. Lower(DecideShouldRetry(statement.retry_policy, fiber[f].session, e,
                                  statement.is_idempotent, statement.consistency).cl,
                statement.consistency)
      BY <2>11, <3>1, <3>2, DowngradeLowers, Zenon
    <3> QED BY <2>14, <3>3, Zenon
  <2> QED BY <2>10, <2>13, <2>15, SMTT(60)
<1>2. RequestInv /\ [Next]_vars => [A]_vars
  BY <1>1, Zenon
<1>3. Spec => [][A]_vars
  BY <1>2, RequestInvariance, PTL DEF Spec
<1> QED BY <1>3, Zenon DEF ConsistencyOnlyLowered

=============================================================================
