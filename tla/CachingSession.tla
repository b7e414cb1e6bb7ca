--------------------------- MODULE CachingSession ---------------------------
(***************************************************************************)
(* CachingSession (scylla/src/client/caching_session.rs): executions that  *)
(* run concurrently look their statement up in a shared concurrent map,    *)
(* prepare it if it is missing, make room in the map and insert it.  Each  *)
(* access to the map is one step; nothing locks the map over two of them.  *)
(***************************************************************************)
EXTENDS Naturals, FiniteSets

CONSTANTS
  Callers,          \* the concurrent executions
  Queries,          \* the contents of the statements they execute
  Capacities,       \* the values of max_capacity
  MaxExecutions     \* bound on the number of executions

ASSUME CachingConstants ==
  /\ Capacities \subseteq Nat
  /\ MaxExecutions \in Nat

VARIABLES
  max_capacity,   \* of the session
  cache,          \* the statements in the map
  caller,         \* where each execution is, with its statement and victim
  raced,          \* two executions have changed the map at the same time
  executions      \* number of executions started

cachingVars == <<max_capacity, cache, caller, raced, executions>>

Resting == [at |-> "rest", query |-> "none", victim |-> "none"]

CachingInit ==
  /\ max_capacity \in Capacities
  /\ cache = {}
  /\ caller = [c \in Callers |-> Resting]
  /\ raced = FALSE
  /\ executions = 0

\* add_prepared_statement_owned: the lookup, which may be all there is to do.
Lookup(c) ==
  /\ caller[c].at = "rest" /\ executions < MaxExecutions
  /\ \E q \in Queries :
       caller' = [caller EXCEPT ![c] = IF q \in cache THEN Resting
                                       ELSE [at |-> "prepare", query |-> q, victim |-> "none"]]
  /\ executions' = executions + 1
  /\ UNCHANGED <<max_capacity, cache, raced>>

\* Session::prepare returns a statement or an error.
PrepareReturns(c) ==
  /\ caller[c].at = "prepare"
  /\ \/ caller' = [caller EXCEPT ![c].at = "length"]
     \/ caller' = [caller EXCEPT ![c] = Resting]
  /\ UNCHANGED <<max_capacity, cache, raced, executions>>

Changing(c) == caller[c].at \in {"first", "remove", "insert"}

\* Mutant: room is made only when the map holds more than its capacity.
CheckLengthAbove(c) ==
  /\ caller[c].at = "length"
  /\ caller' = [caller EXCEPT ![c].at = IF Cardinality(cache) > max_capacity THEN "first" ELSE "insert"]
  /\ raced' = (raced \/ \E d \in Callers \ {c} : Changing(d))
  /\ UNCHANGED <<max_capacity, cache, executions>>

\* max_capacity == cache.len()
CheckLength(c) ==
  /\ caller[c].at = "length"
  /\ caller' = [caller EXCEPT ![c].at = IF max_capacity = Cardinality(cache) THEN "first" ELSE "insert"]
  /\ raced' = (raced \/ \E d \in Callers \ {c} : Changing(d))
  /\ UNCHANGED <<max_capacity, cache, executions>>

\* cache.iter().next(): any entry, there is no order.
FirstEntry(c) ==
  /\ caller[c].at = "first"
  /\ IF cache = {}
     THEN caller' = [caller EXCEPT ![c].at = "insert"]
     ELSE \E q \in cache : caller' = [caller EXCEPT ![c].at = "remove", ![c].victim = q]
  /\ UNCHANGED <<max_capacity, cache, raced, executions>>

RemoveEntry(c) ==
  /\ caller[c].at = "remove"
  /\ cache' = cache \ {caller[c].victim}
  /\ caller' = [caller EXCEPT ![c].at = "insert"]
  /\ UNCHANGED <<max_capacity, raced, executions>>

InsertEntry(c) ==
  /\ caller[c].at = "insert"
  /\ cache' = cache \cup {caller[c].query}
  /\ caller' = [caller EXCEPT ![c] = Resting]
  /\ UNCHANGED <<max_capacity, raced, executions>>

CachingNext ==
  \E c \in Callers :
    \/ Lookup(c) \/ PrepareReturns(c) \/ CheckLength(c) \/ FirstEntry(c) \/ RemoveEntry(c)
    \/ InsertEntry(c)

CachingSpec == CachingInit /\ [][CachingNext]_cachingVars
-----------------------------------------------------------------------------
\* The map never holds more than max_capacity statements, as long as no two
\* executions changed it at the same time and the capacity is not zero.  After
\* such a race the length may pass the capacity, the test for equality never
\* holds again, and the map grows with every new statement.
CacheWithinCapacity ==
  (~raced /\ max_capacity > 0) => Cardinality(cache) <= max_capacity
=============================================================================
