------------------------------ MODULE History ------------------------------
(***************************************************************************)
(* HistoryCollector (scylla/src/observability/history.rs): the listener    *)
(* that numbers requests, speculative fibers and attempts and collects     *)
(* what happens to them, and StructuredHistory, which sorts the collected  *)
(* events into requests.  Points in time and the payload of errors are     *)
(* left out; 0 stands for the absence of a speculative fiber.              *)
(***************************************************************************)
EXTENDS Naturals, Sequences, FiniteSetsExt, Functions

\* HistoryCollectorData
NewCollector ==
  [events |-> <<>>, next_request_id |-> 1, next_speculative_fiber_id |-> 1, next_attempt_id |-> 1]

Event(what, id, request, fiber) == [what |-> what, id |-> id, request |-> request, fiber |-> fiber]

AddEvent(data, e) == [data EXCEPT !.events = Append(@, e)]

\* The calls of the HistoryListener; the ones that start something use the next
\* number, which the caller keeps.
LogRequestStart(data) ==
  [AddEvent(data, Event("NewRequest", data.next_request_id, data.next_request_id, 0))
     EXCEPT !.next_request_id = @ + 1]
LogRequestSuccess(data, r) == AddEvent(data, Event("RequestSuccess", r, r, 0))
LogRequestError(data, r) == AddEvent(data, Event("RequestError", r, r, 0))
LogNewSpeculativeFiber(data, r) ==
  [AddEvent(data, Event("NewSpeculativeFiber", data.next_speculative_fiber_id, r, 0))
     EXCEPT !.next_speculative_fiber_id = @ + 1]
LogAttemptStart(data, r, fiber) ==
  [AddEvent(data, Event("NewAttempt", data.next_attempt_id, r, fiber))
     EXCEPT !.next_attempt_id = @ + 1]
LogAttemptSuccess(data, a) == AddEvent(data, Event("AttemptSuccess", a, 0, 0))
LogAttemptError(data, a) == AddEvent(data, Event("AttemptError", a, 0, 0))

\* take_collected: the events leave, the numbers go on.
TakeCollected(data) == [data EXCEPT !.events = <<>>]

\* The last result of `id` among events: a later one replaces an earlier one.
ResultOf(events, id, outcomes) ==
  LET results == {i \in DOMAIN events : events[i].what \in outcomes /\ events[i].id = id}
  IN  IF results = {} THEN "None" ELSE events[Max(results)].what

\* The attempts of a fiber, by their ids, with their results.
AttemptsOf(events, request, fiber) ==
  LET started == {i \in DOMAIN events : /\ events[i].what = "NewAttempt" /\ events[i].fiber = fiber
                                        /\ fiber = 0 => events[i].request = request}
  IN  [a \in {events[i].id : i \in started} |->
         ResultOf(events, a, {"AttemptSuccess", "AttemptError"})]

\* From<&HistoryCollectorData> for StructuredHistory: the requests by their ids.
StructuredHistory(data) ==
  LET new(what) == {i \in DOMAIN data.events : data.events[i].what = what}
      fibers(r) == {i \in new("NewSpeculativeFiber") : data.events[i].request = r}
  IN  [r \in {data.events[i].id : i \in new("NewRequest")} |->
        [non_speculative_fiber |-> AttemptsOf(data.events, r, 0),
         speculative_fibers |-> [f \in {data.events[i].id : i \in fibers(r)} |->
                                   AttemptsOf(data.events, r, f)],
         result |-> ResultOf(data.events, r, {"RequestSuccess", "RequestError"})]]
=============================================================================
