------------------------------- MODULE Pager -------------------------------
(***************************************************************************)
(* Paged execution (scylla/src/client/pager.rs): the background worker     *)
(* that fetches the pages of one statement (PagerWorker, or the            *)
(* SingleConnectionPagerWorker of the control connection), the channel of  *)
(* one place between them, and the QueryPager that gives rows to its user, *)
(* who may drop it at any time.                                            *)
(*                                                                         *)
(* The nodes hold Len(rows) pages with rows[p] rows each; the paging state *)
(* names the next page.  A target of the plan is only counted.             *)
(***************************************************************************)
EXTENDS RetryPolicy, History

CONSTANTS
  PageRows,       \* the sequences of page lengths that a statement may have
  MaxTargets,     \* bound on the length of the plan
  PagerLevels,    \* the consistency levels of statements
  PagerPolicies   \* the retry policies of statements

ASSUME PagerConstants ==
  /\ \A rows \in PageRows : rows \in Seq(Nat) /\ rows # <<>>
  /\ PagerPolicies \subseteq Policies

VARIABLES
  iteration,   \* the statement and its profile, fixed for the iteration
  worker,      \* the worker task
  channel,     \* the pages and errors under way, at most one
  pager,       \* QueryPager and its user
  hist,        \* the HistoryCollector of the statement
  tries,       \* what became of the attempts, in the order in which they were sent
  doubtful     \* number of answered attempts that may have been applied

pagerVars == <<iteration, worker, channel, pager, hist, tries, doubtful>>

\* What the statement is answered with, if nothing fails: rows, a result without
\* rows, a response that is no result; or its partition key cannot be computed.
Answers == {"rows", "void", "unexpected", "bad_key"}

Iterations ==
  {i \in [answer: Answers, rows: PageRows, targets: 0..MaxTargets, single: BOOLEAN,
          is_idempotent: BOOLEAN, consistency: PagerLevels, retry_policy: PagerPolicies] :
     /\ i.answer # "rows" => i.rows = <<0>>
     /\ i.single => /\ i.targets = 0 /\ i.retry_policy = "fallthrough"
                    /\ ~i.is_idempotent /\ i.answer # "bad_key"}

Item(what, page, ok) == [what |-> what, page |-> page, ok |-> ok]
NoItem == Item("none", 0, TRUE)
ErrorItem == Item("error", 0, TRUE)
EmptyPage == Item("page", 0, TRUE)

\* log_request_start comes first in `work`; a worker of a single connection has
\* no listener.
PagerInit ==
  /\ iteration \in Iterations
  /\ worker = [at |-> CASE iteration.answer = "bad_key" -> "send"
                        [] iteration.single -> "query"
                        [] OTHER -> "plan",
               targets |-> iteration.targets, page |-> 1, consistency |-> iteration.consistency,
               session |-> {}, item |-> IF iteration.answer = "bad_key" THEN ErrorItem ELSE NoItem,
               more |-> FALSE, request |-> 1, attempt |-> 0]
  /\ channel = <<>>
  /\ pager = [at |-> "first", rows |-> 0, given |-> <<>>, pages |-> <<>>]
  /\ hist = IF iteration.single \/ iteration.answer = "bad_key" THEN NewCollector
            ELSE LogRequestStart(NewCollector)
  /\ tries = <<>>
  /\ doubtful = 0

Logged(h) == hist' = IF iteration.single THEN hist ELSE h

Dropped == pager.at \in {"dropped", "failed"}
-----------------------------------------------------------------------------
(* PagerWorker::work and SingleConnectionPagerWorker::work *)

\* Hand `item` to the channel next; afterwards go on with the next page or end.
Sending(item, more) == [worker EXCEPT !.at = "send", !.item = item, !.more = more]

\* The plan is used up or given up: the last error is logged and sent.
GiveUp(h) ==
  /\ worker' = Sending(ErrorItem, FALSE)
  /\ Logged(LogRequestError(h, worker.request))

\* The next target of the plan, which is made once for the whole iteration.
WorkerTarget ==
  /\ worker.at = "plan"
  /\ IF worker.targets = 0
     THEN GiveUp(hist)
     ELSE /\ worker' = [worker EXCEPT !.at = "connect", !.targets = @ - 1]
          /\ UNCHANGED hist
  /\ UNCHANGED <<iteration, channel, pager, tries, doubtful>>

\* connection_for_shard; without a connection the policy is not asked.
WorkerConnect ==
  /\ worker.at = "connect"
  /\ worker' \in {[worker EXCEPT !.at = "query"], [worker EXCEPT !.at = "plan"]}
  /\ UNCHANGED <<iteration, channel, pager, hist, tries, doubtful>>

\* query_one_page up to the request: log_attempt_start.
WorkerQuery ==
  /\ worker.at = "query"
  /\ worker' = [worker EXCEPT !.at = "sent", !.attempt = hist.next_attempt_id]
  /\ tries' = Append(tries, "None")
  /\ Logged(LogAttemptStart(hist, worker.request, 0))
  /\ UNCHANGED <<iteration, channel, pager, doubtful>>

Tried(result) == tries' = [tries EXCEPT ![Len(tries)] = result]

\* into_paging_control_flow: the paging state of the response, not its rows,
\* says whether there are more pages.
MorePages(p) == p < Len(iteration.rows)

\* A page of rows; its metadata may turn out not to be decodable.
WorkerPage ==
  /\ worker.at = "sent" /\ iteration.answer = "rows"
  /\ \E ok \in BOOLEAN :
       worker' = Sending(Item("page", worker.page, ok), MorePages(worker.page))
  /\ Logged(LogRequestSuccess(LogAttemptSuccess(hist, worker.attempt), worker.request))
  /\ Tried("AttemptSuccess")
  /\ UNCHANGED <<iteration, channel, pager, doubtful>>

\* A result without rows: an empty page, and neither the attempt nor the request
\* is logged as ended.
WorkerNoRows ==
  /\ worker.at = "sent" /\ iteration.answer = "void"
  /\ worker' = Sending(EmptyPage, FALSE)
  /\ doubtful' = doubtful + 1
  /\ UNCHANGED <<iteration, channel, pager, hist, tries>>

PagerDecide(e) ==
  DecideShouldRetry(iteration.retry_policy, worker.session, e, iteration.is_idempotent,
                    iteration.consistency)

\* The attempt fails with e.
WorkerFails(e) ==
  /\ worker.at = "sent"
  /\ LET d == PagerDecide(e)
         w == [worker EXCEPT !.session = d.session,
                             !.consistency = IF d.cl = None THEN @ ELSE d.cl]
         logged == LogAttemptError(hist, worker.attempt)
     IN  \/ /\ d.what = "RetrySameTarget"
            /\ worker' = [w EXCEPT !.at = "query"]
            /\ Logged(logged)
         \/ /\ d.what = "RetryNextTarget"
            /\ worker' = [w EXCEPT !.at = "plan"]
            /\ Logged(logged)
         \/ d.what = "DontRetry" /\ GiveUp(logged)
         \/ /\ d.what = "IgnoreWriteError"
            /\ worker' = Sending(EmptyPage, FALSE)
            /\ Logged(logged)
  /\ Tried("AttemptError")
  /\ doubtful' = IF NotApplied(e) THEN doubtful ELSE doubtful + 1
  /\ UNCHANGED <<iteration, channel, pager>>

\* The errors of the answer to an attempt; a response that is no result is one
\* that no policy retries.
PageErrors ==
  IF iteration.answer = "unexpected" THEN {AttemptError("Invalid", 0, iteration.consistency, FALSE, None)}
  ELSE {e \in AttemptErrors(worker.consistency) :
          e.kind = "WriteTimeout" => iteration.answer = "void"}

\* Mutant: the paging state is kept until the next page has arrived.
WorkerSendSamePage ==
  /\ worker.at = "send" /\ (Dropped \/ channel = <<>>)
  /\ channel' = IF Dropped THEN channel ELSE Append(channel, worker.item)
  /\ worker' = [worker EXCEPT !.at = IF worker.more /\ ~Dropped THEN "query" ELSE "done",
                              !.item = NoItem, !.session = {}, !.more = FALSE,
                              !.page = IF worker.session = {} THEN @ + 1 ELSE @]
  /\ UNCHANGED <<iteration, pager, hist, tries, doubtful>>

\* Mutant: the worker does not notice that the receiver is gone.
WorkerSendRegardless ==
  /\ worker.at = "send" /\ channel = <<>>
  /\ channel' = Append(channel, worker.item)
  /\ worker' = [worker EXCEPT !.at = IF worker.more THEN "query" ELSE "done",
                              !.item = NoItem, !.session = {}, !.more = FALSE,
                              !.page = IF worker.more THEN @ + 1 ELSE @]
  /\ UNCHANGED <<iteration, pager, hist, tries, doubtful>>

\* ProvingSender::send waits for room, and fails once the receiver is gone.  When
\* there are more pages, the session is reset and the next request begins.
WorkerSend ==
  /\ worker.at = "send" /\ (Dropped \/ channel = <<>>)
  /\ channel' = IF Dropped THEN channel ELSE Append(channel, worker.item)
  /\ IF worker.more /\ ~Dropped
     THEN /\ worker' = [worker EXCEPT !.at = "query", !.item = NoItem, !.session = {},
                                      !.page = @ + 1, !.more = FALSE,
                                      !.request = hist.next_request_id]
          /\ Logged(LogRequestStart(hist))
     ELSE /\ worker' = [worker EXCEPT !.at = "done", !.item = NoItem, !.more = FALSE]
          /\ UNCHANGED hist
  /\ UNCHANGED <<iteration, pager, tries, doubtful>>
-----------------------------------------------------------------------------
(* QueryPager *)

RowsOf(item) == IF item.page = 0 THEN 0 ELSE iteration.rows[item.page]

\* new_from_worker_future and poll_next_page: an item is received.  An error, or
\* metadata that cannot be decoded, fails the construction of the QueryPager; in
\* an existing one it is reported and the iteration may go on.
PagerRecv ==
  /\ pager.at \in {"first", "open"} /\ pager.rows = 0
  /\ channel # <<>>
  /\ LET item == Head(channel)
         bad  == item.what = "error" \/ ~item.ok
     IN  pager' = [pager EXCEPT
           !.at = IF ~bad THEN "open" ELSE IF pager.at = "first" THEN "failed" ELSE @,
           !.rows = IF bad THEN 0 ELSE RowsOf(item),
           !.pages = Append(@, item),
           !.given = Append(@, 0)]
  /\ channel' = Tail(channel)
  /\ UNCHANGED <<iteration, worker, hist, tries, doubtful>>

\* The channel is empty and the sender gone: the stream is over.
PagerEnd ==
  /\ pager.at = "open" /\ pager.rows = 0
  /\ channel = <<>> /\ worker.at = "done"
  /\ pager' = [pager EXCEPT !.at = "ended"]
  /\ UNCHANGED <<iteration, worker, channel, hist, tries, doubtful>>

\* QueryPager::next gives a row of the current page; `given` counts the rows of
\* each page that the user has got.
PagerRow ==
  /\ pager.at = "open" /\ pager.rows > 0
  /\ pager' = [pager EXCEPT !.rows = @ - 1, !.given[Len(pager.given)] = @ + 1]
  /\ UNCHANGED <<iteration, worker, channel, hist, tries, doubtful>>

\* The user drops the pager, or the future that makes it.
PagerDrop ==
  /\ pager.at \in {"first", "open"}
  /\ pager' = [pager EXCEPT !.at = "dropped", !.rows = 0]
  /\ channel' = <<>>
  /\ UNCHANGED <<iteration, worker, hist, tries, doubtful>>

\* The user takes the history out while the iteration goes on.
HistoryTaken ==
  /\ hist.events # <<>>
  /\ hist' = TakeCollected(hist)
  /\ UNCHANGED <<iteration, worker, channel, pager, tries, doubtful>>

WorkerStep ==
  \/ WorkerTarget \/ WorkerConnect \/ WorkerQuery \/ WorkerPage \/ WorkerNoRows \/ WorkerSend
  \/ \E e \in PageErrors : WorkerFails(e)

UserStep == PagerRecv \/ PagerEnd \/ PagerRow

PagerNext == WorkerStep \/ UserStep \/ PagerDrop \/ HistoryTaken

PagerSpec == PagerInit /\ [][PagerNext]_pagerVars
-----------------------------------------------------------------------------
(* Properties *)

\* The user receives the pages one by one and in order, whatever is retried and
\* on whichever node: the i-th item received is page i, an error, or the empty
\* page of a statement without rows.
PagesInOrder ==
  \A i \in DOMAIN pager.pages :
    pager.pages[i].what = "page" => pager.pages[i].page = (IF iteration.answer = "rows" THEN i ELSE 0)

\* A stream that ends without an error has given all pages, and all rows of each:
\* a page without rows in the middle does not end it.
EndIsComplete ==
  (pager.at = "ended" /\ \A i \in DOMAIN pager.pages : pager.pages[i].what = "page" /\ pager.pages[i].ok) =>
     pager.given = iteration.rows

\* The unwrap in new_from_worker_future: the worker does not end before it has
\* sent something to a user who waits for the first page.
FirstPageArrives == ~(pager.at = "first" /\ worker.at = "done" /\ channel = <<>>)

\* A statement that is not idempotent is not sent again once a node may have
\* applied it.
PagerNoDoubleApply ==
  ~iteration.is_idempotent => doubtful + (IF worker.at = "sent" THEN 1 ELSE 0) <= 1

\* The collected history says of each attempt what became of it, and once the
\* worker has ended every request in it has a result; only a statement without
\* rows is left open.  The user may have taken out any prefix of the events.
HistoryIsTrue ==
  \A r \in Range(StructuredHistory(hist)) :
    /\ \A a \in DOMAIN r.non_speculative_fiber : r.non_speculative_fiber[a] = tries[a]
    /\ (worker.at = "done" /\ iteration.answer # "void") => r.result # "None"

\* Once the user has dropped the pager, the worker stops.
DropStopsWorker == Dropped ~> (worker.at = "done")

\* If the nodes answer and the user keeps polling, the iteration comes to an end.
IterationEnds == <>(pager.at \in {"ended", "failed", "dropped"})

\* What the user of a pager is told is true and complete: the pages, the first
\* one, the end, the history; and nothing is applied twice for it.
PagingFaithful ==
  PagesInOrder /\ EndIsComplete /\ FirstPageArrives /\ PagerNoDoubleApply /\ HistoryIsTrue
=============================================================================
