-------------------------------- MODULE Proxy --------------------------------
(***************************************************************************)
(* The tasks of the proxy (scylla-proxy/src/proxy.rs), from Proxy::run to  *)
(* RunningProxy::finish: one doorkeeper for each node, and for each        *)
(* connection that it accepts three workers, or six when there is a real   *)
(* node behind it.  They are told to stop by two broadcasts, of the proxy  *)
(* (terminate) and of the node (close), and are waited for by a channel of *)
(* which each holds a sender (finish_guard); the first error of the others *)
(* (error_propagator) is what finish returns.  Frames are not modelled     *)
(* here: that a worker has one to read or write is up to its peer.         *)
(***************************************************************************)
EXTENDS Integers, Sequences, FiniteSets

CONSTANTS
  Setups,          \* [nodes, real, limit]: the nodes in order, those that are not
                   \* simulated, and how many connections are made to each
  MaxConnections   \* connections of all nodes

VARIABLES
  setup,      \* the nodes the proxy was built with
  running,    \* Proxy::run, then the handle: where it is, and what finish returned
  keeper,     \* the doorkeeper of each node, and whether it was told to terminate
  conns,      \* connections: whether the peers keep them open, what was broadcast
              \* since they were made
  workers,    \* the workers that run, as <<connection, role>>
  dropping,   \* connections for which a task waits to broadcast the close
  error       \* the first error that was propagated

proxyVars == <<setup, running, keeper, conns, workers, dropping, error>>

SimulatedRoles == {"receiver_from_driver", "request_processor", "sender_to_driver"}
ClusterRoles == {"sender_to_cluster", "receiver_from_cluster", "response_processor"}
Processors == {"request_processor", "response_processor"}
RolesAt(n) == IF n \in setup.real THEN SimulatedRoles \cup ClusterRoles ELSE SimulatedRoles

Nodes == {setup.nodes[i] : i \in DOMAIN setup.nodes}
ConnsOf(n) == {c \in DOMAIN conns : conns[c].node = n}

ProxyInit ==
  /\ setup \in Setups
  /\ running = [at |-> "starting", spawned |-> 0, unheard |-> FALSE, result |-> "none"]
  /\ keeper = [n \in Nodes |-> [at |-> "none", told |-> FALSE]]
  /\ conns = <<>> /\ workers = {} /\ dropping = {} /\ error = "none"

Report(e) == IF error = "none" THEN e ELSE error

\* Whether someone can still send on the broadcast of the node: the doorkeeper, a
\* processor, a task that waits to close; and on that of the proxy: the handle,
\* until finish drops it, and the doorkeepers.
CanClose(n) ==
  \/ keeper[n].at = "serving"
  \/ \E c \in ConnsOf(n) : c \in dropping \/ \E p \in Processors : <<c, p>> \in workers

CanTerminate ==
  \/ running.at \in {"starting", "running"}
  \/ \E n \in Nodes : keeper[n].at \in {"querying", "serving"}
-----------------------------------------------------------------------------
(* Doorkeepers *)

\* Proxy::run: the doorkeepers one after the other, each bound to its address
\* before the next; the first that fails ends it, the others stay.
SpawnKeeper(binds) ==
  LET n == setup.nodes[running.spawned + 1]
      last == running.spawned + 1 = Len(setup.nodes)
  IN /\ running.at = "starting"
     /\ IF binds
        THEN /\ keeper' = [keeper EXCEPT ![n].at = "querying"]
             /\ running' = [running EXCEPT !.spawned = @ + 1, !.at = IF last THEN "running" ELSE @]
        ELSE /\ running' = [running EXCEPT !.at = "failed"]
             /\ UNCHANGED keeper
     /\ UNCHANGED <<setup, conns, workers, dropping, error>>

\* update_shards_count, however it went, and only then the subscription.
KeeperSubscribes(n) ==
  /\ keeper[n].at = "querying"
  /\ keeper' = [keeper EXCEPT ![n].at = "serving"]
  /\ UNCHANGED <<setup, running, conns, workers, dropping, error>>

\* accept_connection and spawn_workers: the workers subscribe to both broadcasts,
\* and hear what is sent from now on.
Accept(n) ==
  LET c == Len(conns) + 1
  IN /\ keeper[n].at = "serving"
     /\ Len(conns) < MaxConnections /\ Cardinality(ConnsOf(n)) < setup.limit[n]
     /\ conns' = Append(conns, [node |-> n, driver |-> TRUE, cluster |-> TRUE, dropped |-> FALSE, told |-> FALSE])
     /\ workers' = workers \cup {<<c, r>> : r \in RolesAt(n)}
     /\ UNCHANGED <<setup, running, keeper, dropping, error>>

\* The signal ends the doorkeeper; so does an error of accept_connection.
KeeperHears(n) ==
  /\ keeper[n].at = "serving" /\ keeper[n].told
  /\ keeper' = [keeper EXCEPT ![n].at = "gone"]
  /\ UNCHANGED <<setup, running, conns, workers, dropping, error>>

KeeperFails(n) ==
  /\ keeper[n].at = "serving"
  /\ keeper' = [keeper EXCEPT ![n].at = "gone"]
  /\ error' = Report("doorkeeper")
  /\ UNCHANGED <<setup, running, conns, workers, dropping>>
-----------------------------------------------------------------------------
(* Workers *)

\* The workers that a worker gets its frames from, and the one it gives them to.
FeedersOf(role) ==
  CASE role = "request_processor" -> {"receiver_from_driver"}
    [] role = "response_processor" -> {"receiver_from_cluster"}
    [] role \in {"sender_to_driver", "sender_to_cluster"} -> Processors
    [] OTHER -> {}

ReaderOf(role) == IF role = "receiver_from_driver" THEN "request_processor" ELSE "response_processor"
SideOf(role) == IF role \in {"receiver_from_driver", "sender_to_driver"} THEN "driver" ELSE "cluster"
Receives(role) == role \in {"receiver_from_driver", "receiver_from_cluster"}
Sends(role) == role \in {"sender_to_driver", "sender_to_cluster"}

\* What may end the future of a worker: a broadcast, that arrived or no longer
\* can; the end of those that feed it; for a receiver the end of the stream, or
\* a frame when there is no one to take it; for a sender a frame that cannot be
\* written.
EndsFor(c, role, cause) ==
  LET open == conns[c][SideOf(role)]
  IN CASE cause = "interrupted" -> conns[c].told \/ conns[c].dropped \/ ~ CanTerminate \/ ~ CanClose(conns[c].node)
       [] cause = "starved" -> ~ Receives(role) /\ \A r \in FeedersOf(role) : <<c, r>> \notin workers
       [] cause = "disconnected" -> Receives(role) /\ ~ open
       [] cause = "not taken" -> Receives(role) /\ open /\ <<c, ReaderOf(role)>> \notin workers
       [] cause = "not written" -> Sends(role) /\ ~ open

\* A sender that was told to stop does not report that it could not write.
IsError(c, cause) ==
  \/ cause = "disconnected"
  \/ cause = "not written" /\ ~ conns[c].told /\ ~ conns[c].dropped

\* run_until_interrupted and exit
WorkerExits(c, role, cause) ==
  /\ <<c, role>> \in workers /\ EndsFor(c, role, cause)
  /\ workers' = workers \ {<<c, role>>}
  /\ error' = IF IsError(c, cause) THEN Report(SideOf(role)) ELSE error
  /\ UNCHANGED <<setup, running, keeper, conns, dropping>>

\* A rule that drops the connection applies to a frame: a task of its own waits
\* for the delay.  (Bound: one such task at a time, and no rule applies again to a
\* connection that was closed.)
DropRuleApplies(c, processor) ==
  /\ <<c, processor>> \in workers /\ ~ conns[c].dropped /\ dropping = {}
  /\ dropping' = {c}
  /\ UNCHANGED <<setup, running, keeper, conns, workers, error>>

\* The broadcast is that of the doorkeeper: every connection of the node hears it.
DropFires(c) ==
  /\ c \in dropping /\ dropping' = dropping \ {c}
  /\ conns' = [i \in DOMAIN conns |->
                 IF i \in ConnsOf(conns[c].node) THEN [conns[i] EXCEPT !.dropped = TRUE] ELSE conns[i]]
  /\ UNCHANGED <<setup, running, keeper, workers, error>>

\* The driver or the node closes its side.
PeerCloses(c, side) ==
  /\ conns[c][side] /\ (side = "cluster" => conns[c].node \in setup.real)
  /\ conns' = [conns EXCEPT ![c][side] = FALSE]
  /\ UNCHANGED <<setup, running, keeper, workers, dropping, error>>
-----------------------------------------------------------------------------
(* The handle *)

Querying == {n \in Nodes : keeper[n].at = "querying"}
Serving == {n \in Nodes : keeper[n].at = "serving"}

\* Mutant: the doorkeepers do not hear the signal.
FinishSendsToWorkers ==
  /\ running.at = "running"
  /\ running' = [running EXCEPT !.at = "waiting", !.unheard = Querying # {}]
  /\ conns' = [c \in DOMAIN conns |-> [conns[c] EXCEPT !.told = TRUE]]
  /\ UNCHANGED <<setup, keeper, workers, dropping, error>>

\* finish: the signal is for those that listen now; without any it is an error.
FinishSends ==
  /\ running.at = "running"
  /\ IF Serving = {} /\ workers = {}
     THEN /\ running' = [running EXCEPT !.at = "finished", !.result = "AwaitFinishFailure"]
          /\ UNCHANGED <<keeper, conns>>
     ELSE /\ running' = [running EXCEPT !.at = "waiting", !.unheard = Querying # {}]
          /\ keeper' = [n \in Nodes |-> [keeper[n] EXCEPT !.told = n \in Serving]]
          /\ conns' = [c \in DOMAIN conns |-> [conns[c] EXCEPT !.told = TRUE]]
  /\ UNCHANGED <<setup, workers, dropping, error>>

\* Mutant: a doorkeeper takes its guard when it starts to serve.
GuardsHeldServing == workers # {} \/ Serving # {}

GuardsHeld == workers # {} \/ Serving # {} \/ Querying # {}

\* The last guard is gone.  Its holder drops it before its error_propagator: when
\* there is no error, finish may look in between, and take what it sees for a bug.
FinishReturns ==
  /\ running.at = "waiting" /\ ~ GuardsHeld
  /\ \E result \in (IF error # "none" THEN {error} ELSE {"ok", "unreachable"}) :
       running' = [running EXCEPT !.at = "finished", !.result = result]
  /\ UNCHANGED <<setup, keeper, conns, workers, dropping, error>>

\* What happens by itself; frames, and the failures of others, may never come.
ProxyStep ==
  \/ \E n \in Nodes : KeeperSubscribes(n) \/ KeeperHears(n)
  \/ \E w \in workers, cause \in {"interrupted", "starved", "disconnected"} : WorkerExits(w[1], w[2], cause)
  \/ \E c \in dropping : DropFires(c)
  \/ FinishReturns

ProxyNext ==
  \/ ProxyStep
  \/ \E binds \in BOOLEAN : SpawnKeeper(binds)
  \/ \E n \in Nodes : Accept(n) \/ KeeperFails(n)
  \/ \E w \in workers, cause \in {"not taken", "not written"} : WorkerExits(w[1], w[2], cause)
  \/ \E c \in DOMAIN conns, p \in Processors : DropRuleApplies(c, p)
  \/ \E c \in DOMAIN conns, side \in {"driver", "cluster"} : PeerCloses(c, side)
  \/ FinishSends
-----------------------------------------------------------------------------
(* Properties *)

\* When finish has returned after it waited, whatever it returned, no doorkeeper
\* and no worker is there to serve a connection, nor ever will be: those spawned
\* after the signal was sent included.
NothingRunsAfterFinish ==
  running.at = "finished" /\ running.result # "AwaitFinishFailure" =>
    workers = {} /\ Serving = {} /\ Querying = {}

\* A connection is left alone unless its driver or its node closes it, a rule
\* drops a connection of the same node, or the handle of the proxy is gone: the
\* failure of its doorkeeper does not end it, nor what happens to other
\* connections.
QuietConnectionsStay ==
  \A c \in DOMAIN conns :
    conns[c].driver /\ conns[c].cluster /\ ~ conns[c].dropped /\ running.at \in {"starting", "running"} =>
      \A r \in RolesAt(conns[c].node) : <<c, r>> \in workers

\* finish returns, if every doorkeeper had subscribed when it sent the signal:
\* everyone hears it, or sees the last sender of it go.
FinishEnds == (running.at = "waiting" /\ ~ running.unheard) ~> (running.at = "finished")

\* A connection that a rule drops comes to an end, with all of its workers; if
\* the signal does not reach a receiver, it waits for its peer for ever.
DroppedConnectionsEnd == \A c \in 1..MaxConnections : (c \in dropping) ~> (\A w \in workers : w[1] # c)

\* The proxy ends what it has to and nothing else.
ProxyTasksSound == NothingRunsAfterFinish /\ QuietConnectionsStay
=============================================================================
