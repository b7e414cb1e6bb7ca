---------------------------- MODULE MCConnections -----------------------------
(***************************************************************************)
(* The connections to a node: the router of one of them, and the pool that *)
(* opens and replaces them.  They do not share state (to the pool a        *)
(* connection works or has reported its error, to the router there is only *)
(* its own socket); a behaviour is a behaviour of one of the two.          *)
(***************************************************************************)
EXTENDS ConnectionRouter, MCPoolRefiller

VARIABLE part

connectionVars == <<part, vars, poolVars>>

\* A connection that was dropped before anything was sent.
RouterIdle ==
    /\ caller = [r \in Requests |-> "idle"] /\ reply = [r \in Requests |-> NoReply]
    /\ submit_channel = <<>> /\ notifications = <<>> /\ used = {}
    /\ handlers = [s \in StreamIds |-> Nil] /\ request_to_stream = [r \in Requests |-> Nil]
    /\ orphans = {} /\ old = {} /\ writer = "recv" /\ current = Nil /\ buffer = {} /\ wire = {}
    /\ status = "dropped" /\ server = "alive"

\* A full pool of a node that is not sharded.
PoolIdle ==
    /\ pool_size = CHOOSE size \in PoolSizes : TRUE
    /\ node = 0 /\ sharder = 0 /\ conns = [s \in {0} |-> 1..Target]
    /\ conn = [i \in 1..Target |->
                 [nr |-> 0, shard |-> 0, keyspace |-> None, use_failed |-> FALSE, up |-> TRUE]]
    /\ opening = [r \in Requested |-> 0] /\ using = {} /\ excess = {}
    /\ current_keyspace = None /\ refill_scheduled = FALSE /\ shared = Ready(0, conns)
    /\ waiter = "done" /\ reader = None /\ events = 0

ConnectionsInit ==
    \/ part = "router" /\ Init /\ PoolIdle
    \/ part = "pool" /\ RouterIdle /\ PoolInit

ConnectionsNext ==
    \/ part = "router" /\ Next /\ UNCHANGED <<part, poolVars>>
    \/ part = "pool" /\ PoolNext /\ UNCHANGED <<part, vars>>

\* The fairness of the parts: of an idle part it demands nothing.
ConnectionsSpec ==
    ConnectionsInit /\ [][ConnectionsNext]_connectionVars /\ Fairness /\ PoolFairness
=============================================================================
