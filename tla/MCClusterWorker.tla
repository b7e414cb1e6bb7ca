--------------------------- MODULE MCClusterWorker ---------------------------
EXTENDS ClusterWorker

At(ms, al, clients, ks) == [members |-> ms, alive |-> al, refresh |-> clients, keyspaces |-> ks]

\* A session that asks for refreshes; one that changes the keyspace; one that only watches a
\* cluster that grows, or one with hosts that are down.
OneCallEach ==
    {At(Hosts, Hosts, Clients, {}), At(Hosts, Hosts, {}, Keyspaces),
     At(Contacts, Contacts, {}, {}), At(Hosts, Contacts, {}, {})}
=============================================================================
