SPECIFICATION FairSpec
CONSTANTS
    Hosts = {a, b}
    Contacts = {a}
    Accepted = {b}
    TokenOwners = {a}
    EventCapacity = 1
    RepairCapacity = 1
    None = None
    Clients = {c}
    Keyspaces = {k}
    Sessions <- OneCallEach
    RefreshCapacity = 1
    MaxEpoch = 1
    MaxFaults = 1
INVARIANT PublishedNodesServe
PROPERTY RefreshIsFresh
PROPERTY CallsAnswered
PROPERTY TopologyConverges
