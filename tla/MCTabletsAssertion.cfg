SPECIFICATION Spec
CONSTANTS
    HostIds = {h1, h2}
    DCs = {"dc1", "dc2"}
    NoDC = "unknown"
    Tables = {b1}
    PeerData <- MCPeerData
    MaxToken = 1
    MaxRefreshes = 2
INVARIANT NeverPanics
