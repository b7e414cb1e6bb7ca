SPECIFICATION FairSpec
CONSTANT
    h1 = h1
    h2 = h2
    Hosts = {h1, h2}
    History <- Schemas
    AutoAwait = TRUE
    AutoRefresh = TRUE
    MaxFaults = 1
INVARIANT TypesResolve
INVARIANT AgreementCoversStatement
PROPERTY RefreshesKeepUp
PROPERTY SchemaSettles
