SPECIFICATION Spec
CONSTANTS
    Requests = {r1, r2}
    MaxStreams = 2
    SubmitCapacity = 1
    OrphanThreshold = 0
    Coalescing = FALSE
    KeepaliveId = Nil
    Nil = Nil
INVARIANT AbandonedIsOrphaned
