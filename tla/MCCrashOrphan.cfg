CONSTANTS
    t1 = t1
    t2 = t2
    w1 = w1
    w2 = w2
    tagA = tagA
    tagB = tagB
    Connectors <- MCOneConnector
    NoTag = NoTag
    Tags = {tagA}
    Threads = {t1}
    Workers = {w1}
    TransactionMessageAttempts = 1
    MaxCalls = 2
    MaxJobs = 2
    MaxRestarts = 1
    IdleStartsOnly = FALSE
    ReserveConnectorZeroSupported = FALSE
    MaxReservations = 0
    MaxRemoteStarts = 0

SPECIFICATION Spec

INVARIANT NoOrphanTransaction
