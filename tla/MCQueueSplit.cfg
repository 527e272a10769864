\* Per-service workers: each service has its own lock, object types and executors.
SPECIFICATION FairSpec
CONSTANTS
    s1 = s1
    s2 = s2
    worker = worker
    kick = kick
    lockA = lockA
    lockB = lockB
    k1 = k1
    k2 = k2
    NoOne = NoOne
    Replica = {s1, s2}
    Loop = {}
    Lock <- SplitLocks
    LockName <- SplitLockName
    TTL = 2
    MaxFaults = 1
    Timely = TRUE
    Row <- TwoRows
    Key = {k1, k2}
    TypeOf <- RenewalAndQuote
    KeyOf <- OwnKeys
    Silent <- RowOne
    Pipeline <- SplitPipeline
    Scope <- SplitTypes
    Batch = 1
    Split = TRUE
    Answered = TRUE
    MaxAttempts = 2
    Stall = 2
    BackoffBase = 1
    BackoffCap = 2
    MaxReclaims = 2
    MaxWrites = 6
PROPERTIES
    EveryJobSettles
