\* One renewal job, two scheduler replicas of one lock and a worker loop outside the lease.
SPECIFICATION FairSpec
CONSTANTS
    s1 = s1
    s2 = s2
    worker = worker
    kick = kick
    lockA = lockA
    lockB = lockB
    k1 = k1
    k2 = k2
    NoOne = NoOne
    Replica = {s1, s2}
    Loop = {worker}
    Lock <- OneLock
    LockName <- LocksOfReplicas
    TTL = 2
    MaxFaults = 2
    Timely = TRUE
    Row <- OneRow
    Key = {k1}
    TypeOf <- OneRenewal
    KeyOf <- SameKey
    Silent <- NoRow
    Pipeline <- HubPipeline
    Scope <- AllTypes
    Batch = 1
    Split = FALSE
    Answered = TRUE
    MaxAttempts = 3
    Stall = 2
    BackoffBase = 1
    BackoffCap = 2
    MaxReclaims = 2
    MaxWrites = 6
INVARIANTS
    MutualExclusion
    WrittenAsApproved
    BudgetKept
PROPERTIES
    LeaseProtocol
    CompletedStays
    DeadHolderReplaced
