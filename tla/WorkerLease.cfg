SPECIFICATION FairSpec
CONSTANTS
    p1 = p1
    p2 = p2
    o1 = o1
    o2 = o2
    o3 = o3
    NoOwner = NoOwner
    Proc <- MCProc
    Owner <- MCOwner
    LeaseSeconds = 5
    RenewInterval = 1
    AcquireInterval = 1
    RetryInterval = 1
    RenewSafety = 1
    ShutdownTimeout = 1
    CancelTimeout = 1
    MaxDbDelay = 1
INVARIANTS
    LeaseExclusive
    OverrunBounded
    LeaseInv
PROPERTIES
    LiveLeaseKept
    Failover
