SPECIFICATION Spec
CONSTANTS
    p1 = p1
    p2 = p2
    o1 = o1
    o2 = o2
    o3 = o3
    NoOwner = NoOwner
    Proc <- MCProc
    Owner <- MCOwner
    LeaseSeconds = 12
    RenewInterval = 2
    AcquireInterval = 1
    RetryInterval = 1
    RenewSafety = 1
    ShutdownTimeout = 2
    CancelTimeout = 1
    MaxDbDelay = 0
SYMMETRY Symmetry
INVARIANTS
    RoleExclusive
