SPECIFICATION FairSpec
CONSTANTS
    Job = {j1}
    Protected = {}
    Consumer = {k1}
    Owner = {c1, c2}
    None = None
    MaxAttempts = 2
    LeaseSeconds = 2
    RecoveryDelay = 1
    ShutdownDelay = 1
    MaxConcurrency = 2
    MaxDbDelay = 0
    MaxStops = 2
INVARIANTS
    AttemptsBounded
    CancelIsHonoured
    QueueInvariant
PROPERTIES
    ClaimIsFenced
    ImplementsLifecycle
    EveryJobEnds
