SPECIFICATION FairSpec
CONSTANTS
    Records = {1, 2}
    Tools = {1, 2}
    Executors = {1, 2}
    MaxAsked = 2
    MaxFaults = 1
CHECK_DEADLOCK FALSE
INVARIANTS
    RunsOnce
    RecordIsTrue
    CardCanBeAnswered
    NoOrphanedRound
PROPERTIES
    ImplementsAuditLifecycle
    RoundEnds
