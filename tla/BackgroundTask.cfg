SPECIFICATION FairSpec
CONSTANTS
    Tasks = {1, 3}
    Audited = {1}
    Origin = {1}
    Tools = {0, 1}
    MaxAttempts = 2
    MaxFaults = 2
INVARIANTS
    TaskMatchesAttempt
PROPERTIES
    ExecutedOnce
    TasksKeepAuditLifecycle
    TaskEnds
    ResultIsTold
CHECK_DEADLOCK FALSE
