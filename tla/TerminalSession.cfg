SPECIFICATION FairSpec
CONSTANTS
    Workers = {1, 2}
    Commands = {1}
    Tools = {1, 2}
    Shell = 1
    MaxFaults = 2
INVARIANTS
    AttemptMatchesSession
    StartedOnce
PROPERTIES
    SessionKeepsAuditLifecycle
    CommandEnds
    OrphanEnds
CHECK_DEADLOCK FALSE
