SPECIFICATION FairSpec
CONSTANTS
    Works = {1, 2}
    Kind <- TwoReplies
    Claims = {c1, c2}
    Nobody = Nobody
    Tools = {t1}
    MaxAttempts = 2
    MaxFaults = 1
INVARIANT EveryInputOnce
PROPERTIES
    EndedStaysEnded
    EveryWorkSettles
    WaitingEnds
CHECK_DEADLOCK FALSE
