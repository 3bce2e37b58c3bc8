SPECIFICATION Spec
CONSTANTS
    Works = {1, 2}
    Kind <- TwoReplies
    Claims = {c1, c2}
    Nobody = Nobody
    Tools = {t1}
    MaxAttempts = 2
    MaxFaults = 0

CHECK_DEADLOCK FALSE
PROPERTIES
    FreezeFindsItsMessage
