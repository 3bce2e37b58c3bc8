SPECIFICATION Spec
CONSTANTS
    Works = {1, 2, 3}
    Kind <- ConfirmedSummaryReply
    Claims = {c1, c2}
    Nobody = Nobody
    Tools = {t1}
    MaxAttempts = 2
    MaxFaults = 2
SYMMETRY ClaimSymmetry
CHECK_DEADLOCK FALSE
INVARIANTS
    ConfirmedOnce
    OutcomeIsTold
    OneReplyAtATime
