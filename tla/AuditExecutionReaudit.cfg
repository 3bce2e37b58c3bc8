SPECIFICATION Spec
CONSTANTS
    Records = {1, 2}
    Tools = {1}
    Executors = {1}
    MaxAsked = 1
    MaxFaults = 0
CHECK_DEADLOCK FALSE
INVARIANT
    ReshownCanBeAnswered
