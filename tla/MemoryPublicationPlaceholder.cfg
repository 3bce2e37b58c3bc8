SPECIFICATION Spec
CONSTANTS
    Request = {r1}
    None = None
    MaxAttempts = 2
    MaxActive = 1
    MaxGeneration = 1
    MaxTasks = 1
    MaxFaults = 2
INVARIANT NoStrandedPlaceholder
CHECK_DEADLOCK FALSE
