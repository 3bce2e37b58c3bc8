SPECIFICATION Spec
CONSTANTS
    Request = {r1, r2}
    None = None
    MaxAttempts = 2
    MaxActive = 1
    MaxGeneration = 2
    MaxTasks = 2
    MaxFaults = 2
SYMMETRY RequestSymmetry
INVARIANTS
    PublishedItemIsStored
    ReservationIsMutual
    CapacityKept
    HiddenCanBeLifted
    SupersededIsCollected
PROPERTY PublishedByItsClaim
CHECK_DEADLOCK FALSE
