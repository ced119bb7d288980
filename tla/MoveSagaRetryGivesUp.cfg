\* One upload; the first move fails, and then the first retry does.
SPECIFICATION FairSpec
CONSTANTS
    Paths = {p1}
    MAX_RETRIES = 3
    MaxFaults = 2
    FaultKinds = {"async_move", "retry_move"}
PROPERTIES
    FailedMoveSettles
CHECK_DEADLOCK FALSE
