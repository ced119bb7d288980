\* One upload, every kind of failure, two failures in a behaviour.
SPECIFICATION FairSpec
CONSTANTS
    Paths = {p1}
    MAX_RETRIES = 1
    MaxFaults = 2
    FaultKinds = {"webhook", "async_move", "retry_move", "remove", "produce", "poll", "crash", "restart", "cleanup"}
INVARIANTS
    TypeOK
    NoFileLost
    ConfirmedIsStored
    DeadLetterIsStored
    OneToken
PROPERTIES
    OutcomeIsFinal
    CustodySpec
    UploadSettles
CHECK_DEADLOCK FALSE
