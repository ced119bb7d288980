\* One upload from the intent to its end, with the failures in which the two
\* sagas meet, one on either side (a crash is one of both).
SPECIFICATION FairSystemSpec
CONSTANTS
    Paths = {p1}
    MAX_RETRIES = 1
    MaxFaults = 1
    FaultKinds = {"async_move", "crash", "restart", "cleanup"}
    Requests = {r1}
    SIGNUP_BONUS = 1
    MaxReceived = 2
    TimelyReceipt = TRUE
    MaxCreditFaults = 1
    CreditFaultKinds = {"sign", "crash"}
INVARIANTS
    SystemTypeOK
    InTimeIsKept
PROPERTIES
    PipelineSpec
    NoCreditStranded
    IntentIsAnswered
CHECK_DEADLOCK FALSE
