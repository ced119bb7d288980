\* One upload that the move saga dead-letters; nothing fails.
SPECIFICATION FairSystemSpec
CONSTANTS
    Paths = {p1}
    MAX_RETRIES = 1
    MaxFaults = 0
    FaultKinds = {}
    Requests = {r1}
    SIGNUP_BONUS = 1
    MaxReceived = 2
    TimelyReceipt = TRUE
    MaxCreditFaults = 0
    CreditFaultKinds = {}
PROPERTIES
    FailedUploadIsRefunded
CHECK_DEADLOCK FALSE
