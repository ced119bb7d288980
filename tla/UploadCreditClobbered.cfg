\* Two uploads, no failure, a prompt receipt.
SPECIFICATION Spec
CONSTANTS
    Requests = {r1, r2}
    Paths = {p1, p2}
    SIGNUP_BONUS = 2
    MaxReceived = 1
    TimelyReceipt = TRUE
    MaxFaults = 0
    FaultKinds = {}
INVARIANTS
    RefundOnlyIfNotUploaded
CHECK_DEADLOCK FALSE
