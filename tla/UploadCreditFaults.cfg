\* Two requests on one credit, two URLs, every kind of failure, two failures in a behaviour.
SPECIFICATION Spec
CONSTANTS
    Requests = {r1, r2}
    Paths = {p1, p2}
    SIGNUP_BONUS = 1
    MaxReceived = 1
    TimelyReceipt = TRUE
    MaxFaults = 2
    FaultKinds = {"deduct", "deduct_committed", "sign", "poll", "crash", "credit_restart", "ttl_restart", "balance_restart"}
SYMMETRY Symmetry
INVARIANTS
    TypeOK
    BalanceNeverNegative
    EveryUrlIsPaid
    CreditConserved
    OneExpiryPerUrl
    RefundedInTimeWasClobbered
CHECK_DEADLOCK FALSE
