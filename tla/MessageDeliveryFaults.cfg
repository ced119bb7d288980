\* Two messages, one of them direct, two replicas, two failures of the
\* gateway or the consumer and a second version of the schema.
SPECIFICATION FairDeliverySpec
CONSTANTS
    Consumers = {c1, c2}
    Requests = {r1, r2}
    Records <- MCRecords
    Direct = {r1}
    Refused = {r2}
    FieldsSince = 2
    Configured = {"hmac_secret"}
    Mount = "volume"
    MaxVersion = 2
    MaxFaults = 2
    FaultKinds = {"gateway_crash", "poll", "unreadable", "rebalance", "consumer_crash", "consumer_interrupt"}
INVARIANTS
    TypeOK
    CommittedIsSettled
    GapsAndRepeatsHaveACause
    DirectStaysDirect
PROPERTIES
    StreamSpec
    AcceptedIsDelivered
CHECK_DEADLOCK FALSE
