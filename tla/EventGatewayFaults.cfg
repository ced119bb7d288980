\* Two concurrent requests on any of the endpoints, two failures or outside
\* changes of any kind, and a second version of one topic's schema.
SPECIFICATION FairSpec
CONSTANTS
    Requests = {r1, r2}
    Endpoints = {"webhook", "intent", "upload_url", "download_url", "delete"}
    Configured = {"hmac_secret", "jwks", "webhook_secret"}
    Mount = "volume"
    Evolving = {"webhook"}
    MaxVersion = 2
    MaxFaults = 2
    FaultKinds = {"jwks", "ping", "db", "db_committed", "schema", "produce", "gateway_crash", "gateway_interrupt", "edit", "early_edit", "other_delete"}
INVARIANTS
    TypeOK
    AcceptedIsAccountedFor
    FreshSinceStart
    DeletedBeforeTold
PROPERTIES
    RoutesFollowFile
CHECK_DEADLOCK FALSE
