\* routes.yaml mounted as the manifest does, and one edit of it.
SPECIFICATION FairSpec
CONSTANTS
    Requests = {r1}
    Endpoints = {"webhook", "external"}
    Configured = {"hmac_secret", "webhook_secret"}
    Mount = "subPath"
    Evolving = {}
    MaxVersion = 1
    MaxFaults = 1
    FaultKinds = {"edit"}
PROPERTIES
    RoutesFollowFile
CHECK_DEADLOCK FALSE
