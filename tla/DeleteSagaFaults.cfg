\* One file, two intents, every kind of failure, four failures in a behaviour:
\* enough for the first removal and both attempts of the retry loop to fail.
SPECIFICATION FairSpec
CONSTANTS
    Files = {f1}
    MAX_RETRIES = 1
    MaxIntents = 2
    MaxFaults = 4
    FaultKinds = {"lookup", "db", "remove", "produce", "poll", "crash", "reconfirm",
                  "recopy", "restart"}
INVARIANTS
    TypeOK
    ListedIsStored
    AnnouncedOnce
    NoSilentOrphan
    
PROPERTIES
    DeleteSettles
CHECK_DEADLOCK FALSE
