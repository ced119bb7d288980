\* One upload and no failure: the notice of its completion and its row come from
\* two jobs.
SPECIFICATION Spec
CONSTANTS
    Uploads = {u1}
    Downloads = {}
    Deletes = {}
    MaxFaults = 0
    FaultKinds = {}
INVARIANTS
    CompletedIsListed
CHECK_DEADLOCK FALSE
