\* The upload of a file, a delete and a download of it: enough for the delete to
\* take the upload's key, and for the upload's timer to take the delete's
\* registration away.  One failure of any kind, a second sign-in or a sign-out.
SPECIFICATION FairSpec
CONSTANTS
    Uploads = {u1}
    Downloads = {d1}
    Deletes = {x1}
    MaxFaults = 1
    FaultKinds = {"refuse", "put", "unanswered", "presign", "redeliver", "reconfirm", "resubscribe", "sign_out"}
INVARIANTS
    TypeOK
    SuccessIsTrue
    AnswerReachesItsWaiter
PROPERTIES
    PageSettles
CHECK_DEADLOCK FALSE
