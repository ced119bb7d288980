----------------------------- MODULE MediaPage -----------------------------
(***************************************************************************)
(* The media page of the frontend and the service that signs downloads.    *)
(*                                                                         *)
(* A click starts a flow: an intent is posted, its response comes, and the *)
(* flow waits for a notification under keys of its choice: the request id, *)
(* or a path.  The waiters share one map from keys to waiters; each has a  *)
(* timer of its own.  Notifications are pushed in any order, and only to a *)
(* page whose channel is joined.                                           *)
(*                                                                         *)
(* All flows are about one file: the one the upload stores.  What becomes  *)
(* of an upload and of a delete is the business of UploadPipeline and      *)
(* DeleteSaga: here they answer, one way or the other, or not at all.  Two *)
(* jobs read each confirmation of an upload, in no order: one inserts the  *)
(* row of the file, the other tells the page.                              *)
(***************************************************************************)
EXTENDS Naturals

CONSTANTS
    Uploads,      \* upload flows: at most one, whose path is the file's
    Downloads,    \* clicks on the file's download button
    Deletes,      \* clicks on its delete button
    MaxFaults,    \* bound: failures and session changes in one behaviour
    FaultKinds    \* the kinds that may happen

Flows == Uploads \cup Downloads \cup Deletes
Paths == {"files", "uploads"}     \* the permanent and the staging path

PageFaultKinds ==
    {"refuse",      \* the gateway refuses an intent, or its answer is lost
     "put",         \* the upload to the store fails at the page
     "unanswered",  \* a service drops the intent
     "presign",     \* the store does not sign the download
     "redeliver",   \* media-service dies after it answered, before the commit
     "reconfirm",   \* the move saga confirms the upload again
     "resubscribe", \* SIGNED_IN again: the channel is replaced
     "sign_out"}

ASSUME MediaPageAssumption ==
    /\ Uploads \cap Downloads = {} /\ (Uploads \cup Downloads) \cap Deletes = {}
    /\ \A u, v \in Uploads : u = v
    /\ "none" \notin Flows /\ Paths \cap Flows = {}
    /\ MaxFaults \in Nat

VARIABLES
    \* the page
    channel,    \* "none" when signed out, "joining" or "joined"
    flow,       \* flow -> where its handler is
    pending,    \* key -> the waiter registered under it
    timers,     \* waiters whose timer runs
    \* the services
    asked,      \* flows whose intent is in a topic and not committed
    file,       \* the statuses of its rows in media_files
    object,     \* the upload: "none", "signed", "stored" or, without it, "ended"
    confirmed,  \* public.media.upload.confirmed: its length
    recorded,   \* how many of them the balance job has read
    announced,  \* and how many the notification job
    inbox,      \* rows of user_notifications that are yet to be pushed
    \* history
    displaced,  \* waiters that lost a key to another
    ignored,    \* notifications a flow waited for that left it waiting
    faults

pageVars == <<channel, flow, pending, timers>>
uploadVars == <<confirmed, recorded, announced>>
serviceVars == <<asked, file, object, uploadVars>>
historyVars == <<displaced, ignored>>
vars == <<pageVars, serviceVars, inbox, historyVars, faults>>

Fault(kind) ==
    /\ kind \in FaultKinds
    /\ faults < MaxFaults
    /\ faults' = faults + 1

\* A flow's id stands for its request id.
Keys == Flows \cup Paths

Waiting == {"waiting", "processing"}
Over == {"done", "refused", "timeout", "cleaned"}

Events ==
    {"upload_ready", "upload_rejected", "upload_completed", "upload_expired",
     "upload_failed", "download_ready", "download_rejected", "file_deleted",
     "delete_rejected"}

Notification(event, request, path) ==
    [event |-> event, request |-> request, path |-> path]

Init ==
    /\ channel = "none"
    /\ flow = [f \in Flows |-> "none"]
    /\ pending = [k \in Keys |-> "none"]
    /\ timers = {} /\ asked = {} /\ object = "none" /\ inbox = {}
    /\ file = IF Uploads = {} THEN {"active"} ELSE {}
    /\ confirmed = 0 /\ recorded = 0 /\ announced = 0
    /\ displaced = {} /\ ignored = {} /\ faults = 0

-----------------------------------------------------------------------------
(***************************************************************************)
(* Plausible mistakes, variants of the definitions below.                  *)
(***************************************************************************)
AnyEvent(f) == Events
RequestOnly(n) == <<n.request>>
NoTimer(f) == timers
CleanupKeepsTimers ==
    /\ UNCHANGED timers
    /\ pending' = [k \in Keys |-> "none"]
    /\ flow' = [f \in Flows |-> IF \E k \in Keys : pending[k] = f
                               THEN "cleaned" ELSE flow[f]]

-----------------------------------------------------------------------------
(***************************************************************************)
(* The notification waiter (createNotificationWaiter)                      *)
(***************************************************************************)

\* The keys a flow waits under: an upload first by request, then by both paths.
WaitKeys(f) ==
    IF f \in Deletes THEN {"files"}
    ELSE IF flow[f] \in {"storing", "stored", "processing"} THEN Paths
    ELSE {f}

\* The events it waits for.
EventTypes(f) ==
    IF f \in Downloads THEN {"download_ready", "download_rejected"}
    ELSE IF f \in Deletes THEN {"file_deleted", "delete_rejected"}
    ELSE IF flow[f] = "waiting" THEN {"upload_ready", "upload_rejected"}
    ELSE {"upload_completed", "upload_expired", "upload_failed"}

StartTimer(f) == timers \cup {f}

\* Waiters that are registered under one of its keys in its place.
Others(f) == {pending[k] : k \in WaitKeys(f)} \ {"none", f}

\* waitFor: a waiter that is there already under one of the keys is replaced
\* in the map; its promise and its timer stay.
WaitFor(f, at) ==
    /\ pending' = [k \in Keys |-> IF k \in WaitKeys(f) THEN f ELSE pending[k]]
    /\ timers' = StartTimer(f)
    /\ flow' = [flow EXCEPT ![f] = at]
    /\ displaced' = displaced \cup Others(f)

\* The keys of a waiter leave the map, whoever is registered under them now.
Unregister(f) ==
    /\ pending' = [k \in Keys |-> IF k \in WaitKeys(f) THEN "none" ELSE pending[k]]
    /\ timers' = timers \ {f}
    /\ displaced' = displaced \cup Others(f)

\* Where the handler is when its promise is resolved.
AfterNotification(event) ==
    CASE event = "upload_ready" -> "storing"
      [] event \in {"upload_completed", "download_ready", "file_deleted"} -> "done"
      [] OTHER -> "refused"

\* The keys of a notification in the order they are tried.
LookupKeys(n) == <<n.request, n.path>>

\* The waiters that handleNotification finds: the first of the two keys with a
\* waiter for this event.
Found(n) ==
    LET at(i) == LookupKeys(n)[i]
        matches(i) == /\ at(i) # "none"
                      /\ pending[at(i)] # "none"
                      /\ n.event \in EventTypes(pending[at(i)])
    IN  {pending[at(i)] : i \in {j \in DOMAIN LookupKeys(n) :
            matches(j) /\ \A h \in 1..(j - 1) : ~matches(h)}}

\* The flows that wait for this notification, by its sender's intent.
Addressed(n) ==
    {f \in Flows :
        /\ flow[f] \in Waiting
        /\ n.event \in EventTypes(f)
        /\ \/ n.request = f
           \/ n.event \in {"upload_completed", "upload_failed"}
           \/ n.event = "file_deleted"}

\* The flows outside `answered' go on waiting for a notification of theirs.
PassBy(n, answered) ==
    ignored' = ignored
        \cup {[flow |-> f, event |-> n.event, joined |-> channel = "joined"] :
                  f \in Addressed(n) \ answered}

\* handleNotification
HandleNotification(n) ==
    /\ \/ \E f \in Found(n) :
            /\ Unregister(f)
            /\ flow' = [flow EXCEPT ![f] = AfterNotification(n.event)]
       \/ Found(n) = {} /\ UNCHANGED <<flow, pending, timers, displaced>>
    /\ PassBy(n, Found(n))

\* The 30 seconds of a waiter are over.
Timeout(f) ==
    /\ f \in timers
    /\ Unregister(f)
    /\ flow' = [flow EXCEPT ![f] = "timeout"]
    /\ UNCHANGED <<channel, serviceVars, inbox, ignored, faults>>

\* cleanup: the waiters of the map are rejected, the replaced ones are not in it.
Cleanup ==
    LET registered == {pending[k] : k \in Keys} \ {"none"}
    IN  /\ timers' = timers \ registered
        /\ pending' = [k \in Keys |-> "none"]
        /\ flow' = [f \in Flows |-> IF f \in registered THEN "cleaned" ELSE flow[f]]

-----------------------------------------------------------------------------
(***************************************************************************)
(* The page's session (checkSession, subscribeToEvents)                    *)
(***************************************************************************)

SignIn ==
    /\ \/ channel = "none" /\ UNCHANGED faults
       \/ channel # "none" /\ Fault("resubscribe")
    /\ channel' = "joining"
    /\ UNCHANGED <<flow, pending, timers, serviceVars, inbox, historyVars>>

\* From here on new rows are pushed to the page.
Joined ==
    /\ channel = "joining"
    /\ channel' = "joined"
    /\ UNCHANGED <<flow, pending, timers, serviceVars, inbox, historyVars, faults>>

SignOut ==
    /\ channel # "none"
    /\ Fault("sign_out")
    /\ channel' = "none"
    /\ Cleanup
    /\ UNCHANGED <<serviceVars, inbox, historyVars>>

\* A row of user_notifications is pushed, or nobody listens.
Push(n) ==
    /\ n \in inbox
    /\ inbox' = inbox \ {n}
    /\ \/ channel = "joined" /\ HandleNotification(n)
       \/ /\ channel # "joined"
          /\ PassBy(n, {})
          /\ UNCHANGED <<flow, pending, timers, displaced>>
    /\ UNCHANGED <<channel, serviceVars, faults>>

-----------------------------------------------------------------------------
(***************************************************************************)
(* The handlers of the upload form and of the buttons of a file's card     *)
(***************************************************************************)

\* A card may be shown long after its file is gone; its button is enabled again
\* when the list is drawn anew, so that two flows of one button may overlap.
Click(f) ==
    /\ flow[f] = "none"
    /\ channel # "none"
    /\ f \in Uploads \/ file # {}
    /\ flow' = [flow EXCEPT ![f] = "asking"]
    /\ UNCHANGED <<channel, pending, timers, serviceVars, inbox, historyVars, faults>>

\* The gateway has produced the intent; its response is under way.
IntentAccepted(f) ==
    /\ flow[f] = "asking"
    /\ flow' = [flow EXCEPT ![f] = "asked"]
    /\ asked' = asked \cup {f}
    /\ UNCHANGED <<channel, pending, timers, file, object, uploadVars, inbox,
                   historyVars, faults>>

IntentRefused(f) ==
    /\ flow[f] \in {"asking", "asked"}
    /\ Fault("refuse")
    /\ flow' = [flow EXCEPT ![f] = "refused"]
    /\ UNCHANGED <<channel, pending, timers, serviceVars, inbox, historyVars>>

\* The response is there: the flow registers its waiter.
Wait(f) ==
    /\ flow[f] = "asked"
    /\ WaitFor(f, "waiting")
    /\ UNCHANGED <<channel, serviceVars, inbox, ignored, faults>>

\* uploadFileToStorage: the object is stored, and then its response arrives.
Put(f) ==
    /\ flow[f] = "storing"
    /\ flow' = [flow EXCEPT ![f] = "stored"]
    /\ object' = IF object = "signed" THEN "stored" ELSE object
    /\ UNCHANGED <<channel, pending, timers, asked, file, uploadVars, inbox,
                   historyVars, faults>>

PutFails(f) ==
    /\ flow[f] \in {"storing", "stored"}
    /\ Fault("put")
    /\ flow' = [flow EXCEPT ![f] = "refused"]
    /\ UNCHANGED <<channel, pending, timers, serviceVars, inbox, historyVars>>

WaitForOutcome(f) ==
    /\ flow[f] = "stored"
    /\ WaitFor(f, "processing")
    /\ UNCHANGED <<channel, serviceVars, inbox, ignored, faults>>

-----------------------------------------------------------------------------
(***************************************************************************)
(* The services' answers, as the notification job words them.              *)
(* No row of upload_completed, upload_failed or file_deleted has a request *)
(* id, and none of upload_failed has a path.                               *)
(***************************************************************************)

\* media-service commits the intent, or dies first and handles it again.
Committed(f) ==
    \/ asked' = asked \ {f} /\ UNCHANGED faults
    \/ f \in Downloads \cup Deletes /\ Fault("redeliver") /\ UNCHANGED asked

Announce(n) == inbox' = inbox \cup {n}

\* DownloadSigningHandler: the lookup and the signature are steps of the loop
\* that deletes files as well.
DownloadAnswer(f) ==
    \/ /\ "active" \in file
       /\ Announce(Notification("download_ready", f, "files"))
    \/ /\ "active" \notin file
       /\ Announce(Notification("download_rejected", f, "files"))

SignDownload(f) ==
    /\ f \in Downloads \cap asked
    /\ \/ DownloadAnswer(f) /\ Committed(f)
       \/ /\ "active" \in file /\ Fault("presign")
          /\ Announce(Notification("download_rejected", f, "files"))
          /\ asked' = asked \ {f}
    /\ UNCHANGED <<pageVars, file, object, uploadVars, historyVars>>

\* The lookup or the produce fails, or the poll that brought the record does.
DropIntent(f) ==
    /\ f \in asked
    /\ Fault("unanswered")
    /\ asked' = asked \ {f}
    /\ UNCHANGED <<pageVars, file, object, uploadVars, inbox, historyVars>>

\* The UPDATE is for every active row of the file.
UpdateRows == file' = {"deleted"}

DeleteFile(x) ==
    /\ x \in Deletes \cap asked
    /\ \/ /\ "active" \in file
          /\ UpdateRows
          /\ Announce(Notification("file_deleted", "none", "files"))
       \/ /\ "active" \notin file
          /\ Announce(Notification("delete_rejected", x, "files"))
          /\ UNCHANGED file
    /\ Committed(x)
    /\ UNCHANGED <<pageVars, object, uploadVars, historyVars>>

AnswerUpload(u) ==
    /\ u \in Uploads \cap asked
    /\ \/ /\ Announce(Notification("upload_ready", u, "uploads"))
          /\ object' = "signed"
       \/ /\ Announce(Notification("upload_rejected", u, "none"))
          /\ UNCHANGED object
    /\ Committed(u)
    /\ UNCHANGED <<pageVars, file, uploadVars, historyVars>>

-----------------------------------------------------------------------------
(***************************************************************************)
(* The outcome of an upload.  It may have more than one; UploadSystem and  *)
(* MoveSaga say when.                                                      *)
(***************************************************************************)

\* It was given up after its retries, or its credit was refunded.
EndUpload(u) ==
    /\ \/ /\ object = "stored"
          /\ Announce(Notification("upload_failed", "none", "none"))
       \/ /\ object \in {"signed", "stored"}
          /\ Announce(Notification("upload_expired", u, "uploads"))
    /\ object' = "ended"
    /\ UNCHANGED <<pageVars, asked, file, uploadVars, historyVars, faults>>

\* The move saga has moved the object and produces upload.confirmed, once or,
\* after a repeated webhook or a restart of its job, more often.
Confirm ==
    /\ \/ object = "stored" /\ confirmed = 0 /\ UNCHANGED faults
       \/ confirmed > 0 /\ Fault("reconfirm")
    /\ confirmed' = confirmed + 1
    /\ UNCHANGED <<pageVars, asked, file, object, recorded, announced,
                   inbox, historyVars>>

\* The balance job reads a confirmation: a row of the file.
InsertRow ==
    /\ recorded < confirmed
    /\ recorded' = recorded + 1
    /\ file' = file \cup {"active"}
    /\ UNCHANGED <<pageVars, asked, object, confirmed, announced, inbox,
                   historyVars, faults>>

\* The notification job reads it, at a time of its own.
AnnounceCompleted ==
    /\ announced < confirmed
    /\ announced' = announced + 1
    /\ Announce(Notification("upload_completed", "none", "files"))
    /\ UNCHANGED <<pageVars, asked, file, object, confirmed, recorded,
                   historyVars, faults>>

-----------------------------------------------------------------------------
PageStep(f) ==
    \/ Click(f) \/ IntentAccepted(f) \/ IntentRefused(f)
    \/ Wait(f) \/ Timeout(f)

UploadStep(u) ==
    \/ Put(u) \/ PutFails(u) \/ WaitForOutcome(u)
    \/ AnswerUpload(u) \/ EndUpload(u)

JobStep == Confirm \/ InsertRow \/ AnnounceCompleted

Next ==
    \/ SignIn \/ Joined \/ SignOut
    \/ \E n \in inbox : Push(n)
    \/ \E f \in Flows : PageStep(f) \/ DropIntent(f)
    \/ \E f \in Downloads : SignDownload(f)
    \/ \E x \in Deletes : DeleteFile(x)
    \/ \E u \in Uploads : UploadStep(u)
    \/ JobStep

Spec == Init /\ [][Next]_vars

\* The browser runs the handlers and the timers, and the gateway and the store
\* answer the page's requests, one way or the other: fetch has no timeout.
\* Nothing need come of an intent, and no notification need be pushed.
Fairness ==
    /\ \A f \in Flows : WF_vars(IntentAccepted(f)) /\ WF_vars(Wait(f))
    /\ \A f \in Flows : WF_vars(Timeout(f))
    /\ \A u \in Uploads : WF_vars(Put(u)) /\ WF_vars(WaitForOutcome(u))

FairSpec == Spec /\ Fairness

-----------------------------------------------------------------------------
(***************************************************************************)
(* Properties                                                              *)
(***************************************************************************)

FlowStates ==
    {"none", "asking", "asked", "waiting", "storing", "stored", "processing"}
        \cup Over

Notifications ==
    [event : Events, request : Flows \cup {"none"},
     path : Paths \cup {"none"}]

\* Every variable has its type; a key of the map belongs to a flow that waits
\* under it, and a timer to a flow that waits (media.js:161-200).
TypeOK ==
    /\ channel \in {"none", "joining", "joined"}
    /\ flow \in [Flows -> FlowStates]
    /\ pending \in [Keys -> Flows \cup {"none"}]
    /\ \A k \in Keys : pending[k] # "none" =>
            /\ flow[pending[k]] \in Waiting
            /\ k \in WaitKeys(pending[k])
    /\ timers = {f \in Flows : flow[f] \in Waiting}
    /\ asked \subseteq Flows
    /\ file \subseteq {"active", "deleted"}
    /\ object \in {"none", "signed", "stored", "ended"}
    /\ confirmed \in Nat /\ recorded \in 0..confirmed /\ announced \in 0..confirmed
    /\ inbox \subseteq Notifications
    /\ displaced \subseteq Flows
    /\ ignored \subseteq [flow : Flows, event : Events, joined : BOOLEAN]
    /\ faults \in 0..MaxFaults

\* What the page says of a file is so, whatever other flows of the same paths are
\* told, and however often a job reads an event: it reports a delete only when
\* the row was deleted, and the file is listed again only when its row was
\* inserted again; it reports an upload only when the move saga confirmed it, and
\* its row is there unless the balance job has yet to read a confirmation
\* (media.js:184-191, main.js:286-305, 449-458).
SuccessIsTrue ==
    /\ \A x \in Deletes : flow[x] = "done" =>
           "deleted" \in file /\ ("active" \in file => recorded > 1)
    /\ \A u \in Uploads : flow[u] = "done" =>
           confirmed > 0 /\ (file = {} => recorded < confirmed)

\* The comment at main.js:276: what follows the wait, the refreshed list, has the
\* file: the upload was processed "and media_files updated".
CompletedIsListed ==
    \A u \in Uploads : flow[u] = "done" => file # {}

\* A notification reaches the flow that waits for it, unless another flow has
\* taken a key of its waiter, it is upload_failed, which carries no key, or it
\* came while the channel was not joined: before the first join, or after a
\* second sign-in or a sign-out (media.js:184-191, main.js:514-533,
\* media_notification_processor.sql:60-142).
AnswerReachesItsWaiter ==
    \A i \in ignored : i.joined => i.flow \in displaced \/ i.event = "upload_failed"

\* A flow that was started ends: by a notification, by its timer although its
\* registration was taken over, or by the sign-out (media.js:165-200).
PageSettles ==
    \A f \in Flows : flow[f] # "none" ~> flow[f] \in Over

=============================================================================
