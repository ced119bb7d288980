------------------------------ MODULE MoveSaga ------------------------------
(***************************************************************************)
(* The move-to-permanent saga: an object PUT under uploads/ by a browser   *)
(* is moved to files/ by the media-service, while a Flink job joins        *)
(* upload.received with file.ready per permanent path and, on a timeout,   *)
(* sends the upload round a retry loop or to the dead-letter topic.        *)
(*                                                                         *)
(* Four processes run concurrently: MinIO (objects and webhook queue), the *)
(* media-service (webhook handlers, fire-and-forget movers, one consumer   *)
(* loop), the Flink job (keyed state and timers) and the failures.         *)
(*                                                                         *)
(* A path stands for both keys of one upload: "files/" + the rest of the   *)
(* uploads/ key is one-to-one.  A message is its retry_count; everything   *)
(* else in it is copied unchanged.  Each topic has one partition and the   *)
(* job keys its state by path, so a topic is a log per path.               *)
(***************************************************************************)
EXTENDS Integers, Sequences, FiniteSets

CONSTANTS
    Paths,        \* keys signed for upload, uploads/<user>/<uuid>/<name>
    MAX_RETRIES,  \* MoveSagaFunction.MAX_RETRIES, 3 in the code
    MaxFaults,    \* bound: how many failures one behaviour may contain
    FaultKinds    \* the kinds of failure that may happen

AllFaultKinds ==
    {"webhook",     \* a webhook is answered non-2xx or not at all after it took effect
     "async_move",  \* the copy of a fire-and-forget mover fails
     "retry_move",  \* the copy of the retry handler fails
     "remove",      \* the removal of the source fails
     "produce",     \* the retry handler cannot produce upload.received
     "poll",        \* a poll returns a fetch error and its records are skipped
     "crash",       \* the media-service process dies
     "restart",     \* the Flink job restarts, without a checkpoint
     "cleanup"}     \* the TTL saga expires the upload and removes its source

ASSUME MoveSagaAssumption ==
    /\ MAX_RETRIES \in Nat \ {0}
    /\ MaxFaults \in Nat
    /\ FaultKinds \subseteq AllFaultKinds

NoEvent == -1
Idle == [phase |-> "idle"]

VARIABLES
    \* MinIO
    staged,          \* paths with an object under uploads/
    stored,          \* paths with an object under files/
    putHooks,        \* undelivered uploads/ notifications of each path
    readyHooks,      \* undelivered files/ notifications of each path
    \* media-service
    copying,         \* movers of each path about to copy
    removing,        \* movers of each path that copied and are about to remove
    retrier,         \* the retry event the consumer loop is handling
    \* Kafka: logs, and the consumer group's position and committed offset
    received,        \* internal.media.upload.received
    ready,           \* internal.media.file.ready: its length, all events are alike
    retry,           \* internal.media.upload.retry
    retryPos,
    retryCommitted,
    \* the Flink job: source positions, keyed state, registered timers
    receivedPos,
    readyPos,
    receivedState,
    readyState,
    timers,
    \* events emitted
    confirmed,       \* public.media.upload.confirmed, per path
    deadLettered,    \* internal.media.upload.dead-letter, per path
    \* history
    uploaded,        \* paths the browser has PUT
    expired,         \* paths whose source the TTL saga removed
    faults,          \* how many failures so far
    happened         \* and of which kinds

storeVars   == <<staged, stored, uploaded, expired>>
hookVars    == <<putHooks, readyHooks>>
moverVars   == <<copying, removing>>
groupVars   == <<retrier, retryPos, retryCommitted>>
topicVars   == <<received, ready, retry>>
flinkVars   == <<receivedPos, readyPos, receivedState, readyState, timers>>
outcomeVars == <<confirmed, deadLettered>>
faultVars   == <<faults, happened>>

vars == <<storeVars, hookVars, moverVars, groupVars, topicVars, flinkVars,
          outcomeVars, faultVars>>

Inc(f, p) == [f EXCEPT ![p] = @ + 1]
Dec(f, p) == [f EXCEPT ![p] = @ - 1]

Fault(kind) ==
    /\ kind \in FaultKinds
    /\ faults < MaxFaults
    /\ faults' = faults + 1
    /\ happened' = happened \cup {kind}

Init ==
    /\ staged = {} /\ stored = {} /\ uploaded = {} /\ expired = {}
    /\ putHooks = [p \in Paths |-> 0]
    /\ readyHooks = [p \in Paths |-> 0]
    /\ copying = [p \in Paths |-> 0]
    /\ removing = [p \in Paths |-> 0]
    /\ retrier = Idle
    /\ received = [p \in Paths |-> <<>>]
    /\ ready = [p \in Paths |-> 0]
    /\ retry = [p \in Paths |-> <<>>]
    /\ retryPos = [p \in Paths |-> 0]
    /\ retryCommitted = [p \in Paths |-> 0]
    /\ receivedPos = [p \in Paths |-> 0]
    /\ readyPos = [p \in Paths |-> 0]
    /\ receivedState = [p \in Paths |-> NoEvent]
    /\ readyState = [p \in Paths |-> FALSE]
    /\ timers = [p \in Paths |-> 0]
    /\ confirmed = [p \in Paths |-> 0]
    /\ deadLettered = [p \in Paths |-> 0]
    /\ faults = 0 /\ happened = {}

-----------------------------------------------------------------------------
(***************************************************************************)
(* Plausible mistakes, each a variant of a definition below.  No action    *)
(* uses them; the runs are shown to fail when one of them is put in place. *)
(***************************************************************************)
RemoveAfterFailedCopy(p) == removing' = Inc(removing, p)
ReproduceAfterError == [retrier EXCEPT !.phase = "produce"]
CommitNext(p) == retryPos[p] + 1
ConfirmOnReceived(event, isReady) == event # NoEvent
ForgetToClear(p) == UNCHANGED <<receivedState, readyState>>
NoTimer(p) == UNCHANGED timers

-----------------------------------------------------------------------------
(***************************************************************************)
(* MinIO                                                                   *)
(***************************************************************************)

\* The browser PUTs the object with its presigned URL; MinIO queues the
\* uploads/ notification.  One PUT per signed key.
Upload(p) ==
    /\ p \notin uploaded
    /\ uploaded' = uploaded \cup {p}
    /\ staged' = staged \cup {p}
    /\ putHooks' = Inc(putHooks, p)
    /\ UNCHANGED <<stored, expired, readyHooks, moverVars, groupVars, topicVars,
                   flinkVars, outcomeVars, faultVars>>

\* CopyObject(files/, uploads/): the object appears under files/, which
\* queues a files/ notification.
CopyObject(p) ==
    /\ stored' = stored \cup {p}
    /\ readyHooks' = Inc(readyHooks, p)
    /\ UNCHANGED staged

\* MoveObject reports success with nothing copied: the source is gone
\* (NoSuchKey) and the destination is there.
AlreadyMoved(p) == p \notin staged /\ p \in stored

-----------------------------------------------------------------------------
(***************************************************************************)
(* media-service: webhooks                                                 *)
(***************************************************************************)

\* UploadWebhookHandler.ServeHTTP: produce upload.received with retry_count
\* 0, start the mover, answer 200.  A failed produce answers 500 before
\* anything happens and MinIO delivers again: no step.
UploadWebhook(p) ==
    /\ putHooks[p] > 0
    /\ received' = [received EXCEPT ![p] = Append(@, 0)]
    /\ copying' = Inc(copying, p)
    /\ putHooks' = Dec(putHooks, p)
    /\ UNCHANGED <<storeVars, readyHooks, removing, groupVars, ready, retry,
                   flinkVars, outcomeVars, faultVars>>

\* The event is produced but MinIO does not see 200 and will deliver again.
\* The mover runs (the answer is lost) or does not (the acknowledgement of
\* the produce is lost, or the process dies before the goroutine starts).
UploadWebhookRepeats(p) ==
    /\ Fault("webhook")
    /\ putHooks[p] > 0
    /\ received' = [received EXCEPT ![p] = Append(@, 0)]
    /\ \/ copying' = Inc(copying, p)
       \/ UNCHANGED copying
    /\ UNCHANGED <<storeVars, hookVars, removing, groupVars, ready, retry,
                   flinkVars, outcomeVars>>

\* FileReadyWebhookHandler.ServeHTTP: produce file.ready, answer 200.
FileReadyWebhook(p) ==
    /\ readyHooks[p] > 0
    /\ ready' = Inc(ready, p)
    /\ readyHooks' = Dec(readyHooks, p)
    /\ UNCHANGED <<storeVars, putHooks, moverVars, groupVars, received, retry,
                   flinkVars, outcomeVars, faultVars>>

\* file.ready is produced but MinIO does not see 200 and will deliver again.
FileReadyWebhookRepeats(p) ==
    /\ Fault("webhook")
    /\ readyHooks[p] > 0
    /\ ready' = Inc(ready, p)
    /\ UNCHANGED <<storeVars, hookVars, moverVars, groupVars, received, retry,
                   flinkVars, outcomeVars>>

-----------------------------------------------------------------------------
(***************************************************************************)
(* media-service: the fire-and-forget mover, MoveObject in a goroutine     *)
(***************************************************************************)

\* The copy: done when the source is there; otherwise NoSuchKey, and
\* whatever the destination check says is only logged.
MoverCopy(p) ==
    /\ copying[p] > 0
    /\ copying' = Dec(copying, p)
    /\ IF p \in staged
       THEN CopyObject(p) /\ removing' = Inc(removing, p)
       ELSE UNCHANGED <<staged, stored, readyHooks, removing>>
    /\ UNCHANGED <<uploaded, expired, putHooks, groupVars, topicVars,
                   flinkVars, outcomeVars, faultVars>>

\* MoveObject returns after a failed copy: the source is not removed.
AfterFailedCopy(p) == UNCHANGED removing

\* The copy returns an error, having taken effect or not; it is only logged.
MoverCopyFails(p) ==
    /\ Fault("async_move")
    /\ copying[p] > 0
    /\ copying' = Dec(copying, p)
    /\ \/ UNCHANGED <<staged, stored, readyHooks>>
       \/ p \in staged /\ CopyObject(p)
    /\ AfterFailedCopy(p)
    /\ UNCHANGED <<uploaded, expired, putHooks, groupVars, topicVars,
                   flinkVars, outcomeVars>>

\* RemoveObject of the source, its error ignored.
MoverRemove(p) ==
    /\ removing[p] > 0
    /\ removing' = Dec(removing, p)
    /\ \/ staged' = staged \ {p} /\ UNCHANGED faultVars
       \/ Fault("remove") /\ UNCHANGED staged
    /\ UNCHANGED <<stored, uploaded, expired, hookVars, copying, groupVars,
                   topicVars, flinkVars, outcomeVars>>

-----------------------------------------------------------------------------
(***************************************************************************)
(* media-service: the consumer loop and RetryHandler.Handle                *)
(***************************************************************************)

Handling(p, phase) == retrier # Idle /\ retrier.path = p /\ retrier.phase = phase

\* The loop polls the next upload.retry record and calls the handler.
PollRetry(p) ==
    /\ retrier = Idle
    /\ retryPos[p] < Len(retry[p])
    /\ retrier' = [phase |-> "move", path |-> p,
                   retry_count |-> retry[p][retryPos[p] + 1]]
    /\ retryPos' = Inc(retryPos, p)
    /\ UNCHANGED <<storeVars, hookVars, moverVars, retryCommitted, topicVars,
                   flinkVars, outcomeVars, faultVars>>

\* The poll reports a fetch error: the loop continues without looking at the
\* records it also returned, and later polls commit past them.
PollRetryFails(p) ==
    /\ Fault("poll")
    /\ retrier = Idle
    /\ retryPos[p] < Len(retry[p])
    /\ retryPos' = Inc(retryPos, p)
    /\ UNCHANGED <<storeVars, hookVars, moverVars, retrier, retryCommitted,
                   topicVars, flinkVars, outcomeVars>>

CommitOffset(p) == retryPos[p]

\* franz-go commits, on a later poll, the offsets of the records already
\* handed out.  A handler's error does not keep its record from committing.
CommitRetry(p) ==
    /\ retrier = Idle
    /\ retryCommitted[p] # retryPos[p]
    /\ retryCommitted' = [retryCommitted EXCEPT ![p] = CommitOffset(p)]
    /\ UNCHANGED <<storeVars, hookVars, moverVars, retrier, retryPos, topicVars,
                   flinkVars, outcomeVars, faultVars>>

\* The handler goes on to re-produce only when MoveObject returned nil.
MoveReturnsNil(p) == p \in staged \/ AlreadyMoved(p)

\* Handle returns the error of MoveObject; the router logs it.
AfterMoveError == Idle

\* MoveObject, synchronous: copy and go on to the removal; or find the move
\* already done; or fail, which ends the handler with nothing produced.
RetryMove(p) ==
    /\ Handling(p, "move")
    /\ IF p \in staged
       THEN CopyObject(p)
       ELSE UNCHANGED <<staged, stored, readyHooks>>
    /\ retrier' = IF MoveReturnsNil(p)
                  THEN [retrier EXCEPT !.phase = IF p \in staged THEN "remove" ELSE "produce"]
                  ELSE AfterMoveError
    /\ UNCHANGED <<uploaded, expired, putHooks, moverVars, retryPos,
                   retryCommitted, topicVars, flinkVars, outcomeVars, faultVars>>

\* MoveObject fails on an error other than NoSuchKey.
RetryMoveFails(p) ==
    /\ Fault("retry_move")
    /\ Handling(p, "move")
    /\ \/ UNCHANGED <<staged, stored, readyHooks>>
       \/ p \in staged /\ CopyObject(p)
    /\ retrier' = AfterMoveError
    /\ UNCHANGED <<uploaded, expired, putHooks, moverVars, retryPos,
                   retryCommitted, topicVars, flinkVars, outcomeVars>>

\* RemoveObject of the source inside MoveObject, its error ignored.
RetryRemove(p) ==
    /\ Handling(p, "remove")
    /\ \/ staged' = staged \ {p} /\ UNCHANGED faultVars
       \/ Fault("remove") /\ UNCHANGED staged
    /\ retrier' = [retrier EXCEPT !.phase = "produce"]
    /\ UNCHANGED <<stored, uploaded, expired, hookVars, moverVars, retryPos,
                   retryCommitted, topicVars, flinkVars, outcomeVars>>

\* int32(retryCount + 1)
NextRetryCount(count) == count + 1

\* Re-produce upload.received with the incremented count.
RetryProduce(p) ==
    /\ Handling(p, "produce")
    /\ received' = [received EXCEPT ![p] = Append(@, NextRetryCount(retrier.retry_count))]
    /\ retrier' = Idle
    /\ UNCHANGED <<storeVars, hookVars, moverVars, retryPos, retryCommitted,
                   ready, retry, flinkVars, outcomeVars, faultVars>>

\* The produce fails, Handle returns the error, the record is done with.
RetryProduceFails(p) ==
    /\ Fault("produce")
    /\ Handling(p, "produce")
    /\ retrier' = Idle
    /\ UNCHANGED <<storeVars, hookVars, moverVars, retryPos, retryCommitted,
                   topicVars, flinkVars, outcomeVars>>

\* The process dies: goroutines and the handler in progress are lost, and the
\* group resumes from the committed offset.
ServiceCrash ==
    /\ Fault("crash")
    /\ copying' = [p \in Paths |-> 0]
    /\ removing' = [p \in Paths |-> 0]
    /\ retrier' = Idle
    /\ retryPos' = retryCommitted
    /\ UNCHANGED <<storeVars, hookVars, retryCommitted, topicVars, flinkVars,
                   outcomeVars>>

\* ExpiredCleanupHandler.Handle on an expired event of this upload: remove
\* the uploads/ object.  The TTL saga that emits the event is not in this
\* module: here it may do so at any moment after the upload.
ExpiredCleanup(p) ==
    /\ Fault("cleanup")
    /\ p \in uploaded \ expired
    /\ expired' = expired \cup {p}
    /\ staged' = staged \ {p}
    /\ UNCHANGED <<stored, uploaded, hookVars, moverVars, groupVars, topicVars,
                   flinkVars, outcomeVars>>

-----------------------------------------------------------------------------
(***************************************************************************)
(* The Flink job: MoveSagaFunction                                         *)
(***************************************************************************)

\* Both halves of the join are present.
BothPresent(event, isReady) == event # NoEvent /\ isReady

Clear(p) ==
    /\ receivedState' = [receivedState EXCEPT ![p] = NoEvent]
    /\ readyState' = [readyState EXCEPT ![p] = FALSE]

\* _check_fast_confirm after an element made the key's state (event, isReady):
\* confirm and clear, or keep the state.
CheckFastConfirm(p, event, isReady) ==
    IF BothPresent(event, isReady)
    THEN confirmed' = Inc(confirmed, p) /\ Clear(p)
    ELSE /\ receivedState' = [receivedState EXCEPT ![p] = event]
         /\ readyState' = [readyState EXCEPT ![p] = isReady]
         /\ UNCHANGED confirmed

\* register_processing_time_timer(now + timeout): one timer per key and
\* millisecond, so a registration may coincide with a pending one.
RegisterTimer(p) ==
    \/ timers' = Inc(timers, p)
    \/ timers[p] > 0 /\ UNCHANGED timers

\* upload.received: replace the stored event, arm a timer, try to confirm.
ProcessElement1(p) ==
    /\ receivedPos[p] < Len(received[p])
    /\ receivedPos' = Inc(receivedPos, p)
    /\ RegisterTimer(p)
    /\ CheckFastConfirm(p, received[p][receivedPos[p] + 1], readyState[p])
    /\ UNCHANGED <<storeVars, hookVars, moverVars, groupVars, topicVars,
                   readyPos, deadLettered, faultVars>>

\* file.ready: set the flag, try to confirm.
ProcessElement2(p) ==
    /\ readyPos[p] < ready[p]
    /\ readyPos' = Inc(readyPos, p)
    /\ CheckFastConfirm(p, receivedState[p], TRUE)
    /\ UNCHANGED <<storeVars, hookVars, moverVars, groupVars, topicVars,
                   receivedPos, timers, deadLettered, faultVars>>

MayRetry(count) == count < MAX_RETRIES

\* on_timer: confirmed, retry or dead letter by the state of the key; the
\* state is cleared whatever the outcome.
OnTimer(p) ==
    LET event   == receivedState[p]
        both    == BothPresent(event, readyState[p])
        timeout == event # NoEvent /\ ~both
    IN  /\ timers[p] > 0
        /\ timers' = Dec(timers, p)
        /\ confirmed' = IF both THEN Inc(confirmed, p) ELSE confirmed
        /\ retry' = IF timeout /\ MayRetry(event)
                    THEN [retry EXCEPT ![p] = Append(@, event)]
                    ELSE retry
        /\ deadLettered' = IF timeout /\ ~MayRetry(event)
                           THEN Inc(deadLettered, p)
                           ELSE deadLettered
        /\ Clear(p)
        /\ UNCHANGED <<storeVars, hookVars, moverVars, groupVars, received, ready,
                       receivedPos, readyPos, faultVars>>

\* The job restarts.  It has no checkpoint: keyed state and timers are gone
\* and its sources start from the earliest offset.
FlinkRestart ==
    /\ Fault("restart")
    /\ receivedPos' = [p \in Paths |-> 0]
    /\ readyPos' = [p \in Paths |-> 0]
    /\ receivedState' = [p \in Paths |-> NoEvent]
    /\ readyState' = [p \in Paths |-> FALSE]
    /\ timers' = [p \in Paths |-> 0]
    /\ UNCHANGED <<storeVars, hookVars, moverVars, groupVars, topicVars, outcomeVars>>

-----------------------------------------------------------------------------
PathStep(p) ==
    \/ Upload(p)
    \/ UploadWebhook(p) \/ UploadWebhookRepeats(p)
    \/ FileReadyWebhook(p) \/ FileReadyWebhookRepeats(p)
    \/ MoverCopy(p) \/ MoverCopyFails(p) \/ MoverRemove(p)
    \/ PollRetry(p) \/ PollRetryFails(p) \/ CommitRetry(p)
    \/ RetryMove(p) \/ RetryMoveFails(p) \/ RetryRemove(p)
    \/ RetryProduce(p) \/ RetryProduceFails(p)
    \/ ExpiredCleanup(p)
    \/ ProcessElement1(p) \/ ProcessElement2(p) \/ OnTimer(p)

Next == ServiceCrash \/ FlinkRestart \/ \E p \in Paths : PathStep(p)

Spec == Init /\ [][Next]_vars

\* MinIO delivers a queued notification until it is answered; goroutines and
\* the consumer loop run; Flink polls its sources and fires due timers.  The
\* browser, the commits and the failures are not promised.
Fairness ==
    \A p \in Paths :
        /\ WF_vars(UploadWebhook(p))
        /\ WF_vars(FileReadyWebhook(p))
        /\ WF_vars(MoverCopy(p))
        /\ WF_vars(MoverRemove(p))
        /\ WF_vars(PollRetry(p))
        /\ WF_vars(RetryMove(p))
        /\ WF_vars(RetryRemove(p))
        /\ WF_vars(RetryProduce(p))
        /\ WF_vars(ProcessElement1(p))
        /\ WF_vars(ProcessElement2(p))
        /\ WF_vars(OnTimer(p))

FairSpec == Spec /\ Fairness
-----------------------------------------------------------------------------
(***************************************************************************)
(* Properties                                                              *)
(***************************************************************************)

Counts == [Paths -> Nat]

StoreOK ==
    /\ staged \subseteq Paths /\ stored \subseteq Paths
    /\ uploaded \subseteq Paths /\ expired \subseteq uploaded

ServiceOK ==
    /\ putHooks \in Counts /\ readyHooks \in Counts
    /\ copying \in Counts /\ removing \in Counts

TopicsOK ==
    /\ received \in [Paths -> Seq(Nat)]
    /\ retry \in [Paths -> Seq(Nat)]
    /\ ready \in Counts

RetrierOK ==
    retrier \in {Idle} \cup
        [phase : {"move", "remove", "produce"}, path : Paths, retry_count : Nat]

GroupOK ==
    /\ retryPos \in Counts /\ retryCommitted \in Counts
    /\ \A p \in Paths : retryCommitted[p] <= retryPos[p] /\ retryPos[p] <= Len(retry[p])

JobOK ==
    /\ receivedPos \in Counts /\ readyPos \in Counts /\ timers \in Counts
    /\ receivedState \in [Paths -> Nat \cup {NoEvent}]
    /\ readyState \in [Paths -> BOOLEAN]
    /\ \A p \in Paths : receivedPos[p] <= Len(received[p]) /\ readyPos[p] <= ready[p]

OutcomesOK ==
    /\ confirmed \in Counts /\ deadLettered \in Counts
    /\ faults \in 0..MaxFaults /\ happened \subseteq FaultKinds

\* The variables have their types; the offsets of each consumer stay within
\* its topic, and the committed offset of the group within its position.
TypeOK ==
    /\ StoreOK /\ ServiceOK /\ TopicsOK /\ RetrierOK /\ GroupOK /\ JobOK /\ OutcomesOK

\* The retry loop is finite: however events are repeated, reordered or
\* replayed, no upload.received carries a count above MAX_RETRIES and no
\* retry is requested at MAX_RETRIES (docs/learnings.md, 21).
RetryBounded ==
    \A p \in Paths :
        /\ \A i \in 1..Len(received[p]) : received[p][i] <= MAX_RETRIES
        /\ \A i \in 1..Len(retry[p]) : retry[p][i] < MAX_RETRIES

\* No interleaving of concurrent movers, retries and crashes loses the bytes
\* of an upload: unless the TTL saga removed the source, the object is under
\* uploads/ or under files/ (MoveObject copies before it removes).
NoFileLost == \A p \in uploaded \ expired : p \in staged \cup stored

\* upload.confirmed, which inserts the media_files row users download by, is
\* only emitted for an object that is under files/.
ConfirmedIsStored == \A p \in Paths : confirmed[p] > 0 => p \in stored

\* A dead-lettered upload, of which the user is told that it failed, is under
\* files/ all the same: the count only grows after a MoveObject that returned
\* nil, so a move that keeps failing never comes this far.
DeadLetterIsStored == \A p \in Paths : deadLettered[p] > 0 => p \in stored

\* Fast confirmation leaves nothing for the timer: a key never holds both
\* events between two callbacks, so on_timer's own confirmed branch is dead.
NeverBothPending == \A p \in Paths : ~BothPresent(receivedState[p], readyState[p])

One(condition) == IF condition THEN 1 ELSE 0

\* Where the single unit of work of an upload can be: MinIO's queue, a topic,
\* the job's state, the retry handler, or an outcome.
Tokens(p) ==
    putHooks[p]
    + (Len(received[p]) - receivedPos[p])
    + One(receivedState[p] # NoEvent)
    + (Len(retry[p]) - retryPos[p])
    + One(retrier # Idle /\ retrier.path = p)
    + confirmed[p]
    + deadLettered[p]

\* Failures after which an event may be handled twice.
Repeating == {"webhook", "crash", "restart"}
\* Failures that end the retry loop without an outcome.
Dropping == {"retry_move", "produce", "poll", "cleanup"}

\* Exactly-once bookkeeping, from both sides.  Unless something is repeated an
\* upload has no second unit of work, hence no second outcome, however late
\* events and timers come.  Unless something is dropped its unit is never lost:
\* neither a crash in the middle of a handler nor a restart that forgets the
\* job's state can leave an upload without an outcome and without work.
OneToken ==
    \A p \in Paths :
        /\ happened \cap Repeating = {} => Tokens(p) <= One(p \in uploaded)
        /\ happened \cap Dropping = {} => Tokens(p) >= One(p \in uploaded)

\* An outcome is final: while nothing is repeated, an upload that was
\* confirmed or dead-lettered gets no second outcome and no further retry.
OutcomeIsFinal ==
    [][happened' \cap Repeating = {} =>
         \A p \in Paths :
            confirmed[p] + deadLettered[p] > 0 =>
                UNCHANGED <<confirmed[p], deadLettered[p], received[p], retry[p]>>]_vars

PrefixesOf(p) ==
    (IF p \in staged THEN {"uploads"} ELSE {}) \cup (IF p \in stored THEN {"files"} ELSE {})

OutcomesOf(p) ==
    (IF confirmed[p] > 0 THEN {"confirmed"} ELSE {})
    \cup (IF deadLettered[p] > 0 THEN {"dead_letter"} ELSE {})

Held == [p \in Paths |-> PrefixesOf(p)]
Told == [p \in Paths |-> OutcomesOf(p)]

Custody == INSTANCE UploadCustody WITH held <- Held, told <- Told

\* The saga implements UploadCustody: whatever is repeated, lost or replayed,
\* every step copies, releases or announces as that specification allows.
CustodySpec == Custody!Spec

Settled(p) == confirmed[p] + deadLettered[p] > 0

\* Every upload is confirmed or dead-lettered in the end, despite failing
\* first moves, lost answers, crashes of the service and restarts of the job,
\* unless one of the failures that end the loop happens.
UploadSettles ==
    \A p \in Paths :
        p \in uploaded ~> Settled(p) \/ happened \cap Dropping # {}

\* What docs/learnings.md (21) says of every failing move: retry up to the
\* limit, then dead-letter.  The code does not do this.
FailedMoveSettles == \A p \in Paths : p \in uploaded ~> Settled(p)
=============================================================================
