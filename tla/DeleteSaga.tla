----------------------------- MODULE DeleteSaga -----------------------------
(***************************************************************************)
(* Deleting a stored file: the media-service soft-deletes the media_files  *)
(* rows, tells the user, then removes the object from MinIO, going round a *)
(* retry topic or to a dead letter when the removal fails.                 *)
(*                                                                         *)
(* The consumer loop of the media-service runs one handler at a time, but  *)
(* every call of a handler is a step of its own: the balance job may insert *)
(* a row, and the process may die, between any two of them.                *)
(*                                                                         *)
(* A file stands for its path and its owner.  An intent of anybody else    *)
(* finds no row and is rejected like one for a deleted file.  A topic is a *)
(* log per file; a retry is its retry_count, the rest is copied unchanged. *)
(***************************************************************************)
EXTENDS Integers, Sequences

CONSTANTS
    Files,
    MAX_RETRIES,   \* the literal 3 of DeleteRetryHandler.Handle
    MaxIntents,    \* bound: delete intents for one file
    MaxFaults,     \* bound: failures in one behaviour
    FaultKinds     \* the kinds of failure that may happen

AllFaultKinds ==
    {"lookup",   \* the metadata query fails
     "db",       \* the UPDATE fails, having taken effect or not
     "remove",   \* RemoveObject fails, having taken effect or not
     "produce",  \* an event cannot be produced
     "poll",     \* a poll returns a fetch error and its records are skipped
     "crash",    \* the media-service dies
     "reconfirm", \* the move saga confirms the upload again
     "recopy",   \* a mover copies a staged object that was left behind again
     "restart"}  \* the balance job restarts, without a checkpoint

ASSUME DeleteSagaAssumption ==
    /\ MAX_RETRIES \in Nat /\ MaxIntents \in Nat /\ MaxFaults \in Nat
    /\ FaultKinds \subseteq AllFaultKinds

Idle == [phase |-> "idle"]

VARIABLES
    \* Postgres: media_files rows of each file by status
    active,
    softDeleted,
    \* MinIO
    stored,        \* files with an object under files/
    \* Kafka: logs and the positions of their readers
    intents,       \* internal.media.delete.intent: its length, all are alike
    intentPos,
    retry,         \* internal.media.delete.retry
    retryPos,
    confirmed,     \* public.media.upload.confirmed: its length
    confirmedPos,  \* position of the balance job
    \* the media-service's handler in progress
    handler,
    \* events emitted
    deleted,       \* public.media.delete.events, per file
    rejected,      \* public.media.delete.rejected: reasons per file
    deadLettered,  \* internal.media.delete.dead-letter, per file
    \* history
    failures,      \* failed removals by the retry handler, per file
    faults,
    happened

dbVars      == <<active, softDeleted>>
topicVars   == <<intents, retry>>
uploadVars  == <<confirmed, confirmedPos>>
groupVars   == <<intentPos, retryPos, handler>>
outcomeVars == <<deleted, rejected, deadLettered>>
faultVars   == <<faults, happened>>

vars == <<dbVars, stored, topicVars, groupVars, uploadVars, outcomeVars, failures,
          faultVars>>

Inc(f, x) == [f EXCEPT ![x] = @ + 1]

Fault(kind) ==
    /\ kind \in FaultKinds
    /\ faults < MaxFaults
    /\ faults' = faults + 1
    /\ happened' = happened \cup {kind}

\* Every file has been uploaded and confirmed; its row may not be there yet.
Init ==
    /\ active = [f \in Files |-> 0]
    /\ softDeleted = [f \in Files |-> 0]
    /\ stored = Files
    /\ intents = [f \in Files |-> 0]
    /\ intentPos = [f \in Files |-> 0]
    /\ retry = [f \in Files |-> <<>>]
    /\ retryPos = [f \in Files |-> 0]
    /\ confirmed = [f \in Files |-> 1]
    /\ confirmedPos = [f \in Files |-> 0]
    /\ handler = Idle
    /\ deleted = [f \in Files |-> 0]
    /\ rejected = [f \in Files |-> {}]
    /\ deadLettered = [f \in Files |-> 0]
    /\ failures = [f \in Files |-> 0]
    /\ faults = 0 /\ happened = {}

-----------------------------------------------------------------------------
(***************************************************************************)
(* Plausible mistakes, variants of the definitions below.                  *)
(***************************************************************************)
RemoveFirst == "remove"
AnnounceBeforeUpdate(f) == UNCHANGED dbVars
ForgetTheObject(f) == Idle
GiveUpEarly(count) == count + 1 >= MAX_RETRIES
SkipAnIntent(f) == intentPos' = [intentPos EXCEPT ![f] = @ + 2]

-----------------------------------------------------------------------------
(***************************************************************************)
(* The user, the upload pipeline and the balance job                       *)
(***************************************************************************)

\* POST /api/v1/media/delete-intent.
Intent(f) ==
    /\ intents[f] < MaxIntents
    /\ intents' = Inc(intents, f)
    /\ UNCHANGED <<dbVars, stored, retry, groupVars, uploadVars, outcomeVars,
                   failures, faultVars>>

\* The move saga confirms an upload once for every pair of a receipt and a
\* file.ready it joins: a repeated webhook or a restart of its job gives another
\* (MoveSaga).
ConfirmAgain(f) ==
    /\ Fault("reconfirm")
    /\ confirmed' = Inc(confirmed, f)
    /\ UNCHANGED <<dbVars, stored, topicVars, groupVars, confirmedPos, outcomeVars,
                   failures>>

\* MoveObject ignores a failed removal under uploads/: a repeated webhook then
\* copies the object once more.
CopyAgain(f) ==
    /\ Fault("recopy")
    /\ stored' = stored \cup {f}
    /\ UNCHANGED <<dbVars, topicVars, groupVars, uploadVars, outcomeVars, failures>>

\* The balance job reads an upload.confirmed and inserts an active row; nothing
\* in the table makes it unique.
InsertRow(f) ==
    /\ confirmedPos[f] < confirmed[f]
    /\ confirmedPos' = Inc(confirmedPos, f)
    /\ active' = Inc(active, f)
    /\ UNCHANGED <<softDeleted, stored, topicVars, groupVars, confirmed, outcomeVars,
                   failures, faultVars>>

\* The job restarts and reads its topics from the start.
BalanceRestart ==
    /\ Fault("restart")
    /\ confirmedPos' = [f \in Files |-> 0]
    /\ UNCHANGED <<dbVars, stored, topicVars, groupVars, confirmed, outcomeVars,
                   failures>>

-----------------------------------------------------------------------------
(***************************************************************************)
(* The consumer loop                                                       *)
(***************************************************************************)

At(f, phase) == handler # Idle /\ handler.file = f /\ handler.phase = phase

Goto(phase) == [handler EXCEPT !.phase = phase]

NextIntent(f) == intentPos' = Inc(intentPos, f)

PollIntent(f) ==
    /\ handler = Idle
    /\ intentPos[f] < intents[f]
    /\ NextIntent(f)
    /\ handler' = [phase |-> "lookup", file |-> f, retry_count |-> 0]
    /\ UNCHANGED <<dbVars, stored, topicVars, retryPos, uploadVars, outcomeVars,
                   failures, faultVars>>

PollRetry(f) ==
    /\ handler = Idle
    /\ retryPos[f] < Len(retry[f])
    /\ retryPos' = Inc(retryPos, f)
    /\ handler' = [phase |-> "retry_remove", file |-> f,
                   retry_count |-> retry[f][retryPos[f] + 1]]
    /\ UNCHANGED <<dbVars, stored, topicVars, intentPos, uploadVars, outcomeVars,
                   failures, faultVars>>

\* A fetch error: the loop continues without the records of the poll.
PollFails(f) ==
    /\ Fault("poll")
    /\ handler = Idle
    /\ \/ /\ intentPos[f] < intents[f]
          /\ intentPos' = Inc(intentPos, f) /\ UNCHANGED retryPos
       \/ /\ retryPos[f] < Len(retry[f])
          /\ retryPos' = Inc(retryPos, f) /\ UNCHANGED intentPos
    /\ UNCHANGED <<dbVars, stored, topicVars, handler, uploadVars, outcomeVars, failures>>

\* The process dies inside or between handlers; autocommit covers only
\* records of earlier polls.
ServiceCrash ==
    /\ Fault("crash")
    /\ handler' = Idle
    /\ \E f \in Files :
         /\ \E pos \in 0..intentPos[f] : intentPos' = [intentPos EXCEPT ![f] = pos]
         /\ \E pos \in 0..retryPos[f] : retryPos' = [retryPos EXCEPT ![f] = pos]
    /\ UNCHANGED <<dbVars, stored, topicVars, uploadVars, outcomeVars, failures>>

\* An error returned by a handler is logged; its record is done with.
HandlerFails(f, phase, kind) ==
    /\ Fault(kind)
    /\ At(f, phase)
    /\ handler' = Idle
    /\ UNCHANGED <<dbVars, stored, topicVars, intentPos, retryPos, uploadVars,
                   outcomeVars, failures>>

-----------------------------------------------------------------------------
(***************************************************************************)
(* DeleteHandler.Handle                                                    *)
(***************************************************************************)

\* Where the handler goes once it has the metadata.
AfterLookup == "soft_delete"

\* GetFileMetadata: an active row, or a rejection.
Lookup(f) ==
    /\ At(f, "lookup")
    /\ handler' = Goto(IF active[f] > 0 THEN AfterLookup ELSE "reject")
    /\ UNCHANGED <<dbVars, stored, topicVars, intentPos, retryPos, uploadVars,
                   outcomeVars, failures, faultVars>>

Reject(f, reason) == rejected' = [rejected EXCEPT ![f] = @ \cup {reason}]

RejectNotFound(f) ==
    /\ At(f, "reject")
    /\ Reject(f, "not_found")
    /\ handler' = Idle
    /\ UNCHANGED <<dbVars, stored, topicVars, intentPos, retryPos, uploadVars,
                   deleted, deadLettered, failures, faultVars>>

\* UPDATE ... SET status = 'deleted' for every row of the file.
UpdateRows(f) ==
    /\ softDeleted' = [softDeleted EXCEPT ![f] = @ + active[f]]
    /\ active' = [active EXCEPT ![f] = 0]

SoftDelete(f) ==
    /\ At(f, "soft_delete")
    /\ UpdateRows(f)
    /\ handler' = Goto("announce")
    /\ UNCHANGED <<stored, topicVars, intentPos, retryPos, uploadVars, outcomeVars,
                   failures, faultVars>>

\* The UPDATE fails: rejected with internal_error, MinIO is not touched.
SoftDeleteFails(f) ==
    /\ Fault("db")
    /\ At(f, "soft_delete")
    /\ UpdateRows(f) \/ UNCHANGED dbVars
    /\ Reject(f, "internal_error")
    /\ handler' = Idle
    /\ UNCHANGED <<stored, topicVars, intentPos, retryPos, uploadVars, deleted,
                   deadLettered, failures>>

\* FileDeleted: the user sees the file as deleted.
Announce(f) ==
    /\ At(f, "announce")
    /\ deleted' = Inc(deleted, f)
    /\ handler' = Goto("remove")
    /\ UNCHANGED <<dbVars, stored, topicVars, intentPos, retryPos, uploadVars,
                   rejected, deadLettered, failures, faultVars>>

\* RemoveObject succeeds: either handler is done.
Remove(f) ==
    /\ At(f, "remove") \/ At(f, "retry_remove")
    /\ stored' = stored \ {f}
    /\ handler' = Idle
    /\ UNCHANGED <<dbVars, topicVars, intentPos, retryPos, uploadVars, outcomeVars,
                   failures, faultVars>>

\* What the handler does when RemoveObject fails.
AfterFailedRemove(f) == Goto("requeue")

RemoveFails(f) ==
    /\ Fault("remove")
    /\ At(f, "remove")
    /\ stored' = stored \ {f} \/ UNCHANGED stored
    /\ handler' = AfterFailedRemove(f)
    /\ UNCHANGED <<dbVars, topicVars, intentPos, retryPos, uploadVars, outcomeVars,
                   failures>>

\* Produce delete.retry with the count the handler holds.
Requeue(f) ==
    /\ At(f, "requeue")
    /\ retry' = [retry EXCEPT ![f] = Append(@, handler.retry_count)]
    /\ handler' = Idle
    /\ UNCHANGED <<dbVars, stored, intents, intentPos, retryPos, uploadVars,
                   outcomeVars, failures, faultVars>>

-----------------------------------------------------------------------------
(***************************************************************************)
(* DeleteRetryHandler.Handle                                               *)
(***************************************************************************)

IsExhausted(count) == count >= MAX_RETRIES

NextRetryCount(count) == count + 1

\* RemoveObject fails again: dead-letter, or back to the topic with the next
\* count.
RetryRemoveFails(f) ==
    /\ Fault("remove")
    /\ At(f, "retry_remove")
    /\ stored' = stored \ {f} \/ UNCHANGED stored
    /\ failures' = Inc(failures, f)
    /\ handler' = IF IsExhausted(handler.retry_count)
                  THEN Goto("dead_letter")
                  ELSE [Goto("requeue") EXCEPT !.retry_count = NextRetryCount(@)]
    /\ UNCHANGED <<dbVars, topicVars, intentPos, retryPos, uploadVars, outcomeVars>>

DeadLetter(f) ==
    /\ At(f, "dead_letter")
    /\ deadLettered' = Inc(deadLettered, f)
    /\ handler' = Idle
    /\ UNCHANGED <<dbVars, stored, topicVars, intentPos, retryPos, uploadVars,
                   deleted, rejected, failures, faultVars>>

\* Producing the event of any of these phases fails.
ProducingPhases == {"reject", "announce", "requeue", "dead_letter"}

ProduceFails(f) == \E phase \in ProducingPhases : HandlerFails(f, phase, "produce")

LookupFails(f) == HandlerFails(f, "lookup", "lookup")

-----------------------------------------------------------------------------
HandlerStep(f) ==
    \/ PollIntent(f) \/ PollRetry(f)
    \/ Lookup(f) \/ RejectNotFound(f) \/ SoftDelete(f) \/ Announce(f)
    \/ Remove(f) \/ Requeue(f) \/ DeadLetter(f)

FailureStep(f) ==
    \/ PollFails(f) \/ LookupFails(f) \/ SoftDeleteFails(f)
    \/ RemoveFails(f) \/ RetryRemoveFails(f) \/ ProduceFails(f)

Next ==
    \/ \E f \in Files : \/ Intent(f) \/ ConfirmAgain(f) \/ CopyAgain(f) \/ InsertRow(f)
                       \/ HandlerStep(f) \/ FailureStep(f)
    \/ ServiceCrash \/ BalanceRestart

Spec == Init /\ [][Next]_vars

\* The loop keeps polling and a handler keeps running; rows get inserted.
Fairness ==
    \A f \in Files :
        /\ WF_vars(InsertRow(f))
        /\ WF_vars(handler # Idle /\ HandlerStep(f))
        /\ SF_vars(PollIntent(f)) /\ SF_vars(PollRetry(f))

FairSpec == Spec /\ Fairness
-----------------------------------------------------------------------------
(***************************************************************************)
(* Properties                                                              *)
(***************************************************************************)

Counts == [Files -> Nat]

HandlerOK ==
    handler \in {Idle} \cup
        [phase : {"lookup", "soft_delete", "announce", "remove", "retry_remove"}
                 \cup ProducingPhases,
         file : Files, retry_count : Nat]

StoreOK ==
    /\ active \in Counts /\ softDeleted \in Counts /\ stored \subseteq Files
    /\ confirmed \in Counts /\ confirmedPos \in Counts
    /\ \A f \in Files : confirmedPos[f] <= confirmed[f]

TopicsOK ==
    /\ intents \in [Files -> 0..MaxIntents] /\ intentPos \in Counts
    /\ retry \in [Files -> Seq(Nat)] /\ retryPos \in Counts
    /\ \A f \in Files : intentPos[f] <= intents[f] /\ retryPos[f] <= Len(retry[f])

OutcomesOK ==
    /\ deleted \in Counts /\ deadLettered \in Counts /\ failures \in Counts
    /\ rejected \in [Files -> SUBSET {"not_found", "internal_error"}]
    /\ faults \in 0..MaxFaults /\ happened \subseteq FaultKinds

\* The variables have their types and no reader is beyond the end of a topic.
TypeOK == HandlerOK /\ StoreOK /\ TopicsOK /\ OutcomesOK

\* Rows ever inserted for a file: none is removed, an UPDATE turns it.
Rows(f) == active[f] + softDeleted[f]

\* A listed file can be downloaded: an active row has its object, through
\* repeated intents, retries, crashes and every failed call.  Only a further row
\* lists a removed file, inserted because the move saga confirmed the upload more
\* than once or because the balance job read its confirmation again.
ListedIsStored ==
    \A f \in Files : active[f] > 0 /\ f \notin stored =>
        Rows(f) > 1 /\ (confirmed[f] > 1 \/ "restart" \in happened)

\* The user is told once for each row: a repeated or redelivered intent finds no
\* active row any more, so FileDeleted is announced again only for a further row,
\* and hence for a further confirmation or after a restart of the balance job.
AnnouncedOnce ==
    \A f \in Files :
        /\ deleted[f] <= Rows(f)
        /\ deleted[f] <= confirmed[f] \/ "restart" \in happened

\* Something will still remove the object of a file, or says that nothing will.
CleanupPending(f) ==
    \/ handler # Idle /\ handler.file = f
    \/ retryPos[f] < Len(retry[f])
    \/ deadLettered[f] > 0

\* Failures that break the chain of a cleanup, or bring the object back behind it.
Breaking == {"db", "produce", "poll", "crash", "recopy"}

\* No silent orphan: once the rows are deleted the object is gone, about to be
\* removed, queued for a retry or dead-lettered, unless the chain was broken.
NoSilentOrphan ==
    happened \cap Breaking = {} =>
        \A f \in Files : softDeleted[f] > 0 /\ f \in stored => CleanupPending(f)

\* Every soft-deleted file loses its object or is dead-lettered in the end,
\* unless the chain was broken.
DeleteSettles ==
    \A f \in Files :
        softDeleted[f] > 0 ~>
            f \notin stored \/ deadLettered[f] > 0 \/ happened \cap Breaking # {}

\* A file is given up only after every attempt: the counts run from 0 to
\* MAX_RETRIES, so each dead letter stands for MAX_RETRIES + 1 failed retries of
\* its own, unless a crash lets a retry be read twice.  docs/architecture.md counts
\* them as MAX_RETRIES.
DeadLetterTakesEveryAttempt ==
    "crash" \notin happened =>
        \A f \in Files : deadLettered[f] * (MAX_RETRIES + 1) <= failures[f]
=============================================================================
