---------------------------- MODULE UploadSystem ----------------------------
(***************************************************************************)
(* An upload as a whole: the four processes of UploadCredit and the move   *)
(* saga of MoveSaga, with no abstraction between them.  Both sagas see the *)
(* same PUT, read the same topic upload.received, and live in the same     *)
(* media-service: its crash takes the movers and the handlers together,    *)
(* and its one loop handles a retry, an approval or an expiry at a time.   *)
(* The cleanup of MoveSaga happens when the TTL job's expiry is read.      *)
(*                                                                         *)
(* UploadPipeline says the same with UploadCustody in place of the move    *)
(* saga.                                                                   *)
(***************************************************************************)
EXTENDS MoveSaga

CONSTANTS
    \* of UploadCredit
    Requests, SIGNUP_BONUS, MaxReceived, TimelyReceipt,
    MaxCreditFaults, CreditFaultKinds

VARIABLES
    \* of UploadCredit, renamed where MoveSaga has the name
    ledger, intents, approved, signed,
    receipts,     \* internal.media.upload.received, as the TTL job reads it
    expiries,     \* public.media.expired.events
    intentPos, approvedPos, signedPos,
    receiptPos,   \* the TTL job's position in receipts
    expiredPos, signupPos,
    signedState, completedState,
    ttlTimers,
    lapsed, rejected, signedFor, inTime, clobbered, refunded,
    creditFaults, creditHappened,
    \* of UploadPipeline
    cleaned, cleanupPos

Pipeline == INSTANCE UploadPipeline WITH
    MaxFaults <- MaxCreditFaults, FaultKinds <- CreditFaultKinds,
    received <- receipts, expired <- expiries, receivedPos <- receiptPos,
    timers <- ttlTimers, put <- uploaded,
    faults <- creditFaults, happened <- creditHappened,
    held <- Held, told <- Told

ASSUME UploadSystemAssumption ==
    /\ SIGNUP_BONUS \in Nat
    /\ MaxReceived \in Nat /\ MaxCreditFaults \in Nat
    /\ TimelyReceipt \in BOOLEAN
    /\ CreditFaultKinds \subseteq Pipeline!AllFaultKinds
    /\ Pipeline!Anonymous \notin Paths

\* The variables of UploadCredit but for the PUTs, which MoveSaga has too.
creditVars ==
    <<ledger, intents, approved, signed, receipts, expiries, intentPos,
      approvedPos, signedPos, receiptPos, expiredPos, signupPos, signedState,
      completedState, ttlTimers, lapsed, rejected, signedFor, inTime, clobbered,
      refunded, creditFaults, creditHappened>>

cleanupVars == <<cleaned, cleanupPos>>

systemVars == <<vars, creditVars, cleanupVars>>

SystemInit == Init /\ Pipeline!PipelineInit

\* Plausible mistakes, variants of the definitions below.
MoveUnreported(p) == UNCHANGED creditVars
SkipACleanup == cleanupPos + 2

-----------------------------------------------------------------------------
(***************************************************************************)
(* The steps of both sagas                                                 *)
(***************************************************************************)

\* The browser's PUT.
PutObject(p) ==
    /\ Upload(p)
    /\ Pipeline!Upload(p)
    /\ UNCHANGED cleanupVars

\* What the TTL job will read of an event produced for the move saga.
Reported(p) == Pipeline!Receive(p)

\* upload.received is produced: by the webhook, which starts the mover with
\* it, or by the retry handler once its move returned nil.
ProduceReceived(p) ==
    /\ UploadWebhook(p) \/ UploadWebhookRepeats(p) \/ RetryProduce(p)
    /\ Reported(p)
    /\ UNCHANGED cleanupVars

\* RemoveObject of an object that is not there changes nothing.
RemoveStaged(p) ==
    IF p \in staged THEN ExpiredCleanup(p) ELSE UNCHANGED vars

NextCleanup == cleanupPos + 1

\* The consumer loop is not inside another handler.
LoopIsFree == retrier = Idle

\* ExpiredCleanupHandler.Handle on the next expired event.
ExpiryIsCleaned ==
    /\ LoopIsFree
    /\ cleanupPos < Len(expiries)
    /\ cleanupPos' = NextCleanup
    /\ LET p == expiries[cleanupPos + 1]
       IN  IF Pipeline!Skips(p)
           THEN UNCHANGED <<vars, cleaned>>
           ELSE RemoveStaged(p) /\ cleaned' = cleaned \cup {p}
    /\ UNCHANGED creditVars

\* RemoveObject fails, which is only logged, or a poll skips the record.
ExpiryIsSkipped ==
    /\ LoopIsFree
    /\ cleanupPos < Len(expiries)
    /\ cleanupPos' = NextCleanup
    /\ UNCHANGED <<vars, creditVars, cleaned>>

\* The media-service dies, with all its goroutines and consumer positions.
MediaServiceCrash ==
    /\ ServiceCrash
    /\ Pipeline!ServiceCrash
    /\ cleanupPos' \in 0..cleanupPos
    /\ UNCHANGED cleaned

-----------------------------------------------------------------------------
(***************************************************************************)
(* The steps of one saga alone                                             *)
(***************************************************************************)

\* UploadSigningHandler.Handle, by the same loop.
SignUpload(p) == LoopIsFree /\ Pipeline!Sign(p)

\* Credits, signing, the TTL job, the balance job, time.
CreditStep ==
    /\ \/ \E r \in Requests : Pipeline!Intent(r)
       \/ Pipeline!CheckCredit \/ Pipeline!CheckCreditRaises \/ Pipeline!CreditRestart
       \/ \E p \in Paths : SignUpload(p) \/ Pipeline!UrlLapses(p) \/ Pipeline!OnTimer(p)
       \/ LoopIsFree /\ Pipeline!SignIsSkipped
       \/ Pipeline!ProcessElement1 \/ Pipeline!ProcessElement2 \/ Pipeline!TtlRestart
       \/ Pipeline!SignupBonus \/ Pipeline!Refund \/ Pipeline!BalanceRestart
    /\ UNCHANGED <<vars, cleanupVars>>

\* Movers, retries, the webhook of files/, the Flink job.
MoveStep(p) ==
    /\ \/ FileReadyWebhook(p) \/ FileReadyWebhookRepeats(p)
       \/ MoverCopy(p) \/ MoverCopyFails(p) \/ MoverRemove(p)
       \/ PollRetry(p) \/ PollRetryFails(p) \/ CommitRetry(p)
       \/ RetryMove(p) \/ RetryMoveFails(p) \/ RetryRemove(p)
       \/ RetryProduceFails(p)
       \/ ProcessElement1(p) \/ ProcessElement2(p) \/ OnTimer(p)
    /\ UNCHANGED <<creditVars, cleanupVars>>

MoveJobRestart == FlinkRestart /\ UNCHANGED <<creditVars, cleanupVars>>

SystemNext ==
    \/ CreditStep
    \/ \E p \in Paths : PutObject(p) \/ ProduceReceived(p) \/ MoveStep(p)
    \/ ExpiryIsCleaned \/ ExpiryIsSkipped
    \/ MediaServiceCrash \/ MoveJobRestart

SystemSpec == SystemInit /\ [][SystemNext]_systemVars

\* A step of the move saga, or of the credit saga, with the other one at rest.
MoveAlone(A) == A /\ UNCHANGED <<creditVars, cleanupVars>>
CreditAlone(A) == A /\ UNCHANGED <<vars, cleanupVars>>
Reporting(p, A) == A /\ Reported(p) /\ UNCHANGED cleanupVars

\* Each process goes on while it can: MinIO's deliveries, the movers, the one
\* consumer loop, the two jobs that keep timers, the check job, the balance job,
\* and time.  A process chooses among its steps; it has finitely many at a time.
MinioDelivers(p) ==
    Reporting(p, UploadWebhook(p)) \/ MoveAlone(FileReadyWebhook(p))

MoverRuns(p) == MoveAlone(MoverCopy(p) \/ MoverRemove(p))

LoopRuns(p) ==
    \/ CreditAlone(SignUpload(p))
    \/ MoveAlone(PollRetry(p) \/ RetryMove(p) \/ RetryRemove(p))
    \/ Reporting(p, RetryProduce(p))

MoveJobRuns(p) == MoveAlone(ProcessElement1(p) \/ ProcessElement2(p) \/ OnTimer(p))

TtlJobRuns ==
    \/ CreditAlone(Pipeline!ProcessElement1 \/ Pipeline!ProcessElement2)
    \/ \E p \in Paths : CreditAlone(Pipeline!OnTimer(p))

SystemFairness ==
    /\ \A p \in Paths :
         /\ WF_systemVars(MinioDelivers(p))
         /\ WF_systemVars(MoverRuns(p))
         /\ WF_systemVars(MoveJobRuns(p))
         /\ WF_systemVars(CreditAlone(Pipeline!UrlLapses(p)))
    /\ WF_systemVars(\E p \in Paths : LoopRuns(p))
    /\ WF_systemVars(TtlJobRuns)
    /\ WF_systemVars(CreditAlone(Pipeline!CheckCredit))
    /\ WF_systemVars(CreditAlone(Pipeline!SignupBonus \/ Pipeline!Refund))

FairSystemSpec == SystemSpec /\ SystemFairness

-----------------------------------------------------------------------------
(***************************************************************************)
(* Properties                                                              *)
(***************************************************************************)

\* Both sides have their types, and read the same topic: the TTL job sees a
\* receipt for every upload.received, retried or not.
SystemTypeOK ==
    /\ TypeOK
    /\ Pipeline!PipelineTypeOK
    /\ \A p \in Paths : Cardinality(Pipeline!ReceiptsOf(p)) = Len(received[p])

\* The system implements UploadPipeline: what that module shows with the
\* abstract custody in it, down to the credits, is so of the real movers,
\* retries and outcomes, which all come after a receipt the TTL job will read.
PipelineSpec == Pipeline!PipelineSpec

\* An expiry never costs a user the file, with all of the movers, retries and
\* crashes of the move saga in between.
InTimeIsKept == Pipeline!InTimeIsKept

\* No credit is stranded: every URL that was paid for is used or its credit
\* refunded, and a used one gets an outcome of the move saga in the end, through
\* restarts, crashes and skipped cleanups, unless the retry loop was broken.
NoCreditStranded ==
    \A p \in Paths :
        p \in Pipeline!ElementsOf(signed) ~>
            \/ p \in refunded
            \/ p \in uploaded /\ (Settled(p) \/ happened \cap Dropping # {})

\* A retry or a cleanup in the one loop never keeps an intent from its answer.
IntentIsAnswered == Pipeline!IntentIsAnswered

\* What docs/architecture.md says of an upload that fails: the TTL saga
\* refunds its credit.  The code does not do this.
FailedUploadIsRefunded ==
    \A p \in Paths :
        deadLettered[p] > 0 /\ confirmed[p] = 0 ~> p \in refunded \/ confirmed[p] > 0
=============================================================================
