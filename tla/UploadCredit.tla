---------------------------- MODULE UploadCredit ----------------------------
(***************************************************************************)
(* The credit side of an upload: one credit is deducted when the intent is *)
(* approved and given back when the presigned URL expires unused.          *)
(*                                                                         *)
(* Four processes pass events along: the credit check job (deduct, approve *)
(* or reject), the media-service (presigned URLs and webhooks), the TTL    *)
(* job (joins upload.signed with upload.received per uploads/ path) and    *)
(* the balance job (signup bonus and refunds).  None of the three jobs has *)
(* a checkpoint: one that restarts reads its topics from the start.        *)
(*                                                                         *)
(* The ledger is append-only and a balance is the sum of one user's rows,  *)
(* so the module follows one user.  Each topic has one partition: a log.   *)
(***************************************************************************)
EXTENDS Integers, Sequences, FiniteSets

CONSTANTS
    Requests,       \* request ids of upload intents
    Paths,          \* uploads/<user>/<uuid>/<name>, a fresh uuid per signing
    SIGNUP_BONUS,   \* 2 in the code
    MaxReceived,    \* bound: upload.received events of one path
    TimelyReceipt,  \* assume that the TTL job sees the receipt of an object
                    \* that was PUT in time before the timer is due
    MaxFaults,      \* bound: failures in one behaviour
    FaultKinds      \* the kinds of failure that may happen

AllFaultKinds ==
    {"deduct",           \* the check raises and the deduction did not happen
     "deduct_committed", \* the check raises after its commit took effect
     "sign",             \* the URL is not signed or upload.signed not produced
     "poll",             \* a poll of the media-service skips its records
     "crash",            \* the media-service dies
     "credit_restart", "ttl_restart", "balance_restart"} \* a job restarts

Anonymous == "anonymous"  \* the empty user_id and file_path of an expiry without state

ASSUME UploadCreditAssumption ==
    /\ SIGNUP_BONUS \in Nat
    /\ MaxReceived \in Nat /\ MaxFaults \in Nat
    /\ TimelyReceipt \in BOOLEAN
    /\ FaultKinds \subseteq AllFaultKinds
    /\ Anonymous \notin Paths

VARIABLES
    ledger,         \* sums of the user's credit_ledger rows, per kind
    \* topics
    intents,        \* internal.media.upload.intent
    approved,       \* public.media.upload.approved
    signed,         \* public.media.upload.signed
    received,       \* internal.media.upload.received
    expired,        \* public.media.expired.events
    \* positions of the readers
    intentPos,      \* credit check job
    approvedPos,    \* media-service
    signedPos,      \* TTL job
    receivedPos,    \* TTL job
    expiredPos,     \* balance job
    signupPos,      \* balance job: 0 or 1, the user signed up once
    \* keyed state and timers of the TTL job
    signedState,
    completedState, \* FALSE also stands for a cleared value
    timers,
    \* MinIO and the browser
    put,            \* paths with a completed PUT
    lapsed,         \* paths whose URL is past its expiry
    \* history
    rejected,       \* public.media.upload.rejected: reasons per request
    signedFor,      \* the request each path was signed for
    inTime,         \* paths PUT before their URL lapsed
    clobbered,      \* paths whose completion the TTL job overwrote
    refunded,       \* paths with a refund
    faults,
    happened

topicVars   == <<intents, approved, signed, received, expired>>
checkVars   == <<intentPos, rejected>>
serviceVars == <<approvedPos, signedFor>>
ttlVars     == <<signedPos, receivedPos, signedState, completedState, timers, clobbered>>
balanceVars == <<expiredPos, signupPos, refunded>>
storeVars   == <<put, lapsed, inTime>>
faultVars   == <<faults, happened>>

vars == <<ledger, topicVars, checkVars, serviceVars, ttlVars, balanceVars,
          storeVars, faultVars>>

Fault(kind) ==
    /\ kind \in FaultKinds
    /\ faults < MaxFaults
    /\ faults' = faults + 1
    /\ happened' = happened \cup {kind}

ElementsOf(log) == {log[i] : i \in 1..Len(log)}

\* user_credit_balances: SUM(amount) of the user's rows.
Balance == ledger.bonus + ledger.refunded - ledger.deducted

Init ==
    /\ ledger = [bonus |-> 0, refunded |-> 0, deducted |-> 0]
    /\ intents = <<>> /\ approved = <<>> /\ signed = <<>>
    /\ received = <<>> /\ expired = <<>>
    /\ intentPos = 0 /\ approvedPos = 0 /\ signedPos = 0 /\ receivedPos = 0
    /\ expiredPos = 0 /\ signupPos = 0
    /\ signedState = [p \in Paths |-> FALSE]
    /\ completedState = [p \in Paths |-> FALSE]
    /\ timers = [p \in Paths |-> 0]
    /\ put = {} /\ lapsed = {}
    /\ rejected = [r \in Requests |-> {}]
    /\ signedFor = [p \in Paths |-> {}]
    /\ inTime = {} /\ clobbered = {} /\ refunded = {}
    /\ faults = 0 /\ happened = {}

-----------------------------------------------------------------------------
(***************************************************************************)
(* Plausible mistakes, variants of the definitions below.                  *)
(***************************************************************************)
DeductAnyway == TRUE
ApproveUnpaid(r) == approved' = Append(approved, r) /\ UNCHANGED ledger
RejectSilently(r, reason) == UNCHANGED rejected
SkipNextIntent == intentPos + 2
LeaveTimerUnset(p) == UNCHANGED timers
ArmTwice(p) == timers' = [timers EXCEPT ![p] = @ + 2]
CompleteNothing(p) == UNCHANGED completedState
RefundTwice == [ledger EXCEPT !.refunded = @ + 2]

-----------------------------------------------------------------------------
(***************************************************************************)
(* The gateway and the credit check job                                    *)
(***************************************************************************)

\* POST /api/v1/media/upload-intent.
Intent(r) ==
    /\ r \notin ElementsOf(intents)
    /\ intents' = Append(intents, r)
    /\ UNCHANGED <<ledger, approved, signed, received, expired, checkVars,
                   serviceVars, ttlVars, balanceVars, storeVars, faultVars>>

\* WHERE SUM(amount) >= 1, evaluated with the INSERT in one statement.
HasCredit == Balance >= 1

Deduct == ledger' = [ledger EXCEPT !.deducted = @ + 1]

\* The INSERT returned an id: the row is committed, upload.approved emitted.
DeductAndApprove(r) == Deduct /\ approved' = Append(approved, r)

Reject(r, reason) == rejected' = [rejected EXCEPT ![r] = @ \cup {reason}]

NextIntentPos == intentPos + 1

\* CreditCheckFunction.flat_map on the next intent.
CheckCredit ==
    /\ intentPos < Len(intents)
    /\ intentPos' = NextIntentPos
    /\ LET r == intents[intentPos + 1]
       IN  IF HasCredit
           THEN DeductAndApprove(r) /\ UNCHANGED rejected
           ELSE Reject(r, "insufficient_credits") /\ UNCHANGED <<ledger, approved>>
    /\ UNCHANGED <<intents, signed, received, expired, serviceVars, ttlVars,
                   balanceVars, storeVars, faultVars>>

\* flat_map raises: rejected with internal_error, whether the deduction was
\* rolled back or its commit took effect before the connection broke.
CheckCreditRaises ==
    /\ intentPos < Len(intents)
    /\ intentPos' = NextIntentPos
    /\ Reject(intents[intentPos + 1], "internal_error")
    /\ \/ Fault("deduct") /\ UNCHANGED ledger
       \/ Fault("deduct_committed") /\ HasCredit /\ Deduct
    /\ UNCHANGED <<topicVars, serviceVars, ttlVars, balanceVars, storeVars>>

\* The job restarts and reads every intent again; it may have died between
\* the commit of a deduction and the emission of its outcome.
CreditRestart ==
    /\ Fault("credit_restart")
    /\ intentPos' = 0
    /\ \/ UNCHANGED ledger
       \/ intentPos < Len(intents) /\ HasCredit /\ Deduct
    /\ UNCHANGED <<topicVars, rejected, serviceVars, ttlVars, balanceVars, storeVars>>

-----------------------------------------------------------------------------
(***************************************************************************)
(* media-service: signing                                                  *)
(***************************************************************************)

\* UploadSigningHandler.Handle: a URL for a fresh path.
Sign(p) ==
    /\ approvedPos < Len(approved)
    /\ p \notin ElementsOf(signed)
    /\ signed' = Append(signed, p)
    /\ signedFor' = [signedFor EXCEPT ![p] = {approved[approvedPos + 1]}]
    /\ approvedPos' = approvedPos + 1
    /\ UNCHANGED <<ledger, intents, approved, received, expired, checkVars,
                   ttlVars, balanceVars, storeVars, faultVars>>

\* The handler returns an error, which the router only logs; or the loop
\* skips the record after a fetch error.
SignIsSkipped ==
    /\ Fault("sign") \/ Fault("poll")
    /\ approvedPos < Len(approved)
    /\ approvedPos' = approvedPos + 1
    /\ UNCHANGED <<ledger, topicVars, checkVars, signedFor, ttlVars,
                   balanceVars, storeVars>>

\* The process dies and its group resumes from the committed offset, which
\* autocommit moves only at a later poll: some approvals are signed again.
ServiceCrash ==
    /\ Fault("crash")
    /\ approvedPos' \in 0..approvedPos
    /\ UNCHANGED <<ledger, topicVars, checkVars, signedFor, ttlVars,
                   balanceVars, storeVars>>

-----------------------------------------------------------------------------
(***************************************************************************)
(* The browser, MinIO and the receipt                                      *)
(***************************************************************************)

\* The PUT completes.  One that started in time may complete late.
Upload(p) ==
    /\ p \in ElementsOf(signed) \ put
    /\ put' = put \cup {p}
    /\ inTime' = inTime \cup ({p} \ lapsed)
    /\ UNCHANGED <<ledger, topicVars, checkVars, serviceVars, ttlVars,
                   balanceVars, lapsed, faultVars>>

\* UPLOAD_URL_EXPIRY passes.
UrlLapses(p) ==
    /\ p \in ElementsOf(signed) \ lapsed
    /\ lapsed' = lapsed \cup {p}
    /\ UNCHANGED <<ledger, topicVars, checkVars, serviceVars, ttlVars,
                   balanceVars, put, inTime, faultVars>>

ReceiptsOf(p) == {i \in 1..Len(received) : received[i] = p}

\* upload.received: from the uploads/ webhook, again when MinIO repeats the
\* delivery, and again from every pass of the move saga's retry handler.
Receive(p) ==
    /\ p \in put
    /\ Cardinality(ReceiptsOf(p)) < MaxReceived
    /\ received' = Append(received, p)
    /\ UNCHANGED <<ledger, intents, approved, signed, expired, checkVars,
                   serviceVars, ttlVars, balanceVars, storeVars, faultVars>>

-----------------------------------------------------------------------------
(***************************************************************************)
(* The TTL job: TTLExpiryFunction                                          *)
(***************************************************************************)

RegisterTimer(p) == timers' = [timers EXCEPT ![p] = @ + 1]

\* upload.signed: store it, reset completed, arm the timer.
ProcessElement1 ==
    /\ signedPos < Len(signed)
    /\ signedPos' = signedPos + 1
    /\ LET p == signed[signedPos + 1]
       IN  /\ signedState' = [signedState EXCEPT ![p] = TRUE]
           /\ completedState' = [completedState EXCEPT ![p] = FALSE]
           /\ clobbered' = IF completedState[p] THEN clobbered \cup {p} ELSE clobbered
           /\ RegisterTimer(p)
    /\ UNCHANGED <<ledger, topicVars, checkVars, serviceVars, receivedPos,
                   balanceVars, storeVars, faultVars>>

Complete(p) == completedState' = [completedState EXCEPT ![p] = TRUE]

\* upload.received: completed, whether or not upload.signed has been seen.
ProcessElement2 ==
    /\ receivedPos < Len(received)
    /\ receivedPos' = receivedPos + 1
    /\ Complete(received[receivedPos + 1])
    /\ UNCHANGED <<ledger, topicVars, checkVars, serviceVars, signedPos,
                   signedState, timers, clobbered, balanceVars, storeVars, faultVars>>

\* The timer is armed for as long as the URL is valid, and not before the URL
\* was signed: it is due only once the URL has lapsed.
TimerDue(p) ==
    /\ timers[p] > 0
    /\ p \in lapsed
    /\ TimelyReceipt /\ p \in inTime => \E i \in ReceiptsOf(p) : i <= receivedPos

Expires(p) == ~completedState[p]

ClearState(p) ==
    /\ signedState' = [signedState EXCEPT ![p] = FALSE]
    /\ completedState' = [completedState EXCEPT ![p] = FALSE]

\* on_timer: emit expired unless completed; clear the state in any case.
OnTimer(p) ==
    /\ TimerDue(p)
    /\ timers' = [timers EXCEPT ![p] = @ - 1]
    /\ expired' = IF Expires(p)
                  THEN Append(expired, IF signedState[p] THEN p ELSE Anonymous)
                  ELSE expired
    /\ ClearState(p)
    /\ UNCHANGED <<ledger, intents, approved, signed, received, checkVars,
                   serviceVars, signedPos, receivedPos, clobbered, balanceVars,
                   storeVars, faultVars>>

TtlRestart ==
    /\ Fault("ttl_restart")
    /\ signedPos' = 0 /\ receivedPos' = 0
    /\ signedState' = [p \in Paths |-> FALSE]
    /\ completedState' = [p \in Paths |-> FALSE]
    /\ timers' = [p \in Paths |-> 0]
    /\ UNCHANGED <<ledger, topicVars, checkVars, serviceVars, clobbered,
                   balanceVars, storeVars>>

-----------------------------------------------------------------------------
(***************************************************************************)
(* The balance job: credit_balance_processor.sql                           *)
(***************************************************************************)

\* The signup bonus.
SignupBonus ==
    /\ signupPos = 0
    /\ signupPos' = 1
    /\ ledger' = [ledger EXCEPT !.bonus = @ + SIGNUP_BONUS]
    /\ UNCHANGED <<topicVars, checkVars, serviceVars, ttlVars, expiredPos,
                   refunded, storeVars, faultVars>>

LedgerAfterRefund == [ledger EXCEPT !.refunded = @ + 1]

\* An expired event gives one credit back to the user it names.
Refund ==
    /\ expiredPos < Len(expired)
    /\ expiredPos' = expiredPos + 1
    /\ LET p == expired[expiredPos + 1]
       IN  IF p = Anonymous
           THEN UNCHANGED <<ledger, refunded>>
           ELSE ledger' = LedgerAfterRefund /\ refunded' = refunded \cup {p}
    /\ UNCHANGED <<topicVars, checkVars, serviceVars, ttlVars, signupPos,
                   storeVars, faultVars>>

BalanceRestart ==
    /\ Fault("balance_restart")
    /\ expiredPos' = 0 /\ signupPos' = 0
    /\ UNCHANGED <<ledger, topicVars, checkVars, serviceVars, ttlVars, refunded,
                   storeVars>>

-----------------------------------------------------------------------------
Next ==
    \/ \E r \in Requests : Intent(r)
    \/ CheckCredit \/ CheckCreditRaises \/ CreditRestart
    \/ \E p \in Paths : Sign(p) \/ Upload(p) \/ UrlLapses(p) \/ Receive(p)
    \/ SignIsSkipped \/ ServiceCrash
    \/ ProcessElement1 \/ ProcessElement2 \/ TtlRestart
    \/ \E p \in Paths : OnTimer(p)
    \/ SignupBonus \/ Refund \/ BalanceRestart

Spec == Init /\ [][Next]_vars

-----------------------------------------------------------------------------
(***************************************************************************)
(* Properties                                                              *)
(***************************************************************************)

LedgerOK == ledger \in [bonus : Nat, refunded : Nat, deducted : Nat]

TopicsOK ==
    /\ intents \in Seq(Requests) /\ approved \in Seq(Requests)
    /\ signed \in Seq(Paths) /\ received \in Seq(Paths)
    /\ expired \in Seq(Paths \cup {Anonymous})

PositionsOK ==
    /\ intentPos \in 0..Len(intents) /\ approvedPos \in 0..Len(approved)
    /\ signedPos \in 0..Len(signed) /\ receivedPos \in 0..Len(received)
    /\ expiredPos \in 0..Len(expired) /\ signupPos \in 0..1

TtlOK ==
    /\ signedState \in [Paths -> BOOLEAN]
    /\ completedState \in [Paths -> BOOLEAN]
    /\ timers \in [Paths -> Nat]

HistoryOK ==
    /\ rejected \in [Requests -> SUBSET {"insufficient_credits", "internal_error"}]
    /\ signedFor \in [Paths -> SUBSET Requests]
    /\ put \subseteq Paths /\ lapsed \subseteq Paths
    /\ inTime \subseteq put /\ clobbered \subseteq Paths /\ refunded \subseteq Paths
    /\ faults \in 0..MaxFaults /\ happened \subseteq FaultKinds

\* The variables have their types, and no reader is beyond the end of a topic.
TypeOK == LedgerOK /\ TopicsOK /\ PositionsOK /\ TtlOK /\ HistoryOK

\* The user never owes: whatever is repeated, raised or restarted, the check
\* and the deduction are one statement and every other row adds.
BalanceNeverNegative == Balance >= 0

\* Nobody uploads for free: an approval stands on a deduction of its own and,
\* unless a crash repeats one, a URL on an approval of its own.
EveryUrlIsPaid ==
    /\ Len(approved) <= ledger.deducted
    /\ "crash" \notin happened => Len(signed) <= approvedPos

\* What the ledger owes the user: the bonus once signed up, less a credit per
\* approval the media-service has not read and per URL that is not refunded.
BalanceDue ==
    signupPos * SIGNUP_BONUS - (Len(approved) - approvedPos)
    - Cardinality(ElementsOf(signed) \ refunded)

\* Failures that repeat a signing, an expiry or a ledger row.
Repeating == {"crash", "ttl_restart", "balance_restart"}
\* Failures that may take a credit and give no URL for it.
Losing == {"deduct_committed", "credit_restart", "sign", "poll"}

\* Credit is conserved across four processes and five topics.  It is never
\* minted: while nothing is repeated the user has at most what is due, so no
\* refund comes without a deduction of its own.  And it never vanishes: but
\* for the failures that lose it every credit is in the balance, in an
\* approval under way or in a URL.
CreditConserved ==
    /\ happened \cap Repeating = {} => Balance <= BalanceDue
    /\ happened \cap Losing = {} => Balance >= BalanceDue

\* A URL expires at most once per run of the TTL job, however often it was
\* received, and whether or not the job had already completed it.
OneExpiryPerUrl ==
    "ttl_restart" \notin happened =>
        \A i, j \in 1..Len(expired) : expired[i] = expired[j] => i = j

\* The only way to refund an upload that was PUT in time, when its receipt is
\* prompt, is for process_element1 to reset the completion it arrives after.
RefundedInTimeWasClobbered == TimelyReceipt => refunded \cap inTime \subseteq clobbered

\* An upload intent is answered: rejected, or signed unless the media-service
\* could not (no retry, no refund then) or a restart of the check took over.
IntentIsAnswered ==
    \A r \in Requests :
        r \in ElementsOf(intents) ~>
            \/ rejected[r] # {}
            \/ \E p \in Paths : r \in signedFor[p]
            \/ happened \cap {"sign", "poll"} # {}

\* What docs/learnings.md (20) says: a credit is refunded only if the user did
\* not upload in time.  The code does not keep this.
RefundOnlyIfNotUploaded == refunded \cap inTime = {}
=============================================================================
