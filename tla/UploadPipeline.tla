--------------------------- MODULE UploadPipeline ---------------------------
(***************************************************************************)
(* The credit side and the storage side of an upload together.  The        *)
(* storage side is UploadCustody, which MoveSaga implements: the webhook   *)
(* of a PUT starts the move, and the cleanup handler of the media-service  *)
(* acts on the expiries that the TTL job emits.  UploadSystem has MoveSaga *)
(* itself in that place and implements this module.                        *)
(***************************************************************************)
EXTENDS UploadCredit

VARIABLES
    held,       \* UploadCustody: the prefixes under which an object exists
    told,       \* UploadCustody: the outcomes of the move saga
    cleaned,    \* UploadCustody: paths whose uploads/ object was removed on expiry
    cleanupPos  \* the media-service's position in public.media.expired.events

custodyVars == <<held, told, cleaned>>
pipelineVars == <<vars, custodyVars, cleanupPos>>

Custody == INSTANCE UploadCustody WITH expired <- cleaned

PipelineInit == Init /\ Custody!Init /\ cleanupPos = 0

-----------------------------------------------------------------------------
\* The browser's PUT puts the object in place.
PutObject(p) == Upload(p) /\ Custody!Put(p) /\ UNCHANGED cleanupPos

\* A mover exists once upload.received has been produced.
MoveStarted(p) == ReceiptsOf(p) # {}

\* MoveObject, by the webhook's goroutine or by the retry handler, in two
\* steps: the copy and the removal of the source.
MoveObject(p) ==
    /\ MoveStarted(p)
    /\ Custody!Copy(p) \/ Custody!Release(p)
    /\ UNCHANGED <<vars, cleanupPos>>

\* The move saga confirms the upload or dead-letters it.
Settle(p) ==
    /\ MoveStarted(p)
    /\ Custody!Tell(p)
    /\ UNCHANGED <<vars, cleanupPos>>

\* Handle returns without a call for an event that names no path.
Skips(p) == p = Anonymous

NextCleanup == cleanupPos + 1

\* ExpiredCleanupHandler.Handle on the next expired event.
ExpiredCleanup ==
    /\ cleanupPos < Len(expired)
    /\ cleanupPos' = NextCleanup
    /\ LET p == expired[cleanupPos + 1]
       IN  IF Skips(p) THEN UNCHANGED custodyVars ELSE Custody!Expire(p)
    /\ UNCHANGED vars

\* RemoveObject fails, which is only logged, or a poll skips the record.
ExpiredCleanupIsSkipped ==
    /\ cleanupPos < Len(expired)
    /\ cleanupPos' = NextCleanup
    /\ UNCHANGED <<vars, custodyVars>>

\* The media-service dies: both of its topics resume from a committed offset.
PipelineCrash ==
    /\ ServiceCrash
    /\ cleanupPos' \in 0..cleanupPos
    /\ UNCHANGED custodyVars

\* The steps that touch credits, topics and timers only.
CreditStep ==
    /\ \/ \E r \in Requests : Intent(r)
       \/ CheckCredit \/ CheckCreditRaises \/ CreditRestart
       \/ \E p \in Paths : Sign(p) \/ UrlLapses(p) \/ Receive(p) \/ OnTimer(p)
       \/ SignIsSkipped
       \/ ProcessElement1 \/ ProcessElement2 \/ TtlRestart
       \/ SignupBonus \/ Refund \/ BalanceRestart
    /\ UNCHANGED <<custodyVars, cleanupPos>>

PipelineNext ==
    \/ CreditStep
    \/ \E p \in Paths : PutObject(p) \/ MoveObject(p) \/ Settle(p)
    \/ ExpiredCleanup \/ ExpiredCleanupIsSkipped
    \/ PipelineCrash

PipelineSpec == PipelineInit /\ [][PipelineNext]_pipelineVars

-----------------------------------------------------------------------------
PipelineTypeOK ==
    /\ TypeOK
    /\ held \in [Paths -> SUBSET {"uploads", "files"}]
    /\ told \in [Paths -> SUBSET {"confirmed", "dead_letter"}]
    /\ cleaned \subseteq Paths
    /\ cleanupPos \in 0..Len(expired)

\* The TTL saga never costs a user the file: an object PUT in time and received
\* promptly stays under uploads/ or files/, whatever the movers, the cleanup,
\* crashes and replays do, unless its completion was overwritten.
InTimeIsKept ==
    TimelyReceipt => \A p \in inTime \ clobbered : held[p] # {}
=============================================================================
