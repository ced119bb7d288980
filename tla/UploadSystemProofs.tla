------------------------- MODULE UploadSystemProofs -------------------------
(***************************************************************************)
(* Proofs about UploadSystem, for every value of its constants.  The       *)
(* system is a behaviour of MoveSaga, so what MoveSagaProofs shows holds   *)
(* in it, and it implements UploadPipeline, so what is shown there of      *)
(* credits, expiries and objects holds of the real movers as well.         *)
(***************************************************************************)
EXTENDS UploadSystem, MoveSagaProofs, FiniteSetTheorems

\* Every step is one of the move saga, or leaves it alone.
LEMMA MoveSide == TypeOK /\ SystemNext => [Next]_vars
<1>. SUFFICES ASSUME TypeOK, SystemNext PROVE [Next]_vars OBVIOUS
<1>1. CASE CreditStep BY <1>1 DEF CreditStep
<1>2. ASSUME NEW p \in Paths, PutObject(p) \/ ProduceReceived(p) \/ MoveStep(p)
      PROVE  [Next]_vars
  BY <1>2 DEF PutObject, ProduceReceived, MoveStep, Next, PathStep
<1>3. CASE ExpiryIsCleaned
  <2>1. UNCHANGED vars \/ ExpiredCleanup(expiries[cleanupPos + 1])
    BY <1>3 DEF ExpiryIsCleaned, RemoveStaged
  <2>2. ASSUME NEW p, ExpiredCleanup(p) PROVE p \in Paths
    BY <2>2 DEF ExpiredCleanup, TypeOK, StoreOK
  <2>. QED BY <2>1, <2>2 DEF Next, PathStep
<1>4. CASE ExpiryIsSkipped BY <1>4 DEF ExpiryIsSkipped
<1>5. CASE MediaServiceCrash \/ MoveJobRestart
  BY <1>5 DEF MediaServiceCrash, MoveJobRestart, Next
<1>. QED BY <1>1, <1>2, <1>3, <1>4, <1>5 DEF SystemNext

\* The system keeps whatever the move saga promises: credits, expiries and the
\* shared consumer loop never disturb its movers, its join and its retries.
THEOREM SystemKeepsMove == SystemSpec => Spec
<1>1. SystemInit => Init BY DEF SystemInit
<1>2. TypeOK /\ [SystemNext]_systemVars => [Next]_vars
  BY MoveSide DEF systemVars
<1>. QED BY <1>1, <1>2, TypeInit, TypeStep, PTL DEF SystemSpec, Spec

-----------------------------------------------------------------------------
(***************************************************************************)
(* Nothing moves before its receipt.                                       *)
(***************************************************************************)

\* An upload of which upload.received was never produced is in no mover, in no
\* retry and not in the state of the job.
Unreceived(p) ==
    /\ copying[p] = 0 /\ removing[p] = 0
    /\ retry[p] = <<>>
    /\ retrier # Idle => retrier.path # p
    /\ receivedState[p] = NoEvent

ReceivedFirst == \A p \in Paths : received[p] = <<>> => Unreceived(p)

\* Records of upload.received stay, and each is appended to one path's log.
LEMMA ReceivedGrows ==
    ASSUME [Next]_vars
    PROVE  \/ received' = received
           \/ \E p \in Paths : \E n :
                  /\ received' = [received EXCEPT ![p] = Append(@, n)]
                  /\ UploadWebhook(p) \/ UploadWebhookRepeats(p) \/ RetryProduce(p)
<1>1. CASE UNCHANGED vars BY <1>1 DEF vars, topicVars
<1>2. CASE ServiceCrash \/ FlinkRestart
  BY <1>2 DEF ServiceCrash, FlinkRestart, topicVars
<1>3. ASSUME NEW p \in Paths, UploadWebhook(p) \/ UploadWebhookRepeats(p) \/ RetryProduce(p)
      PROVE  \E n : received' = [received EXCEPT ![p] = Append(@, n)]
  BY <1>3 DEF UploadWebhook, UploadWebhookRepeats, RetryProduce
<1>4. ASSUME NEW p \in Paths, PathStep(p),
             ~(UploadWebhook(p) \/ UploadWebhookRepeats(p) \/ RetryProduce(p))
      PROVE  received' = received
  BY <1>4 DEF PathStep, Upload, FileReadyWebhook, FileReadyWebhookRepeats, MoverCopy,
       MoverCopyFails, MoverRemove, PollRetry, PollRetryFails, CommitRetry, RetryMove,
       RetryMoveFails, RetryRemove, RetryProduceFails, ExpiredCleanup, ProcessElement1,
       ProcessElement2, OnTimer, topicVars
<1>. QED BY <1>1, <1>2, <1>3, <1>4 DEF Next

\* The webhook produces before it starts the mover; all else follows from a
\* record of the topic.
LEMMA ReceivedFirstStep == TypeOK /\ ReceivedFirst /\ [Next]_vars => ReceivedFirst'
<1>. SUFFICES ASSUME TypeOK, ReceivedFirst, [Next]_vars, NEW q \in Paths, received'[q] = <<>>
              PROVE  Unreceived(q)'
  BY DEF ReceivedFirst
<1>1. received[q] = <<>>
  BY ReceivedGrows DEF TypeOK, TopicsOK
<1>2. Unreceived(q) BY <1>1 DEF ReceivedFirst
<1>3. UNCHANGED vars => Unreceived(q)'
  BY <1>2 DEF vars, moverVars, topicVars, groupVars, flinkVars, Unreceived
<1>. USE DEF TypeOK, ServiceOK, TopicsOK, Counts, GroupOK, JobOK
<1>4. ServiceCrash \/ FlinkRestart => Unreceived(q)'
  BY <1>2 DEF ServiceCrash, FlinkRestart, moverVars, topicVars, groupVars, flinkVars, Unreceived
<1>5. ASSUME NEW p \in Paths, p # q, PathStep(p) PROVE Unreceived(q)'
  <2>1. copying'[q] = copying[q] /\ removing'[q] = removing[q]
    BY <1>5 DEF PathStep, Upload, UploadWebhook, UploadWebhookRepeats, FileReadyWebhook,
         FileReadyWebhookRepeats, MoverCopy, MoverCopyFails, AfterFailedCopy, MoverRemove,
         PollRetry, PollRetryFails, CommitRetry, RetryMove, RetryMoveFails, RetryRemove,
         RetryProduce, RetryProduceFails, ExpiredCleanup, ProcessElement1, ProcessElement2,
         OnTimer, moverVars, Inc, Dec
  <2>2. retry'[q] = retry[q]
    BY <1>5 DEF PathStep, Upload, UploadWebhook, UploadWebhookRepeats, FileReadyWebhook,
         FileReadyWebhookRepeats, MoverCopy, MoverCopyFails, MoverRemove,
         PollRetry, PollRetryFails, CommitRetry, RetryMove, RetryMoveFails, RetryRemove,
         RetryProduce, RetryProduceFails, ExpiredCleanup, ProcessElement1, ProcessElement2,
         OnTimer, topicVars
  <2>3. receivedState'[q] = receivedState[q]
    BY <1>5 DEF PathStep, Upload, UploadWebhook, UploadWebhookRepeats, FileReadyWebhook,
         FileReadyWebhookRepeats, MoverCopy, MoverCopyFails, MoverRemove,
         PollRetry, PollRetryFails, CommitRetry, RetryMove, RetryMoveFails, RetryRemove,
         RetryProduce, RetryProduceFails, ExpiredCleanup, ProcessElement1, ProcessElement2,
         CheckFastConfirm, Clear, OnTimer, flinkVars
  <2>4. retrier' # Idle => retrier'.path # q
    <3>1. CASE PollRetry(p) BY <1>5, <3>1 DEF PollRetry
    <3>2. CASE \/ RetryMove(p) \/ RetryMoveFails(p) \/ RetryRemove(p)
               \/ RetryProduce(p) \/ RetryProduceFails(p)
      <4>1. \/ retrier' = Idle
            \/ \E f : retrier' = [retrier EXCEPT !.phase = f]
        BY <3>2 DEF RetryMove, RetryMoveFails, RetryRemove, RetryProduce,
             RetryProduceFails, AfterMoveError
      <4>2. retrier # Idle /\ retrier.path = p
        BY <3>2 DEF RetryMove, RetryMoveFails, RetryRemove, RetryProduce,
             RetryProduceFails, Handling
      <4>3. retrier \in [phase : {"move", "remove", "produce"}, path : Paths, retry_count : Nat]
        BY <4>2 DEF RetrierOK
      <4>. QED BY <1>5, <4>1, <4>2, <4>3
    <3>3. CASE retrier' = retrier BY <1>2, <3>3 DEF Unreceived
    <3>. QED
      BY <1>5, <3>1, <3>2, <3>3 DEF PathStep, Upload, UploadWebhook,
         UploadWebhookRepeats, FileReadyWebhook, FileReadyWebhookRepeats, MoverCopy,
         MoverCopyFails, MoverRemove, PollRetryFails, CommitRetry, ExpiredCleanup,
         ProcessElement1, ProcessElement2, OnTimer, groupVars
  <2>. QED BY <1>2, <2>1, <2>2, <2>3, <2>4 DEF Unreceived
<1>6. PathStep(q) => Unreceived(q)'
  <2>. SUFFICES ASSUME PathStep(q) PROVE Unreceived(q)' OBVIOUS
  <2>1. ~(UploadWebhook(q) \/ UploadWebhookRepeats(q) \/ RetryProduce(q))
    <3>1. \A n : received' # [received EXCEPT ![q] = Append(@, n)]
      <4>1. \A n : Append(<<>>, n) # <<>> OBVIOUS
      <4>. QED BY <1>1, <4>1
    <3>. QED BY <3>1 DEF UploadWebhook, UploadWebhookRepeats, RetryProduce
  <2>2. ~(MoverCopy(q) \/ MoverCopyFails(q) \/ MoverRemove(q))
    BY <1>2 DEF Unreceived, MoverCopy, MoverCopyFails, MoverRemove
  <2>3. ~(PollRetry(q) \/ PollRetryFails(q) \/ ProcessElement1(q))
    BY <1>1, <1>2 DEF Unreceived, PollRetry, PollRetryFails, ProcessElement1
  <2>4. ~(RetryMove(q) \/ RetryMoveFails(q) \/ RetryRemove(q) \/ RetryProduceFails(q))
    BY <1>2 DEF Unreceived, RetryMove, RetryMoveFails, RetryRemove, RetryProduceFails, Handling
  <2>5. CASE Upload(q) \/ FileReadyWebhook(q) \/ FileReadyWebhookRepeats(q)
             \/ CommitRetry(q) \/ ExpiredCleanup(q)
    BY <1>2, <2>5 DEF Upload, FileReadyWebhook, FileReadyWebhookRepeats, CommitRetry,
         ExpiredCleanup, moverVars, topicVars, groupVars, flinkVars, Unreceived
  <2>6. CASE ProcessElement2(q) \/ OnTimer(q)
    BY <1>2, <2>6 DEF ProcessElement2, OnTimer, CheckFastConfirm, BothPresent, Clear,
         moverVars, topicVars, groupVars, flinkVars, Unreceived
  <2>. QED BY <2>1, <2>2, <2>3, <2>4, <2>5, <2>6 DEF PathStep
<1>. QED BY <1>3, <1>4, <1>5, <1>6 DEF Next

-----------------------------------------------------------------------------
(***************************************************************************)
(* Both sagas read one topic.                                              *)
(***************************************************************************)

\* A record of upload.received is a receipt for the TTL job.
LEMMA OneTopic ==
    ASSUME TypeOK, [SystemNext]_systemVars
    PROVE  \/ receipts' = receipts /\ received' = received
           \/ \E p \in Paths : \E n :
                  /\ receipts' = Append(receipts, p)
                  /\ received' = [received EXCEPT ![p] = Append(@, n)]
<1>1. CASE UNCHANGED systemVars BY <1>1 DEF systemVars, creditVars, vars, topicVars
<1>2. CASE CreditStep
  <2>1. received' = received BY <1>2 DEF CreditStep, vars, topicVars
  <2>2. receipts' = receipts
    BY <1>2 DEF CreditStep, SignUpload, Pipeline!Intent, Pipeline!CheckCredit,
         Pipeline!CheckCreditRaises, Pipeline!CreditRestart, Pipeline!Sign,
         Pipeline!UrlLapses, Pipeline!OnTimer, Pipeline!SignIsSkipped,
         Pipeline!ProcessElement1, Pipeline!ProcessElement2, Pipeline!TtlRestart,
         Pipeline!SignupBonus, Pipeline!Refund, Pipeline!BalanceRestart, Pipeline!topicVars
  <2>. QED BY <2>1, <2>2
<1>3. ASSUME NEW p \in Paths, ProduceReceived(p)
      PROVE  \E n : /\ receipts' = Append(receipts, p)
                    /\ received' = [received EXCEPT ![p] = Append(@, n)]
  BY <1>3 DEF ProduceReceived, Reported, Pipeline!Receive, UploadWebhook,
       UploadWebhookRepeats, RetryProduce
<1>4. ASSUME NEW p \in Paths, PutObject(p)
      PROVE  receipts' = receipts /\ received' = received
  BY <1>4 DEF PutObject, Upload, Pipeline!Upload, Pipeline!topicVars, topicVars
<1>5. ASSUME NEW p \in Paths, MoveStep(p)
      PROVE  receipts' = receipts /\ received' = received
  BY <1>5 DEF MoveStep, creditVars, FileReadyWebhook, FileReadyWebhookRepeats,
       MoverCopy, MoverCopyFails, MoverRemove, PollRetry, PollRetryFails, CommitRetry,
       RetryMove, RetryMoveFails, RetryRemove, RetryProduceFails, ProcessElement1,
       ProcessElement2, OnTimer, topicVars
<1>6. CASE ExpiryIsCleaned \/ ExpiryIsSkipped
  BY <1>6 DEF ExpiryIsCleaned, ExpiryIsSkipped, RemoveStaged, ExpiredCleanup, creditVars,
       vars, topicVars
<1>7. CASE MediaServiceCrash \/ MoveJobRestart
  BY <1>7 DEF MediaServiceCrash, MoveJobRestart, ServiceCrash, FlinkRestart,
       Pipeline!ServiceCrash, Pipeline!topicVars, topicVars, creditVars
<1>. QED BY <1>1, <1>2, <1>3, <1>4, <1>5, <1>6, <1>7 DEF SystemNext

\* Every upload.received, first or retried, is a receipt of its path.
SameTopic ==
    /\ receipts \in Seq(Paths)
    /\ \A p \in Paths :
         /\ IsFiniteSet(Pipeline!ReceiptsOf(p))
         /\ Cardinality(Pipeline!ReceiptsOf(p)) = Len(received[p])

LEMMA SameTopicStep ==
    TypeOK /\ SameTopic /\ [SystemNext]_systemVars => SameTopic'
<1>. SUFFICES ASSUME TypeOK, SameTopic, [SystemNext]_systemVars PROVE SameTopic' OBVIOUS
<1>1. CASE receipts' = receipts /\ received' = received
  BY <1>1 DEF SameTopic, Pipeline!ReceiptsOf
<1>2. ASSUME NEW p \in Paths, NEW n, receipts' = Append(receipts, p),
             received' = [received EXCEPT ![p] = Append(@, n)]
      PROVE  SameTopic'
  <2>1. /\ receipts \in Seq(Paths) /\ receipts' \in Seq(Paths)
        /\ Len(receipts') = Len(receipts) + 1 /\ Len(receipts) \in Nat
        /\ receipts'[Len(receipts) + 1] = p
        /\ \A i \in 1..Len(receipts) : receipts'[i] = receipts[i]
    BY <1>2 DEF SameTopic
  <2>2. 1..Len(receipts') = 1..Len(receipts) \cup {Len(receipts) + 1} BY <2>1
  <2>3. ASSUME NEW q \in Paths, q # p
        PROVE  /\ IsFiniteSet(Pipeline!ReceiptsOf(q)')
               /\ Cardinality(Pipeline!ReceiptsOf(q)') = Len(received'[q])
    <3>1. Pipeline!ReceiptsOf(q)' = Pipeline!ReceiptsOf(q)
      BY <2>1, <2>2, <2>3 DEF Pipeline!ReceiptsOf
    <3>2. received'[q] = received[q] BY <1>2, <2>3 DEF TypeOK, TopicsOK
    <3>. QED BY <3>1, <3>2 DEF SameTopic
  <2>4. /\ IsFiniteSet(Pipeline!ReceiptsOf(p)')
        /\ Cardinality(Pipeline!ReceiptsOf(p)') = Len(received'[p])
    <3>1. Pipeline!ReceiptsOf(p)' = Pipeline!ReceiptsOf(p) \cup {Len(receipts) + 1}
      BY <2>1, <2>2 DEF Pipeline!ReceiptsOf
    <3>2. Len(receipts) + 1 \notin Pipeline!ReceiptsOf(p)
      BY <2>1 DEF Pipeline!ReceiptsOf
    <3>3. IsFiniteSet(Pipeline!ReceiptsOf(p)) BY DEF SameTopic
    <3>4. /\ IsFiniteSet(Pipeline!ReceiptsOf(p)')
          /\ Cardinality(Pipeline!ReceiptsOf(p)') = Cardinality(Pipeline!ReceiptsOf(p)) + 1
      BY <3>1, <3>2, <3>3, FS_AddElement
    <3>5. Len(received'[p]) = Len(received[p]) + 1
      <4>1. received[p] \in Seq(Nat) /\ received'[p] = Append(received[p], n)
        BY <1>2 DEF TypeOK, TopicsOK
      <4>. QED BY <4>1
    <3>. QED BY <3>4, <3>5 DEF SameTopic
  <2>. QED BY <2>1, <2>3, <2>4 DEF SameTopic
<1>. QED BY <1>1, <1>2, OneTopic

LEMMA TopicsStart == SystemInit => ReceivedFirst /\ SameTopic
<1>. SUFFICES ASSUME SystemInit PROVE ReceivedFirst /\ SameTopic OBVIOUS
<1>1. receipts = <<>> BY DEF SystemInit, Pipeline!PipelineInit, Pipeline!Init
<1>2. \A p \in Paths : Pipeline!ReceiptsOf(p) = {} BY <1>1 DEF Pipeline!ReceiptsOf
<1>3. SameTopic
  <2>1. receipts \in Seq(Paths) BY <1>1
  <2>2. \A p \in Paths : Len(received[p]) = 0 BY DEF SystemInit, Init
  <2>. QED BY <1>2, <2>1, <2>2, FS_EmptySet DEF SameTopic
<1>. QED BY <1>3 DEF SystemInit, Init, ReceivedFirst, Unreceived, Idle

SystemInv == IInv /\ ReceivedFirst /\ SameTopic

\* What is in a mover, a retry or the job's state has been received.
THEOREM SystemInvariance == SystemSpec => []SystemInv
<1>1. IInv => TypeOK BY DEF IInv
<1>2. TypeOK /\ [SystemNext]_systemVars => [Next]_vars
  BY MoveSide DEF systemVars
<1>3. SystemSpec => [](ReceivedFirst /\ SameTopic)
  BY <1>1, <1>2, TopicsStart, ReceivedFirstStep, SameTopicStep, SystemKeepsMove,
     Invariance, PTL DEF SystemSpec
<1>. QED BY <1>3, SystemKeepsMove, Invariance, PTL DEF SystemInv

-----------------------------------------------------------------------------
(***************************************************************************)
(* The system implements UploadPipeline.                                   *)
(***************************************************************************)

\* A path in work has been received, so the pipeline may move and settle it.
LEMMA WorkIsStarted ==
    ASSUME SystemInv, NEW p \in Paths, received[p] # <<>> \/ ~Unreceived(p)
    PROVE  Pipeline!MoveStarted(p)
<1>1. received[p] # <<>> BY DEF SystemInv, ReceivedFirst
<1>2. Len(received[p]) # 0 BY <1>1 DEF SystemInv, IInv, TypeOK, TopicsOK
<1>. QED BY <1>2, FS_EmptySet DEF SystemInv, SameTopic, Pipeline!MoveStarted

\* What neither objects, outcomes nor cleanups see, the pipeline's custody does
\* not see.
LEMMA CustodyRests ==
    ASSUME UNCHANGED <<staged, stored, confirmed, deadLettered, cleaned>>
    PROVE  UNCHANGED Pipeline!custodyVars
BY DEF Pipeline!custodyVars, Held, Told, PrefixesOf, OutcomesOf

\* The pipeline's custody is that of the move saga, but for what has expired.
LEMMA SameCustody ==
    ASSUME NEW p \in Paths, UNCHANGED cleaned
    PROVE  /\ Custody!Put(p) => Pipeline!Custody!Put(p)
           /\ Custody!Copy(p) => Pipeline!Custody!Copy(p)
           /\ Custody!Release(p) => Pipeline!Custody!Release(p)
           /\ Custody!Tell(p) => Pipeline!Custody!Tell(p)
BY DEF Custody!Put, Pipeline!Custody!Put, Custody!Copy, Pipeline!Custody!Copy,
       Custody!Release, Pipeline!Custody!Release, Custody!Tell, Pipeline!Custody!Tell,
       Custody!Outcomes, Pipeline!Custody!Outcomes

\* The PUT is the pipeline's PUT.
LEMMA PutStep ==
    ASSUME SystemInv, NEW p \in Paths, PutObject(p)
    PROVE  Pipeline!PutObject(p)
<1>1. p \notin staged /\ p \notin stored /\ p \notin expired
  BY DEF PutObject, Upload, SystemInv, IInv, ObjectsKept, TypeOK, StoreOK
<1>2. Custody!Put(p)
  BY <1>1 DEF PutObject, Upload, Custody!Put, Held, Told, PrefixesOf, OutcomesOf,
       outcomeVars
<1>. QED BY <1>2, SameCustody DEF PutObject, Pipeline!PutObject, cleanupVars

\* A produced upload.received is a receipt; no object moves.
LEMMA ReceiveStep ==
    ASSUME NEW p \in Paths, ProduceReceived(p)
    PROVE  Pipeline!CreditStep
<1>1. UNCHANGED <<staged, stored, confirmed, deadLettered>>
  BY DEF ProduceReceived, UploadWebhook, UploadWebhookRepeats, RetryProduce, storeVars,
         outcomeVars
<1>. QED BY <1>1, CustodyRests DEF ProduceReceived, Reported, cleanupVars, Pipeline!CreditStep

\* While the credit side and the PUTs rest, it stutters.
LEMMA CreditRests ==
    ASSUME UNCHANGED <<creditVars, uploaded>>
    PROVE  UNCHANGED Pipeline!vars
BY DEF creditVars, Pipeline!vars, Pipeline!topicVars, Pipeline!checkVars,
       Pipeline!serviceVars, Pipeline!ttlVars, Pipeline!balanceVars, Pipeline!storeVars,
       Pipeline!faultVars

\* Movers copy and release, the job settles, and what else the move saga does
\* is invisible in the pipeline.
LEMMA MoveSagaStep ==
    ASSUME SystemInv, IInv', NEW p \in Paths, MoveStep(p)
    PROVE  \/ UNCHANGED Pipeline!pipelineVars
           \/ Pipeline!MoveObject(p)
           \/ Pipeline!Settle(p)
<1>. DEFINE Quiet == UNCHANGED <<staged, stored, expired, confirmed, deadLettered>>
           Begun == received[p] # <<>> \/ ~Unreceived(p)
<1>0. TypeOK /\ IInv BY DEF SystemInv, IInv
<1>1. UNCHANGED Pipeline!vars /\ UNCHANGED <<cleaned, cleanupPos>>
  <2>1. uploaded' = uploaded
    BY DEF MoveStep, FileReadyWebhook, FileReadyWebhookRepeats, MoverCopy,
         MoverCopyFails, MoverRemove, PollRetry, PollRetryFails, CommitRetry, RetryMove,
         RetryMoveFails, RetryRemove, RetryProduceFails, ProcessElement1,
         ProcessElement2, OnTimer, storeVars
  <2>. QED BY <2>1, CreditRests DEF MoveStep, cleanupVars
<1>2. Quiet => UNCHANGED Pipeline!pipelineVars
  BY <1>1, CustodyRests DEF Pipeline!pipelineVars
<1>3. /\ Begun /\ (Custody!Copy(p) \/ Custody!Release(p)) => Pipeline!MoveObject(p)
      /\ Begun /\ Custody!Tell(p) => Pipeline!Settle(p)
  BY <1>1, WorkIsStarted, SameCustody DEF Pipeline!MoveObject, Pipeline!Settle
<1>. USE DEF storeVars, outcomeVars
<1>4. CASE MoverCopy(p) \/ MoverCopyFails(p) \/ RetryMove(p) \/ RetryMoveFails(p)
  <2>1. ~Unreceived(p)
    BY <1>4 DEF MoverCopy, MoverCopyFails, RetryMove, RetryMoveFails, Handling, Unreceived
  <2>2. Quiet \/ (p \in staged /\ CopyObject(p) /\ UNCHANGED <<expired, confirmed, deadLettered>>)
    BY <1>4 DEF MoverCopy, MoverCopyFails, RetryMove, RetryMoveFails
  <2>. QED BY <1>2, <1>3, <2>1, <2>2, CustodyCopy
<1>5. CASE MoverRemove(p) \/ RetryRemove(p)
  <2>1. ~Unreceived(p)
    BY <1>5 DEF MoverRemove, RetryRemove, Handling, Unreceived
  <2>2. p \in stored
    BY <1>0, <1>5 DEF MoverRemove, RetryRemove, Handling, IInv, MoverIsStored
  <2>3. Quiet \/ (staged' = staged \ {p} /\ UNCHANGED <<stored, expired, confirmed, deadLettered>>)
    BY <1>5 DEF MoverRemove, RetryRemove
  <2>. QED BY <1>2, <1>3, <2>1, <2>2, <2>3, CustodyRelease
<1>6. CASE ProcessElement1(p) \/ ProcessElement2(p)
  <2>1. Quiet \/ (confirmed' = Inc(confirmed, p) /\ UNCHANGED <<staged, stored, expired, deadLettered>>)
    BY <1>6 DEF ProcessElement1, ProcessElement2, CheckFastConfirm
  <2>2. ASSUME confirmed' = Inc(confirmed, p), UNCHANGED <<staged, stored, expired, deadLettered>>
        PROVE  Custody!Tell(p) /\ Begun
    <3>1. confirmed[p] \in Nat /\ confirmed' # confirmed /\ confirmed'[p] > 0
      BY <1>0, <2>2 DEF TypeOK, OutcomesOK, Counts, Inc
    <3>2. p \in stored
      BY <2>2, <3>1 DEF IInv, OutcomeIsStored, ConfirmedIsStored
    <3>3. ProcessElement1(p) => received[p] # <<>>
      BY <1>0 DEF ProcessElement1, TypeOK, TopicsOK, JobOK, Counts
    <3>4. ProcessElement2(p) => receivedState[p] # NoEvent
      BY <3>1 DEF ProcessElement2, CheckFastConfirm, BothPresent
    <3>. QED
      BY <1>0, <1>6, <2>2, <3>2, <3>3, <3>4, CustodyConfirm DEF Unreceived
  <2>. QED BY <1>2, <1>3, <2>1, <2>2
<1>7. CASE OnTimer(p)
  <2>1. UNCHANGED <<staged, stored, expired, confirmed>>
    BY <1>0, <1>7 DEF OnTimer, IInv, NeverBothPending
  <2>2. Quiet \/ (deadLettered' = Inc(deadLettered, p) /\ receivedState[p] # NoEvent)
    BY <1>7, <2>1 DEF OnTimer
  <2>3. ASSUME deadLettered' = Inc(deadLettered, p) PROVE Custody!Tell(p)
    <3>1. p \in stored
      BY <1>0, <2>1, <2>3 DEF IInv, OutcomeIsStored, DeadLetterIsStored, TypeOK,
           OutcomesOK, Counts, Inc
    <3>. QED BY <1>0, <2>1, <2>3, <3>1, CustodyDeadLetter
  <2>. QED BY <1>2, <1>3, <2>2, <2>3 DEF Unreceived
<1>8. CASE \/ FileReadyWebhook(p) \/ FileReadyWebhookRepeats(p)
           \/ PollRetry(p) \/ PollRetryFails(p) \/ CommitRetry(p) \/ RetryProduceFails(p)
  <2>1. Quiet
    BY <1>8 DEF FileReadyWebhook, FileReadyWebhookRepeats, PollRetry, PollRetryFails,
         CommitRetry, RetryProduceFails
  <2>. QED BY <1>2, <2>1
<1>. QED BY <1>4, <1>5, <1>6, <1>7, <1>8 DEF MoveStep

\* A cleanup is the pipeline's: the object is removed, or was not there.
LEMMA CleanupStep ==
    ASSUME ExpiryIsCleaned \/ ExpiryIsSkipped
    PROVE  Pipeline!ExpiredCleanup \/ Pipeline!ExpiredCleanupIsSkipped
<1>1. UNCHANGED <<creditVars, uploaded>>
  BY DEF ExpiryIsCleaned, ExpiryIsSkipped, RemoveStaged, ExpiredCleanup, vars, storeVars
<1>2. UNCHANGED Pipeline!vars BY <1>1, CreditRests
<1>3. CASE ExpiryIsSkipped
  <2>1. UNCHANGED <<staged, stored, confirmed, deadLettered, cleaned>>
    BY <1>3 DEF ExpiryIsSkipped, vars, storeVars, outcomeVars
  <2>. QED
    BY <1>2, <1>3, <2>1, CustodyRests DEF ExpiryIsSkipped, NextCleanup,
       Pipeline!ExpiredCleanupIsSkipped, Pipeline!NextCleanup
<1>4. CASE ExpiryIsCleaned
  <2> DEFINE p == expiries[cleanupPos + 1]
  <2>1. CASE Pipeline!Skips(p)
    <3>1. UNCHANGED <<staged, stored, confirmed, deadLettered, cleaned>>
      BY <1>4, <2>1 DEF ExpiryIsCleaned, vars, storeVars, outcomeVars
    <3>. QED
      BY <1>2, <1>4, <2>1, <3>1, CustodyRests DEF ExpiryIsCleaned, NextCleanup,
         Pipeline!ExpiredCleanup, Pipeline!NextCleanup
  <2>2. CASE ~Pipeline!Skips(p)
    <3>1. /\ cleaned' = cleaned \cup {p} /\ RemoveStaged(p)
      BY <1>4, <2>2 DEF ExpiryIsCleaned
    <3>2. /\ staged' = staged \ {p}
          /\ UNCHANGED <<stored, confirmed, deadLettered>>
      BY <3>1 DEF RemoveStaged, ExpiredCleanup, vars, storeVars, outcomeVars
    <3>3. Pipeline!Custody!Expire(p)
      BY <3>1, <3>2 DEF Pipeline!Custody!Expire, Held, Told, PrefixesOf, OutcomesOf
    <3>. QED
      BY <1>2, <1>4, <2>2, <3>3 DEF ExpiryIsCleaned, NextCleanup,
         Pipeline!ExpiredCleanup, Pipeline!NextCleanup
  <2>. QED BY <2>1, <2>2
<1>. QED BY <1>3, <1>4

\* What is left touches no object.
LEMMA CrashStep == MediaServiceCrash => Pipeline!PipelineCrash
<1>. SUFFICES ASSUME MediaServiceCrash PROVE Pipeline!PipelineCrash OBVIOUS
<1>1. UNCHANGED <<staged, stored, confirmed, deadLettered, cleaned>>
  BY DEF MediaServiceCrash, ServiceCrash, storeVars, outcomeVars
<1>. QED BY <1>1, CustodyRests DEF MediaServiceCrash, Pipeline!PipelineCrash

LEMMA CreditSagaStep == CreditStep => Pipeline!CreditStep
<1>. SUFFICES ASSUME CreditStep PROVE Pipeline!CreditStep OBVIOUS
<1>1. UNCHANGED <<staged, stored, confirmed, deadLettered, cleaned>>
  BY DEF CreditStep, vars, storeVars, outcomeVars, cleanupVars
<1>. QED
  BY <1>1, CustodyRests DEF CreditStep, SignUpload, cleanupVars, Pipeline!CreditStep

LEMMA RestartStep == MoveJobRestart \/ UNCHANGED systemVars => UNCHANGED Pipeline!pipelineVars
<1>. SUFFICES ASSUME MoveJobRestart \/ UNCHANGED systemVars
              PROVE  UNCHANGED Pipeline!pipelineVars
  OBVIOUS
<1>1. /\ UNCHANGED <<staged, stored, confirmed, deadLettered, cleaned>>
      /\ UNCHANGED <<creditVars, uploaded>> /\ UNCHANGED cleanupPos
  BY DEF MoveJobRestart, FlinkRestart, systemVars, vars, storeVars, outcomeVars,
         cleanupVars
<1>. QED BY <1>1, CustodyRests, CreditRests DEF Pipeline!pipelineVars

LEMMA PipelineStep ==
    SystemInv /\ IInv' /\ [SystemNext]_systemVars
        => [Pipeline!PipelineNext]_(Pipeline!pipelineVars)
<1>. SUFFICES ASSUME SystemInv, IInv', [SystemNext]_systemVars
              PROVE  Pipeline!PipelineNext \/ UNCHANGED Pipeline!pipelineVars
  OBVIOUS
<1>1. ASSUME NEW p \in Paths, PutObject(p) \/ ProduceReceived(p) \/ MoveStep(p)
      PROVE  Pipeline!PipelineNext \/ UNCHANGED Pipeline!pipelineVars
  BY <1>1, PutStep, ReceiveStep, MoveSagaStep DEF Pipeline!PipelineNext
<1>2. CASE \/ CreditStep \/ ExpiryIsCleaned \/ ExpiryIsSkipped \/ MediaServiceCrash
           \/ MoveJobRestart \/ UNCHANGED systemVars
  BY <1>2, CreditSagaStep, CleanupStep, CrashStep, RestartStep DEF Pipeline!PipelineNext
<1>. QED BY <1>1, <1>2 DEF SystemNext

\* The system implements UploadPipeline: in place of the abstract custody, the
\* real movers, retries and outcomes do nothing that it does not allow, and
\* nothing before the receipt.
THEOREM SystemImplementsPipeline == SystemSpec => PipelineSpec
<1>1. SystemInit => Pipeline!PipelineInit BY DEF SystemInit
<1>. QED
  BY <1>1, PipelineStep, SystemInvariance, PTL
     DEF SystemSpec, PipelineSpec, Pipeline!PipelineSpec, SystemInv

-----------------------------------------------------------------------------
(***************************************************************************)
(* What UploadPipelineProofs shows, of the system.                         *)
(***************************************************************************)

\* UploadPipeline with its theorems.
PP == INSTANCE UploadPipelineProofs WITH
    MaxFaults <- MaxCreditFaults, FaultKinds <- CreditFaultKinds,
    received <- receipts, expired <- expiries, receivedPos <- receiptPos,
    timers <- ttlTimers, put <- uploaded,
    faults <- creditFaults, happened <- creditHappened,
    held <- Held, told <- Told

\* The system meets the assumption of the credit saga.
LEMMA CreditAssumption ==
    /\ SIGNUP_BONUS \in Nat
    /\ MaxReceived \in Nat /\ MaxCreditFaults \in Nat
    /\ TimelyReceipt \in BOOLEAN
    /\ CreditFaultKinds \subseteq PP!AllFaultKinds
    /\ PP!Anonymous \notin Paths
BY UploadSystemAssumption
   DEF Pipeline!AllFaultKinds, PP!AllFaultKinds, Pipeline!Anonymous, PP!Anonymous

\* Both instances name the same credit saga, the same custody, the same pipeline.
LEMMA SameCreditStep ==
    /\ \A r \in Requests : Pipeline!Intent(r) <=> PP!Intent(r)
    /\ \A p \in Paths : /\ Pipeline!Sign(p) <=> PP!Sign(p)
                        /\ Pipeline!Upload(p) <=> PP!Upload(p)
                        /\ Pipeline!UrlLapses(p) <=> PP!UrlLapses(p)
                        /\ Pipeline!Receive(p) <=> PP!Receive(p)
                        /\ Pipeline!OnTimer(p) <=> PP!OnTimer(p)
    /\ Pipeline!CheckCredit <=> PP!CheckCredit
    /\ Pipeline!CheckCreditRaises <=> PP!CheckCreditRaises
    /\ Pipeline!CreditRestart <=> PP!CreditRestart
    /\ Pipeline!SignIsSkipped <=> PP!SignIsSkipped
    /\ Pipeline!ServiceCrash <=> PP!ServiceCrash
    /\ Pipeline!ProcessElement1 <=> PP!ProcessElement1
    /\ Pipeline!ProcessElement2 <=> PP!ProcessElement2
    /\ Pipeline!TtlRestart <=> PP!TtlRestart
    /\ Pipeline!SignupBonus <=> PP!SignupBonus
    /\ Pipeline!Refund <=> PP!Refund
    /\ Pipeline!BalanceRestart <=> PP!BalanceRestart
<1>. USE DEF Pipeline!topicVars, PP!topicVars, Pipeline!checkVars, PP!checkVars,
            Pipeline!serviceVars, PP!serviceVars, Pipeline!ttlVars, PP!ttlVars,
            Pipeline!balanceVars, PP!balanceVars, Pipeline!storeVars,
            PP!storeVars, Pipeline!faultVars, PP!faultVars
<1>1. ASSUME NEW r \in Requests PROVE Pipeline!Intent(r) <=> PP!Intent(r)
  BY DEF Pipeline!Intent, PP!Intent, Pipeline!ElementsOf, PP!ElementsOf
<1>2. Pipeline!CheckCredit <=> PP!CheckCredit
  BY DEF Pipeline!CheckCredit, PP!CheckCredit, Pipeline!NextIntentPos,
         PP!NextIntentPos, Pipeline!HasCredit, PP!HasCredit, Pipeline!Balance,
         PP!Balance, Pipeline!DeductAndApprove, PP!DeductAndApprove,
         Pipeline!Deduct, PP!Deduct, Pipeline!Reject, PP!Reject
<1>3. Pipeline!CheckCreditRaises <=> PP!CheckCreditRaises
  BY DEF Pipeline!CheckCreditRaises, PP!CheckCreditRaises,
         Pipeline!NextIntentPos, PP!NextIntentPos, Pipeline!HasCredit,
         PP!HasCredit, Pipeline!Balance, PP!Balance, Pipeline!Deduct, PP!Deduct,
         Pipeline!Reject, PP!Reject, Pipeline!Fault, PP!Fault
<1>4. Pipeline!CreditRestart <=> PP!CreditRestart
  BY DEF Pipeline!CreditRestart, PP!CreditRestart, Pipeline!Fault, PP!Fault,
         Pipeline!HasCredit, PP!HasCredit, Pipeline!Balance, PP!Balance,
         Pipeline!Deduct, PP!Deduct
<1>5. ASSUME NEW p \in Paths PROVE Pipeline!Sign(p) <=> PP!Sign(p)
  BY DEF Pipeline!Sign, PP!Sign, Pipeline!ElementsOf, PP!ElementsOf
<1>6. Pipeline!SignIsSkipped <=> PP!SignIsSkipped
  BY DEF Pipeline!SignIsSkipped, PP!SignIsSkipped, Pipeline!Fault, PP!Fault
<1>7. Pipeline!ServiceCrash <=> PP!ServiceCrash
  BY DEF Pipeline!ServiceCrash, PP!ServiceCrash, Pipeline!Fault, PP!Fault
<1>8. ASSUME NEW p \in Paths PROVE Pipeline!Upload(p) <=> PP!Upload(p)
  BY DEF Pipeline!Upload, PP!Upload, Pipeline!ElementsOf, PP!ElementsOf
<1>9. ASSUME NEW p \in Paths PROVE Pipeline!UrlLapses(p) <=> PP!UrlLapses(p)
  BY DEF Pipeline!UrlLapses, PP!UrlLapses, Pipeline!ElementsOf, PP!ElementsOf
<1>10. ASSUME NEW p \in Paths PROVE Pipeline!Receive(p) <=> PP!Receive(p)
  <2>1. Pipeline!ReceiptsOf(p) = PP!ReceiptsOf(p)
    BY DEF Pipeline!ReceiptsOf, PP!ReceiptsOf
  <2>2. \A S : Pipeline!Cardinality(S) = PP!Cardinality(S)
    BY DEF Pipeline!Cardinality, PP!Cardinality
  <2>. QED BY <2>1, <2>2 DEF Pipeline!Receive, PP!Receive
<1>11. Pipeline!ProcessElement1 <=> PP!ProcessElement1
  BY DEF Pipeline!ProcessElement1, PP!ProcessElement1, Pipeline!RegisterTimer,
         PP!RegisterTimer
<1>12. Pipeline!ProcessElement2 <=> PP!ProcessElement2
  BY DEF Pipeline!ProcessElement2, PP!ProcessElement2, Pipeline!Complete,
         PP!Complete
<1>13. ASSUME NEW p \in Paths PROVE Pipeline!OnTimer(p) <=> PP!OnTimer(p)
  BY DEF Pipeline!OnTimer, PP!OnTimer, Pipeline!TimerDue, PP!TimerDue,
         Pipeline!ReceiptsOf, PP!ReceiptsOf, Pipeline!Expires, PP!Expires,
         Pipeline!Anonymous, PP!Anonymous, Pipeline!ClearState, PP!ClearState
<1>14. Pipeline!TtlRestart <=> PP!TtlRestart
  BY DEF Pipeline!TtlRestart, PP!TtlRestart, Pipeline!Fault, PP!Fault
<1>15. Pipeline!SignupBonus <=> PP!SignupBonus
  BY DEF Pipeline!SignupBonus, PP!SignupBonus
<1>16. Pipeline!Refund <=> PP!Refund
  BY DEF Pipeline!Refund, PP!Refund, Pipeline!Anonymous, PP!Anonymous,
         Pipeline!LedgerAfterRefund, PP!LedgerAfterRefund
<1>17. Pipeline!BalanceRestart <=> PP!BalanceRestart
  BY DEF Pipeline!BalanceRestart, PP!BalanceRestart, Pipeline!Fault, PP!Fault
<1>. QED
  BY <1>1, <1>2, <1>3, <1>4, <1>5, <1>6, <1>7, <1>8, <1>9, <1>10, <1>11, <1>12, <1>13,
     <1>14, <1>15, <1>16, <1>17

LEMMA SameCustodyStep ==
    ASSUME NEW p \in Paths
    PROVE  /\ Pipeline!Custody!Put(p) <=> PP!Custody!Put(p)
           /\ Pipeline!Custody!Copy(p) <=> PP!Custody!Copy(p)
           /\ Pipeline!Custody!Release(p) <=> PP!Custody!Release(p)
           /\ Pipeline!Custody!Expire(p) <=> PP!Custody!Expire(p)
           /\ Pipeline!Custody!Tell(p) <=> PP!Custody!Tell(p)
BY DEF Pipeline!Custody!Put, PP!Custody!Put, Pipeline!Custody!Copy, PP!Custody!Copy,
       Pipeline!Custody!Release, PP!Custody!Release, Pipeline!Custody!Expire,
       PP!Custody!Expire, Pipeline!Custody!Tell, PP!Custody!Tell,
       Pipeline!Custody!Outcomes, PP!Custody!Outcomes

LEMMA SameStart == Pipeline!PipelineInit <=> PP!PipelineInit
<1>1. Pipeline!Init <=> PP!Init BY DEF Pipeline!Init, PP!Init
<1>2. Pipeline!Custody!Init <=> PP!Custody!Init
  BY DEF Pipeline!Custody!Init, PP!Custody!Init
<1>. QED BY <1>1, <1>2 DEF Pipeline!PipelineInit, PP!PipelineInit

LEMMA SamePipelineStep ==
    [Pipeline!PipelineNext]_(Pipeline!pipelineVars) <=> [PP!PipelineNext]_(PP!pipelineVars)
<1>. USE DEF Pipeline!topicVars, PP!topicVars, Pipeline!checkVars, PP!checkVars,
            Pipeline!serviceVars, PP!serviceVars, Pipeline!ttlVars, PP!ttlVars,
            Pipeline!balanceVars, PP!balanceVars, Pipeline!storeVars,
            PP!storeVars, Pipeline!faultVars, PP!faultVars, Pipeline!vars,
            PP!vars, Pipeline!custodyVars, PP!custodyVars,
            Pipeline!pipelineVars, PP!pipelineVars
<1>1. Pipeline!CreditStep <=> PP!CreditStep
  BY SameCreditStep DEF Pipeline!CreditStep, PP!CreditStep
<1>2. ASSUME NEW p \in Paths
      PROVE  /\ Pipeline!PutObject(p) <=> PP!PutObject(p)
             /\ Pipeline!MoveObject(p) <=> PP!MoveObject(p)
             /\ Pipeline!Settle(p) <=> PP!Settle(p)
  BY SameCreditStep, SameCustodyStep
     DEF Pipeline!PutObject, PP!PutObject, Pipeline!MoveObject, PP!MoveObject,
         Pipeline!Settle, PP!Settle, Pipeline!MoveStarted, PP!MoveStarted,
         Pipeline!ReceiptsOf, PP!ReceiptsOf
<1>3. Pipeline!ExpiredCleanup <=> PP!ExpiredCleanup
  BY DEF Pipeline!ExpiredCleanup, PP!ExpiredCleanup, Pipeline!NextCleanup, PP!NextCleanup,
         Pipeline!Skips, PP!Skips, Pipeline!Anonymous, PP!Anonymous,
         Pipeline!Custody!Expire, PP!Custody!Expire
<1>4. Pipeline!ExpiredCleanupIsSkipped <=> PP!ExpiredCleanupIsSkipped
  BY DEF Pipeline!ExpiredCleanupIsSkipped, PP!ExpiredCleanupIsSkipped,
         Pipeline!NextCleanup, PP!NextCleanup
<1>5. Pipeline!PipelineCrash <=> PP!PipelineCrash
  BY SameCreditStep DEF Pipeline!PipelineCrash, PP!PipelineCrash
<1>6. Pipeline!PipelineNext <=> PP!PipelineNext
  BY <1>1, <1>2, <1>3, <1>4, <1>5 DEF Pipeline!PipelineNext, PP!PipelineNext
<1>. QED BY <1>6

\* The system implements the module whose theorems are at hand.
LEMMA SystemIsPipeline == SystemSpec => PP!PipelineSpec
BY SamePipelineStep, SameStart, SystemImplementsPipeline, PTL
   DEF PipelineSpec, Pipeline!PipelineSpec, PP!PipelineSpec

\* The system has its types, and the TTL job a receipt for every
\* upload.received of the move saga, through every failure of either side.
THEOREM SystemTypeCorrect == SystemSpec => []SystemTypeOK
<1>1. PP!PipelineTypeOK => Pipeline!PipelineTypeOK
  <2>. USE DEF Pipeline!Anonymous, PP!Anonymous
  <2>1. PP!TypeOK => Pipeline!TypeOK
    BY DEF Pipeline!TypeOK, PP!TypeOK, Pipeline!LedgerOK, PP!LedgerOK,
           Pipeline!TopicsOK, PP!TopicsOK, Pipeline!PositionsOK, PP!PositionsOK,
           Pipeline!TtlOK, PP!TtlOK, Pipeline!HistoryOK, PP!HistoryOK
  <2>. QED BY <2>1 DEF Pipeline!PipelineTypeOK, PP!PipelineTypeOK
<1>2. SystemSpec => []PP!PipelineTypeOK
  BY CreditAssumption, SystemIsPipeline, PP!PipelineTypeCorrect, PTL
<1>3. SystemInv /\ PP!PipelineTypeOK => SystemTypeOK
  BY <1>1 DEF SystemInv, IInv, SameTopic, SystemTypeOK
<1>. QED BY <1>2, <1>3, SystemInvariance, PTL

\* An expiry never costs a user the file, whatever movers, retries, crashes and
\* repeated deliveries come between the PUT, its receipt and the cleanup.
THEOREM SystemInTimeSafety == SystemSpec => []InTimeIsKept
<1>1. PP!InTimeIsKept => InTimeIsKept
  BY DEF InTimeIsKept, Pipeline!InTimeIsKept, PP!InTimeIsKept
<1>2. SystemSpec => []PP!InTimeIsKept
  BY CreditAssumption, SystemIsPipeline, PP!InTimeSafety, PTL
<1>. QED BY <1>1, <1>2, PTL

\* The move saga disturbs nothing of the credits: they are conserved in the
\* system as they are in the credit saga alone.
THEOREM SystemConservesCredit == SystemSpec => []PP!CreditConserved
BY CreditAssumption, SystemIsPipeline, PP!PipelineKeepsCredit, PP!CreditConservation, PTL

\* The safe part of IntentIsAnswered: the loop's retries and cleanups lose no
\* intent, which is answered or still to be read by the check or the signing.
THEOREM SystemAnswersIntents ==
    SystemSpec => [](creditHappened \cap PP!Unanswering = {} =>
                         \A r \in PP!ElementsOf(intents) : PP!Answered(r) \/ PP!AnswerDue(r))
BY CreditAssumption, SystemIsPipeline, PP!PipelineKeepsCredit, PP!NoIntentStuck, PTL

\* Nothing is stuck: a URL that was paid for is refunded, or its refund is on
\* the way, or it was used, and then the upload has an outcome or work due in
\* the move saga, unless that was dropped.
NothingIsStuck ==
    \A p \in Pipeline!ElementsOf(signed) :
        \/ p \in refunded \/ PP!RefundDue(p)
        \/ p \in uploaded /\ (Settled(p) \/ WorkDue(p) \/ happened \cap Dropping # {})

\* This is the safe part of NoCreditStranded, for every number of uploads.
THEOREM SystemIsNeverStuck == SystemSpec => []NothingIsStuck
<1>. DEFINE Credits == \A p \in PP!ElementsOf(signed) :
                           p \in uploaded \/ p \in refunded \/ PP!RefundDue(p)
            Work == happened \cap Dropping = {} =>
                        \A p \in uploaded : Settled(p) \/ WorkDue(p)
<1>1. Credits /\ Work => NothingIsStuck
  BY DEF NothingIsStuck, Pipeline!ElementsOf, PP!ElementsOf
<1>2. SystemSpec => []Credits
  BY CreditAssumption, SystemIsPipeline, PP!PipelineKeepsCredit, PP!NoCreditStuck, PTL
<1>3. SystemSpec => []Work BY SystemKeepsMove, NoUploadStuck, PTL
<1>. HIDE DEF Credits, Work
<1>. QED BY <1>1, <1>2, <1>3, PTL
=============================================================================
