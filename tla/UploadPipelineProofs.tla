------------------------ MODULE UploadPipelineProofs ------------------------
(***************************************************************************)
(* Proofs about UploadPipeline.  The composition is a behaviour of each of *)
(* its two sides, so what UploadCreditProofs shows of the credit saga      *)
(* holds in it; the file of an upload is safe because an expiry of an      *)
(* upload PUT in time implies an overwritten completion.                   *)
(***************************************************************************)
EXTENDS UploadPipeline, UploadCreditProofs

\* Every step is one of the credit saga, or leaves it alone.
LEMMA CreditSide == PipelineNext => [Next]_vars
<1>. SUFFICES ASSUME PipelineNext PROVE [Next]_vars OBVIOUS
<1>1. CASE CreditStep BY <1>1 DEF CreditStep, Next
<1>2. CASE \E p \in Paths : PutObject(p) BY <1>2 DEF PutObject, Next
<1>3. CASE \E p \in Paths : MoveObject(p) \/ Settle(p)
  BY <1>3 DEF MoveObject, Settle
<1>4. CASE ExpiredCleanup \/ ExpiredCleanupIsSkipped
  BY <1>4 DEF ExpiredCleanup, ExpiredCleanupIsSkipped
<1>5. CASE PipelineCrash BY <1>5 DEF PipelineCrash, Next
<1>. QED BY <1>1, <1>2, <1>3, <1>4, <1>5 DEF PipelineNext

\* The composition keeps whatever the credit saga promises: putting objects,
\* moving and cleaning them never disturbs its ledger, topics and timers.
THEOREM PipelineKeepsCredit == PipelineSpec => Spec
<1>1. PipelineInit => Init BY DEF PipelineInit
<1>2. [PipelineNext]_pipelineVars => [Next]_vars BY CreditSide DEF pipelineVars
<1>. QED BY <1>1, <1>2, PTL DEF PipelineSpec, Spec

\* The record that the cleanup reads next names a path, or nothing.
LEMMA CleanupReads ==
    ASSUME TypeOK, cleanupPos \in 0..Len(expired), cleanupPos < Len(expired)
    PROVE  /\ cleanupPos + 1 \in 1..Len(expired)
           /\ ~Skips(expired[cleanupPos + 1]) => expired[cleanupPos + 1] \in Paths
BY DEF TypeOK, TopicsOK, Skips

PositionOK == cleanupPos \in 0..Len(expired)

\* What a step does to the objects and outcomes.
LEMMA CustodySide ==
    ASSUME TypeOK, PositionOK, PipelineNext
    PROVE  \/ UNCHANGED custodyVars
           \/ \E p \in Paths : PutObject(p)
           \/ \E p \in Paths : Custody!Copy(p) \/ Custody!Release(p) \/ Custody!Tell(p)
           \/ \E p \in Paths : p \in ElementsOf(expired) /\ Custody!Expire(p)
<1>1. CASE CreditStep \/ PipelineCrash \/ ExpiredCleanupIsSkipped
  BY <1>1 DEF CreditStep, PipelineCrash, ExpiredCleanupIsSkipped
<1>2. CASE \E p \in Paths : MoveObject(p) \/ Settle(p)
  BY <1>2 DEF MoveObject, Settle
<1>3. CASE ExpiredCleanup
  <2>1. cleanupPos + 1 \in 1..Len(expired)
    BY <1>3, CleanupReads DEF ExpiredCleanup, PositionOK
  <2>2. expired[cleanupPos + 1] \in ElementsOf(expired) BY <2>1 DEF ElementsOf
  <2>. QED BY <1>3, <2>2, CleanupReads DEF ExpiredCleanup, PositionOK
<1>. QED BY <1>1, <1>2, <1>3 DEF PipelineNext

\* The topic of expiries only grows.
LEMMA ExpiriesGrow ==
    ASSUME TypeOK, TypeOK', [PipelineNext]_pipelineVars
    PROVE  /\ Len(expired) \in Nat /\ Len(expired') \in Nat
           /\ Len(expired) <= Len(expired')
           /\ ElementsOf(expired) \subseteq ElementsOf(expired')
<1>1. expired \in Seq(Paths \cup {Anonymous}) /\ expired' \in Seq(Paths \cup {Anonymous})
  BY DEF TypeOK, TopicsOK
<1>2. expired' = expired \/ \E x \in Paths \cup {Anonymous} : expired' = Append(expired, x)
  <2>1. CASE \E p \in Paths : OnTimer(p) BY <2>1 DEF OnTimer
  <2>2. CASE UNCHANGED vars BY <2>2 DEF vars, topicVars
  <2>3. CASE Next /\ ~(\E p \in Paths : OnTimer(p))
    BY <2>3 DEF Next, Intent, CheckCredit, CheckCreditRaises, CreditRestart, Sign,
         Upload, UrlLapses, Receive, SignIsSkipped, ServiceCrash, ProcessElement1,
         ProcessElement2, TtlRestart, SignupBonus, Refund, BalanceRestart,
         DeductAndApprove, topicVars
  <2>. QED BY <2>1, <2>2, <2>3, CreditSide DEF pipelineVars
<1>. QED BY <1>1, <1>2 DEF ElementsOf

\* The cleanup handler stays within the topic of expiries.
LEMMA PositionStep ==
    ASSUME TypeOK, TypeOK', PositionOK, [PipelineNext]_pipelineVars
    PROVE  PositionOK'
<1>0. Len(expired) \in Nat /\ Len(expired') \in Nat /\ Len(expired) <= Len(expired')
  BY ExpiriesGrow
<1>1. CASE CreditStep \/ \E p \in Paths : PutObject(p) \/ MoveObject(p) \/ Settle(p)
  <2>1. cleanupPos' = cleanupPos
    BY <1>1 DEF CreditStep, PutObject, MoveObject, Settle
  <2>. QED BY <1>0, <2>1 DEF PositionOK
<1>2. CASE ExpiredCleanup \/ ExpiredCleanupIsSkipped
  <2>1. cleanupPos < Len(expired) /\ cleanupPos' = cleanupPos + 1 /\ expired' = expired
    BY <1>2 DEF ExpiredCleanup, ExpiredCleanupIsSkipped, NextCleanup, vars, topicVars
  <2>. QED BY <1>0, <2>1 DEF PositionOK
<1>3. CASE PipelineCrash
  <2>1. cleanupPos' \in 0..cleanupPos BY <1>3 DEF PipelineCrash
  <2>. QED BY <1>0, <2>1 DEF PositionOK
<1>4. CASE UNCHANGED pipelineVars
  BY <1>4 DEF pipelineVars, vars, topicVars, PositionOK
<1>. QED BY <1>1, <1>2, <1>3, <1>4 DEF PipelineNext

CustodyOK ==
    /\ held \in [Paths -> SUBSET {"uploads", "files"}]
    /\ told \in [Paths -> SUBSET {"confirmed", "dead_letter"}]
    /\ cleaned \subseteq Paths

\* Objects and outcomes keep their types.
LEMMA CustodyTypes ==
    ASSUME TypeOK, PositionOK, CustodyOK, PipelineNext
    PROVE  CustodyOK'
<1>1. CASE UNCHANGED custodyVars BY <1>1 DEF custodyVars, CustodyOK
<1>2. CASE \E p \in Paths : PutObject(p)
  BY <1>2 DEF PutObject, Custody!Put, CustodyOK
<1>3. ASSUME NEW p \in Paths, Custody!Copy(p) \/ Custody!Release(p)
      PROVE  CustodyOK'
  BY <1>3 DEF Custody!Copy, Custody!Release, CustodyOK
<1>4. ASSUME NEW p \in Paths, Custody!Tell(p) PROVE CustodyOK'
  <2>1. PICK outcome \in {"confirmed", "dead_letter"} :
            told' = [told EXCEPT ![p] = @ \cup {outcome}]
    BY <1>4 DEF Custody!Tell, Custody!Outcomes
  <2>2. UNCHANGED <<held, cleaned>> BY <1>4 DEF Custody!Tell
  <2>. QED BY <2>1, <2>2 DEF CustodyOK
<1>5. ASSUME NEW p \in Paths, Custody!Expire(p) PROVE CustodyOK'
  BY <1>5 DEF Custody!Expire, CustodyOK
<1>. QED BY <1>1, <1>2, <1>3, <1>4, <1>5, CustodySide

\* The types of the composition, and the reader of the expiries within its topic.
THEOREM PipelineTypeCorrect == PipelineSpec => []PipelineTypeOK
<1>1. PipelineInit => CustodyOK /\ PositionOK
  BY DEF PipelineInit, Init, Custody!Init, CustodyOK, PositionOK
<1>2. TypeOK /\ TypeOK' /\ CustodyOK /\ PositionOK /\ [PipelineNext]_pipelineVars
          => CustodyOK' /\ PositionOK'
  <2>1. UNCHANGED pipelineVars /\ CustodyOK => CustodyOK'
    BY DEF pipelineVars, custodyVars, CustodyOK
  <2>. QED BY <2>1, CustodyTypes, PositionStep
<1>3. TypeOK /\ CustodyOK /\ PositionOK <=> PipelineTypeOK
  BY DEF PipelineTypeOK, CustodyOK, PositionOK
<1>. QED
  BY <1>1, <1>2, <1>3, PipelineKeepsCredit, CreditTypeCorrect, PTL DEF PipelineSpec

\* The composition keeps the promise of the move saga: the copy comes before
\* the release and an outcome is announced only for a file in permanent
\* storage, whatever expiries the TTL job emits.
THEOREM PipelineKeepsCustody == PipelineSpec => Custody!Spec
<1>1. PipelineInit => Custody!Init BY DEF PipelineInit
<1>2. PipelineTypeOK /\ [PipelineNext]_pipelineVars
          => [Custody!Next]_<<held, told, cleaned>>
  <2>. SUFFICES ASSUME PipelineTypeOK, PipelineNext
                PROVE  Custody!Next \/ UNCHANGED custodyVars
    BY DEF pipelineVars, custodyVars
  <2>. QED BY CustodySide DEF PipelineTypeOK, PositionOK, PutObject, Custody!Next
<1>. QED BY <1>1, <1>2, PipelineTypeCorrect, PTL DEF PipelineSpec, Custody!Spec

-----------------------------------------------------------------------------
\* An upload that was PUT in time has an object, unless it expired.
KeptOrExpired ==
    \A p \in inTime : held[p] = {} => p \in ElementsOf(expired)

\* Only the cleanup of an expiry takes the last copy of an object.
LEMMA KeptStep ==
    ASSUME PipelineTypeOK, PipelineTypeOK', KeptOrExpired, PipelineNext
    PROVE  KeptOrExpired'
<1>. USE DEF KeptOrExpired
<1>1. /\ TypeOK /\ TypeOK' /\ PositionOK
      /\ held \in [Paths -> SUBSET {"uploads", "files"}] /\ inTime \subseteq Paths
  BY DEF PipelineTypeOK, PositionOK, TypeOK, HistoryOK
<1>2. ElementsOf(expired) \subseteq ElementsOf(expired') BY <1>1, ExpiriesGrow
<1>3. ASSUME NEW q \in Paths, PutObject(q) PROVE KeptOrExpired'
  <2>1. inTime' \subseteq inTime \cup {q} /\ held' = [held EXCEPT ![q] = {"uploads"}]
    BY <1>3 DEF PutObject, Upload, Custody!Put
  <2>. QED BY <1>1, <1>2, <2>1
<1>4. CASE ~(\E q \in Paths : PutObject(q))
  <2>1. inTime' = inTime
    BY <1>4 DEF PipelineNext, CreditStep, MoveObject, Settle, ExpiredCleanup,
         ExpiredCleanupIsSkipped, PipelineCrash, ServiceCrash, Intent, CheckCredit,
         CheckCreditRaises, CreditRestart, Sign, UrlLapses, Receive, OnTimer,
         SignIsSkipped, ProcessElement1, ProcessElement2, TtlRestart, SignupBonus,
         Refund, BalanceRestart, vars, storeVars
  <2>2. CASE UNCHANGED custodyVars
    BY <1>2, <2>1, <2>2 DEF custodyVars
  <2>3. ASSUME NEW q \in Paths,
               Custody!Copy(q) \/ Custody!Release(q) \/ Custody!Tell(q)
        PROVE  KeptOrExpired'
    <3>1. \A p \in Paths : held'[p] = {} => held[p] = {}
      BY <1>1, <2>3 DEF Custody!Copy, Custody!Release, Custody!Tell
    <3>. QED BY <1>1, <1>2, <2>1, <3>1
  <2>4. ASSUME NEW q \in Paths, q \in ElementsOf(expired), Custody!Expire(q)
        PROVE  KeptOrExpired'
    <3>1. \A p \in Paths \ {q} : held'[p] = held[p]
      BY <1>1, <2>4 DEF Custody!Expire
    <3>. QED BY <1>1, <1>2, <2>1, <2>4, <3>1
  <2>. QED BY <1>1, <1>4, <2>2, <2>3, <2>4, CustodySide
<1>. QED BY <1>3, <1>4

\* The TTL saga never costs a user the file: of an upload that was PUT in time
\* and received promptly an object remains, whatever the movers, the cleanup,
\* crashes and replays do, unless its completion was overwritten.
THEOREM InTimeSafety == PipelineSpec => []InTimeIsKept
<1>1. PipelineInit => KeptOrExpired BY DEF PipelineInit, Init, KeptOrExpired
<1>2. PipelineTypeOK /\ PipelineTypeOK' /\ KeptOrExpired
          /\ [PipelineNext]_pipelineVars => KeptOrExpired'
  <2>1. UNCHANGED pipelineVars /\ KeptOrExpired => KeptOrExpired'
    BY DEF pipelineVars, custodyVars, vars, storeVars, topicVars, KeptOrExpired,
           ElementsOf
  <2>. QED BY <2>1, KeptStep
<1>3. KeptOrExpired /\ ExpiryInv => InTimeIsKept
  BY DEF KeptOrExpired, ExpiryInv, ExpiredInTimeWasClobbered, InTimeIsKept, ElementsOf
<1>. QED
  BY <1>1, <1>2, <1>3, PipelineTypeCorrect, PipelineKeepsCredit, ExpiryInvariance, PTL
     DEF PipelineSpec
=============================================================================
