------------------------- MODULE UploadCreditProofs -------------------------
(***************************************************************************)
(* Proofs about UploadCredit, for every set of requests and paths, every   *)
(* signup bonus, every set of failure kinds and every number of failures.  *)
(***************************************************************************)
EXTENDS UploadCredit, FiniteSetTheorems, TLAPS

LEMMA FaultTypes ==
    ASSUME TypeOK, NEW kind, Fault(kind)
    PROVE  /\ faults' \in 0..MaxFaults
           /\ happened' \subseteq FaultKinds
BY UploadCreditAssumption DEF TypeOK, HistoryOK, Fault

LEMMA TypeInit == Init => TypeOK
BY UploadCreditAssumption
   DEF Init, TypeOK, LedgerOK, TopicsOK, PositionsOK, TtlOK, HistoryOK

\* The steps of the credit check job keep the types.
LEMMA CheckTypes ==
    ASSUME TypeOK, CheckCredit \/ CheckCreditRaises \/ CreditRestart
    PROVE  TypeOK'
<1> USE DEF TypeOK, topicVars, checkVars, serviceVars, ttlVars, balanceVars,
            storeVars, faultVars
<1>1. CASE CheckCredit
  <2> DEFINE r == intents[intentPos + 1]
  <2>1. /\ intentPos < Len(intents) /\ intentPos' = intentPos + 1
        /\ approved' = approved \/ approved' = Append(approved, r)
        /\ UNCHANGED <<intents, signed, received, expired, approvedPos, signedPos,
                       receivedPos, expiredPos, signupPos>>
    BY <1>1 DEF CheckCredit, NextIntentPos, DeductAndApprove
  <2>2. r \in Requests
    BY <2>1 DEF TopicsOK, PositionsOK
  <2>3. LedgerOK'
    BY <1>1 DEF CheckCredit, DeductAndApprove, Deduct, LedgerOK
  <2>4. approved' \in Seq(Requests) /\ Len(approved) <= Len(approved')
    <3> HIDE DEF r
    <3>1. approved \in Seq(Requests) /\ Len(approved) \in Nat
      BY DEF TopicsOK
    <3>2. CASE approved' = approved
      BY <3>1, <3>2
    <3>3. CASE approved' = Append(approved, r)
      <4>1. Len(Append(approved, r)) = Len(approved) + 1
        BY <3>1
      <4> QED
        BY <2>2, <3>1, <3>3, <4>1
    <3> QED
      BY <2>1, <3>2, <3>3
  <2>5. TopicsOK'
    BY <2>1, <2>4 DEF TopicsOK
  <2>6. PositionsOK'
    BY <2>1, <2>4 DEF PositionsOK, TopicsOK
  <2>7. TtlOK' /\ HistoryOK'
    BY <1>1 DEF CheckCredit, Reject, TtlOK, HistoryOK
  <2> QED
    BY <2>3, <2>5, <2>6, <2>7
<1>2. CASE CheckCreditRaises
  <2> USE <1>2 DEF CheckCreditRaises, NextIntentPos, Deduct, Reject
  <2>1. LedgerOK'
    BY DEF LedgerOK
  <2>2. (TopicsOK /\ TtlOK)'
    BY DEF TopicsOK, TtlOK
  <2>3. PositionsOK'
    BY DEF PositionsOK, TopicsOK
  <2>4. faults' \in 0..MaxFaults /\ happened' \subseteq FaultKinds
    BY FaultTypes
  <2>5. HistoryOK'
    BY <2>4 DEF HistoryOK
  <2> QED
    BY <2>1, <2>2, <2>3, <2>5
<1>3. CASE CreditRestart
  <2> USE <1>3 DEF CreditRestart, Deduct
  <2>1. LedgerOK'
    BY DEF LedgerOK
  <2>2. (TopicsOK /\ TtlOK)'
    BY DEF TopicsOK, TtlOK
  <2>3. PositionsOK'
    BY DEF PositionsOK, TopicsOK
  <2>4. HistoryOK'
    BY FaultTypes DEF HistoryOK
  <2> QED
    BY <2>1, <2>2, <2>3, <2>4
<1> QED
  BY <1>1, <1>2, <1>3

\* The steps of the gateway, the media-service and the browser keep the types.
LEMMA ServiceTypes ==
    ASSUME TypeOK,
           \/ \E r \in Requests : Intent(r)
           \/ \E p \in Paths : Sign(p) \/ Upload(p) \/ UrlLapses(p) \/ Receive(p)
           \/ SignIsSkipped \/ ServiceCrash
    PROVE  TypeOK'
<1> USE DEF TypeOK, topicVars, checkVars, serviceVars, ttlVars, balanceVars,
            storeVars, faultVars
<1>1. ASSUME NEW r \in Requests, Intent(r) PROVE TypeOK'
  <2> USE <1>1 DEF Intent
  <2>1. TopicsOK'
    BY DEF TopicsOK
  <2>2. PositionsOK'
    BY DEF PositionsOK, TopicsOK
  <2>3. (LedgerOK /\ TtlOK /\ HistoryOK)'
    BY DEF LedgerOK, TtlOK, HistoryOK
  <2> QED
    BY <2>1, <2>2, <2>3
<1>2. ASSUME NEW p \in Paths, Sign(p) PROVE TypeOK'
  <2> USE <1>2 DEF Sign
  <2>1. (LedgerOK /\ TopicsOK /\ TtlOK)'
    BY DEF LedgerOK, TopicsOK, TtlOK
  <2>2. PositionsOK'
    BY DEF PositionsOK, TopicsOK
  <2>3. HistoryOK'
    BY DEF HistoryOK, TopicsOK, PositionsOK
  <2> QED
    BY <2>1, <2>2, <2>3
<1>3. ASSUME NEW p \in Paths, Upload(p) PROVE TypeOK'
  <2> USE <1>3 DEF Upload
  <2>1. (LedgerOK /\ TopicsOK /\ TtlOK)'
    BY DEF LedgerOK, TopicsOK, TtlOK
  <2>2. PositionsOK'
    BY DEF PositionsOK, TopicsOK
  <2>3. HistoryOK'
    BY DEF HistoryOK
  <2> QED
    BY <2>1, <2>2, <2>3
<1>4. ASSUME NEW p \in Paths, UrlLapses(p) PROVE TypeOK'
  BY <1>4 DEF UrlLapses, LedgerOK, TopicsOK, PositionsOK, TtlOK, HistoryOK
<1>5. ASSUME NEW p \in Paths, Receive(p) PROVE TypeOK'
  <2> USE <1>5 DEF Receive
  <2>1. TopicsOK'
    BY DEF TopicsOK
  <2>2. PositionsOK'
    BY DEF PositionsOK, TopicsOK
  <2>3. (LedgerOK /\ TtlOK /\ HistoryOK)'
    BY DEF LedgerOK, TtlOK, HistoryOK
  <2> QED
    BY <2>1, <2>2, <2>3
<1>6. CASE SignIsSkipped
  <2> USE <1>6 DEF SignIsSkipped
  <2>1. (LedgerOK /\ TopicsOK /\ TtlOK)'
    BY DEF LedgerOK, TopicsOK, TtlOK
  <2>2. PositionsOK'
    BY DEF PositionsOK, TopicsOK
  <2>3. HistoryOK'
    BY FaultTypes DEF HistoryOK
  <2> QED
    BY <2>1, <2>2, <2>3
<1>7. CASE ServiceCrash
  <2> USE <1>7 DEF ServiceCrash
  <2>1. (LedgerOK /\ TopicsOK /\ TtlOK)'
    BY DEF LedgerOK, TopicsOK, TtlOK
  <2>2. PositionsOK'
    BY DEF PositionsOK, TopicsOK
  <2>3. HistoryOK'
    BY FaultTypes DEF HistoryOK
  <2> QED
    BY <2>1, <2>2, <2>3
<1> QED
  BY <1>1, <1>2, <1>3, <1>4, <1>5, <1>6, <1>7

\* The steps of the TTL job keep the types.
LEMMA TtlTypes ==
    ASSUME TypeOK,
           \/ ProcessElement1 \/ ProcessElement2 \/ TtlRestart
           \/ \E p \in Paths : OnTimer(p)
    PROVE  TypeOK'
<1> USE DEF TypeOK, topicVars, checkVars, serviceVars, ttlVars, balanceVars,
            storeVars, faultVars
<1>1. CASE ProcessElement1
  <2> USE <1>1 DEF ProcessElement1, RegisterTimer
  <2> DEFINE p == signed[signedPos + 1]
  <2>1. p \in Paths
    BY DEF TopicsOK, PositionsOK
  <2>2. (LedgerOK /\ TopicsOK)'
    BY DEF LedgerOK, TopicsOK
  <2>3. PositionsOK'
    BY DEF PositionsOK, TopicsOK
  <2>4. TtlOK'
    BY <2>1 DEF TtlOK
  <2>5. HistoryOK'
    BY <2>1 DEF HistoryOK
  <2> QED
    BY <2>2, <2>3, <2>4, <2>5
<1>2. CASE ProcessElement2
  <2> USE <1>2 DEF ProcessElement2, Complete
  <2>1. (LedgerOK /\ TopicsOK /\ HistoryOK)'
    BY DEF LedgerOK, TopicsOK, HistoryOK
  <2>2. PositionsOK'
    BY DEF PositionsOK, TopicsOK
  <2>3. TtlOK'
    BY DEF TtlOK
  <2> QED
    BY <2>1, <2>2, <2>3
<1>3. CASE TtlRestart
  <2> USE <1>3 DEF TtlRestart
  <2>1. (LedgerOK /\ TopicsOK /\ TtlOK)'
    BY DEF LedgerOK, TopicsOK, TtlOK
  <2>2. PositionsOK'
    BY DEF PositionsOK, TopicsOK
  <2>3. HistoryOK'
    BY FaultTypes DEF HistoryOK
  <2> QED
    BY <2>1, <2>2, <2>3
<1>4. ASSUME NEW p \in Paths, OnTimer(p) PROVE TypeOK'
  <2> USE <1>4 DEF OnTimer, TimerDue, ClearState
  <2>1. TopicsOK'
    BY DEF TopicsOK
  <2>2. PositionsOK'
    BY DEF PositionsOK, TopicsOK
  <2>3. TtlOK'
    BY DEF TtlOK
  <2>4. (LedgerOK /\ HistoryOK)'
    BY DEF LedgerOK, HistoryOK
  <2> QED
    BY <2>1, <2>2, <2>3, <2>4
<1> QED
  BY <1>1, <1>2, <1>3, <1>4

\* The steps of the balance job keep the types.
LEMMA BalanceTypes ==
    ASSUME TypeOK, SignupBonus \/ Refund \/ BalanceRestart
    PROVE  TypeOK'
<1> USE UploadCreditAssumption
    DEF TypeOK, topicVars, checkVars, serviceVars, ttlVars, balanceVars,
        storeVars, faultVars
<1>1. CASE SignupBonus
  <2> USE <1>1 DEF SignupBonus
  <2>1. LedgerOK'
    BY DEF LedgerOK
  <2>2. (TopicsOK /\ TtlOK /\ HistoryOK)'
    BY DEF TopicsOK, TtlOK, HistoryOK
  <2>3. PositionsOK'
    BY DEF PositionsOK, TopicsOK
  <2> QED
    BY <2>1, <2>2, <2>3
<1>2. CASE Refund
  <2> USE <1>2 DEF Refund
  <2>1. LedgerOK'
    BY DEF LedgerOK, LedgerAfterRefund
  <2>2. UNCHANGED <<topicVars, ttlVars, intentPos, approvedPos, signupPos>>
    OBVIOUS
  <2>3. expiredPos + 1 \in 1..Len(expired) /\ expiredPos' = expiredPos + 1
    BY DEF PositionsOK, TopicsOK
  <2>4. refunded' \subseteq Paths
    BY <2>3 DEF HistoryOK, TopicsOK
  <2>5. HistoryOK'
    BY <2>4 DEF HistoryOK
  <2> HIDE <1>2 DEF Refund
  <2>6. (TopicsOK /\ TtlOK)'
    BY <2>2 DEF TopicsOK, TtlOK
  <2>7. PositionsOK'
    BY <2>2, <2>3 DEF PositionsOK, TopicsOK
  <2> QED
    BY <2>1, <2>5, <2>6, <2>7
<1>3. CASE BalanceRestart
  <2> USE <1>3 DEF BalanceRestart
  <2>1. (LedgerOK /\ TopicsOK /\ TtlOK)'
    BY DEF LedgerOK, TopicsOK, TtlOK
  <2>2. PositionsOK'
    BY DEF PositionsOK, TopicsOK
  <2>3. HistoryOK'
    BY FaultTypes DEF HistoryOK
  <2> QED
    BY <2>1, <2>2, <2>3
<1> QED
  BY <1>1, <1>2, <1>3

LEMMA TypeStep == TypeOK /\ [Next]_vars => TypeOK'
<1> SUFFICES ASSUME TypeOK, [Next]_vars PROVE TypeOK'
  OBVIOUS
<1>1. CASE UNCHANGED vars
  BY <1>1 DEF vars, topicVars, checkVars, serviceVars, ttlVars, balanceVars,
       storeVars, faultVars, TypeOK, LedgerOK, TopicsOK, PositionsOK, TtlOK, HistoryOK
<1>2. CASE Next
  BY <1>2, CheckTypes, ServiceTypes, TtlTypes, BalanceTypes DEF Next
<1> QED
  BY <1>1, <1>2

\* The variables of the credit pipeline have their types in every reachable
\* state, in particular no reader is beyond the end of its topic.
THEOREM CreditTypeCorrect == Spec => []TypeOK
BY TypeInit, TypeStep, PTL DEF Spec

-----------------------------------------------------------------------------
(***************************************************************************)
(* Money.  No step takes a credit without the check of the same step, and  *)
(* no approval is emitted without a deduction.                             *)
(***************************************************************************)

MoneyInv == BalanceNeverNegative /\ EveryUrlIsPaid

\* Only the check deducts, and it deducts one credit of a positive balance.
LEMMA LedgerStep ==
    ASSUME TypeOK, Next
    PROVE  \/ UNCHANGED ledger
           \/ HasCredit /\ Deduct
           \/ SignupBonus
           \/ ledger' = LedgerAfterRefund
<1>1. CASE CheckCredit
  BY <1>1 DEF CheckCredit, DeductAndApprove
<1>2. CASE CheckCreditRaises
  BY <1>2 DEF CheckCreditRaises
<1>3. CASE CreditRestart
  BY <1>3 DEF CreditRestart
<1>4. CASE Refund
  BY <1>4 DEF Refund
<1>5. CASE SignupBonus
  BY <1>5
<1>6. CASE \/ \E r \in Requests : Intent(r)
           \/ \E p \in Paths : Sign(p) \/ Upload(p) \/ UrlLapses(p) \/ Receive(p)
           \/ SignIsSkipped \/ ServiceCrash
  BY <1>6 DEF Intent, Sign, Upload, UrlLapses, Receive, SignIsSkipped, ServiceCrash
<1>7. CASE \/ ProcessElement1 \/ ProcessElement2 \/ TtlRestart
           \/ \E p \in Paths : OnTimer(p)
           \/ BalanceRestart
  BY <1>7 DEF ProcessElement1, ProcessElement2, TtlRestart, OnTimer, BalanceRestart
<1> QED
  BY <1>1, <1>2, <1>3, <1>4, <1>5, <1>6, <1>7 DEF Next

LEMMA BalanceStep ==
    ASSUME TypeOK, BalanceNeverNegative, Next
    PROVE  BalanceNeverNegative' /\ ledger.deducted' >= ledger.deducted
<1> USE UploadCreditAssumption DEF TypeOK, LedgerOK, BalanceNeverNegative, Balance
<1>1. CASE UNCHANGED ledger
  BY <1>1
<1>2. CASE HasCredit /\ Deduct
  BY <1>2 DEF HasCredit, Deduct
<1>3. CASE SignupBonus
  BY <1>3 DEF SignupBonus
<1>4. CASE ledger' = LedgerAfterRefund
  BY <1>4 DEF LedgerAfterRefund
<1> QED
  BY <1>1, <1>2, <1>3, <1>4, LedgerStep

\* The topics of approvals and URLs and the reader between them, per step.
LEMMA UrlStep ==
    ASSUME TypeOK, Next
    PROVE  \/ UNCHANGED <<approved, signed, approvedPos>>
           \/ CheckCredit
           \/ \E p \in Paths : Sign(p)
           \/ UNCHANGED <<approved, signed>> /\ approvedPos' = approvedPos + 1
           \/ UNCHANGED <<approved, signed>> /\ "crash" \in happened'
<1> USE DEF topicVars, serviceVars
<1>1. CASE CheckCredit
  BY <1>1
<1>2. CASE CheckCreditRaises \/ CreditRestart
  BY <1>2 DEF CheckCreditRaises, CreditRestart
<1>3. CASE \E p \in Paths : Sign(p)
  BY <1>3
<1>4. CASE \/ \E r \in Requests : Intent(r)
           \/ \E p \in Paths : Upload(p) \/ UrlLapses(p) \/ Receive(p)
  BY <1>4 DEF Intent, Upload, UrlLapses, Receive
<1>5. CASE SignIsSkipped
  BY <1>5 DEF SignIsSkipped
<1>6. CASE ServiceCrash
  BY <1>6 DEF ServiceCrash, Fault
<1>7. CASE \/ ProcessElement1 \/ ProcessElement2 \/ TtlRestart
           \/ \E p \in Paths : OnTimer(p)
  BY <1>7 DEF ProcessElement1, ProcessElement2, TtlRestart, OnTimer
<1>8. CASE SignupBonus \/ Refund \/ BalanceRestart
  BY <1>8 DEF SignupBonus, Refund, BalanceRestart
<1> QED
  BY <1>1, <1>2, <1>3, <1>4, <1>5, <1>6, <1>7, <1>8 DEF Next

\* What has happened has happened.
LEMMA HappenedGrows == Next => happened \subseteq happened'
<1> USE DEF faultVars, Fault
<1>1. CASE \/ CheckCredit \/ CheckCreditRaises \/ CreditRestart
  BY <1>1 DEF CheckCredit, CheckCreditRaises, CreditRestart
<1>2. CASE \/ \E r \in Requests : Intent(r)
           \/ \E p \in Paths : Sign(p) \/ Upload(p) \/ UrlLapses(p) \/ Receive(p)
           \/ SignIsSkipped \/ ServiceCrash
  BY <1>2 DEF Intent, Sign, Upload, UrlLapses, Receive, SignIsSkipped, ServiceCrash
<1>3. CASE \/ ProcessElement1 \/ ProcessElement2 \/ TtlRestart
           \/ \E p \in Paths : OnTimer(p)
  BY <1>3 DEF ProcessElement1, ProcessElement2, TtlRestart, OnTimer
<1>4. CASE SignupBonus \/ Refund \/ BalanceRestart
  BY <1>4 DEF SignupBonus, Refund, BalanceRestart
<1> SUFFICES ASSUME Next PROVE happened \subseteq happened'
  OBVIOUS
<1> QED
  BY <1>1, <1>2, <1>3, <1>4 DEF Next

LEMMA PaidStep ==
    ASSUME TypeOK, BalanceNeverNegative, EveryUrlIsPaid, Next
    PROVE  EveryUrlIsPaid'
<1> USE DEF EveryUrlIsPaid
<1>1. ledger.deducted' >= ledger.deducted /\ happened \subseteq happened'
  BY BalanceStep, HappenedGrows
<1>2. ledger.deducted \in Nat /\ ledger'.deducted \in Nat
  BY TypeStep DEF TypeOK, LedgerOK
<1>3. Len(approved) \in Nat /\ Len(signed) \in Nat /\ approvedPos \in Nat
  BY DEF TypeOK, TopicsOK, PositionsOK
<1>4. CASE UNCHANGED <<approved, signed, approvedPos>>
  BY <1>1, <1>2, <1>3, <1>4
<1>5. CASE CheckCredit
  <2>1. UNCHANGED <<signed, approvedPos, happened>>
    BY <1>5 DEF CheckCredit, serviceVars, faultVars
  <2>2. CASE UNCHANGED <<ledger, approved>>
    BY <2>1, <2>2
  <2>3. CASE DeductAndApprove(intents[intentPos + 1])
    BY <2>1, <2>3 DEF DeductAndApprove, Deduct, TypeOK, LedgerOK, TopicsOK, PositionsOK
  <2> QED
    BY <1>5, <2>2, <2>3 DEF CheckCredit
<1>6. ASSUME NEW p \in Paths, Sign(p) PROVE EveryUrlIsPaid'
  BY <1>6 DEF Sign, TypeOK, TopicsOK, PositionsOK, faultVars
<1>7. CASE UNCHANGED <<approved, signed>> /\ approvedPos' = approvedPos + 1
  BY <1>1, <1>2, <1>3, <1>7
<1>8. CASE UNCHANGED <<approved, signed>> /\ "crash" \in happened'
  BY <1>1, <1>2, <1>3, <1>8
<1> QED
  BY <1>4, <1>5, <1>6, <1>7, <1>8, UrlStep

LEMMA MoneyInvariance == Spec => [](TypeOK /\ MoneyInv)
<1>1. Init => MoneyInv
  BY DEF Init, MoneyInv, BalanceNeverNegative, Balance, EveryUrlIsPaid
<1>2. TypeOK /\ MoneyInv /\ [Next]_vars => MoneyInv'
  <2>1. CASE Next
    BY <2>1, BalanceStep, PaidStep DEF MoneyInv
  <2>2. CASE UNCHANGED vars
    BY <2>2 DEF vars, topicVars, serviceVars, faultVars, MoneyInv,
         BalanceNeverNegative, Balance, EveryUrlIsPaid
  <2> QED
    BY <2>1, <2>2
<1> QED
  BY <1>1, <1>2, TypeInit, TypeStep, PTL DEF Spec

\* The user never owes, through any number of raises, restarts and repeats.
THEOREM SolvencySafety == Spec => []BalanceNeverNegative
BY MoneyInvariance, PTL DEF MoneyInv

\* Every approval stands on a deduction and, unless a crash repeats one, every
\* presigned URL on an approval of its own.
THEOREM PaymentSafety == Spec => []EveryUrlIsPaid
BY MoneyInvariance, PTL DEF MoneyInv

-----------------------------------------------------------------------------
(***************************************************************************)
(* Expiry.  A refund follows an expiry, an expiry a timer, a timer an      *)
(* upload.signed that was read.  The properties are not inductive: that    *)
(* the job finds its state when a timer fires needs that no path is armed  *)
(* twice, hence that no path is signed twice; and that a timely upload is  *)
(* completed when its timer fires needs what each receipt read leaves      *)
(* behind until then.                                                      *)
(***************************************************************************)

\* The TTL job has read the path's upload.signed, its upload.received.
SignedSeen(p) == \E i \in 1..signedPos : signed[i] = p
ReceiptSeen(p) == \E i \in 1..receivedPos : received[i] = p

FreshPaths == \A i, j \in 1..Len(signed) : signed[i] = signed[j] => i = j

\* A path has at most one timer, and state while it has one.
ArmedOnce ==
    \A p \in Paths :
        /\ timers[p] <= 1
        /\ timers[p] > 0 => signedState[p] /\ SignedSeen(p)

\* A receipt that was read stays as a completion until the timer has fired,
\* unless process_element1 overwrote it.
CompletionKept ==
    \A p \in Paths :
        ReceiptSeen(p) /\ p \notin clobbered =>
            completedState[p] \/ (SignedSeen(p) /\ timers[p] = 0)

\* An expiry is of a lapsed URL, and of one that was read and has no timer.
ExpiredIsLapsed == \A i \in 1..Len(expired) : expired[i] \in lapsed

ExpiredIsDisarmed ==
    "ttl_restart" \notin happened =>
        \A i \in 1..Len(expired) :
            SignedSeen(expired[i]) /\ timers[expired[i]] = 0

ExpiredInTimeWasClobbered ==
    TimelyReceipt =>
        \A i \in 1..Len(expired) :
            expired[i] \in inTime => expired[i] \in clobbered

RefundedIsExpired == refunded \subseteq ElementsOf(expired)

TimerInv == FreshPaths /\ ArmedOnce /\ CompletionKept
ExpiryInv ==
    /\ ExpiredIsLapsed /\ ExpiredIsDisarmed /\ OneExpiryPerUrl
    /\ ExpiredInTimeWasClobbered /\ RefundedIsExpired

-----------------------------------------------------------------------------
(***************************************************************************)
(* Counting.  Each row of the ledger stands for a record of a topic, up to *)
(* the failures that repeat it or lose it; the two sides of every count    *)
(* are kept apart, as repeats break one and losses the other.              *)
(***************************************************************************)

SignedCounted ==
    /\ IsFiniteSet(ElementsOf(signed))
    /\ Cardinality(ElementsOf(signed)) = Len(signed)
    /\ lapsed \subseteq ElementsOf(signed)

ApprovalsCounted ==
    /\ happened \cap {"deduct_committed", "credit_restart"} = {} =>
           ledger.deducted <= Len(approved)
    /\ happened \cap {"sign", "poll"} = {} => approvedPos <= Len(signed)

BonusCounted ==
    /\ signupPos = 1 => ledger.bonus >= SIGNUP_BONUS
    /\ "balance_restart" \notin happened =>
           ledger.bonus = IF signupPos = 1 THEN SIGNUP_BONUS ELSE 0

RefundsCounted ==
    /\ IsFiniteSet(refunded) /\ Cardinality(refunded) <= ledger.refunded
    /\ "balance_restart" \notin happened =>
           \A p \in refunded : \E i \in 1..expiredPos : expired[i] = p
    /\ happened \cap {"ttl_restart", "balance_restart"} = {} =>
           ledger.refunded <= Cardinality(refunded)

CountInv == SignedCounted /\ ApprovalsCounted /\ BonusCounted /\ RefundsCounted

-----------------------------------------------------------------------------
(***************************************************************************)
(* What becomes of a URL.                                                  *)
(***************************************************************************)

\* The refund of a path is under way: in the topic of signed URLs, in an armed
\* timer or in the topic of expiries.
RefundDue(p) ==
    \/ \E i \in 1..Len(signed) : i > signedPos /\ signed[i] = p
    \/ timers[p] > 0
    \/ \E i \in 1..Len(expired) : i > expiredPos /\ expired[i] = p

\* The TTL job completes only what was PUT.
CompletedIsPut ==
    /\ ElementsOf(received) \subseteq put
    /\ \A p \in Paths : completedState[p] => p \in put

CreditHeld == \A p \in ElementsOf(signed) : p \in put \/ p \in refunded \/ RefundDue(p)

DueInv == CompletedIsPut /\ CreditHeld

IInv == TypeOK /\ MoneyInv /\ TimerInv /\ ExpiryInv /\ CountInv /\ DueInv
-----------------------------------------------------------------------------
\* A step that the TTL job does not see: it may add a receipt to the topic and
\* let a URL lapse.
Unseen ==
    /\ UNCHANGED <<signed, signedPos, receivedPos, signedState, completedState,
                   timers, clobbered, expired, inTime, refunded>>
    /\ received' = received \/ \E p \in Paths : received' = Append(received, p)
    /\ lapsed \subseteq lapsed'

LEMMA TtlFrame ==
    ASSUME TypeOK, Next
    PROVE  \/ ProcessElement1 \/ ProcessElement2 \/ TtlRestart
           \/ \E p \in Paths : OnTimer(p) \/ Sign(p) \/ Upload(p)
           \/ Refund
           \/ Unseen
<1> USE DEF Unseen, topicVars, ttlVars, balanceVars, storeVars
<1>1. CASE CheckCredit \/ CheckCreditRaises \/ CreditRestart
  BY <1>1 DEF CheckCredit, CheckCreditRaises, CreditRestart
<1>2. CASE \/ \E r \in Requests : Intent(r)
           \/ SignIsSkipped \/ ServiceCrash
  BY <1>2 DEF Intent, SignIsSkipped, ServiceCrash
<1>3. ASSUME NEW p \in Paths, UrlLapses(p) PROVE Unseen
  BY <1>3 DEF UrlLapses
<1>4. ASSUME NEW p \in Paths, Receive(p) PROVE Unseen
  BY <1>4 DEF Receive
<1>5. CASE SignupBonus \/ BalanceRestart
  BY <1>5 DEF SignupBonus, BalanceRestart
<1> QED
  BY <1>1, <1>2, <1>3, <1>4, <1>5 DEF Next

\* What a step the TTL job does not see leaves as it was.
LEMMA UnseenKeepsSeen ==
    ASSUME TypeOK, Unseen
    PROVE  \A p : SignedSeen(p)' = SignedSeen(p) /\ ReceiptSeen(p)' = ReceiptSeen(p)
<1>1. \A i \in 1..receivedPos : received'[i] = received[i]
  <2>1. received \in Seq(Paths) /\ receivedPos \in 0..Len(received)
    BY DEF TypeOK, TopicsOK, PositionsOK
  <2>2. CASE received' = received
    BY <2>2
  <2>3. ASSUME NEW p \in Paths, received' = Append(received, p)
        PROVE  \A i \in 1..receivedPos : received'[i] = received[i]
    BY <2>1, <2>3
  <2> QED
    BY <2>2, <2>3 DEF Unseen
<1> QED
  BY <1>1 DEF Unseen, SignedSeen, ReceiptSeen

\* What process_element1 does to a path: it was neither read nor armed before.
ReadsSigned(q) ==
    /\ ~SignedSeen(q) /\ \A p : SignedSeen(p)' <=> SignedSeen(p) \/ p = q
    /\ timers[q] = 0 /\ timers' = [timers EXCEPT ![q] = 1]
    /\ signedState' = [signedState EXCEPT ![q] = TRUE]
    /\ completedState' = [completedState EXCEPT ![q] = FALSE]
    /\ clobbered' = IF completedState[q] THEN clobbered \cup {q} ELSE clobbered
    /\ signedPos' = signedPos + 1
    /\ UNCHANGED <<signed, received, receivedPos, expired, lapsed, inTime, refunded, happened>>

LEMMA ReadsFreshPath ==
    ASSUME TypeOK, TimerInv, ProcessElement1
    PROVE  \E q \in Paths : ReadsSigned(q)
<1> DEFINE q == signed[signedPos + 1]
<1>1. /\ signedPos < Len(signed) /\ signedPos' = signedPos + 1
      /\ signedState' = [signedState EXCEPT ![q] = TRUE]
      /\ completedState' = [completedState EXCEPT ![q] = FALSE]
      /\ clobbered' = IF completedState[q] THEN clobbered \cup {q} ELSE clobbered
      /\ timers' = [timers EXCEPT ![q] = @ + 1]
      /\ UNCHANGED <<signed, received, receivedPos, expired, lapsed, inTime, refunded, happened>>
  BY DEF ProcessElement1, RegisterTimer, topicVars, storeVars, balanceVars, faultVars
<1>2. q \in Paths /\ signedPos \in Nat
  BY <1>1 DEF TypeOK, TopicsOK, PositionsOK
<1>3. ~SignedSeen(q)
  BY <1>1, <1>2 DEF SignedSeen, TimerInv, FreshPaths, TypeOK, TopicsOK
<1>4. \A p : SignedSeen(p)' <=> SignedSeen(p) \/ p = q
  BY <1>1, <1>2 DEF SignedSeen
<1>5. timers[q] = 0
  BY <1>2, <1>3 DEF TimerInv, ArmedOnce, TypeOK, TtlOK
<1> HIDE DEF q
<1>6. timers' = [timers EXCEPT ![q] = 1]
  BY <1>1, <1>5
<1>7. ReadsSigned(q)
  BY <1>1, <1>3, <1>4, <1>5, <1>6 DEF ReadsSigned
<1> QED
  BY <1>2, <1>7

LEMMA TimerStep ==
    ASSUME TypeOK, TimerInv, Next
    PROVE  TimerInv'
<1> USE DEF TimerInv
<1>1. CASE ProcessElement1
  <2>1. PICK q \in Paths : ReadsSigned(q)
    BY <1>1, ReadsFreshPath
  <2>2. \A p : ReceiptSeen(p)' <=> ReceiptSeen(p)
    BY <2>1 DEF ReadsSigned, ReceiptSeen
  <2>3. FreshPaths'
    BY <2>1 DEF ReadsSigned, FreshPaths
  <2>4. ArmedOnce'
    BY <2>1 DEF ReadsSigned, ArmedOnce, TypeOK, TtlOK
  <2>5. CompletionKept'
    BY <2>1, <2>2 DEF ReadsSigned, CompletionKept, TypeOK, TtlOK
  <2> QED
    BY <2>3, <2>4, <2>5
<1>2. CASE ProcessElement2
  <2> DEFINE q == received[receivedPos + 1]
  <2>1. /\ receivedPos < Len(received) /\ receivedPos' = receivedPos + 1
        /\ completedState' = [completedState EXCEPT ![q] = TRUE]
        /\ UNCHANGED <<signed, received, signedPos, signedState, timers, clobbered>>
    BY <1>2 DEF ProcessElement2, Complete, topicVars
  <2>2. q \in Paths /\ receivedPos \in Nat
    BY <2>1 DEF TypeOK, TopicsOK, PositionsOK
  <2>3. \A p : SignedSeen(p)' <=> SignedSeen(p)
    BY <2>1 DEF SignedSeen
  <2>4. \A p : ReceiptSeen(p)' <=> ReceiptSeen(p) \/ p = q
    BY <2>1, <2>2 DEF ReceiptSeen
  <2> HIDE DEF q
  <2>5. FreshPaths' /\ ArmedOnce'
    BY <2>1, <2>3 DEF FreshPaths, ArmedOnce
  <2>6. CompletionKept'
    BY <2>1, <2>2, <2>3, <2>4 DEF CompletionKept, TypeOK, TtlOK
  <2> QED
    BY <2>5, <2>6
<1>3. CASE TtlRestart
  <2> USE <1>3 DEF TtlRestart, topicVars
  <2>1. FreshPaths'
    BY DEF FreshPaths
  <2>2. ArmedOnce'
    BY DEF ArmedOnce
  <2>3. CompletionKept'
    BY DEF CompletionKept, ReceiptSeen
  <2> QED
    BY <2>1, <2>2, <2>3
<1>4. ASSUME NEW q \in Paths, OnTimer(q) PROVE TimerInv'
  <2>1. /\ timers[q] > 0 /\ timers' = [timers EXCEPT ![q] = @ - 1]
        /\ signedState' = [signedState EXCEPT ![q] = FALSE]
        /\ completedState' = [completedState EXCEPT ![q] = FALSE]
        /\ UNCHANGED <<signed, received, signedPos, receivedPos, clobbered>>
    BY <1>4 DEF OnTimer, TimerDue, ClearState
  <2>2. \A p : (SignedSeen(p)' <=> SignedSeen(p)) /\ (ReceiptSeen(p)' <=> ReceiptSeen(p))
    BY <2>1 DEF SignedSeen, ReceiptSeen
  <2>3. timers[q] = 1 /\ SignedSeen(q)
    BY <2>1 DEF ArmedOnce, TypeOK, TtlOK
  <2>4. FreshPaths'
    BY <2>1 DEF FreshPaths
  <2>5. ArmedOnce'
    BY <2>1, <2>2, <2>3 DEF ArmedOnce, TypeOK, TtlOK
  <2>6. CompletionKept'
    BY <2>1, <2>2, <2>3 DEF CompletionKept, TypeOK, TtlOK
  <2> QED
    BY <2>4, <2>5, <2>6
<1>5. ASSUME NEW q \in Paths, Sign(q) PROVE TimerInv'
  <2>1. /\ q \notin ElementsOf(signed) /\ signed' = Append(signed, q)
        /\ UNCHANGED <<received, signedPos, receivedPos, signedState,
                       completedState, timers, clobbered>>
    BY <1>5 DEF Sign, ttlVars
  <2>2. /\ Len(signed') = Len(signed) + 1 /\ Len(signed) \in Nat
        /\ \A i \in 1..Len(signed) : signed'[i] = signed[i]
        /\ signed'[Len(signed) + 1] = q
    BY <2>1 DEF TypeOK, TopicsOK
  <2>3. \A i \in 1..Len(signed) : signed[i] # q
    BY <2>1 DEF ElementsOf
  <2>4. FreshPaths'
    BY <2>2, <2>3 DEF FreshPaths
  <2>5. \A p : (SignedSeen(p)' <=> SignedSeen(p)) /\ (ReceiptSeen(p)' <=> ReceiptSeen(p))
    BY <2>1, <2>2 DEF SignedSeen, ReceiptSeen, TypeOK, PositionsOK
  <2>6. ArmedOnce' /\ CompletionKept'
    BY <2>1, <2>5 DEF ArmedOnce, CompletionKept
  <2> QED
    BY <2>4, <2>6
<1>6. CASE Unseen \/ Refund \/ \E p \in Paths : Upload(p)
  <2>1. UNCHANGED <<signed, signedPos, receivedPos, signedState, completedState,
                    timers, clobbered>>
    BY <1>6 DEF Unseen, Refund, Upload, topicVars, ttlVars
  <2>2. \A p : (SignedSeen(p)' <=> SignedSeen(p)) /\ (ReceiptSeen(p)' <=> ReceiptSeen(p))
    <3>1. CASE Unseen
      BY <3>1, UnseenKeepsSeen
    <3>2. CASE Refund \/ \E p \in Paths : Upload(p)
      BY <3>2 DEF Refund, Upload, topicVars, ttlVars, SignedSeen, ReceiptSeen
    <3> QED
      BY <1>6, <3>1, <3>2
  <2>3. FreshPaths' /\ ArmedOnce' /\ CompletionKept'
    BY <2>1, <2>2 DEF FreshPaths, ArmedOnce, CompletionKept
  <2> QED
    BY <2>3
<1> QED
  BY <1>1, <1>2, <1>3, <1>4, <1>5, <1>6, TtlFrame

LEMMA ExpiryStep ==
    ASSUME TypeOK, TimerInv, ExpiryInv, Next
    PROVE  ExpiryInv'
<1> USE DEF ExpiryInv
<1>1. /\ lapsed \subseteq Paths /\ happened \subseteq happened'
      /\ Len(expired) \in Nat
  BY HappenedGrows DEF TypeOK, HistoryOK, TopicsOK
<1>2. \A i \in 1..Len(expired) : expired[i] \in Paths
  BY <1>1 DEF ExpiredIsLapsed
<1>3. CASE ProcessElement1
  <2>1. PICK q \in Paths : ReadsSigned(q)
    BY <1>3, ReadsFreshPath
  <2>2. UNCHANGED <<expired, lapsed, inTime, refunded, happened>> /\ clobbered \subseteq clobbered'
    BY <2>1 DEF ReadsSigned
  <2>3. ExpiredIsLapsed' /\ OneExpiryPerUrl' /\ RefundedIsExpired' /\ ExpiredInTimeWasClobbered'
    BY <2>2 DEF ExpiredIsLapsed, OneExpiryPerUrl, RefundedIsExpired, ElementsOf,
                ExpiredInTimeWasClobbered
  <2>4. ASSUME "ttl_restart" \notin happened, NEW i \in 1..Len(expired)
        PROVE  SignedSeen(expired[i])' /\ timers'[expired[i]] = 0
    <3>1. SignedSeen(expired[i]) /\ timers[expired[i]] = 0
      BY <2>4 DEF ExpiredIsDisarmed
    <3>2. expired[i] # q /\ expired[i] \in Paths
      BY <1>2, <2>1, <3>1 DEF ReadsSigned
    <3>3. timers'[expired[i]] = timers[expired[i]]
      BY <2>1, <3>2 DEF ReadsSigned, TypeOK, TtlOK
    <3>4. \A p : SignedSeen(p) => SignedSeen(p)'
      BY <2>1 DEF ReadsSigned
    <3>5. SignedSeen(expired[i])'
      BY <2>2, <3>1, <3>4
    <3> QED
      BY <3>1, <3>3, <3>5
  <2>5. ExpiredIsDisarmed'
    BY <2>2, <2>4 DEF ExpiredIsDisarmed
  <2> QED
    BY <2>3, <2>5
<1>4. ASSUME NEW q \in Paths, OnTimer(q) PROVE ExpiryInv'
  <2>1. /\ q \in lapsed /\ timers[q] > 0 /\ timers' = [timers EXCEPT ![q] = @ - 1]
        /\ TimelyReceipt /\ q \in inTime => \E i \in ReceiptsOf(q) : i <= receivedPos
        /\ UNCHANGED <<signed, signedPos, clobbered, lapsed, inTime, refunded, happened>>
    BY <1>4 DEF OnTimer, TimerDue, storeVars, balanceVars, faultVars
  <2>2. timers[q] = 1 /\ signedState[q] /\ SignedSeen(q)
    BY <2>1 DEF TimerInv, ArmedOnce, TypeOK, TtlOK
  <2>3. timers'[q] = 0 /\ \A p \in Paths \ {q} : timers'[p] = timers[p]
    BY <2>1, <2>2 DEF TypeOK, TtlOK
  <2>4. \A p : SignedSeen(p)' <=> SignedSeen(p)
    BY <2>1 DEF SignedSeen
  <2>5. CASE Expires(q)
    <3>1. expired' = Append(expired, q)
      BY <1>4, <2>2, <2>5 DEF OnTimer
    <3>2. /\ Len(expired') = Len(expired) + 1
          /\ \A i \in 1..Len(expired) : expired'[i] = expired[i]
          /\ expired'[Len(expired) + 1] = q
      BY <3>1 DEF TypeOK, TopicsOK
    <3>3. \A i \in 1..Len(expired') : i \in 1..Len(expired) \/ i = Len(expired) + 1
      BY <1>1, <3>2
    <3>4. ExpiredIsLapsed'
      BY <2>1, <3>2, <3>3 DEF ExpiredIsLapsed
    <3>5. ExpiredIsDisarmed'
      BY <1>2, <2>1, <2>2, <2>3, <2>4, <3>2, <3>3 DEF ExpiredIsDisarmed
    <3>6. OneExpiryPerUrl'
      BY <2>1, <2>2, <3>2, <3>3 DEF OneExpiryPerUrl, ExpiredIsDisarmed
    <3>7. TimelyReceipt /\ q \in inTime => q \in clobbered
      <4>1. TimelyReceipt /\ q \in inTime => ReceiptSeen(q)
        BY <2>1 DEF ReceiptsOf, ReceiptSeen, TypeOK, PositionsOK
      <4> QED
        BY <2>2, <2>5, <4>1 DEF Expires, TimerInv, CompletionKept
    <3>8. ExpiredInTimeWasClobbered'
      BY <2>1, <3>2, <3>3, <3>7 DEF ExpiredInTimeWasClobbered
    <3>9. RefundedIsExpired'
      BY <1>1, <2>1, <3>2 DEF RefundedIsExpired, ElementsOf
    <3> QED
      BY <3>4, <3>5, <3>6, <3>8, <3>9
  <2>6. CASE ~Expires(q)
    <3>1. expired' = expired
      BY <1>4, <2>6 DEF OnTimer
    <3>2. ExpiredIsDisarmed'
      BY <1>2, <2>1, <2>3, <2>4, <3>1 DEF ExpiredIsDisarmed
    <3>3. ExpiredIsLapsed' /\ OneExpiryPerUrl' /\ RefundedIsExpired' /\ ExpiredInTimeWasClobbered'
      BY <2>1, <3>1 DEF ExpiredIsLapsed, OneExpiryPerUrl, RefundedIsExpired, ElementsOf,
                        ExpiredInTimeWasClobbered
    <3> QED
      BY <3>2, <3>3
  <2> QED
    BY <2>5, <2>6
<1>5. CASE TtlRestart
  <2>1. UNCHANGED <<expired, lapsed, inTime, refunded, clobbered>> /\ "ttl_restart" \in happened'
    BY <1>5 DEF TtlRestart, Fault, topicVars, storeVars, balanceVars
  <2> QED
    BY <2>1 DEF ExpiredIsLapsed, ExpiredIsDisarmed, OneExpiryPerUrl, RefundedIsExpired,
                ElementsOf, ExpiredInTimeWasClobbered
<1>6. CASE \/ ProcessElement2 \/ Refund \/ Unseen
           \/ \E p \in Paths : Upload(p) \/ Sign(p)
  <2>1. UNCHANGED <<expired, timers, clobbered>> /\ lapsed \subseteq lapsed'
    BY <1>6 DEF ProcessElement2, Refund, Unseen, Upload, Sign, topicVars, ttlVars, storeVars
  <2>2. \A p : SignedSeen(p) => SignedSeen(p)'
    <3>1. CASE ProcessElement2 \/ Refund \/ \E p \in Paths : Upload(p)
      BY <3>1 DEF ProcessElement2, Refund, Upload, topicVars, ttlVars, SignedSeen
    <3>2. CASE Unseen
      BY <3>2, UnseenKeepsSeen
    <3>3. ASSUME NEW p \in Paths, Sign(p) PROVE \A r : SignedSeen(r) => SignedSeen(r)'
      <4>1. UNCHANGED signedPos /\ \A i \in 1..signedPos : signed'[i] = signed[i]
        BY <3>3 DEF Sign, ttlVars, TypeOK, TopicsOK, PositionsOK
      <4> QED
        BY <4>1 DEF SignedSeen
    <3> QED
      BY <1>6, <3>1, <3>2, <3>3
  <2>3. \A i \in 1..Len(expired) : expired[i] \in inTime' => expired[i] \in inTime
    <3>1. CASE \E p \in Paths : Upload(p)
      BY <3>1 DEF Upload, ExpiredIsLapsed
    <3>2. CASE ProcessElement2 \/ Refund \/ Unseen \/ \E p \in Paths : Sign(p)
      BY <3>2 DEF ProcessElement2, Refund, Unseen, Sign, storeVars
    <3> QED
      BY <1>6, <3>1, <3>2
  <2>4. refunded' \subseteq ElementsOf(expired)
    <3>1. CASE Refund
      <4>1. expiredPos + 1 \in 1..Len(expired)
        BY <3>1 DEF Refund, TypeOK, PositionsOK, TopicsOK
      <4>2. refunded' \subseteq refunded \cup {expired[expiredPos + 1]}
        BY <3>1 DEF Refund
      <4> QED
        BY <4>1, <4>2 DEF RefundedIsExpired, ElementsOf
    <3>2. CASE ProcessElement2 \/ Unseen \/ \E p \in Paths : Upload(p) \/ Sign(p)
      BY <3>2 DEF ProcessElement2, Unseen, Upload, Sign, balanceVars, RefundedIsExpired
    <3> QED
      BY <1>6, <3>1, <3>2
  <2>5. ExpiredIsLapsed' /\ ExpiredIsDisarmed' /\ OneExpiryPerUrl'
    BY <1>1, <2>1, <2>2 DEF ExpiredIsLapsed, ExpiredIsDisarmed, OneExpiryPerUrl
  <2>6. ExpiredInTimeWasClobbered' /\ RefundedIsExpired'
    BY <2>1, <2>3, <2>4 DEF ExpiredInTimeWasClobbered, RefundedIsExpired, ElementsOf
  <2> QED
    BY <2>5, <2>6
<1> QED
  BY <1>3, <1>4, <1>5, <1>6, TtlFrame

LEMMA ExpiryInvariance == Spec => [](TypeOK /\ TimerInv /\ ExpiryInv)
<1>1. Init => TimerInv /\ ExpiryInv
  BY DEF Init, TimerInv, FreshPaths, ArmedOnce, CompletionKept, SignedSeen, ReceiptSeen,
         ExpiryInv, ExpiredIsLapsed, ExpiredIsDisarmed, OneExpiryPerUrl,
         ExpiredInTimeWasClobbered, RefundedIsExpired, ElementsOf
<1>2. TypeOK /\ TimerInv /\ ExpiryInv /\ [Next]_vars => TimerInv' /\ ExpiryInv'
  <2>1. CASE Next
    BY <2>1, TimerStep, ExpiryStep
  <2>2. CASE UNCHANGED vars
    BY <2>2 DEF vars, topicVars, ttlVars, balanceVars, storeVars, faultVars,
         TimerInv, FreshPaths, ArmedOnce, CompletionKept, SignedSeen, ReceiptSeen,
         ExpiryInv, ExpiredIsLapsed, ExpiredIsDisarmed, OneExpiryPerUrl,
         ExpiredInTimeWasClobbered, RefundedIsExpired, ElementsOf
  <2> QED
    BY <2>1, <2>2
<1> QED
  BY <1>1, <1>2, TypeInit, TypeStep, PTL DEF Spec

\* Unless the TTL job restarts, a URL expires at most once.
THEOREM ExpirySafety == Spec => []OneExpiryPerUrl
BY ExpiryInvariance, PTL DEF ExpiryInv

\* With prompt receipts, an upload that was PUT in time is refunded only when
\* its completion arrived before its upload.signed and was overwritten by it.
THEOREM TimelySafety == Spec => []RefundedInTimeWasClobbered
<1>1. ExpiryInv => RefundedInTimeWasClobbered
  BY DEF ExpiryInv, RefundedIsExpired, ExpiredInTimeWasClobbered, ElementsOf,
         RefundedInTimeWasClobbered
<1> QED
  BY <1>1, ExpiryInvariance, PTL

-----------------------------------------------------------------------------
(***************************************************************************)
(* The counts are kept                                                     *)
(***************************************************************************)

\* A signing adds a path of its own to the topic; nothing else changes it.
LEMMA SignedStep ==
    ASSUME TypeOK, SignedCounted, Next
    PROVE  SignedCounted'
<1>. USE DEF SignedCounted
<1>1. ASSUME NEW q \in Paths, Sign(q) PROVE SignedCounted'
  <2>1. /\ q \notin ElementsOf(signed) /\ signed' = Append(signed, q)
        /\ UNCHANGED lapsed
    BY <1>1 DEF Sign, storeVars
  <2>2. /\ Len(signed') = Len(signed) + 1 /\ Len(signed) \in Nat
        /\ \A i \in 1..Len(signed) : signed'[i] = signed[i]
        /\ signed'[Len(signed) + 1] = q
    BY <2>1 DEF TypeOK, TopicsOK
  <2>3. ElementsOf(signed') = ElementsOf(signed) \cup {q}
    <3>1. 1..Len(signed') = 1..Len(signed) \cup {Len(signed) + 1}
      BY <2>2
    <3>. QED BY <2>2, <3>1 DEF ElementsOf
  <2>4. /\ IsFiniteSet(ElementsOf(signed'))
        /\ Cardinality(ElementsOf(signed')) = Len(signed) + 1
    BY <2>1, <2>3, FS_AddElement
  <2>. QED BY <2>1, <2>2, <2>3, <2>4
<1>2. ASSUME NEW q \in Paths, UrlLapses(q) PROVE SignedCounted'
  BY <1>2 DEF UrlLapses, topicVars
<1>3. CASE UNCHANGED <<signed, lapsed>>
  BY <1>3
<1>4. CASE CheckCredit \/ CheckCreditRaises \/ CreditRestart
  BY <1>3, <1>4 DEF CheckCredit, CheckCreditRaises, CreditRestart, topicVars, storeVars
<1>5. CASE \/ \E r \in Requests : Intent(r)
           \/ \E p \in Paths : Upload(p) \/ Receive(p)
           \/ SignIsSkipped \/ ServiceCrash
  BY <1>3, <1>5 DEF Intent, Upload, Receive, SignIsSkipped, ServiceCrash, topicVars, storeVars
<1>6. CASE \/ ProcessElement1 \/ ProcessElement2 \/ TtlRestart
           \/ \E p \in Paths : OnTimer(p)
  BY <1>3, <1>6 DEF ProcessElement1, ProcessElement2, TtlRestart, OnTimer, topicVars, storeVars
<1>7. CASE SignupBonus \/ Refund \/ BalanceRestart
  BY <1>3, <1>7 DEF SignupBonus, Refund, BalanceRestart, topicVars, storeVars
<1>. QED
  BY <1>1, <1>2, <1>4, <1>5, <1>6, <1>7 DEF Next

\* A failure that happens is recorded.
LEMMA FaultHappens ==
    ASSUME NEW kind, Fault(kind)
    PROVE  kind \in happened'
BY DEF Fault

\* A deduction comes with an approval, and the reader of the approvals moves
\* with the signings, but for the failures that lose one or the other.
LEMMA ApprovalsStep ==
    ASSUME TypeOK, ApprovalsCounted, Next
    PROVE  ApprovalsCounted'
<1>. USE DEF ApprovalsCounted
<1>1. /\ happened \subseteq happened'
      /\ ledger.deducted \in Nat /\ Len(approved) \in Nat /\ Len(signed) \in Nat
      /\ approvedPos \in Nat
  BY HappenedGrows DEF TypeOK, LedgerOK, TopicsOK, PositionsOK
<1>2. CASE ledger'.deducted = ledger.deducted /\ UNCHANGED <<approved, signed, approvedPos>>
  BY <1>1, <1>2
<1>3. CASE CheckCredit
  <2>1. UNCHANGED <<signed, approvedPos, happened>>
    BY <1>3 DEF CheckCredit, serviceVars, faultVars
  <2>2. CASE UNCHANGED <<ledger, approved>>
    BY <1>2, <2>1, <2>2
  <2>3. CASE DeductAndApprove(intents[intentPos + 1])
    <3>1. ledger'.deducted = ledger.deducted + 1 /\ Len(approved') = Len(approved) + 1
      BY <2>3 DEF DeductAndApprove, Deduct, TypeOK, LedgerOK, TopicsOK
    <3>. QED BY <1>1, <2>1, <3>1
  <2>. QED BY <1>3, <2>2, <2>3 DEF CheckCredit
<1>4. CASE CheckCreditRaises
  <2>1. UNCHANGED <<approved, signed, approvedPos>>
    BY <1>4 DEF CheckCreditRaises, topicVars, serviceVars
  <2>2. UNCHANGED ledger \/ "deduct_committed" \in happened'
    BY <1>4, FaultHappens DEF CheckCreditRaises
  <2>. QED BY <1>1, <2>1, <2>2
<1>5. CASE CreditRestart
  <2>1. /\ UNCHANGED <<approved, signed, approvedPos>> /\ "credit_restart" \in happened'
    BY <1>5, FaultHappens DEF CreditRestart, topicVars, serviceVars
  <2>. QED BY <1>1, <2>1
<1>6. ASSUME NEW q \in Paths, Sign(q) PROVE ApprovalsCounted'
  <2>1. /\ UNCHANGED <<ledger, approved>> /\ approvedPos' = approvedPos + 1
        /\ Len(signed') = Len(signed) + 1
    BY <1>6 DEF Sign, TypeOK, TopicsOK
  <2>. QED BY <1>1, <2>1
<1>7. CASE SignIsSkipped
  <2>1. /\ UNCHANGED <<ledger, approved, signed>>
        /\ "sign" \in happened' \/ "poll" \in happened'
    BY <1>7, FaultHappens DEF SignIsSkipped, topicVars
  <2>. QED BY <1>1, <2>1
<1>8. CASE ServiceCrash
  <2>1. UNCHANGED <<ledger, approved, signed>> /\ approvedPos' \in 0..approvedPos
    BY <1>8 DEF ServiceCrash, topicVars
  <2>. QED BY <1>1, <2>1
<1>9. CASE \/ \E r \in Requests : Intent(r)
           \/ \E p \in Paths : Upload(p) \/ UrlLapses(p) \/ Receive(p)
           \/ ProcessElement1 \/ ProcessElement2 \/ TtlRestart
           \/ \E p \in Paths : OnTimer(p)
           \/ BalanceRestart
  BY <1>2, <1>9
     DEF Intent, Upload, UrlLapses, Receive, ProcessElement1, ProcessElement2,
         TtlRestart, OnTimer, BalanceRestart, topicVars, serviceVars
<1>10. CASE SignupBonus
  BY <1>2, <1>10 DEF SignupBonus, topicVars, serviceVars, TypeOK, LedgerOK
<1>11. CASE Refund
  BY <1>2, <1>11 DEF Refund, LedgerAfterRefund, topicVars, serviceVars, TypeOK, LedgerOK
<1>. QED
  BY <1>3, <1>4, <1>5, <1>6, <1>7, <1>8, <1>9, <1>10, <1>11 DEF Next

\* Only the balance job adds the bonus and refunds to the ledger.
LEMMA BalanceFrame ==
    ASSUME TypeOK, Next
    PROVE  \/ SignupBonus \/ Refund \/ BalanceRestart
           \/ /\ UNCHANGED <<expiredPos, signupPos, refunded>>
              /\ ledger'.refunded = ledger.refunded /\ ledger'.bonus = ledger.bonus
<1> USE DEF TypeOK, LedgerOK, balanceVars
<1>1. CASE CheckCredit
  BY <1>1 DEF CheckCredit, DeductAndApprove, Deduct
<1>2. CASE CheckCreditRaises
  BY <1>2 DEF CheckCreditRaises, Deduct
<1>3. CASE CreditRestart
  BY <1>3 DEF CreditRestart, Deduct
<1>4. CASE \/ \E r \in Requests : Intent(r)
           \/ \E p \in Paths : Sign(p) \/ Upload(p) \/ UrlLapses(p) \/ Receive(p)
           \/ SignIsSkipped \/ ServiceCrash
  BY <1>4 DEF Intent, Sign, Upload, UrlLapses, Receive, SignIsSkipped, ServiceCrash
<1>5. CASE \/ ProcessElement1 \/ ProcessElement2 \/ TtlRestart
           \/ \E p \in Paths : OnTimer(p)
  BY <1>5 DEF ProcessElement1, ProcessElement2, TtlRestart, OnTimer
<1> QED
  BY <1>1, <1>2, <1>3, <1>4, <1>5 DEF Next

\* The topic of expiries only grows, and only at its end.
LEMMA ExpiredGrows ==
    ASSUME TypeOK, Next
    PROVE  /\ Len(expired) \in Nat /\ Len(expired') \in Nat /\ Len(expired) <= Len(expired')
           /\ \A i \in 1..Len(expired) : expired'[i] = expired[i]
<1>1. expired \in Seq(Paths \cup {Anonymous}) /\ expired' \in Seq(Paths \cup {Anonymous})
  BY TypeStep DEF TypeOK, TopicsOK
<1>2. CASE expired' = expired
  BY <1>1, <1>2
<1>3. ASSUME NEW e \in Paths \cup {Anonymous}, expired' = Append(expired, e)
      PROVE  /\ Len(expired) <= Len(expired')
             /\ \A i \in 1..Len(expired) : expired'[i] = expired[i]
  BY <1>1, <1>3
<1>4. CASE \E p \in Paths : OnTimer(p)
  BY <1>1, <1>2, <1>3, <1>4 DEF OnTimer
<1>5. CASE ~ \E p \in Paths : OnTimer(p)
  <2>1. CASE CheckCredit \/ CheckCreditRaises \/ CreditRestart
    BY <2>1 DEF CheckCredit, CheckCreditRaises, CreditRestart, topicVars
  <2>2. CASE \/ \E r \in Requests : Intent(r)
             \/ \E p \in Paths : Sign(p) \/ Upload(p) \/ UrlLapses(p) \/ Receive(p)
             \/ SignIsSkipped \/ ServiceCrash
    BY <2>2 DEF Intent, Sign, Upload, UrlLapses, Receive, SignIsSkipped, ServiceCrash, topicVars
  <2>3. CASE \/ ProcessElement1 \/ ProcessElement2 \/ TtlRestart
             \/ SignupBonus \/ Refund \/ BalanceRestart
    BY <2>3 DEF ProcessElement1, ProcessElement2, TtlRestart, SignupBonus, Refund,
                BalanceRestart, topicVars
  <2>. QED BY <1>1, <1>2, <1>5, <2>1, <2>2, <2>3 DEF Next
<1>. QED BY <1>1, <1>4, <1>5

LEMMA BonusStep ==
    ASSUME TypeOK, BonusCounted, Next
    PROVE  BonusCounted'
<1>. USE DEF BonusCounted
<1>1. happened \subseteq happened'
  BY HappenedGrows
<1>2. ledger.bonus \in Nat /\ SIGNUP_BONUS \in Nat
  BY UploadCreditAssumption DEF TypeOK, LedgerOK
<1>3. CASE SignupBonus
  <2>1. signupPos = 0 /\ signupPos' = 1 /\ ledger'.bonus = ledger.bonus + SIGNUP_BONUS
    BY <1>3 DEF SignupBonus, TypeOK, LedgerOK
  <2>. QED BY <1>1, <1>2, <2>1
<1>4. CASE Refund
  <2>1. signupPos' = signupPos /\ ledger'.bonus = ledger.bonus
    BY <1>4 DEF Refund, LedgerAfterRefund, TypeOK, LedgerOK
  <2>. QED BY <1>1, <2>1
<1>5. CASE BalanceRestart
  BY <1>5, FaultHappens DEF BalanceRestart
<1>6. CASE UNCHANGED signupPos /\ ledger'.bonus = ledger.bonus
  BY <1>1, <1>6
<1>. QED
  BY <1>3, <1>4, <1>5, <1>6, BalanceFrame

\* A refund is a row of its own, and, unless the TTL job or the balance job
\* repeats itself, of a path that had none.
LEMMA RefundsStep ==
    ASSUME TypeOK, ExpiryInv, RefundsCounted, Next
    PROVE  RefundsCounted'
<1>. USE DEF RefundsCounted
<1>1. /\ happened \subseteq happened'
      /\ ledger.refunded \in Nat /\ expiredPos \in Nat /\ Cardinality(refunded) \in Nat
      /\ expiredPos <= Len(expired)
  BY HappenedGrows, FS_CardinalityType DEF TypeOK, LedgerOK, PositionsOK, TopicsOK
<1>2. /\ Len(expired) \in Nat
      /\ \A i \in 1..Len(expired) : expired'[i] = expired[i]
  BY ExpiredGrows
<1>3. CASE UNCHANGED <<expiredPos, refunded>> /\ ledger'.refunded = ledger.refunded
  BY <1>1, <1>2, <1>3
<1>4. CASE BalanceRestart
  <2>1. UNCHANGED <<refunded, ledger>> /\ "balance_restart" \in happened'
    BY <1>4, FaultHappens DEF BalanceRestart
  <2>. QED BY <1>1, <2>1
<1>5. CASE SignupBonus
  <2>1. UNCHANGED <<refunded, expiredPos>> /\ ledger'.refunded = ledger.refunded
    BY <1>5 DEF SignupBonus, TypeOK, LedgerOK
  <2>. QED BY <1>3, <2>1
<1>6. CASE Refund
  <2> DEFINE q == expired[expiredPos + 1]
  <2>1. /\ expiredPos < Len(expired) /\ expiredPos' = expiredPos + 1
        /\ UNCHANGED <<expired, happened>>
    BY <1>6 DEF Refund, topicVars, faultVars
  <2>2. expiredPos + 1 \in 1..Len(expired)
    BY <1>1, <1>2, <2>1
  <2>3. q # Anonymous
    BY <2>2, UploadCreditAssumption DEF ExpiryInv, ExpiredIsLapsed, TypeOK, HistoryOK
  <2>4. ledger' = LedgerAfterRefund /\ refunded' = refunded \cup {q}
    BY <1>6, <2>3 DEF Refund
  <2>5. ledger'.refunded = ledger.refunded + 1
    BY <2>4 DEF LedgerAfterRefund, TypeOK, LedgerOK
  <2>6. /\ IsFiniteSet(refunded')
        /\ Cardinality(refunded') =
               IF q \in refunded THEN Cardinality(refunded) ELSE Cardinality(refunded) + 1
    BY <2>4, FS_AddElement
  <2>7. "balance_restart" \notin happened =>
            \A p \in refunded' : \E i \in 1..expiredPos' : expired'[i] = p
    BY <1>1, <2>1, <2>4
  <2>8. happened \cap {"ttl_restart", "balance_restart"} = {} => q \notin refunded
    BY <1>1, <2>1, <2>2 DEF ExpiryInv, OneExpiryPerUrl
  <2> HIDE DEF q
  <2>9. Cardinality(refunded') <= ledger'.refunded
    BY <1>1, <2>5, <2>6
  <2>10. happened \cap {"ttl_restart", "balance_restart"} = {} =>
             ledger'.refunded <= Cardinality(refunded')
    BY <1>1, <2>5, <2>6, <2>8
  <2>. QED BY <2>1, <2>6, <2>7, <2>9, <2>10
<1>. QED
  BY <1>3, <1>4, <1>5, <1>6, BalanceFrame

-----------------------------------------------------------------------------
(***************************************************************************)
(* A URL that is neither used nor refunded is on its way to a refund       *)
(***************************************************************************)

LEMMA CompletedStep ==
    ASSUME TypeOK, CompletedIsPut, Next
    PROVE  CompletedIsPut'
<1>. USE DEF CompletedIsPut
<1>1. ASSUME UNCHANGED received, put \subseteq put',
             \A p \in Paths : completedState'[p] => completedState[p]
      PROVE  CompletedIsPut'
  BY <1>1
<1>2. ASSUME NEW q \in Paths, Receive(q) PROVE CompletedIsPut'
  <2>1. /\ q \in put /\ UNCHANGED <<put, completedState>>
        /\ received' = Append(received, q)
    BY <1>2 DEF Receive, storeVars, ttlVars
  <2>2. /\ Len(received') = Len(received) + 1 /\ Len(received) \in Nat
        /\ \A i \in 1..Len(received) : received'[i] = received[i]
        /\ received'[Len(received) + 1] = q
    BY <2>1 DEF TypeOK, TopicsOK
  <2>3. \A i \in 1..Len(received') : i \in 1..Len(received) \/ i = Len(received) + 1
    BY <2>2
  <2>4. ElementsOf(received') \subseteq ElementsOf(received) \cup {q}
    BY <2>2, <2>3 DEF ElementsOf
  <2>. QED BY <2>1, <2>4
<1>3. CASE ProcessElement2
  <2> DEFINE q == received[receivedPos + 1]
  <2>1. /\ receivedPos < Len(received) /\ UNCHANGED <<put, received>>
        /\ completedState' = [completedState EXCEPT ![q] = TRUE]
    BY <1>3 DEF ProcessElement2, Complete, topicVars, storeVars
  <2>2. receivedPos + 1 \in 1..Len(received)
    BY <2>1 DEF TypeOK, TopicsOK, PositionsOK
  <2>3. q \in put
    BY <2>2 DEF ElementsOf
  <2> HIDE DEF q
  <2>. QED BY <2>1, <2>3 DEF TypeOK, TtlOK
<1>4. CASE ProcessElement1
  <2>1. /\ UNCHANGED <<put, received>>
        /\ completedState' = [completedState EXCEPT ![signed[signedPos + 1]] = FALSE]
    BY <1>4 DEF ProcessElement1, topicVars, storeVars
  <2>2. \A p \in Paths : completedState'[p] => completedState[p]
    BY <2>1 DEF TypeOK, TtlOK
  <2>. QED BY <1>1, <2>1, <2>2
<1>5. ASSUME NEW q \in Paths, OnTimer(q) PROVE CompletedIsPut'
  <2>1. UNCHANGED <<put, received>> /\ completedState' = [completedState EXCEPT ![q] = FALSE]
    BY <1>5 DEF OnTimer, ClearState, storeVars
  <2>2. \A p \in Paths : completedState'[p] => completedState[p]
    BY <2>1 DEF TypeOK, TtlOK
  <2>. QED BY <1>1, <2>1, <2>2
<1>6. CASE TtlRestart
  BY <1>1, <1>6 DEF TtlRestart, topicVars, storeVars
<1>7. CASE CheckCredit \/ CheckCreditRaises \/ CreditRestart
  BY <1>1, <1>7 DEF CheckCredit, CheckCreditRaises, CreditRestart, topicVars, storeVars, ttlVars
<1>8. CASE \/ \E r \in Requests : Intent(r)
           \/ \E p \in Paths : Sign(p) \/ Upload(p) \/ UrlLapses(p)
           \/ SignIsSkipped \/ ServiceCrash
  BY <1>1, <1>8
     DEF Intent, Sign, Upload, UrlLapses, SignIsSkipped, ServiceCrash, topicVars,
         storeVars, ttlVars
<1>9. CASE SignupBonus \/ Refund \/ BalanceRestart
  BY <1>1, <1>9 DEF SignupBonus, Refund, BalanceRestart, topicVars, storeVars, ttlVars
<1>. QED
  BY <1>2, <1>3, <1>4, <1>5, <1>6, <1>7, <1>8, <1>9 DEF Next

\* A refund under way stays under way unless one of its readers takes it on.
LEMMA DueStays ==
    ASSUME TypeOK, NEW p \in Paths, RefundDue(p), Len(signed') \in Nat,
           Len(signed) <= Len(signed'),
           \A i \in 1..Len(signed) : signed'[i] = signed[i],
           signedPos' <= signedPos, timers'[p] = timers[p], UNCHANGED expired,
           expiredPos' <= expiredPos, signedPos' \in Nat, expiredPos' \in Nat
    PROVE  RefundDue(p)'
<1>1. /\ signedPos \in Nat /\ expiredPos \in Nat
      /\ Len(signed) \in Nat /\ Len(expired) \in Nat
  BY DEF TypeOK, PositionsOK, TopicsOK
<1>2. ASSUME NEW i \in 1..Len(signed), i > signedPos, signed[i] = p PROVE RefundDue(p)'
  <2>1. i \in 1..Len(signed') /\ i > signedPos' /\ signed'[i] = p
    BY <1>1, <1>2
  <2>. QED BY <2>1 DEF RefundDue
<1>3. CASE timers[p] > 0
  BY <1>3 DEF RefundDue
<1>4. ASSUME NEW i \in 1..Len(expired), i > expiredPos, expired[i] = p PROVE RefundDue(p)'
  <2>1. i \in 1..Len(expired') /\ i > expiredPos' /\ expired'[i] = p
    BY <1>1, <1>4
  <2>. QED BY <2>1 DEF RefundDue
<1>. QED BY <1>2, <1>3, <1>4 DEF RefundDue

LEMMA HeldStep ==
    ASSUME TypeOK, TimerInv, ExpiryInv, DueInv, Next
    PROVE  CreditHeld'
<1>. USE DEF CreditHeld, DueInv
<1>1. /\ signedPos \in Nat /\ expiredPos \in Nat /\ signed \in Seq(Paths)
      /\ Len(signed) \in Nat /\ Len(expired) \in Nat
  BY DEF TypeOK, PositionsOK, TopicsOK
<1>2. ElementsOf(signed) \subseteq Paths
  BY <1>1 DEF ElementsOf
<1>3. ASSUME UNCHANGED <<signed, expired, timers>>, put \subseteq put',
             refunded \subseteq refunded',
             signedPos' \in 0..signedPos, expiredPos' \in 0..expiredPos
      PROVE  CreditHeld'
  <2>1. \A p \in Paths : RefundDue(p) => RefundDue(p)'
    BY <1>1, <1>3, DueStays
  <2>. QED BY <1>2, <1>3, <2>1
<1>4. CASE CheckCredit \/ CheckCreditRaises \/ CreditRestart
  BY <1>1, <1>3, <1>4 DEF CheckCredit, CheckCreditRaises, CreditRestart, topicVars, storeVars,
              ttlVars, balanceVars
<1>5. CASE \/ \E r \in Requests : Intent(r)
           \/ \E p \in Paths : Upload(p) \/ UrlLapses(p) \/ Receive(p)
           \/ SignIsSkipped \/ ServiceCrash
  BY <1>1, <1>3, <1>5
     DEF Intent, Upload, UrlLapses, Receive, SignIsSkipped, ServiceCrash, topicVars,
         storeVars, ttlVars, balanceVars
<1>6. CASE ProcessElement2 \/ SignupBonus \/ BalanceRestart
  BY <1>1, <1>3, <1>6
     DEF ProcessElement2, SignupBonus, BalanceRestart, topicVars, storeVars, ttlVars, balanceVars
<1>7. ASSUME NEW q \in Paths, Sign(q) PROVE CreditHeld'
  <2>1. /\ signed' = Append(signed, q)
        /\ UNCHANGED <<expired, timers, put, refunded, signedPos, expiredPos>>
    BY <1>7 DEF Sign, storeVars, ttlVars, balanceVars
  <2>2. /\ Len(signed') = Len(signed) + 1
        /\ \A i \in 1..Len(signed) : signed'[i] = signed[i]
        /\ signed'[Len(signed) + 1] = q
    BY <1>1, <2>1
  <2>3. \A p \in Paths : RefundDue(p) => RefundDue(p)'
    BY <1>1, <2>1, <2>2, DueStays
  <2>4. RefundDue(q)'
    <3>1. /\ Len(signed) + 1 \in 1..Len(signed') /\ Len(signed) + 1 > signedPos'
      BY <1>1, <2>1, <2>2 DEF TypeOK, PositionsOK
    <3>. QED BY <2>2, <3>1 DEF RefundDue
  <2>5. ElementsOf(signed') \subseteq ElementsOf(signed) \cup {q}
    <3>1. \A i \in 1..Len(signed') : i \in 1..Len(signed) \/ i = Len(signed) + 1
      BY <1>1, <2>2
    <3>. QED BY <2>2, <3>1 DEF ElementsOf
  <2>. QED BY <1>2, <2>1, <2>3, <2>4, <2>5
<1>8. CASE ProcessElement1
  <2>1. PICK q \in Paths : ReadsSigned(q)
    BY <1>8, ReadsFreshPath
  <2>2. /\ q = signed[signedPos + 1] /\ UNCHANGED <<put, expiredPos>>
    <3>1. signed[signedPos + 1] \in Paths /\ timers' = [timers EXCEPT ![signed[signedPos + 1]] = @ + 1]
      BY <1>1, <1>8 DEF ProcessElement1, RegisterTimer
    <3>2. timers'[q] = 1 /\ timers[q] = 0
      BY <2>1 DEF ReadsSigned, TypeOK, TtlOK
    <3>3. q = signed[signedPos + 1]
      BY <3>1, <3>2 DEF TypeOK, TtlOK
    <3>. QED BY <1>8, <3>3 DEF ProcessElement1, storeVars, balanceVars
  <2>3. UNCHANGED <<signed, expired, refunded>> /\ signedPos' = signedPos + 1
    BY <2>1 DEF ReadsSigned
  <2>4. RefundDue(q)'
    BY <2>1 DEF ReadsSigned, RefundDue, TypeOK, TtlOK
  <2>5. ASSUME NEW p \in Paths, p # q, RefundDue(p) PROVE RefundDue(p)'
    <3>1. timers'[p] = timers[p]
      BY <2>1, <2>5 DEF ReadsSigned, TypeOK, TtlOK
    <3>2. \A i \in 1..Len(signed) : i > signedPos /\ signed[i] = p => i > signedPos'
      BY <1>1, <2>2, <2>3, <2>5
    <3>. QED BY <2>2, <2>3, <2>5, <3>1, <3>2 DEF RefundDue
  <2>. QED BY <1>2, <2>2, <2>3, <2>4, <2>5
<1>9. ASSUME NEW q \in Paths, OnTimer(q) PROVE CreditHeld'
  <2>1. /\ timers[q] > 0 /\ timers' = [timers EXCEPT ![q] = @ - 1]
        /\ UNCHANGED <<signed, signedPos, put, refunded, expiredPos>>
    BY <1>9 DEF OnTimer, TimerDue, storeVars, balanceVars
  <2>2. /\ Len(expired') \in Nat /\ Len(expired) <= Len(expired')
        /\ \A i \in 1..Len(expired) : expired'[i] = expired[i]
    BY ExpiredGrows DEF Next
  <2>3. ASSUME NEW p \in Paths, p # q, RefundDue(p) PROVE RefundDue(p)'
    <3>1. timers'[p] = timers[p]
      BY <2>1, <2>3 DEF TypeOK, TtlOK
    <3>2. ASSUME NEW i \in 1..Len(expired), i > expiredPos, expired[i] = p
          PROVE  RefundDue(p)'
      <4>1. i \in 1..Len(expired') /\ i > expiredPos' /\ expired'[i] = p
        BY <1>1, <2>1, <2>2, <3>2
      <4>. QED BY <4>1 DEF RefundDue
    <3>. QED BY <2>1, <2>3, <3>1, <3>2 DEF RefundDue
  <2>4. q \in put \/ RefundDue(q)'
    <3>1. CASE completedState[q]
      BY <3>1 DEF CompletedIsPut
    <3>2. CASE ~completedState[q]
      <4>1. signedState[q]
        BY <2>1 DEF TimerInv, ArmedOnce
      <4>2. expired' = Append(expired, q)
        BY <1>9, <3>2, <4>1 DEF OnTimer, Expires
      <4>3. Len(expired') = Len(expired) + 1 /\ expired'[Len(expired) + 1] = q
        BY <4>2 DEF TypeOK, TopicsOK
      <4>4. Len(expired) + 1 \in 1..Len(expired') /\ Len(expired) + 1 > expiredPos'
        BY <1>1, <2>1, <4>3 DEF TypeOK, PositionsOK
      <4>. QED BY <4>3, <4>4 DEF RefundDue
    <3>. QED BY <3>1, <3>2
  <2>. QED BY <1>2, <2>1, <2>3, <2>4
<1>10. CASE TtlRestart
  <2>1. /\ UNCHANGED <<signed, expired, put, refunded, expiredPos>> /\ signedPos' = 0
    BY <1>10 DEF TtlRestart, topicVars, storeVars, balanceVars
  <2>2. ASSUME NEW p \in ElementsOf(signed) PROVE RefundDue(p)'
    <3>1. PICK i \in 1..Len(signed) : signed[i] = p
      BY DEF ElementsOf
    <3>2. i > 0
      BY <1>1
    <3>. QED BY <2>1, <3>1, <3>2 DEF RefundDue
  <2>. QED BY <2>1, <2>2
<1>11. CASE Refund
  <2> DEFINE q == expired[expiredPos + 1]
  <2>1. /\ expiredPos < Len(expired) /\ expiredPos' = expiredPos + 1
        /\ UNCHANGED <<signed, signedPos, expired, timers, put>>
    BY <1>11 DEF Refund, topicVars, ttlVars, storeVars
  <2>2. q # Anonymous
    <3>1. expiredPos + 1 \in 1..Len(expired)
      BY <1>1, <2>1
    <3>. QED BY <3>1, UploadCreditAssumption DEF ExpiryInv, ExpiredIsLapsed, TypeOK, HistoryOK
  <2>3. refunded' = refunded \cup {q}
    BY <1>11, <2>2 DEF Refund
  <2>4. ASSUME NEW p \in Paths, p # q, RefundDue(p) PROVE RefundDue(p)'
    <3>1. \A i \in 1..Len(expired) : i > expiredPos /\ expired[i] = p => i > expiredPos'
      BY <1>1, <2>1, <2>4
    <3>. QED BY <2>1, <2>4, <3>1 DEF RefundDue
  <2>. QED BY <1>2, <2>1, <2>3, <2>4
<1>. QED
  BY <1>4, <1>5, <1>6, <1>7, <1>8, <1>9, <1>10, <1>11 DEF Next

-----------------------------------------------------------------------------
\* The inductive invariant: every reachable state of the credit pipeline.
THEOREM CreditInvariance == Spec => []IInv
<1>1. Init => CountInv /\ DueInv
  <2> SUFFICES ASSUME Init PROVE CountInv /\ DueInv
    OBVIOUS
  <2>1. ElementsOf(signed) = {} /\ ElementsOf(received) = {} /\ refunded = {}
    BY DEF Init, ElementsOf
  <2>2. SignedCounted
    BY <2>1, FS_EmptySet DEF Init, SignedCounted
  <2>3. ApprovalsCounted /\ BonusCounted
    BY UploadCreditAssumption DEF Init, ApprovalsCounted, BonusCounted
  <2>4. RefundsCounted
    BY <2>1, FS_EmptySet DEF Init, RefundsCounted
  <2>5. DueInv
    BY <2>1 DEF Init, DueInv, CompletedIsPut, CreditHeld
  <2> QED
    BY <2>2, <2>3, <2>4, <2>5 DEF CountInv
<1>2. TypeOK /\ TimerInv /\ ExpiryInv /\ CountInv /\ DueInv /\ [Next]_vars =>
          CountInv' /\ DueInv'
  <2>1. CASE Next
    BY <2>1, SignedStep, ApprovalsStep, BonusStep, RefundsStep, CompletedStep, HeldStep
       DEF CountInv, DueInv
  <2>2. CASE UNCHANGED vars
    <3> USE <2>2 DEF vars, topicVars, serviceVars, ttlVars, balanceVars, storeVars, faultVars
    <3>1. SignedCounted' = SignedCounted
      BY DEF SignedCounted, ElementsOf
    <3>2. ApprovalsCounted' = ApprovalsCounted /\ BonusCounted' = BonusCounted
      BY DEF ApprovalsCounted, BonusCounted
    <3>3. RefundsCounted' = RefundsCounted
      BY DEF RefundsCounted
    <3>4. \A p : RefundDue(p)' = RefundDue(p)
      BY DEF RefundDue
    <3>5. DueInv' = DueInv
      BY <3>4 DEF DueInv, CompletedIsPut, CreditHeld, ElementsOf
    <3> QED
      BY <3>1, <3>2, <3>3, <3>5 DEF CountInv
  <2> QED
    BY <2>1, <2>2
<1> QED
  BY <1>1, <1>2, MoneyInvariance, ExpiryInvariance, PTL DEF IInv, Spec

\* A refunded path is a signed one.
LEMMA RefundedIsSigned ==
    ASSUME IInv
    PROVE  refunded \subseteq ElementsOf(signed)
BY DEF IInv, ExpiryInv, RefundedIsExpired, ExpiredIsLapsed, CountInv, SignedCounted, ElementsOf

\* Credit is conserved: while nothing is repeated none is minted, and but for
\* the failures that lose one every credit is in the balance, in an approval
\* under way or in a URL.
THEOREM CreditConservation == Spec => []CreditConserved
<1>1. IInv => CreditConserved
  <2> SUFFICES ASSUME IInv PROVE CreditConserved
    OBVIOUS
  <2> DEFINE open == Cardinality(ElementsOf(signed) \ refunded)
             bonus == IF signupPos = 1 THEN SIGNUP_BONUS ELSE 0
  <2>1. /\ SIGNUP_BONUS \in Nat /\ signupPos \in 0..1
        /\ ledger.bonus \in Nat /\ ledger.refunded \in Nat /\ ledger.deducted \in Nat
        /\ approvedPos \in Nat /\ Len(approved) \in Nat /\ Len(signed) \in Nat
    BY UploadCreditAssumption DEF IInv, TypeOK, LedgerOK, PositionsOK, TopicsOK
  <2>2. signupPos * SIGNUP_BONUS = bonus
    BY <2>1
  <2>3. IsFiniteSet(refunded) /\ IsFiniteSet(ElementsOf(signed))
    BY DEF IInv, CountInv, SignedCounted, RefundsCounted
  <2>4. Cardinality(refunded) \in Nat
    BY <2>3, FS_CardinalityType
  <2>5. open = Len(signed) - Cardinality(refunded)
    <3>1. ElementsOf(signed) \cap refunded = refunded
      BY RefundedIsSigned
    <3>. QED BY <2>3, <3>1, FS_Difference DEF IInv, CountInv, SignedCounted
  <2>6. ASSUME happened \cap Repeating = {} PROVE Balance <= BalanceDue
    <3>1. /\ "crash" \notin happened /\ "balance_restart" \notin happened
          /\ happened \cap {"ttl_restart", "balance_restart"} = {}
      BY <2>6 DEF Repeating
    <3>2. Len(signed) <= approvedPos /\ Len(approved) <= ledger.deducted
      BY <3>1 DEF IInv, MoneyInv, EveryUrlIsPaid
    <3>3. ledger.bonus = bonus /\ ledger.refunded <= Cardinality(refunded)
      BY <3>1 DEF IInv, CountInv, BonusCounted, RefundsCounted
    <3> HIDE DEF bonus, open
    <3>. QED BY <2>1, <2>2, <2>4, <2>5, <3>2, <3>3 DEF Balance, BalanceDue, open
  <2>7. ASSUME happened \cap Losing = {} PROVE Balance >= BalanceDue
    <3>1. /\ happened \cap {"deduct_committed", "credit_restart"} = {}
          /\ happened \cap {"sign", "poll"} = {}
      BY <2>7 DEF Losing
    <3>2. approvedPos <= Len(signed) /\ ledger.deducted <= Len(approved)
      BY <3>1 DEF IInv, CountInv, ApprovalsCounted
    <3>3. ledger.bonus >= bonus /\ ledger.refunded >= Cardinality(refunded)
      BY <2>1 DEF IInv, CountInv, BonusCounted, RefundsCounted
    <3> HIDE DEF bonus, open
    <3>. QED BY <2>1, <2>2, <2>4, <2>5, <3>2, <3>3 DEF Balance, BalanceDue, open
  <2> QED
    BY <2>6, <2>7 DEF CreditConserved
<1> QED
  BY <1>1, CreditInvariance, PTL

\* No credit is stuck in a URL: through every failure, one that was not used
\* and not refunded is still to be read, armed or expired by the TTL job, or
\* its expiry still to be read by the balance job.
THEOREM NoCreditStuck ==
    Spec => [](\A p \in ElementsOf(signed) : p \in put \/ p \in refunded \/ RefundDue(p))
<1>1. IInv => \A p \in ElementsOf(signed) : p \in put \/ p \in refunded \/ RefundDue(p)
  BY DEF IInv, DueInv, CreditHeld
<1> QED
  BY <1>1, CreditInvariance, PTL

-----------------------------------------------------------------------------
(***************************************************************************)
(* What becomes of an intent.                                              *)
(***************************************************************************)

\* The answer of an intent is under way: the check has not read it, or the
\* media-service not its approval.
AnswerDue(r) ==
    \/ \E i \in 1..Len(intents) : i > intentPos /\ intents[i] = r
    \/ \E i \in 1..Len(approved) : i > approvedPos /\ approved[i] = r

Answered(r) == rejected[r] # {} \/ \E p \in Paths : r \in signedFor[p]

\* The failures after which the media-service drops an approval.
Unanswering == {"sign", "poll"}

IntentHeld ==
    happened \cap Unanswering = {} =>
        \A r \in ElementsOf(intents) : Answered(r) \/ AnswerDue(r)

\* A path that was not signed was signed for nobody.
SignedForOne == \A p \in Paths : signedFor[p] # {} => p \in ElementsOf(signed)

AnswerInv == IntentHeld /\ SignedForOne

\* What the check and the signing do not see keeps it.
LEMMA AnswerFrame ==
    ASSUME AnswerInv, happened \subseteq happened',
           UNCHANGED <<intents, intentPos, rejected, approved, approvedPos, signed, signedFor>>
    PROVE  AnswerInv'
<1>1. \A r : /\ Answered(r)' <=> Answered(r)
             /\ AnswerDue(r)' <=> AnswerDue(r)
  BY DEF Answered, AnswerDue
<1>2. ElementsOf(intents)' = ElementsOf(intents) /\ ElementsOf(signed)' = ElementsOf(signed)
  BY DEF ElementsOf
<1>3. IntentHeld' BY <1>1, <1>2 DEF AnswerInv, IntentHeld
<1>4. SignedForOne' BY <1>2 DEF AnswerInv, SignedForOne
<1>. QED BY <1>3, <1>4 DEF AnswerInv

\* The check rejects what it reads or passes it on, and reads everything again
\* after a restart; the media-service signs what it reads, or a failure is named.
LEMMA AnswerStep ==
    ASSUME TypeOK, AnswerInv, Next
    PROVE  AnswerInv'
<1>0. /\ happened \subseteq happened'
      /\ intents \in Seq(Requests) /\ Len(intents) \in Nat /\ intentPos \in 0..Len(intents)
      /\ approved \in Seq(Requests) /\ Len(approved) \in Nat
      /\ approvedPos \in 0..Len(approved) /\ signed \in Seq(Paths) /\ Len(signed) \in Nat
      /\ DOMAIN rejected = Requests /\ DOMAIN signedFor = Paths
  BY HappenedGrows DEF TypeOK, TopicsOK, PositionsOK, HistoryOK
<1>1. ASSUME NEW q \in Requests, Intent(q) PROVE AnswerInv'
  <2>1. /\ intents' = Append(intents, q) /\ intents' \in Seq(Requests)
        /\ UNCHANGED <<intentPos, rejected, approved, approvedPos, signed, signedFor>>
    BY <1>0, <1>1 DEF Intent, checkVars, serviceVars
  <2>2. /\ Len(intents') = Len(intents) + 1 /\ intents'[Len(intents) + 1] = q
        /\ \A i \in 1..Len(intents) : intents'[i] = intents[i]
    BY <1>0, <2>1
  <2>3. 1..Len(intents') = 1..Len(intents) \cup {Len(intents) + 1} BY <1>0, <2>2
  <2>4. ElementsOf(intents)' = ElementsOf(intents) \cup {q}
    BY <2>2, <2>3 DEF ElementsOf
  <2>5. AnswerDue(q)'
    <3>1. Len(intents) + 1 > intentPos BY <1>0
    <3>. QED BY <2>1, <2>2, <2>3, <3>1 DEF AnswerDue
  <2>6. \A r : AnswerDue(r) => AnswerDue(r)' BY <2>1, <2>2, <2>3 DEF AnswerDue
  <2>7. \A r : Answered(r)' <=> Answered(r) BY <2>1 DEF Answered
  <2>8. IntentHeld'
    BY <1>0, <2>4, <2>5, <2>6, <2>7 DEF AnswerInv, IntentHeld
  <2>9. SignedForOne' BY <2>1 DEF AnswerInv, SignedForOne, ElementsOf
  <2>. QED BY <2>8, <2>9 DEF AnswerInv
<1>2. CASE CheckCredit \/ CheckCreditRaises
  <2>0. intentPos < Len(intents) BY <1>2 DEF CheckCredit, CheckCreditRaises
  <2>. PICK q \in Requests : q = intents[intentPos + 1] BY <1>0, <2>0
  <2>1. /\ intentPos < Len(intents) /\ intentPos' = intentPos + 1
        /\ UNCHANGED <<intents, approvedPos, signed, signedFor>>
    BY <1>0, <1>2 DEF CheckCredit, CheckCreditRaises, NextIntentPos, serviceVars, topicVars
  <2>2. \/ approved' = Append(approved, q) /\ rejected' = rejected
        \/ /\ approved' = approved
           /\ \E reason : rejected' = [rejected EXCEPT ![q] = @ \cup {reason}]
    BY <1>2 DEF CheckCredit, CheckCreditRaises, DeductAndApprove, Reject, topicVars
  <2>3. \A r \in Requests : Answered(r) => Answered(r)'
    <3>1. \A r \in Requests : rejected[r] # {} => rejected'[r] # {} BY <1>0, <2>1, <2>2
    <3>. QED BY <2>1, <3>1 DEF Answered
  <2>4. /\ Len(approved') \in Nat /\ Len(approved') >= Len(approved)
        /\ \A i \in 1..Len(approved) : approved'[i] = approved[i]
    BY <1>0, <2>1, <2>2
  <2>5. Answered(q)' \/ AnswerDue(q)'
    <3>1. CASE approved' = Append(approved, q)
      <4>1. /\ Len(approved') = Len(approved) + 1
            /\ approved'[Len(approved) + 1] = q
        BY <1>0, <2>1, <3>1
      <4>2. Len(approved) + 1 \in 1..Len(approved') /\ Len(approved) + 1 > approvedPos'
        BY <1>0, <2>1, <4>1
      <4>. QED BY <4>1, <4>2 DEF AnswerDue
    <3>2. CASE \E reason : rejected' = [rejected EXCEPT ![q] = @ \cup {reason}]
      <4>1. rejected'[q] # {} BY <1>0, <2>1, <3>2
      <4>. QED BY <4>1 DEF Answered
    <3>. QED BY <2>2, <3>1, <3>2
  <2>6. \A r : r # q /\ AnswerDue(r) => AnswerDue(r)'
    <3>1. \A i \in 1..Len(intents) : i > intentPos => i = intentPos + 1 \/ i > intentPos'
      BY <1>0, <2>1
    <3>2. 1..Len(approved) \subseteq 1..Len(approved') BY <1>0, <2>4
    <3>. QED BY <2>1, <2>4, <3>1, <3>2 DEF AnswerDue
  <2>7. IntentHeld'
    <3>1. ElementsOf(intents)' = ElementsOf(intents) BY <2>1 DEF ElementsOf
    <3>2. ElementsOf(intents) \subseteq Requests BY <1>0 DEF ElementsOf
    <3>. QED BY <1>0, <2>3, <2>5, <2>6, <3>1, <3>2 DEF AnswerInv, IntentHeld
  <2>8. SignedForOne' BY <2>1 DEF AnswerInv, SignedForOne, ElementsOf
  <2>. QED BY <2>7, <2>8 DEF AnswerInv
<1>3. CASE CreditRestart
  <2>1. /\ intentPos' = 0
        /\ UNCHANGED <<intents, rejected, approved, approvedPos, signed, signedFor>>
    BY <1>3 DEF CreditRestart, topicVars, serviceVars
  <2>2. \A r \in ElementsOf(intents)' : AnswerDue(r)'
    <3>1. \A i \in 1..Len(intents') : i > intentPos' BY <1>0, <2>1
    <3>. QED BY <3>1 DEF AnswerDue, ElementsOf
  <2>3. SignedForOne' BY <2>1 DEF AnswerInv, SignedForOne, ElementsOf
  <2>. QED BY <2>2, <2>3 DEF AnswerInv, IntentHeld
<1>4. ASSUME NEW p \in Paths, Sign(p) PROVE AnswerInv'
  <2>0. approvedPos < Len(approved) BY <1>4 DEF Sign
  <2>. PICK q \in Requests : q = approved[approvedPos + 1] BY <1>0, <2>0
  <2>1. /\ approvedPos' = approvedPos + 1
        /\ p \notin ElementsOf(signed) /\ signed' = Append(signed, p)
        /\ signedFor' = [signedFor EXCEPT ![p] = {q}]
        /\ UNCHANGED <<intents, intentPos, rejected, approved>>
    BY <1>4 DEF Sign, checkVars
  <2>2. signedFor[p] = {} BY <2>1 DEF AnswerInv, SignedForOne
  <2>3. \A d \in Paths : signedFor'[d] = IF d = p THEN {q} ELSE signedFor[d]
    BY <1>0, <2>1
  <2>4. \A r : Answered(r) => Answered(r)'
    BY <2>1, <2>2, <2>3 DEF Answered
  <2>5. Answered(q)' BY <2>3 DEF Answered
  <2>6. \A r : r # q /\ AnswerDue(r) => AnswerDue(r)'
    <3>1. \A i \in 1..Len(approved) : i > approvedPos => i = approvedPos + 1 \/ i > approvedPos'
      BY <1>0, <2>1
    <3>. QED BY <2>1, <3>1 DEF AnswerDue
  <2>7. IntentHeld'
    <3>1. ElementsOf(intents)' = ElementsOf(intents) BY <2>1 DEF ElementsOf
    <3>. QED BY <1>0, <2>4, <2>5, <2>6, <3>1 DEF AnswerInv, IntentHeld
  <2>8. SignedForOne'
    <3>1. /\ Len(signed') = Len(signed) + 1 /\ signed'[Len(signed) + 1] = p
          /\ \A i \in 1..Len(signed) : signed'[i] = signed[i]
      BY <1>0, <2>1
    <3>2. 1..Len(signed') = 1..Len(signed) \cup {Len(signed) + 1} BY <1>0, <3>1
    <3>3. ElementsOf(signed)' = ElementsOf(signed) \cup {p}
      BY <3>1, <3>2 DEF ElementsOf
    <3>. QED BY <2>3, <3>3 DEF AnswerInv, SignedForOne
  <2>. QED BY <2>7, <2>8 DEF AnswerInv
<1>5. CASE SignIsSkipped
  <2>1. happened' \cap Unanswering # {}
    BY <1>5, FaultHappens DEF SignIsSkipped, Unanswering
  <2>2. SignedForOne'
    BY <1>5 DEF SignIsSkipped, topicVars, AnswerInv, SignedForOne, ElementsOf
  <2>. QED BY <2>1, <2>2 DEF AnswerInv, IntentHeld
<1>6. CASE ServiceCrash
  <2>1. /\ approvedPos' \in 0..approvedPos
        /\ UNCHANGED <<intents, intentPos, rejected, approved, signed, signedFor>>
    BY <1>6 DEF ServiceCrash, topicVars, checkVars
  <2>2. \A i \in 1..Len(approved) : i > approvedPos => i > approvedPos' BY <1>0, <2>1
  <2>3. \A r : AnswerDue(r) => AnswerDue(r)' BY <2>1, <2>2 DEF AnswerDue
  <2>4. \A r : Answered(r)' <=> Answered(r) BY <2>1 DEF Answered
  <2>5. IntentHeld'
    BY <1>0, <2>1, <2>3, <2>4 DEF AnswerInv, IntentHeld, ElementsOf
  <2>6. SignedForOne' BY <2>1 DEF AnswerInv, SignedForOne, ElementsOf
  <2>. QED BY <2>5, <2>6 DEF AnswerInv
<1>7. CASE \E p \in Paths : Upload(p) \/ UrlLapses(p) \/ Receive(p) \/ OnTimer(p)
  BY <1>0, <1>7, AnswerFrame
     DEF Upload, UrlLapses, Receive, OnTimer, topicVars, checkVars, serviceVars
<1>8. CASE ProcessElement1 \/ ProcessElement2 \/ TtlRestart
  BY <1>0, <1>8, AnswerFrame
     DEF ProcessElement1, ProcessElement2, TtlRestart, topicVars, checkVars, serviceVars
<1>9. CASE SignupBonus \/ Refund \/ BalanceRestart
  BY <1>0, <1>9, AnswerFrame
     DEF SignupBonus, Refund, BalanceRestart, topicVars, checkVars, serviceVars
<1>. QED BY <1>1, <1>2, <1>3, <1>4, <1>5, <1>6, <1>7, <1>8, <1>9 DEF Next

\* No intent is stuck: unless the media-service dropped its approval, one that
\* was neither rejected nor signed is still to be read by the check or by the
\* media-service, through every raise, restart and crash.
THEOREM NoIntentStuck ==
    Spec => [](happened \cap Unanswering = {} =>
                   \A r \in ElementsOf(intents) : Answered(r) \/ AnswerDue(r))
<1>1. Init => AnswerInv
  BY DEF Init, AnswerInv, IntentHeld, SignedForOne, ElementsOf
<1>2. TypeOK /\ AnswerInv /\ [Next]_vars => AnswerInv'
  <2>. SUFFICES ASSUME TypeOK, AnswerInv, [Next]_vars PROVE AnswerInv' OBVIOUS
  <2>1. CASE UNCHANGED vars
    BY <2>1, AnswerFrame DEF vars, topicVars, checkVars, serviceVars, faultVars
  <2>. QED BY <2>1, AnswerStep
<1>3. AnswerInv => (happened \cap Unanswering = {} =>
                        \A r \in ElementsOf(intents) : Answered(r) \/ AnswerDue(r))
  BY DEF AnswerInv, IntentHeld
<1>. QED BY <1>1, <1>2, <1>3, CreditTypeCorrect, PTL DEF Spec
=============================================================================
