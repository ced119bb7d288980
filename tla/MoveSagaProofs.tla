--------------------------- MODULE MoveSagaProofs ---------------------------
(***************************************************************************)
(* Proofs about MoveSaga, for every set of paths, every MAX_RETRIES > 0,   *)
(* every set of failure kinds and every number of failures.                *)
(***************************************************************************)
EXTENDS MoveSaga, TLAPS

(***************************************************************************)
(* The inductive invariant.  The properties are not inductive alone: that  *)
(* a confirmed or dead-lettered object is under files/ follows from every  *)
(* trace a finished copy leaves on its way through MinIO's queue, the      *)
(* topics, the retry handler and the job's state.                          *)
(***************************************************************************)

\* RetryBounded, and the counts on their way between the topics.
CountsBounded ==
    /\ RetryBounded
    /\ \A p \in Paths : receivedState[p] <= MAX_RETRIES
    /\ retrier # Idle => retrier.retry_count < MAX_RETRIES

\* A mover or handler past its copy has made the copy.
MoverIsStored ==
    /\ \A p \in Paths : removing[p] > 0 => p \in stored
    /\ retrier # Idle /\ retrier.phase # "move" => retrier.path \in stored

\* file.ready, from MinIO's queue to the job's state, follows a copy.
ReadyIsStored ==
    \A p \in Paths :
        readyHooks[p] > 0 \/ ready[p] > 0 \/ readyState[p] => p \in stored

\* A positive retry_count follows a copy.
RetriedIsStored ==
    \A p \in Paths :
        /\ \A i \in 1..Len(received[p]) : received[p][i] > 0 => p \in stored
        /\ receivedState[p] > 0 => p \in stored

OutcomeIsStored == ConfirmedIsStored /\ DeadLetterIsStored

\* NoFileLost; only an uploaded object exists anywhere.
ObjectsKept ==
    /\ NoFileLost
    /\ staged \subseteq uploaded /\ stored \subseteq uploaded

IInv ==
    /\ TypeOK
    /\ CountsBounded
    /\ MoverIsStored
    /\ ReadyIsStored
    /\ RetriedIsStored
    /\ OutcomeIsStored
    /\ ObjectsKept
    /\ NeverBothPending

-----------------------------------------------------------------------------
\* The variables have their types in every reachable state, in particular the
\* offsets of the consumers stay within their topics and the committed offset
\* within the position.
LEMMA TypeInit == Init => TypeOK
BY MoveSagaAssumption
   DEF Init, TypeOK, StoreOK, ServiceOK, TopicsOK, RetrierOK, GroupOK, JobOK,
       OutcomesOK, Counts, NoEvent, Idle

\* What the check for a fast confirmation leaves in the key's state is typed.
LEMMA FastConfirmTypes ==
    ASSUME TypeOK,
           NEW p \in Paths, NEW event \in Nat \cup {NoEvent}, NEW isReady \in BOOLEAN,
           CheckFastConfirm(p, event, isReady)
    PROVE  /\ receivedState' \in [Paths -> Nat \cup {NoEvent}]
           /\ readyState' \in [Paths -> BOOLEAN]
           /\ confirmed' \in Counts
<1> USE DEF TypeOK, JobOK, OutcomesOK, Counts
<1>1. CASE BothPresent(event, isReady)
  <2>1. confirmed' = Inc(confirmed, p) /\ Clear(p)
    BY <1>1 DEF CheckFastConfirm
  <2>2. confirmed' \in Counts
    BY <2>1 DEF Inc
  <2>3. receivedState' \in [Paths -> Nat \cup {NoEvent}]
    BY <2>1 DEF Clear
  <2>4. readyState' \in [Paths -> BOOLEAN]
    BY <2>1 DEF Clear
  <2> QED
    BY <2>2, <2>3, <2>4
<1>2. CASE ~BothPresent(event, isReady)
  BY <1>2 DEF CheckFastConfirm
<1> QED
  BY <1>1, <1>2

LEMMA TypeStep == TypeOK /\ [Next]_vars => TypeOK'
<1> SUFFICES ASSUME TypeOK, [Next]_vars PROVE TypeOK'
  OBVIOUS
<1> USE MoveSagaAssumption
    DEF TypeOK, storeVars, hookVars, moverVars, groupVars, topicVars, flinkVars,
        outcomeVars, faultVars
<1>1. CASE UNCHANGED vars
  <2> USE <1>1 DEF vars
  <2>1. (StoreOK /\ ServiceOK /\ TopicsOK /\ RetrierOK)'
    BY DEF StoreOK, ServiceOK, TopicsOK, RetrierOK
  <2>2. (GroupOK /\ JobOK /\ OutcomesOK)'
    BY DEF GroupOK, JobOK, OutcomesOK
  <2> QED
    BY <2>1, <2>2
<1>2. CASE ServiceCrash
  <2> USE <1>2 DEF ServiceCrash
  <2>1. ServiceOK'
    BY DEF ServiceOK, Counts
  <2>2. RetrierOK'
    BY DEF RetrierOK
  <2>3. GroupOK'
    BY DEF GroupOK, Counts
  <2>4. OutcomesOK'
    BY DEF OutcomesOK, Fault
  <2>5. (StoreOK /\ TopicsOK /\ JobOK)'
    BY DEF StoreOK, TopicsOK, JobOK
  <2> QED
    BY <2>1, <2>2, <2>3, <2>4, <2>5
<1>3. CASE FlinkRestart
  <2> USE <1>3 DEF FlinkRestart
  <2>1. JobOK'
    BY DEF JobOK, TopicsOK, NoEvent, Counts
  <2>2. OutcomesOK'
    BY DEF OutcomesOK, Fault
  <2>3. (StoreOK /\ ServiceOK /\ TopicsOK /\ RetrierOK /\ GroupOK)'
    BY DEF StoreOK, ServiceOK, TopicsOK, RetrierOK, GroupOK
  <2> QED
    BY <2>1, <2>2, <2>3
<1>4. ASSUME NEW p \in Paths, PathStep(p) PROVE TypeOK'
  <2>1. CASE Upload(p)
    <3> USE <2>1 DEF Upload
    <3>1. StoreOK'
      BY DEF StoreOK
    <3>2. ServiceOK'
      BY DEF ServiceOK, Inc, Counts
    <3>3. (TopicsOK /\ RetrierOK /\ GroupOK /\ JobOK /\ OutcomesOK)'
      BY DEF TopicsOK, RetrierOK, GroupOK, JobOK, OutcomesOK
    <3> QED
      BY <3>1, <3>2, <3>3
  <2>2. CASE UploadWebhook(p)
    <3> USE <2>2 DEF UploadWebhook
    <3>1. ServiceOK'
      BY DEF ServiceOK, Inc, Dec, Counts
    <3>2. TopicsOK'
      BY DEF TopicsOK
    <3>3. JobOK'
      BY DEF JobOK, TopicsOK, Counts
    <3>4. (StoreOK /\ RetrierOK /\ GroupOK /\ OutcomesOK)'
      BY DEF StoreOK, RetrierOK, GroupOK, OutcomesOK
    <3> QED
      BY <3>1, <3>2, <3>3, <3>4
  <2>3. CASE UploadWebhookRepeats(p)
    <3> USE <2>3 DEF UploadWebhookRepeats
    <3>1. ServiceOK'
      BY DEF ServiceOK, Inc, Counts
    <3>2. TopicsOK'
      BY DEF TopicsOK
    <3>3. JobOK'
      BY DEF JobOK, TopicsOK, Counts
    <3>4. OutcomesOK'
      BY DEF OutcomesOK, Fault
    <3>5. (StoreOK /\ RetrierOK /\ GroupOK)'
      BY DEF StoreOK, RetrierOK, GroupOK
    <3> QED
      BY <3>1, <3>2, <3>3, <3>4, <3>5
  <2>4. CASE FileReadyWebhook(p)
    <3> USE <2>4 DEF FileReadyWebhook
    <3>1. ServiceOK'
      BY DEF ServiceOK, Dec, Counts
    <3>2. TopicsOK'
      BY DEF TopicsOK, Inc, Counts
    <3>3. JobOK'
      BY DEF JobOK, TopicsOK, Inc, Counts
    <3>4. (StoreOK /\ RetrierOK /\ GroupOK /\ OutcomesOK)'
      BY DEF StoreOK, RetrierOK, GroupOK, OutcomesOK
    <3> QED
      BY <3>1, <3>2, <3>3, <3>4
  <2>5. CASE FileReadyWebhookRepeats(p)
    <3> USE <2>5 DEF FileReadyWebhookRepeats
    <3>1. TopicsOK'
      BY DEF TopicsOK, Inc, Counts
    <3>2. JobOK'
      BY DEF JobOK, TopicsOK, Inc, Counts
    <3>3. OutcomesOK'
      BY DEF OutcomesOK, Fault
    <3>4. (StoreOK /\ ServiceOK /\ RetrierOK /\ GroupOK)'
      BY DEF StoreOK, ServiceOK, RetrierOK, GroupOK
    <3> QED
      BY <3>1, <3>2, <3>3, <3>4
  <2>6. CASE MoverCopy(p)
    <3> USE <2>6 DEF MoverCopy, CopyObject
    <3>1. StoreOK'
      BY DEF StoreOK
    <3>2. ServiceOK'
      BY DEF ServiceOK, Inc, Dec, Counts
    <3>3. (TopicsOK /\ RetrierOK /\ GroupOK /\ JobOK /\ OutcomesOK)'
      BY DEF TopicsOK, RetrierOK, GroupOK, JobOK, OutcomesOK
    <3> QED
      BY <3>1, <3>2, <3>3
  <2>7. CASE MoverCopyFails(p)
    <3> USE <2>7 DEF MoverCopyFails, CopyObject, AfterFailedCopy
    <3>1. StoreOK'
      BY DEF StoreOK
    <3>2. ServiceOK'
      BY DEF ServiceOK, Inc, Dec, Counts
    <3>3. OutcomesOK'
      BY DEF OutcomesOK, Fault
    <3>4. (TopicsOK /\ RetrierOK /\ GroupOK /\ JobOK)'
      BY DEF TopicsOK, RetrierOK, GroupOK, JobOK
    <3> QED
      BY <3>1, <3>2, <3>3, <3>4
  <2>8. CASE MoverRemove(p)
    <3> USE <2>8 DEF MoverRemove
    <3>1. StoreOK'
      BY DEF StoreOK
    <3>2. ServiceOK'
      BY DEF ServiceOK, Dec, Counts
    <3>3. OutcomesOK'
      BY DEF OutcomesOK, Fault
    <3>4. (TopicsOK /\ RetrierOK /\ GroupOK /\ JobOK)'
      BY DEF TopicsOK, RetrierOK, GroupOK, JobOK
    <3> QED
      BY <3>1, <3>2, <3>3, <3>4
  <2>9. CASE PollRetry(p)
    <3> USE <2>9 DEF PollRetry
    <3>1. RetrierOK'
      BY DEF RetrierOK, TopicsOK, GroupOK, Counts
    <3>2. GroupOK'
      BY DEF GroupOK, TopicsOK, Inc, Counts
    <3>3. (StoreOK /\ ServiceOK /\ TopicsOK /\ JobOK /\ OutcomesOK)'
      BY DEF StoreOK, ServiceOK, TopicsOK, JobOK, OutcomesOK
    <3> QED
      BY <3>1, <3>2, <3>3
  <2>10. CASE PollRetryFails(p)
    <3> USE <2>10 DEF PollRetryFails
    <3>1. GroupOK'
      BY DEF GroupOK, TopicsOK, Inc, Counts
    <3>2. OutcomesOK'
      BY DEF OutcomesOK, Fault
    <3>3. (StoreOK /\ ServiceOK /\ TopicsOK /\ RetrierOK /\ JobOK)'
      BY DEF StoreOK, ServiceOK, TopicsOK, RetrierOK, JobOK
    <3> QED
      BY <3>1, <3>2, <3>3
  <2>11. CASE CommitRetry(p)
    <3> USE <2>11 DEF CommitRetry, CommitOffset
    <3>1. GroupOK'
      BY DEF GroupOK, TopicsOK, Counts
    <3>2. (StoreOK /\ ServiceOK /\ TopicsOK /\ RetrierOK /\ JobOK /\ OutcomesOK)'
      BY DEF StoreOK, ServiceOK, TopicsOK, RetrierOK, JobOK, OutcomesOK
    <3> QED
      BY <3>1, <3>2
  <2>12. CASE RetryMove(p)
    <3> USE <2>12 DEF RetryMove, CopyObject, Handling, AfterMoveError
    <3>1. StoreOK'
      BY DEF StoreOK
    <3>2. ServiceOK'
      BY DEF ServiceOK, Inc, Counts
    <3>3. RetrierOK'
      BY DEF RetrierOK, Idle
    <3>4. (TopicsOK /\ GroupOK /\ JobOK /\ OutcomesOK)'
      BY DEF TopicsOK, GroupOK, JobOK, OutcomesOK
    <3> QED
      BY <3>1, <3>2, <3>3, <3>4
  <2>13. CASE RetryMoveFails(p)
    <3> USE <2>13 DEF RetryMoveFails, CopyObject, Handling, AfterMoveError
    <3>1. StoreOK'
      BY DEF StoreOK
    <3>2. ServiceOK'
      BY DEF ServiceOK, Inc, Counts
    <3>3. RetrierOK'
      BY DEF RetrierOK
    <3>4. OutcomesOK'
      BY DEF OutcomesOK, Fault
    <3>5. (TopicsOK /\ GroupOK /\ JobOK)'
      BY DEF TopicsOK, GroupOK, JobOK
    <3> QED
      BY <3>1, <3>2, <3>3, <3>4, <3>5
  <2>14. CASE RetryRemove(p)
    <3> USE <2>14 DEF RetryRemove, Handling
    <3>1. StoreOK'
      BY DEF StoreOK
    <3>2. RetrierOK'
      BY DEF RetrierOK, Idle
    <3>3. OutcomesOK'
      BY DEF OutcomesOK, Fault
    <3>4. (ServiceOK /\ TopicsOK /\ GroupOK /\ JobOK)'
      BY DEF ServiceOK, TopicsOK, GroupOK, JobOK
    <3> QED
      BY <3>1, <3>2, <3>3, <3>4
  <2>15. CASE RetryProduce(p)
    <3>1. retrier.retry_count + 1 \in Nat
      BY <2>15 DEF RetryProduce, Handling, RetrierOK, Idle
    <3>2. received' = [received EXCEPT ![p] = Append(@, retrier.retry_count + 1)]
      BY <2>15 DEF RetryProduce, NextRetryCount
    <3>3. \A q \in Paths : received'[q] \in Seq(Nat) /\ Len(received[q]) <= Len(received'[q])
      BY <3>1, <3>2 DEF TopicsOK
    <3>4. /\ retrier' = Idle
          /\ UNCHANGED <<storeVars, hookVars, moverVars, retryPos, retryCommitted, ready,
                         retry, flinkVars, outcomeVars, faultVars>>
      BY <2>15 DEF RetryProduce
    <3>5. TopicsOK'
      BY <3>1, <3>2, <3>4 DEF TopicsOK
    <3>6. RetrierOK'
      BY <3>4 DEF RetrierOK
    <3>7. JobOK'
      BY <3>3, <3>4 DEF JobOK, TopicsOK, Counts
    <3>8. (StoreOK /\ ServiceOK /\ GroupOK /\ OutcomesOK)'
      BY <3>4 DEF StoreOK, ServiceOK, GroupOK, OutcomesOK
    <3> QED
      BY <3>5, <3>6, <3>7, <3>8
  <2>16. CASE RetryProduceFails(p)
    <3> USE <2>16 DEF RetryProduceFails
    <3>1. RetrierOK'
      BY DEF RetrierOK
    <3>2. OutcomesOK'
      BY DEF OutcomesOK, Fault
    <3>3. (StoreOK /\ ServiceOK /\ TopicsOK /\ GroupOK /\ JobOK)'
      BY DEF StoreOK, ServiceOK, TopicsOK, GroupOK, JobOK
    <3> QED
      BY <3>1, <3>2, <3>3
  <2>17. CASE ExpiredCleanup(p)
    <3> USE <2>17 DEF ExpiredCleanup
    <3>1. StoreOK'
      BY DEF StoreOK
    <3>2. OutcomesOK'
      BY DEF OutcomesOK, Fault
    <3>3. (ServiceOK /\ TopicsOK /\ RetrierOK /\ GroupOK /\ JobOK)'
      BY DEF ServiceOK, TopicsOK, RetrierOK, GroupOK, JobOK
    <3> QED
      BY <3>1, <3>2, <3>3
  <2>18. CASE ProcessElement1(p)
    <3> USE <2>18 DEF ProcessElement1
    <3> DEFINE event == received[p][receivedPos[p] + 1]
    <3>1. event \in Nat /\ readyState[p] \in BOOLEAN
      BY DEF TopicsOK, JobOK, Counts
    <3>2. CheckFastConfirm(p, event, readyState[p])
      OBVIOUS
    <3> HIDE DEF event
    <3>3. /\ receivedState' \in [Paths -> Nat \cup {NoEvent}]
          /\ readyState' \in [Paths -> BOOLEAN]
          /\ confirmed' \in Counts
      BY <3>1, <3>2, FastConfirmTypes
    <3>4. receivedPos' \in Counts /\ receivedPos'[p] <= Len(received[p])
      BY DEF JobOK, TopicsOK, Inc, Counts
    <3>5. timers' \in Counts
      BY DEF RegisterTimer, JobOK, Inc, Counts
    <3>6. JobOK'
      BY <3>3, <3>4, <3>5 DEF JobOK, Inc, Counts
    <3>7. OutcomesOK'
      BY <3>3 DEF OutcomesOK
    <3>8. (StoreOK /\ ServiceOK /\ TopicsOK /\ RetrierOK /\ GroupOK)'
      BY DEF StoreOK, ServiceOK, TopicsOK, RetrierOK, GroupOK
    <3> QED
      BY <3>6, <3>7, <3>8
  <2>19. CASE ProcessElement2(p)
    <3> USE <2>19 DEF ProcessElement2
    <3>1. receivedState[p] \in Nat \cup {NoEvent}
      BY DEF JobOK
    <3>2. /\ receivedState' \in [Paths -> Nat \cup {NoEvent}]
          /\ readyState' \in [Paths -> BOOLEAN]
          /\ confirmed' \in Counts
      BY <3>1, FastConfirmTypes
    <3>3. readyPos' \in Counts /\ readyPos'[p] <= ready[p]
      BY DEF JobOK, TopicsOK, Inc, Counts
    <3>4. JobOK'
      BY <3>2, <3>3 DEF JobOK, Inc, Counts
    <3>5. OutcomesOK'
      BY <3>2 DEF OutcomesOK
    <3>6. (StoreOK /\ ServiceOK /\ TopicsOK /\ RetrierOK /\ GroupOK)'
      BY DEF StoreOK, ServiceOK, TopicsOK, RetrierOK, GroupOK
    <3> QED
      BY <3>4, <3>5, <3>6
  <2>20. CASE OnTimer(p)
    <3> USE <2>20 DEF OnTimer, Clear, BothPresent
    <3>1. TopicsOK'
      BY DEF TopicsOK, JobOK, NoEvent
    <3>2. GroupOK'
      BY DEF GroupOK, TopicsOK, JobOK, NoEvent, Counts
    <3>3. JobOK'
      BY DEF JobOK, NoEvent, Dec, Counts
    <3>4. OutcomesOK'
      BY DEF OutcomesOK, Inc, Counts
    <3>5. (StoreOK /\ ServiceOK /\ RetrierOK)'
      BY DEF StoreOK, ServiceOK, RetrierOK
    <3> QED
      BY <3>1, <3>2, <3>3, <3>4, <3>5
  <2> QED
    BY <1>4, <2>1, <2>2, <2>3, <2>4, <2>5, <2>6, <2>7, <2>8, <2>9, <2>10,
       <2>11, <2>12, <2>13, <2>14, <2>15, <2>16, <2>17, <2>18, <2>19, <2>20
       DEF PathStep
<1> QED
  BY <1>1, <1>2, <1>3, <1>4 DEF Next

THEOREM TypeCorrect == Spec => []TypeOK
<1> QED
  BY TypeInit, TypeStep, PTL DEF Spec
LEMMA InvInit == Init => IInv
<1> SUFFICES ASSUME Init PROVE IInv
  OBVIOUS
<1>1. TypeOK
  BY TypeInit
<1>2. CountsBounded /\ ReadyIsStored /\ RetriedIsStored
  BY MoveSagaAssumption
     DEF Init, CountsBounded, RetryBounded, ReadyIsStored, RetriedIsStored, NoEvent, Idle
<1>3. MoverIsStored /\ OutcomeIsStored /\ ObjectsKept /\ NeverBothPending
  BY DEF Init, MoverIsStored, OutcomeIsStored, ConfirmedIsStored, DeadLetterIsStored,
         ObjectsKept, NoFileLost, NeverBothPending, BothPresent, NoEvent, Idle
<1> QED
  BY <1>1, <1>2, <1>3 DEF IInv

\* The check for a fast confirmation keeps the invariant when the event and
\* the flag that it is given do.
LEMMA FastConfirmInv ==
    ASSUME IInv,
           NEW p \in Paths, NEW event \in Nat \cup {NoEvent}, NEW isReady \in BOOLEAN,
           event <= MAX_RETRIES, event > 0 \/ isReady => p \in stored,
           CheckFastConfirm(p, event, isReady),
           UNCHANGED <<stored, received, readyHooks, ready, deadLettered>>,
           (RetryBounded /\ (retrier # Idle => retrier.retry_count < MAX_RETRIES))',
           (MoverIsStored /\ ObjectsKept)'
    PROVE  (CountsBounded /\ MoverIsStored /\ ReadyIsStored /\ RetriedIsStored
            /\ OutcomeIsStored /\ ObjectsKept /\ NeverBothPending)'
<1> USE MoveSagaAssumption DEF IInv, TypeOK, JobOK, OutcomesOK, Counts
<1>1. CASE BothPresent(event, isReady)
  <2>1. /\ receivedState' = [receivedState EXCEPT ![p] = NoEvent]
        /\ readyState' = [readyState EXCEPT ![p] = FALSE]
        /\ confirmed' = [confirmed EXCEPT ![p] = @ + 1]
        /\ p \in stored
    BY <1>1 DEF CheckFastConfirm, BothPresent, Clear, Inc
  <2>2. CountsBounded'
    BY <2>1 DEF CountsBounded, NoEvent
  <2>3. ReadyIsStored' /\ RetriedIsStored'
    BY <2>1 DEF ReadyIsStored, RetriedIsStored, NoEvent
  <2>4. OutcomeIsStored'
    BY <2>1 DEF OutcomeIsStored, ConfirmedIsStored, DeadLetterIsStored
  <2>5. NeverBothPending'
    BY <2>1 DEF NeverBothPending, BothPresent
  <2> QED
    BY <2>2, <2>3, <2>4, <2>5
<1>2. CASE ~BothPresent(event, isReady)
  <2>1. /\ receivedState' = [receivedState EXCEPT ![p] = event]
        /\ readyState' = [readyState EXCEPT ![p] = isReady]
        /\ confirmed' = confirmed
    BY <1>2 DEF CheckFastConfirm
  <2>2. CountsBounded'
    BY <2>1 DEF CountsBounded
  <2>3. ReadyIsStored' /\ RetriedIsStored'
    BY <2>1 DEF ReadyIsStored, RetriedIsStored
  <2>4. OutcomeIsStored'
    BY <2>1 DEF OutcomeIsStored, ConfirmedIsStored, DeadLetterIsStored
  <2>5. NeverBothPending'
    BY <1>2, <2>1 DEF NeverBothPending, BothPresent
  <2> QED
    BY <2>2, <2>3, <2>4, <2>5
<1> QED
  BY <1>1, <1>2

LEMMA InvStep == IInv /\ [Next]_vars => IInv'
<1> SUFFICES ASSUME IInv, [Next]_vars PROVE IInv'
  OBVIOUS
<1>0. TypeOK'
  BY TypeStep DEF IInv
<1> SUFFICES (CountsBounded /\ MoverIsStored /\ ReadyIsStored /\ RetriedIsStored
              /\ OutcomeIsStored /\ ObjectsKept /\ NeverBothPending)'
  BY <1>0 DEF IInv
<1> USE MoveSagaAssumption
    DEF IInv, TypeOK, storeVars, hookVars, moverVars, groupVars, topicVars,
        flinkVars, outcomeVars, faultVars
<1>1. CASE UNCHANGED vars
  BY <1>1
     DEF vars, CountsBounded, RetryBounded, MoverIsStored, ReadyIsStored,
         RetriedIsStored, OutcomeIsStored, ConfirmedIsStored, DeadLetterIsStored,
         ObjectsKept, NoFileLost, NeverBothPending, BothPresent
<1>2. CASE ServiceCrash
  <2> USE <1>2 DEF ServiceCrash
  <2>1. CountsBounded'
    BY DEF CountsBounded, RetryBounded
  <2>2. MoverIsStored'
    BY DEF MoverIsStored
  <2>3. (ReadyIsStored /\ RetriedIsStored /\ OutcomeIsStored /\ ObjectsKept /\ NeverBothPending)'
    BY DEF ReadyIsStored, RetriedIsStored, OutcomeIsStored, ConfirmedIsStored, DeadLetterIsStored, ObjectsKept, NoFileLost, NeverBothPending, BothPresent
  <2> QED
    BY <2>1, <2>2, <2>3
<1>3. CASE FlinkRestart
  <2> USE <1>3 DEF FlinkRestart
  <2>1. CountsBounded'
    BY DEF CountsBounded, RetryBounded, NoEvent
  <2>2. ReadyIsStored'
    BY DEF ReadyIsStored, NoEvent
  <2>3. RetriedIsStored'
    BY DEF RetriedIsStored, NoEvent
  <2>4. NeverBothPending'
    BY DEF NeverBothPending, NoEvent, BothPresent
  <2>5. (MoverIsStored /\ OutcomeIsStored /\ ObjectsKept)'
    BY DEF MoverIsStored, OutcomeIsStored, ConfirmedIsStored, DeadLetterIsStored, ObjectsKept, NoFileLost
  <2> QED
    BY <2>1, <2>2, <2>3, <2>4, <2>5
<1>4. ASSUME NEW p \in Paths, PathStep(p)
      PROVE  (CountsBounded /\ MoverIsStored /\ ReadyIsStored /\ RetriedIsStored
              /\ OutcomeIsStored /\ ObjectsKept /\ NeverBothPending)'
  <2>1. CASE Upload(p)
    <3> USE <2>1 DEF Upload
    <3>1. ObjectsKept'
      BY DEF ObjectsKept, NoFileLost
    <3>2. (CountsBounded /\ MoverIsStored /\ ReadyIsStored /\ RetriedIsStored /\ OutcomeIsStored /\ NeverBothPending)'
      BY DEF CountsBounded, RetryBounded, MoverIsStored, ReadyIsStored, RetriedIsStored, OutcomeIsStored, ConfirmedIsStored, DeadLetterIsStored, NeverBothPending, BothPresent
    <3> QED
      BY <3>1, <3>2
  <2>2. CASE UploadWebhook(p)
    <3> USE <2>2 DEF UploadWebhook
    <3>1. CountsBounded'
      BY DEF CountsBounded, RetryBounded, TopicsOK
    <3>2. RetriedIsStored'
      BY DEF RetriedIsStored, TopicsOK
    <3>3. (MoverIsStored /\ ReadyIsStored /\ OutcomeIsStored /\ ObjectsKept /\ NeverBothPending)'
      BY DEF MoverIsStored, ReadyIsStored, OutcomeIsStored, ConfirmedIsStored, DeadLetterIsStored, ObjectsKept, NoFileLost, NeverBothPending, BothPresent
    <3> QED
      BY <3>1, <3>2, <3>3
  <2>3. CASE UploadWebhookRepeats(p)
    <3> USE <2>3 DEF UploadWebhookRepeats
    <3>1. CountsBounded'
      BY DEF CountsBounded, RetryBounded, TopicsOK
    <3>2. RetriedIsStored'
      BY DEF RetriedIsStored, TopicsOK
    <3>3. (MoverIsStored /\ ReadyIsStored /\ OutcomeIsStored /\ ObjectsKept /\ NeverBothPending)'
      BY DEF MoverIsStored, ReadyIsStored, OutcomeIsStored, ConfirmedIsStored, DeadLetterIsStored, ObjectsKept, NoFileLost, NeverBothPending, BothPresent
    <3> QED
      BY <3>1, <3>2, <3>3
  <2>4. CASE FileReadyWebhook(p)
    <3> USE <2>4 DEF FileReadyWebhook
    <3>1. ReadyIsStored'
      BY DEF ReadyIsStored, ServiceOK, TopicsOK, Inc, Dec, Counts
    <3>2. (CountsBounded /\ MoverIsStored /\ RetriedIsStored /\ OutcomeIsStored /\ ObjectsKept /\ NeverBothPending)'
      BY DEF CountsBounded, RetryBounded, MoverIsStored, RetriedIsStored, OutcomeIsStored, ConfirmedIsStored, DeadLetterIsStored, ObjectsKept, NoFileLost, NeverBothPending, BothPresent
    <3> QED
      BY <3>1, <3>2
  <2>5. CASE FileReadyWebhookRepeats(p)
    <3> USE <2>5 DEF FileReadyWebhookRepeats
    <3>1. ReadyIsStored'
      BY DEF ReadyIsStored, ServiceOK, TopicsOK, Inc, Counts
    <3>2. (CountsBounded /\ MoverIsStored /\ RetriedIsStored /\ OutcomeIsStored /\ ObjectsKept /\ NeverBothPending)'
      BY DEF CountsBounded, RetryBounded, MoverIsStored, RetriedIsStored, OutcomeIsStored, ConfirmedIsStored, DeadLetterIsStored, ObjectsKept, NoFileLost, NeverBothPending, BothPresent
    <3> QED
      BY <3>1, <3>2
  <2>6. CASE MoverCopy(p)
    <3> USE <2>6 DEF MoverCopy, CopyObject
    <3>1. MoverIsStored'
      BY DEF MoverIsStored, StoreOK, ServiceOK, Inc, Counts
    <3>2. ReadyIsStored'
      BY DEF ReadyIsStored, StoreOK, ServiceOK, Inc, Counts
    <3>3. RetriedIsStored'
      BY DEF RetriedIsStored, StoreOK, ServiceOK, Inc, Counts
    <3>4. OutcomeIsStored'
      BY DEF OutcomeIsStored, ConfirmedIsStored, DeadLetterIsStored, StoreOK, ServiceOK, Inc, Counts
    <3>5. ObjectsKept'
      BY DEF ObjectsKept, NoFileLost, StoreOK, ServiceOK, Inc, Counts
    <3>6. (CountsBounded /\ NeverBothPending)'
      BY DEF CountsBounded, RetryBounded, NeverBothPending, BothPresent
    <3> QED
      BY <3>1, <3>2, <3>3, <3>4, <3>5, <3>6
  <2>7. CASE MoverCopyFails(p)
    <3> USE <2>7 DEF MoverCopyFails, CopyObject, AfterFailedCopy
    <3>1. MoverIsStored'
      BY DEF MoverIsStored, StoreOK, ServiceOK, Inc, Counts
    <3>2. ReadyIsStored'
      BY DEF ReadyIsStored, StoreOK, ServiceOK, Inc, Counts
    <3>3. RetriedIsStored'
      BY DEF RetriedIsStored, StoreOK, ServiceOK, Inc, Counts
    <3>4. OutcomeIsStored'
      BY DEF OutcomeIsStored, ConfirmedIsStored, DeadLetterIsStored, StoreOK, ServiceOK, Inc, Counts
    <3>5. ObjectsKept'
      BY DEF ObjectsKept, NoFileLost, StoreOK, ServiceOK, Inc, Counts
    <3>6. (CountsBounded /\ NeverBothPending)'
      BY DEF CountsBounded, RetryBounded, NeverBothPending, BothPresent
    <3> QED
      BY <3>1, <3>2, <3>3, <3>4, <3>5, <3>6
  <2>8. CASE MoverRemove(p)
    <3> USE <2>8 DEF MoverRemove
    <3>1. MoverIsStored'
      BY DEF MoverIsStored, ServiceOK, Dec, Counts
    <3>2. ObjectsKept'
      BY DEF ObjectsKept, NoFileLost, MoverIsStored
    <3>3. (CountsBounded /\ NeverBothPending)'
      BY DEF CountsBounded, RetryBounded, NeverBothPending, BothPresent
    <3>4. (ReadyIsStored /\ RetriedIsStored /\ OutcomeIsStored)'
      BY DEF ReadyIsStored, RetriedIsStored, OutcomeIsStored, ConfirmedIsStored, DeadLetterIsStored
    <3> QED
      BY <3>1, <3>2, <3>3, <3>4
  <2>9. CASE PollRetry(p)
    <3> USE <2>9 DEF PollRetry
    <3>1. retryPos[p] + 1 \in 1..Len(retry[p])
      BY DEF TopicsOK, GroupOK, Counts
    <3>2. CountsBounded'
      BY <3>1 DEF CountsBounded, RetryBounded
    <3>3. MoverIsStored'
      BY DEF MoverIsStored
    <3>4. (ReadyIsStored /\ RetriedIsStored /\ OutcomeIsStored /\ ObjectsKept /\ NeverBothPending)'
      BY DEF ReadyIsStored, RetriedIsStored, OutcomeIsStored, ConfirmedIsStored, DeadLetterIsStored, ObjectsKept, NoFileLost, NeverBothPending, BothPresent
    <3> QED
      BY <3>2, <3>3, <3>4
  <2>10. CASE PollRetryFails(p)
    <3> USE <2>10 DEF PollRetryFails
    <3>1. (CountsBounded /\ MoverIsStored /\ ReadyIsStored /\ RetriedIsStored /\ OutcomeIsStored /\ ObjectsKept /\ NeverBothPending)'
      BY DEF CountsBounded, RetryBounded, MoverIsStored, ReadyIsStored, RetriedIsStored, OutcomeIsStored, ConfirmedIsStored, DeadLetterIsStored, ObjectsKept, NoFileLost, NeverBothPending, BothPresent
    <3> QED
      BY <3>1
  <2>11. CASE CommitRetry(p)
    <3> USE <2>11 DEF CommitRetry
    <3>1. (CountsBounded /\ MoverIsStored /\ ReadyIsStored /\ RetriedIsStored /\ OutcomeIsStored /\ ObjectsKept /\ NeverBothPending)'
      BY DEF CountsBounded, RetryBounded, MoverIsStored, ReadyIsStored, RetriedIsStored, OutcomeIsStored, ConfirmedIsStored, DeadLetterIsStored, ObjectsKept, NoFileLost, NeverBothPending, BothPresent
    <3> QED
      BY <3>1
  <2>12. CASE RetryMove(p)
    <3> USE <2>12 DEF RetryMove, CopyObject, Handling, AfterMoveError, MoveReturnsNil, AlreadyMoved
    <3>1. CountsBounded'
      BY DEF CountsBounded, RetryBounded, RetrierOK, Idle
    <3>2. MoverIsStored'
      BY DEF MoverIsStored, RetrierOK, Idle
    <3>3. ReadyIsStored'
      BY DEF ReadyIsStored, StoreOK, ServiceOK, Inc, Counts
    <3>4. RetriedIsStored'
      BY DEF RetriedIsStored, StoreOK, ServiceOK, Inc, Counts
    <3>5. OutcomeIsStored'
      BY DEF OutcomeIsStored, ConfirmedIsStored, DeadLetterIsStored, StoreOK, ServiceOK, Inc, Counts
    <3>6. ObjectsKept'
      BY DEF ObjectsKept, NoFileLost, StoreOK, ServiceOK, Inc, Counts
    <3>7. (NeverBothPending)'
      BY DEF NeverBothPending, BothPresent
    <3> QED
      BY <3>1, <3>2, <3>3, <3>4, <3>5, <3>6, <3>7
  <2>13. CASE RetryMoveFails(p)
    <3> USE <2>13 DEF RetryMoveFails, CopyObject, Handling, AfterMoveError
    <3>1. CountsBounded'
      BY DEF CountsBounded, RetryBounded
    <3>2. MoverIsStored'
      BY DEF MoverIsStored, StoreOK, ServiceOK, Inc, Counts
    <3>3. ReadyIsStored'
      BY DEF ReadyIsStored, StoreOK, ServiceOK, Inc, Counts
    <3>4. RetriedIsStored'
      BY DEF RetriedIsStored, StoreOK, ServiceOK, Inc, Counts
    <3>5. OutcomeIsStored'
      BY DEF OutcomeIsStored, ConfirmedIsStored, DeadLetterIsStored, StoreOK, ServiceOK, Inc, Counts
    <3>6. ObjectsKept'
      BY DEF ObjectsKept, NoFileLost, StoreOK, ServiceOK, Inc, Counts
    <3>7. (NeverBothPending)'
      BY DEF NeverBothPending, BothPresent
    <3> QED
      BY <3>1, <3>2, <3>3, <3>4, <3>5, <3>6, <3>7
  <2>14. CASE RetryRemove(p)
    <3> USE <2>14 DEF RetryRemove, Handling
    <3>1. CountsBounded'
      BY DEF CountsBounded, RetryBounded, RetrierOK, Idle
    <3>2. MoverIsStored'
      BY DEF MoverIsStored, RetrierOK, Idle
    <3>3. ObjectsKept'
      BY DEF ObjectsKept, NoFileLost, MoverIsStored
    <3>4. (ReadyIsStored /\ RetriedIsStored /\ OutcomeIsStored /\ NeverBothPending)'
      BY DEF ReadyIsStored, RetriedIsStored, OutcomeIsStored, ConfirmedIsStored, DeadLetterIsStored, NeverBothPending, BothPresent
    <3> QED
      BY <3>1, <3>2, <3>3, <3>4
  <2>15. CASE RetryProduce(p)
    <3> USE <2>15 DEF RetryProduce, Handling, NextRetryCount
    <3> DEFINE count == retrier.retry_count + 1
    <3>a. count \in Nat /\ count <= MAX_RETRIES
      BY DEF CountsBounded, RetrierOK, Idle
    <3>b. received' = [received EXCEPT ![p] = Append(@, count)]
      OBVIOUS
    <3> HIDE DEF count
    <3>c. \A q \in Paths : \A i \in 1..Len(received'[q]) : received'[q][i] <= MAX_RETRIES
      BY <3>a, <3>b DEF CountsBounded, RetryBounded, TopicsOK
    <3>1. CountsBounded'
      BY <3>c DEF CountsBounded, RetryBounded
    <3>2. MoverIsStored'
      BY DEF MoverIsStored
    <3>3. RetriedIsStored'
      BY DEF RetriedIsStored, MoverIsStored, TopicsOK
    <3>4. (ReadyIsStored /\ OutcomeIsStored /\ ObjectsKept /\ NeverBothPending)'
      BY DEF ReadyIsStored, OutcomeIsStored, ConfirmedIsStored, DeadLetterIsStored, ObjectsKept, NoFileLost, NeverBothPending, BothPresent
    <3> QED
      BY <3>1, <3>2, <3>3, <3>4
  <2>16. CASE RetryProduceFails(p)
    <3> USE <2>16 DEF RetryProduceFails
    <3>1. CountsBounded'
      BY DEF CountsBounded, RetryBounded
    <3>2. MoverIsStored'
      BY DEF MoverIsStored
    <3>3. (ReadyIsStored /\ RetriedIsStored /\ OutcomeIsStored /\ ObjectsKept /\ NeverBothPending)'
      BY DEF ReadyIsStored, RetriedIsStored, OutcomeIsStored, ConfirmedIsStored, DeadLetterIsStored, ObjectsKept, NoFileLost, NeverBothPending, BothPresent
    <3> QED
      BY <3>1, <3>2, <3>3
  <2>17. CASE ExpiredCleanup(p)
    <3> USE <2>17 DEF ExpiredCleanup
    <3>1. ObjectsKept'
      BY DEF ObjectsKept, NoFileLost
    <3>2. (CountsBounded /\ MoverIsStored /\ ReadyIsStored /\ RetriedIsStored /\ OutcomeIsStored /\ NeverBothPending)'
      BY DEF CountsBounded, RetryBounded, MoverIsStored, ReadyIsStored, RetriedIsStored, OutcomeIsStored, ConfirmedIsStored, DeadLetterIsStored, NeverBothPending, BothPresent
    <3> QED
      BY <3>1, <3>2
  <2>18. CASE ProcessElement1(p)
    <3> USE <2>18 DEF ProcessElement1
    <3> DEFINE event == received[p][receivedPos[p] + 1]
    <3>1. event \in Nat /\ event <= MAX_RETRIES /\ (event > 0 => p \in stored)
      BY DEF TopicsOK, JobOK, Counts, CountsBounded, RetryBounded, RetriedIsStored
    <3>2. CheckFastConfirm(p, event, readyState[p])
      OBVIOUS
    <3>3. /\ (RetryBounded /\ (retrier # Idle => retrier.retry_count < MAX_RETRIES))'
          /\ (MoverIsStored /\ ObjectsKept)'
      BY DEF CountsBounded, RetryBounded, MoverIsStored, ObjectsKept, NoFileLost
    <3>4. UNCHANGED <<stored, received, readyHooks, ready, deadLettered>>
      OBVIOUS
    <3>5. readyState[p] \in BOOLEAN /\ (readyState[p] => p \in stored)
      BY DEF JobOK, ReadyIsStored
    <3> HIDE <2>18 DEF event
    <3> QED
      BY <3>1, <3>2, <3>3, <3>4, <3>5, FastConfirmInv
  <2>19. CASE ProcessElement2(p)
    <3> USE <2>19 DEF ProcessElement2
    <3>1. /\ receivedState[p] \in Nat \cup {NoEvent}
          /\ receivedState[p] <= MAX_RETRIES
          /\ receivedState[p] > 0 => p \in stored
      BY DEF JobOK, CountsBounded, RetriedIsStored
    <3>2. CheckFastConfirm(p, receivedState[p], TRUE)
      OBVIOUS
    <3>3. /\ (RetryBounded /\ (retrier # Idle => retrier.retry_count < MAX_RETRIES))'
          /\ (MoverIsStored /\ ObjectsKept)'
      BY DEF CountsBounded, RetryBounded, MoverIsStored, ObjectsKept, NoFileLost
    <3>4. UNCHANGED <<stored, received, readyHooks, ready, deadLettered>>
      OBVIOUS
    <3>5. p \in stored
      BY DEF ReadyIsStored, JobOK, TopicsOK, Counts
    <3> HIDE <2>19
    <3> QED
      BY <3>1, <3>2, <3>3, <3>4, <3>5, FastConfirmInv
  <2>20. CASE OnTimer(p)
    <3> USE <2>20 DEF OnTimer, Clear, BothPresent
    <3>1. CountsBounded'
      BY DEF CountsBounded, RetryBounded, MayRetry, TopicsOK, JobOK, NoEvent
    <3>2. ReadyIsStored'
      BY DEF ReadyIsStored, JobOK, NoEvent
    <3>3. RetriedIsStored'
      BY DEF RetriedIsStored, JobOK, NoEvent
    <3>4. OutcomeIsStored'
      BY DEF OutcomeIsStored, ConfirmedIsStored, DeadLetterIsStored, MayRetry, ReadyIsStored, RetriedIsStored, JobOK, OutcomesOK, Inc, Counts, NoEvent
    <3>5. NeverBothPending'
      BY DEF NeverBothPending, JobOK, NoEvent
    <3>6. (MoverIsStored /\ ObjectsKept)'
      BY DEF MoverIsStored, ObjectsKept, NoFileLost
    <3> QED
      BY <3>1, <3>2, <3>3, <3>4, <3>5, <3>6
  <2> QED
    BY <1>4, <2>1, <2>2, <2>3, <2>4, <2>5, <2>6, <2>7, <2>8, <2>9, <2>10,
       <2>11, <2>12, <2>13, <2>14, <2>15, <2>16, <2>17, <2>18, <2>19, <2>20
       DEF PathStep
<1> QED
  BY <1>1, <1>2, <1>3, <1>4 DEF Next

-----------------------------------------------------------------------------
\* The inductive invariant holds in every reachable state.
THEOREM Invariance == Spec => []IInv
<1> QED
  BY InvInit, InvStep, PTL DEF Spec

\* The retry loop is finite: no count above MAX_RETRIES is ever produced.
THEOREM RetryIsBounded == Spec => []RetryBounded
<1>1. IInv => RetryBounded
  BY DEF IInv, CountsBounded
<1> QED
  BY <1>1, Invariance, PTL

\* MoveObject never loses the bytes of an upload, whatever is interleaved.
THEOREM FileSafety == Spec => []NoFileLost
<1>1. IInv => NoFileLost
  BY DEF IInv, ObjectsKept
<1> QED
  BY <1>1, Invariance, PTL

\* A confirmed upload is in permanent storage.
THEOREM ConfirmedSafety == Spec => []ConfirmedIsStored
<1>1. IInv => ConfirmedIsStored
  BY DEF IInv, OutcomeIsStored
<1> QED
  BY <1>1, Invariance, PTL

\* So is a dead-lettered one: only moves that succeeded count as retries.
THEOREM DeadLetterSafety == Spec => []DeadLetterIsStored
<1>1. IInv => DeadLetterIsStored
  BY DEF IInv, OutcomeIsStored
<1> QED
  BY <1>1, Invariance, PTL

\* The confirmed branch of on_timer is never taken.
THEOREM FastPathIsComplete == Spec => []NeverBothPending
<1>1. IInv => NeverBothPending
  BY DEF IInv
<1> QED
  BY <1>1, Invariance, PTL

-----------------------------------------------------------------------------
(***************************************************************************)
(* MoveSaga implements UploadCustody.                                      *)
(***************************************************************************)

LEMMA CustodyInit == Init => Custody!Init
BY DEF Init, Custody!Init, Held, Told, PrefixesOf, OutcomesOf

\* A step that touches neither objects nor outcomes is invisible.
LEMMA CustodyStutter ==
    ASSUME UNCHANGED <<staged, stored, expired, confirmed, deadLettered>>
    PROVE  UNCHANGED <<Held, Told, expired>>
BY DEF Held, Told, PrefixesOf, OutcomesOf

\* A copy of a staged object, whoever makes it, is a Copy.
LEMMA CustodyCopy ==
    ASSUME NEW p \in Paths, p \in staged, CopyObject(p),
           UNCHANGED <<expired, confirmed, deadLettered>>
    PROVE  Custody!Copy(p)
BY DEF CopyObject, Custody!Copy, Held, Told, PrefixesOf, OutcomesOf

\* The removal of a source whose copy is there is a Release.
LEMMA CustodyRelease ==
    ASSUME NEW p \in Paths, p \in stored, staged' = staged \ {p},
           UNCHANGED <<stored, expired, confirmed, deadLettered>>
    PROVE  Custody!Release(p)
BY DEF Custody!Release, Held, Told, PrefixesOf, OutcomesOf

\* Confirming a stored object, or dead-lettering it, is a Tell.
LEMMA CustodyConfirm ==
    ASSUME TypeOK, NEW p \in Paths, p \in stored, confirmed' = Inc(confirmed, p),
           UNCHANGED <<staged, stored, expired, deadLettered>>
    PROVE  Custody!Tell(p)
<1>0. /\ confirmed'[p] > 0
      /\ \A q \in Paths \ {p} : confirmed'[q] = confirmed[q]
  BY DEF Inc, TypeOK, OutcomesOK, Counts
<1>1. Told' = [Told EXCEPT ![p] = @ \cup {"confirmed"}]
  <2>1. \A q \in Paths \ {p} : OutcomesOf(q)' = OutcomesOf(q)
    BY <1>0 DEF OutcomesOf
  <2>2. OutcomesOf(p)' = OutcomesOf(p) \cup {"confirmed"}
    BY <1>0 DEF OutcomesOf
  <2> QED
    BY <2>1, <2>2 DEF Told
<1>2. Held' = Held /\ "files" \in Held[p]
  BY DEF Held, PrefixesOf
<1>3. "confirmed" \in Custody!Outcomes
  BY DEF Custody!Outcomes
<1> QED
  BY <1>1, <1>2, <1>3 DEF Custody!Tell

LEMMA CustodyDeadLetter ==
    ASSUME TypeOK, NEW p \in Paths, p \in stored, deadLettered' = Inc(deadLettered, p),
           UNCHANGED <<staged, stored, expired, confirmed>>
    PROVE  Custody!Tell(p)
<1>0. /\ deadLettered'[p] > 0
      /\ \A q \in Paths \ {p} : deadLettered'[q] = deadLettered[q]
  BY DEF Inc, TypeOK, OutcomesOK, Counts
<1>1. Told' = [Told EXCEPT ![p] = @ \cup {"dead_letter"}]
  <2>1. \A q \in Paths \ {p} : OutcomesOf(q)' = OutcomesOf(q)
    BY <1>0 DEF OutcomesOf
  <2>2. OutcomesOf(p)' = OutcomesOf(p) \cup {"dead_letter"}
    BY <1>0 DEF OutcomesOf
  <2> QED
    BY <2>1, <2>2 DEF Told
<1>2. Held' = Held /\ "files" \in Held[p]
  BY DEF Held, PrefixesOf
<1>3. "dead_letter" \in Custody!Outcomes
  BY DEF Custody!Outcomes
<1> QED
  BY <1>1, <1>2, <1>3 DEF Custody!Tell

\* Every step of the saga is a step of UploadCustody or leaves it unchanged.
LEMMA CustodyStep ==
    IInv /\ IInv' /\ [Next]_vars => [Custody!Next]_<<Held, Told, expired>>
<1> SUFFICES ASSUME IInv, IInv', [Next]_vars
             PROVE  Custody!Next \/ UNCHANGED <<Held, Told, expired>>
  OBVIOUS
<1> DEFINE Quiet == UNCHANGED <<staged, stored, expired, confirmed, deadLettered>>
<1> USE DEF storeVars, outcomeVars
<1>1. CASE Quiet
  BY <1>1, CustodyStutter
<1>2. CASE UNCHANGED vars
  BY <1>1, <1>2 DEF vars
<1>3. CASE ServiceCrash \/ FlinkRestart
  BY <1>1, <1>3 DEF ServiceCrash, FlinkRestart
<1>4. ASSUME NEW p \in Paths, PathStep(p)
      PROVE  Custody!Next \/ UNCHANGED <<Held, Told, expired>>
  <2>1. CASE Upload(p)
    <3>1. p \notin staged /\ p \notin stored /\ p \notin expired
      BY <2>1 DEF Upload, IInv, ObjectsKept, TypeOK, StoreOK
    <3>2. Custody!Put(p)
      BY <2>1, <3>1 DEF Upload, Custody!Put, Held, Told, PrefixesOf, OutcomesOf
    <3> QED
      BY <3>2 DEF Custody!Next
  <2>2. CASE MoverCopy(p) \/ MoverCopyFails(p) \/ RetryMove(p) \/ RetryMoveFails(p)
    <3>1. Quiet \/ (p \in staged /\ CopyObject(p) /\ UNCHANGED <<expired, confirmed, deadLettered>>)
      BY <2>2 DEF MoverCopy, MoverCopyFails, RetryMove, RetryMoveFails
    <3> QED
      BY <3>1, <1>1, CustodyCopy DEF Custody!Next
  <2>3. CASE MoverRemove(p) \/ RetryRemove(p)
    <3>1. p \in stored
      BY <2>3 DEF MoverRemove, RetryRemove, Handling, IInv, MoverIsStored
    <3>2. Quiet \/ (staged' = staged \ {p} /\ UNCHANGED <<stored, expired, confirmed, deadLettered>>)
      BY <2>3 DEF MoverRemove, RetryRemove
    <3> QED
      BY <3>1, <3>2, <1>1, CustodyRelease DEF Custody!Next
  <2>4. CASE ExpiredCleanup(p)
    <3>1. Custody!Expire(p)
      BY <2>4 DEF ExpiredCleanup, Custody!Expire, Held, Told, PrefixesOf, OutcomesOf
    <3> QED
      BY <3>1 DEF Custody!Next
  <2>5. CASE ProcessElement1(p) \/ ProcessElement2(p)
    <3>1. Quiet \/ (confirmed' = Inc(confirmed, p) /\ UNCHANGED <<staged, stored, expired, deadLettered>>)
      BY <2>5 DEF ProcessElement1, ProcessElement2, CheckFastConfirm
    <3>2. ASSUME confirmed' = Inc(confirmed, p), UNCHANGED <<staged, stored, expired, deadLettered>>
          PROVE  Custody!Tell(p)
      <4>1. p \in stored
        BY <3>2 DEF IInv, OutcomeIsStored, ConfirmedIsStored, TypeOK, OutcomesOK, Counts, Inc
      <4> QED
        BY <3>2, <4>1, CustodyConfirm DEF IInv
    <3> QED
      BY <3>1, <3>2, <1>1 DEF Custody!Next
  <2>6. CASE OnTimer(p)
    <3>1. UNCHANGED <<staged, stored, expired, confirmed>>
      BY <2>6 DEF OnTimer, IInv, NeverBothPending
    <3>2. Quiet \/ deadLettered' = Inc(deadLettered, p)
      BY <2>6, <3>1 DEF OnTimer
    <3>3. ASSUME deadLettered' = Inc(deadLettered, p)
          PROVE  Custody!Tell(p)
      <4>1. p \in stored
        BY <3>1, <3>3 DEF IInv, OutcomeIsStored, DeadLetterIsStored, TypeOK, OutcomesOK, Counts, Inc
      <4> QED
        BY <3>1, <3>3, <4>1, CustodyDeadLetter DEF IInv
    <3> QED
      BY <3>2, <3>3, <1>1 DEF Custody!Next
  <2>7. CASE \/ UploadWebhook(p) \/ UploadWebhookRepeats(p)
             \/ FileReadyWebhook(p) \/ FileReadyWebhookRepeats(p)
             \/ PollRetry(p) \/ PollRetryFails(p) \/ CommitRetry(p)
             \/ RetryProduce(p) \/ RetryProduceFails(p)
    <3>1. Quiet
      BY <2>7 DEF UploadWebhook, UploadWebhookRepeats, FileReadyWebhook,
                  FileReadyWebhookRepeats, PollRetry, PollRetryFails, CommitRetry,
                  RetryProduce, RetryProduceFails
    <3> QED
      BY <3>1, <1>1
  <2> QED
    BY <1>4, <2>1, <2>2, <2>3, <2>4, <2>5, <2>6, <2>7 DEF PathStep
<1> QED
  BY <1>2, <1>3, <1>4 DEF Next

\* Every behaviour of the saga, with any failures, is one of UploadCustody.
THEOREM Refinement == Spec => CustodySpec
<1> QED
  BY CustodyInit, CustodyStep, Invariance, PTL DEF Spec, CustodySpec, Custody!Spec
-----------------------------------------------------------------------------
(***************************************************************************)
(* The bookkeeping of an upload's single unit of work.  Every step of the  *)
(* saga passes the unit on; only repeats multiply it and only drops lose   *)
(* it.  That a crash or a restart does not lose it needs two facts more:   *)
(* the record in the retry handler is not committed, and what the job      *)
(* remembers of an upload it will read again.                              *)
(***************************************************************************)

\* OneToken of one path: at most one unit, and at least one.
TokenCount(p) ==
    /\ happened \cap Repeating = {} => Tokens(p) <= One(p \in uploaded)
    /\ happened \cap Dropping = {} => Tokens(p) >= One(p \in uploaded)

\* An event in the job's state was read from the topic and has a timer.
StateIsTimed ==
    \A p \in Paths : receivedState[p] # NoEvent => receivedPos[p] > 0 /\ timers[p] > 0

\* The group's committed offset is behind the record being handled.
HandlerUncommitted ==
    retrier # Idle => retryCommitted[retrier.path] < retryPos[retrier.path]

CleanupHappened == expired # {} => "cleanup" \in happened

TokenInv ==
    /\ CleanupHappened
    /\ StateIsTimed
    /\ HandlerUncommitted
    /\ \A p \in Paths : TokenCount(p)

-----------------------------------------------------------------------------
\* The places of the unit.
InTopic(p)   == Len(received[p]) - receivedPos[p]
InState(p)   == One(receivedState[p] # NoEvent)
InRetry(p)   == Len(retry[p]) - retryPos[p]
InHandler(p) == One(retrier # Idle /\ retrier.path = p)

\* Tokens adds them up, before and after a step.
LEMMA TokensAre ==
    ASSUME NEW p
    PROVE  /\ Tokens(p) = putHooks[p] + InTopic(p) + InState(p) + InRetry(p)
                             + InHandler(p) + confirmed[p] + deadLettered[p]
           /\ Tokens(p)' = putHooks'[p] + InTopic(p)' + InState(p)' + InRetry(p)'
                             + InHandler(p)' + confirmed'[p] + deadLettered'[p]
BY DEF Tokens, InTopic, InState, InRetry, InHandler

\* The terms of Tokens are natural numbers.
LEMMA TokenTerms ==
    ASSUME TypeOK, NEW p \in Paths
    PROVE  /\ putHooks[p] \in Nat /\ InTopic(p) \in Nat /\ InState(p) \in {0, 1}
           /\ InRetry(p) \in Nat /\ InHandler(p) \in {0, 1}
           /\ confirmed[p] \in Nat /\ deadLettered[p] \in Nat
           /\ Tokens(p) \in Nat
<1>1. received[p] \in Seq(Nat) /\ retry[p] \in Seq(Nat) BY DEF TypeOK, TopicsOK
<1>2. /\ receivedPos[p] \in Nat /\ receivedPos[p] <= Len(received[p])
      /\ retryPos[p] \in Nat /\ retryPos[p] <= Len(retry[p])
  BY DEF TypeOK, GroupOK, JobOK, Counts
<1>3. putHooks[p] \in Nat /\ confirmed[p] \in Nat /\ deadLettered[p] \in Nat
  BY DEF TypeOK, ServiceOK, OutcomesOK, Counts
<1>4. InTopic(p) \in Nat /\ InRetry(p) \in Nat BY <1>1, <1>2 DEF InTopic, InRetry
<1>5. InState(p) \in {0, 1} /\ InHandler(p) \in {0, 1} BY DEF InState, InHandler, One
<1>6. Tokens(p) \in Nat BY <1>3, <1>4, <1>5, TokensAre
<1>. QED BY <1>3, <1>4, <1>5, <1>6

\* So is their sum after a step.
LEMMA TokensAreNat == TypeOK => \A p \in Paths : Tokens(p) \in Nat
BY TokenTerms

LEMMA TokensStayNat == TypeOK' => (\A p \in Paths : Tokens(p) \in Nat)'
BY TokensAreNat, PTL

LEMMA TokensAfter ==
    ASSUME TypeOK, [Next]_vars, NEW p \in Paths
    PROVE  Tokens(p)' \in Nat
BY TokensStayNat, TypeStep

\* A failure that happens is recorded.
LEMMA FaultHappens ==
    ASSUME NEW kind, Fault(kind)
    PROVE  happened' = happened \cup {kind}
BY DEF Fault

\* A step about one path moves no unit of another.
LEMMA OtherTokens ==
    ASSUME TypeOK, NEW p \in Paths, NEW q \in Paths, p # q, PathStep(q)
    PROVE  Tokens(p)' = Tokens(p) /\ (p \in uploaded' <=> p \in uploaded)
<1>. USE DEF TypeOK, ServiceOK, TopicsOK, GroupOK, JobOK, OutcomesOK, Counts, Inc, Dec
<1>0. SUFFICES
          /\ putHooks'[p] = putHooks[p] /\ received'[p] = received[p]
          /\ receivedPos'[p] = receivedPos[p]
          /\ receivedState'[p] = receivedState[p]
          /\ retry'[p] = retry[p] /\ retryPos'[p] = retryPos[p]
          /\ (retrier' # Idle /\ retrier'.path = p) <=> (retrier # Idle /\ retrier.path = p)
          /\ confirmed'[p] = confirmed[p] /\ deadLettered'[p] = deadLettered[p]
          /\ p \in uploaded' <=> p \in uploaded
  <2>1. /\ One(receivedState'[p] # NoEvent) = One(receivedState[p] # NoEvent)
        /\ One(retrier' # Idle /\ retrier'.path = p) = One(retrier # Idle /\ retrier.path = p)
    BY <1>0 DEF One
  <2>. QED BY <1>0, <2>1 DEF Tokens
<1>1. CASE Upload(q) \/ ExpiredCleanup(q)
  BY <1>1 DEF Upload, ExpiredCleanup, groupVars, topicVars, flinkVars, outcomeVars, hookVars
<1>2. CASE UploadWebhook(q) \/ UploadWebhookRepeats(q)
  BY <1>2 DEF UploadWebhook, UploadWebhookRepeats, storeVars, hookVars, groupVars,
              flinkVars, outcomeVars
<1>3. CASE FileReadyWebhook(q) \/ FileReadyWebhookRepeats(q)
  BY <1>3 DEF FileReadyWebhook, FileReadyWebhookRepeats, storeVars, hookVars,
              groupVars, flinkVars, outcomeVars
<1>4. CASE MoverCopy(q) \/ MoverCopyFails(q) \/ MoverRemove(q)
  BY <1>4 DEF MoverCopy, MoverCopyFails, MoverRemove, CopyObject, hookVars, groupVars, topicVars,
              flinkVars, outcomeVars
<1>5. CASE PollRetry(q) \/ PollRetryFails(q) \/ CommitRetry(q)
  <2>1. retrier' # Idle => retrier'.path = q
    <3>1. CASE PollRetry(q) BY <3>1 DEF PollRetry
    <3>2. CASE PollRetryFails(q) \/ CommitRetry(q)
      BY <3>2 DEF PollRetryFails, CommitRetry
    <3>. QED BY <1>5, <3>1, <3>2
  <2>2. retrier = Idle BY <1>5 DEF PollRetry, PollRetryFails, CommitRetry
  <2>3. retryPos'[p] = retryPos[p] BY <1>5 DEF PollRetry, PollRetryFails, CommitRetry
  <2>. QED BY <1>5, <2>1, <2>2, <2>3
           DEF PollRetry, PollRetryFails, CommitRetry, storeVars, hookVars, topicVars,
               flinkVars, outcomeVars
<1>6. CASE RetryMove(q) \/ RetryMoveFails(q) \/ RetryRemove(q)
  <2>1. retrier # Idle /\ retrier.path = q
    BY <1>6 DEF RetryMove, RetryMoveFails, RetryRemove, Handling
  <2>2. retrier' = Idle \/ retrier'.path = q
    BY <1>6, <2>1 DEF RetryMove, RetryMoveFails, RetryRemove, AfterMoveError, RetrierOK
  <2>. QED BY <1>6, <2>1, <2>2
           DEF RetryMove, RetryMoveFails, RetryRemove, hookVars, topicVars, flinkVars,
               outcomeVars
<1>7. CASE RetryProduce(q) \/ RetryProduceFails(q)
  BY <1>7 DEF RetryProduce, RetryProduceFails, Handling, storeVars, hookVars, topicVars,
              flinkVars, outcomeVars
<1>8. CASE ProcessElement1(q) \/ ProcessElement2(q)
  <2>1. PICK event, isReady : CheckFastConfirm(q, event, isReady)
    BY <1>8 DEF ProcessElement1, ProcessElement2
  <2>2. confirmed'[p] = confirmed[p] /\ receivedState'[p] = receivedState[p]
    <3>1. CASE BothPresent(event, isReady) BY <2>1, <3>1 DEF CheckFastConfirm, Clear
    <3>2. CASE ~BothPresent(event, isReady) BY <2>1, <3>2 DEF CheckFastConfirm
    <3>. QED BY <3>1, <3>2
  <2>3. receivedPos'[p] = receivedPos[p]
    BY <1>8 DEF ProcessElement1, ProcessElement2
  <2>. QED BY <1>8, <2>2, <2>3
           DEF ProcessElement1, ProcessElement2, storeVars, hookVars, groupVars, topicVars
<1>9. CASE OnTimer(q)
  <2>1. confirmed'[p] = confirmed[p] BY <1>9 DEF OnTimer
  <2>2. retry'[p] = retry[p] BY <1>9 DEF OnTimer
  <2>3. deadLettered'[p] = deadLettered[p] BY <1>9 DEF OnTimer
  <2>. QED BY <1>9, <2>1, <2>2, <2>3 DEF OnTimer, Clear, storeVars, hookVars, groupVars
<1>. QED BY <1>1, <1>2, <1>3, <1>4, <1>5, <1>6, <1>7, <1>8, <1>9 DEF PathStep

-----------------------------------------------------------------------------
\* What a step does to the unit of a path: it passes it on, ...
Passes(p) == Tokens(p)' = Tokens(p) /\ uploaded' = uploaded
\* ... drops it, ...
Drops(p) ==
    /\ Tokens(p)' = Tokens(p) - 1 /\ uploaded' = uploaded
    /\ happened' \cap Dropping # {}
\* ... merges a repeated one with it, ...
Merges(p) ==
    /\ Tokens(p)' <= Tokens(p) /\ uploaded' = uploaded
    /\ Tokens(p)' >= One(p \in uploaded)
\* ... or repeats it.
Repeats(p) ==
    /\ Tokens(p)' >= Tokens(p) /\ uploaded' = uploaded
    /\ happened' \cap Repeating # {}

\* Steps that move no unit at all.
LEMMA MoverTokens ==
    ASSUME TypeOK, NEW p \in Paths,
           \/ FileReadyWebhook(p) \/ FileReadyWebhookRepeats(p)
           \/ MoverCopy(p) \/ MoverCopyFails(p) \/ MoverRemove(p)
           \/ CommitRetry(p) \/ ExpiredCleanup(p)
    PROVE  Passes(p)
<1>1. UNCHANGED <<putHooks, received, receivedPos, receivedState, retry, retryPos, retrier,
                  confirmed, deadLettered, uploaded>>
  BY DEF FileReadyWebhook, FileReadyWebhookRepeats, MoverCopy, MoverCopyFails,
         MoverRemove, CommitRetry, ExpiredCleanup, CopyObject, storeVars, hookVars,
         groupVars, topicVars, flinkVars, outcomeVars
<1>. QED BY <1>1 DEF Passes, Tokens

\* From MinIO's queue to the topic.
LEMMA WebhookTokens ==
    ASSUME TypeOK, NEW p \in Paths, UploadWebhook(p)
    PROVE  Passes(p)
<1>1. UNCHANGED <<receivedPos, receivedState, retry, retryPos, retrier, confirmed,
                  deadLettered, uploaded>>
  BY DEF UploadWebhook, storeVars, groupVars, flinkVars, outcomeVars
<1>2. putHooks'[p] = putHooks[p] - 1 /\ Len(received'[p]) = Len(received[p]) + 1
  BY DEF UploadWebhook, Dec, TypeOK, ServiceOK, TopicsOK, Counts
<1>3. /\ InState(p)' = InState(p) /\ InRetry(p)' = InRetry(p)
      /\ InHandler(p)' = InHandler(p)
  BY <1>1 DEF InState, InRetry, InHandler
<1>4. InTopic(p)' = InTopic(p) + 1
  BY <1>1, <1>2 DEF InTopic, TypeOK, TopicsOK, JobOK, Counts
<1>5. confirmed'[p] = confirmed[p] /\ deadLettered'[p] = deadLettered[p] BY <1>1
<1>6. Tokens(p)' = Tokens(p) BY <1>2, <1>3, <1>4, <1>5, TokensAre, TokenTerms, SMTT(30)
<1>. QED BY <1>1, <1>6 DEF Passes

\* From MinIO's queue to the topic, and still in the queue.
LEMMA RepeatTokens ==
    ASSUME TypeOK, NEW p \in Paths, UploadWebhookRepeats(p)
    PROVE  Repeats(p)
<1>1. UNCHANGED <<putHooks, receivedPos, receivedState, retry, retryPos, retrier,
                  confirmed, deadLettered, uploaded>>
  BY DEF UploadWebhookRepeats, storeVars, hookVars, groupVars, flinkVars, outcomeVars
<1>2. Len(received'[p]) = Len(received[p]) + 1
  BY DEF UploadWebhookRepeats, TypeOK, TopicsOK
<1>3. /\ InState(p)' = InState(p) /\ InRetry(p)' = InRetry(p)
      /\ InHandler(p)' = InHandler(p)
  BY <1>1 DEF InState, InRetry, InHandler
<1>4. InTopic(p)' = InTopic(p) + 1
  BY <1>1, <1>2 DEF InTopic, TypeOK, TopicsOK, JobOK, Counts
<1>5. /\ putHooks'[p] = putHooks[p] /\ confirmed'[p] = confirmed[p]
      /\ deadLettered'[p] = deadLettered[p]
  BY <1>1
<1>6. Tokens(p)' = Tokens(p) + 1
  BY <1>3, <1>4, <1>5, TokensAre, TokenTerms, SMTT(30)
<1>7. happened' \cap Repeating # {}
  BY FaultHappens DEF UploadWebhookRepeats, Repeating
<1>. QED BY <1>1, <1>6, <1>7, TokenTerms DEF Repeats

\* From the retry topic to the handler, or, with a poll that failed, nowhere.
LEMMA PollTokens ==
    ASSUME TypeOK, NEW p \in Paths, PollRetry(p) \/ PollRetryFails(p)
    PROVE  (PollRetry(p) /\ Passes(p)) \/ Drops(p)
<1>1. UNCHANGED <<putHooks, received, receivedPos, receivedState, retry, confirmed,
                  deadLettered, uploaded>>
  BY DEF PollRetry, PollRetryFails, storeVars, hookVars, topicVars, flinkVars, outcomeVars
<1>2. retrier = Idle /\ retryPos'[p] = retryPos[p] + 1
  BY DEF PollRetry, PollRetryFails, Inc, TypeOK, GroupOK, Counts
<1>3. InTopic(p)' = InTopic(p) /\ InState(p)' = InState(p)
  BY <1>1 DEF InTopic, InState
<1>4. InRetry(p)' = InRetry(p) - 1
  BY <1>1, <1>2 DEF InRetry, TypeOK, GroupOK, TopicsOK, Counts
<1>5. InHandler(p) = 0 BY <1>2 DEF InHandler, One
<1>6. CASE PollRetry(p)
  <2>1. retrier' # Idle /\ retrier'.path = p BY <1>6 DEF PollRetry, Idle
  <2>2. InHandler(p)' = 1 BY <2>1 DEF InHandler, One
  <2>. QED BY <1>1, <1>3, <1>4, <1>5, <1>6, <2>2, TokensAre, TokenTerms DEF Passes
<1>7. CASE PollRetryFails(p)
  <2>1. InHandler(p)' = InHandler(p) BY <1>7 DEF PollRetryFails, InHandler
  <2>2. happened' \cap Dropping # {}
    BY <1>7, FaultHappens DEF PollRetryFails, Dropping
  <2>. QED BY <1>1, <1>3, <1>4, <2>1, <2>2, TokensAre, TokenTerms DEF Drops
<1>. QED BY <1>6, <1>7

\* In the retry handler: a move that finds neither object has been cleaned up.
LEMMA MoveTokens ==
    ASSUME IInv, CleanupHappened, NEW p \in Paths,
           RetryMove(p) \/ RetryMoveFails(p) \/ RetryRemove(p)
    PROVE  Passes(p) \/ Drops(p) \/ Merges(p)
<1>1. UNCHANGED <<putHooks, received, receivedPos, receivedState, retry, retryPos,
                  confirmed, deadLettered, uploaded>>
  BY DEF RetryMove, RetryMoveFails, RetryRemove, CopyObject, hookVars, topicVars,
         flinkVars, outcomeVars
<1>2. /\ InTopic(p)' = InTopic(p) /\ InState(p)' = InState(p)
      /\ InRetry(p)' = InRetry(p)
  BY <1>1 DEF InTopic, InState, InRetry
<1>3. retrier # Idle /\ retrier.path = p /\ InHandler(p) = 1
  BY DEF RetryMove, RetryMoveFails, RetryRemove, Handling, InHandler, One
<1>4. TypeOK BY DEF IInv
<1>5. CASE retrier' # Idle /\ retrier'.path = p
  <2>1. InHandler(p)' = 1 BY <1>5 DEF InHandler, One
  <2>. QED BY <1>1, <1>2, <1>3, <1>4, <2>1, TokensAre, TokenTerms DEF Passes
<1>6. CASE retrier' = Idle /\ happened' \cap Dropping # {}
  <2>1. InHandler(p)' = 0 BY <1>6 DEF InHandler, One
  <2>. QED BY <1>1, <1>2, <1>3, <1>4, <1>6, <2>1, TokensAre, TokenTerms DEF Drops
<1>7. CASE RetryRemove(p)
  <2>1. retrier' # Idle /\ retrier'.path = p
    BY <1>3, <1>4, <1>7 DEF RetryRemove, TypeOK, RetrierOK, Idle
  <2>. QED BY <1>5, <2>1
<1>8. CASE RetryMoveFails(p)
  <2>1. retrier' = Idle /\ happened' \cap Dropping # {}
    BY <1>8, FaultHappens DEF RetryMoveFails, AfterMoveError, Dropping
  <2>. QED BY <1>6, <2>1
<1>9. CASE RetryMove(p) /\ MoveReturnsNil(p)
  <2>1. retrier' # Idle /\ retrier'.path = p
    BY <1>3, <1>4, <1>9 DEF RetryMove, TypeOK, RetrierOK, Idle
  <2>. QED BY <1>5, <2>1
<1>10. CASE RetryMove(p) /\ ~MoveReturnsNil(p)
  <2>1. p \notin staged /\ p \notin stored BY <1>10 DEF MoveReturnsNil, AlreadyMoved
  <2>2. retrier' = Idle /\ happened' = happened
    BY <1>10 DEF RetryMove, AfterMoveError, faultVars
  <2>3. CASE p \in uploaded
    <3>1. p \in expired BY <2>1, <2>3 DEF IInv, ObjectsKept, NoFileLost
    <3>2. "cleanup" \in happened BY <3>1 DEF CleanupHappened
    <3>. QED BY <1>6, <2>2, <3>2 DEF Dropping
  <2>4. CASE p \notin uploaded
    <3>1. InHandler(p)' = 0 BY <2>2 DEF InHandler, One
    <3>2. Tokens(p)' = Tokens(p) - 1 /\ Tokens(p) >= 1
      BY <1>1, <1>2, <1>3, <1>4, <3>1, TokensAre, TokenTerms
    <3>. QED BY <1>1, <1>4, <2>4, <3>2, TokenTerms DEF Merges, One
  <2>. QED BY <2>3, <2>4
<1>. QED BY <1>7, <1>8, <1>9, <1>10

\* From the handler to the topic, or, when the produce fails, nowhere.
LEMMA ProduceTokens ==
    ASSUME TypeOK, NEW p \in Paths, RetryProduce(p) \/ RetryProduceFails(p)
    PROVE  Passes(p) \/ Drops(p)
<1>1. UNCHANGED <<putHooks, receivedPos, receivedState, retry, retryPos, confirmed,
                  deadLettered, uploaded>>
  BY DEF RetryProduce, RetryProduceFails, storeVars, hookVars, topicVars, flinkVars,
         outcomeVars
<1>2. retrier # Idle /\ retrier.path = p /\ retrier' = Idle
  BY DEF RetryProduce, RetryProduceFails, Handling
<1>3. InState(p)' = InState(p) /\ InRetry(p)' = InRetry(p)
  BY <1>1 DEF InState, InRetry
<1>4. InHandler(p) = 1 /\ InHandler(p)' = 0 BY <1>2 DEF InHandler, One
<1>5. CASE RetryProduce(p)
  <2>1. retrier.retry_count \in Nat BY <1>2 DEF TypeOK, RetrierOK
  <2>2. Len(received'[p]) = Len(received[p]) + 1
    BY <1>5, <2>1 DEF RetryProduce, NextRetryCount, TypeOK, TopicsOK
  <2>3. InTopic(p)' = InTopic(p) + 1
    BY <1>1, <2>2 DEF InTopic, TypeOK, TopicsOK, JobOK, Counts
  <2>4. /\ putHooks'[p] = putHooks[p] /\ confirmed'[p] = confirmed[p]
        /\ deadLettered'[p] = deadLettered[p]
    BY <1>1
  <2>5. Tokens(p)' = Tokens(p)
    BY <1>3, <1>4, <2>3, <2>4, TokensAre, TokenTerms, SMTT(30)
  <2>. QED BY <1>1, <2>5 DEF Passes
<1>6. CASE RetryProduceFails(p)
  <2>1. InTopic(p)' = InTopic(p)
    BY <1>1, <1>6 DEF RetryProduceFails, topicVars, InTopic
  <2>2. happened' \cap Dropping # {}
    BY <1>6, FaultHappens DEF RetryProduceFails, Dropping
  <2>. QED BY <1>1, <1>3, <1>4, <2>1, <2>2, TokensAre, TokenTerms DEF Drops
<1>. QED BY <1>5, <1>6

\* From the topic to the job's state, or, when file.ready was there, to a
\* confirmation.  An event that waits there already is replaced.
LEMMA ReceivedTokens ==
    ASSUME TypeOK, NEW p \in Paths, ProcessElement1(p)
    PROVE  Passes(p) \/ Merges(p)
<1>1. /\ UNCHANGED <<putHooks, received, retry, retryPos, retrier, deadLettered,
                     uploaded>>
      /\ receivedPos[p] < Len(received[p]) /\ receivedPos'[p] = receivedPos[p] + 1
  BY DEF ProcessElement1, storeVars, hookVars, groupVars, topicVars, Inc, TypeOK,
         JobOK, Counts
<1>2. InRetry(p)' = InRetry(p) /\ InHandler(p)' = InHandler(p)
  BY <1>1 DEF InRetry, InHandler
<1>3. InTopic(p) >= 1 /\ InTopic(p)' = InTopic(p) - 1
  BY <1>1 DEF InTopic, TypeOK, JobOK, TopicsOK, Counts
<1>5. received[p][receivedPos[p] + 1] # NoEvent
  <2>1. received[p][receivedPos[p] + 1] \in Nat
    BY <1>1 DEF TypeOK, JobOK, TopicsOK, Counts
  <2>. QED BY <2>1 DEF NoEvent
<1>6. InState(p)' + confirmed'[p] = confirmed[p] + 1
  <2>1. CheckFastConfirm(p, received[p][receivedPos[p] + 1], readyState[p])
    BY DEF ProcessElement1
  <2>2. CASE readyState[p]
    <3>1. receivedState'[p] = NoEvent /\ confirmed'[p] = confirmed[p] + 1
      BY <1>5, <2>1, <2>2
      DEF CheckFastConfirm, BothPresent, Clear, Inc, TypeOK, JobOK, OutcomesOK, Counts
    <3>. QED BY <3>1, TokenTerms DEF InState, One
  <2>3. CASE ~readyState[p]
    <3>1. receivedState'[p] # NoEvent /\ confirmed'[p] = confirmed[p]
      BY <1>5, <2>1, <2>3 DEF CheckFastConfirm, BothPresent, TypeOK, JobOK, Counts
    <3>. QED BY <3>1, TokenTerms DEF InState, One
  <2>. QED BY <2>2, <2>3
<1>7. putHooks'[p] = putHooks[p] /\ deadLettered'[p] = deadLettered[p] BY <1>1
<1>8. InState(p)' \in {0, 1} BY DEF InState, One
<1>9. confirmed'[p] \in Nat
  <2>1. CheckFastConfirm(p, received[p][receivedPos[p] + 1], readyState[p])
    BY DEF ProcessElement1
  <2>. QED BY <2>1, TokenTerms DEF CheckFastConfirm, Inc, TypeOK, OutcomesOK, Counts
<1>10. /\ Tokens(p)' = putHooks[p] + (InTopic(p) - 1) + InState(p)' + InRetry(p)
                        + InHandler(p) + confirmed'[p] + deadLettered[p]
       /\ Tokens(p) = putHooks[p] + InTopic(p) + InState(p) + InRetry(p)
                        + InHandler(p) + confirmed[p] + deadLettered[p]
  BY <1>2, <1>3, <1>7, TokensAre
<1>11. Tokens(p)' = Tokens(p) - InState(p) /\ Tokens(p)' >= 1
  BY <1>3, <1>6, <1>8, <1>9, <1>10, TokenTerms
<1>12. CASE InState(p) = 0 BY <1>1, <1>11, <1>12, TokenTerms DEF Passes
<1>13. CASE InState(p) = 1 BY <1>1, <1>11, <1>13, TokenTerms DEF Merges, One
<1>. QED BY <1>12, <1>13, TokenTerms

\* file.ready turns a waiting event into a confirmation.
LEMMA ReadyTokens ==
    ASSUME TypeOK, NEW p \in Paths, ProcessElement2(p)
    PROVE  Passes(p)
<1>1. UNCHANGED <<putHooks, received, receivedPos, retry, retryPos, retrier,
                  deadLettered, uploaded>>
  BY DEF ProcessElement2, storeVars, hookVars, groupVars, topicVars
<1>2. /\ InTopic(p)' = InTopic(p) /\ InRetry(p)' = InRetry(p)
      /\ InHandler(p)' = InHandler(p)
  BY <1>1 DEF InTopic, InRetry, InHandler
<1>3. CheckFastConfirm(p, receivedState[p], TRUE) BY DEF ProcessElement2
<1>4. putHooks'[p] = putHooks[p] /\ deadLettered'[p] = deadLettered[p] BY <1>1
<1>5. CASE receivedState[p] # NoEvent
  <2>1. receivedState'[p] = NoEvent /\ confirmed'[p] = confirmed[p] + 1
    BY <1>3, <1>5
    DEF CheckFastConfirm, BothPresent, Clear, Inc, TypeOK, JobOK, OutcomesOK, Counts
  <2>2. InState(p) = 1 /\ InState(p)' = 0 BY <1>5, <2>1 DEF InState, One
  <2>3. Tokens(p)' = Tokens(p)
    BY <1>2, <1>4, <2>1, <2>2, TokensAre, TokenTerms, SMTT(30)
  <2>. QED BY <1>1, <2>3 DEF Passes
<1>6. CASE receivedState[p] = NoEvent
  <2>1. receivedState'[p] = NoEvent /\ confirmed'[p] = confirmed[p]
    BY <1>3, <1>6 DEF CheckFastConfirm, BothPresent, TypeOK, JobOK, Counts
  <2>2. InState(p)' = InState(p) BY <1>6, <2>1 DEF InState
  <2>3. Tokens(p)' = Tokens(p) BY <1>2, <1>4, <2>1, <2>2, TokensAre
  <2>. QED BY <1>1, <2>3 DEF Passes
<1>. QED BY <1>5, <1>6

\* A timer turns a waiting event into a retry or a dead letter.
LEMMA TimerTokens ==
    ASSUME TypeOK, NEW p \in Paths, OnTimer(p)
    PROVE  Passes(p)
<1>1. UNCHANGED <<putHooks, received, receivedPos, retryPos, retrier, uploaded>>
  BY DEF OnTimer, storeVars, hookVars, groupVars
<1>2. InTopic(p)' = InTopic(p) /\ InHandler(p)' = InHandler(p)
  BY <1>1 DEF InTopic, InHandler
<1>3. receivedState'[p] = NoEvent BY DEF OnTimer, Clear, TypeOK, JobOK, Counts
<1>4. InState(p)' = 0 BY <1>3 DEF InState, One
<1>5. putHooks'[p] = putHooks[p] BY <1>1
<1>6. CASE receivedState[p] = NoEvent
  <2>1. UNCHANGED <<confirmed, retry, deadLettered>>
    BY <1>6 DEF OnTimer, BothPresent
  <2>2. InState(p) = 0 /\ InRetry(p)' = InRetry(p)
    BY <1>1, <1>6, <2>1 DEF InState, InRetry, One
  <2>3. Tokens(p)' = Tokens(p) BY <1>2, <1>4, <1>5, <2>1, <2>2, TokensAre
  <2>. QED BY <1>1, <2>3 DEF Passes
<1>7. CASE receivedState[p] # NoEvent
  <2>1. InState(p) = 1 BY <1>7 DEF InState, One
  <2>2. CASE readyState[p]
    <3>1. confirmed' = Inc(confirmed, p) /\ retry' = retry /\ deadLettered' = deadLettered
      BY <1>7, <2>2 DEF OnTimer, BothPresent
    <3>2. /\ confirmed'[p] = confirmed[p] + 1 /\ deadLettered'[p] = deadLettered[p]
          /\ InRetry(p)' = InRetry(p)
      BY <1>1, <3>1 DEF Inc, InRetry, TypeOK, OutcomesOK, Counts
    <3>3. Tokens(p)' = Tokens(p)
      BY <1>2, <1>4, <1>5, <2>1, <3>2, TokensAre, TokenTerms, SMTT(30)
    <3>. QED BY <1>1, <3>3 DEF Passes
  <2>3. CASE ~readyState[p] /\ MayRetry(receivedState[p])
    <3>1. /\ confirmed' = confirmed /\ deadLettered' = deadLettered
          /\ retry' = [retry EXCEPT ![p] = Append(@, receivedState[p])]
      BY <1>7, <2>3 DEF OnTimer, BothPresent
    <3>2. receivedState[p] \in Nat BY <1>7 DEF TypeOK, JobOK
    <3>3. Len(retry'[p]) = Len(retry[p]) + 1 BY <3>1, <3>2 DEF TypeOK, TopicsOK
    <3>4. InRetry(p)' = InRetry(p) + 1
      BY <1>1, <3>3 DEF InRetry, TypeOK, GroupOK, TopicsOK, Counts
    <3>5. confirmed'[p] = confirmed[p] /\ deadLettered'[p] = deadLettered[p] BY <3>1
    <3>6. Tokens(p)' = Tokens(p)
      BY <1>2, <1>4, <1>5, <2>1, <3>4, <3>5, TokensAre, TokenTerms, SMTT(30)
    <3>. QED BY <1>1, <3>6 DEF Passes
  <2>4. CASE ~readyState[p] /\ ~MayRetry(receivedState[p])
    <3>1. confirmed' = confirmed /\ retry' = retry /\ deadLettered' = Inc(deadLettered, p)
      BY <1>7, <2>4 DEF OnTimer, BothPresent
    <3>2. /\ confirmed'[p] = confirmed[p] /\ deadLettered'[p] = deadLettered[p] + 1
          /\ InRetry(p)' = InRetry(p)
      BY <1>1, <3>1 DEF Inc, InRetry, TypeOK, OutcomesOK, Counts
    <3>3. Tokens(p)' = Tokens(p)
      BY <1>2, <1>4, <1>5, <2>1, <3>2, TokensAre, TokenTerms, SMTT(30)
    <3>. QED BY <1>1, <3>3 DEF Passes
  <2>. QED BY <2>2, <2>3, <2>4
<1>. QED BY <1>6, <1>7

\* The PUT brings the unit into being.
LEMMA UploadTokens ==
    ASSUME TypeOK, NEW p \in Paths, Upload(p)
    PROVE  /\ p \notin uploaded /\ p \in uploaded' /\ Tokens(p)' = Tokens(p) + 1
           /\ happened' = happened
<1>1. UNCHANGED <<received, receivedPos, receivedState, retry, retryPos, retrier,
                  confirmed, deadLettered, happened>>
  BY DEF Upload, groupVars, topicVars, flinkVars, outcomeVars, faultVars
<1>2. putHooks'[p] = putHooks[p] + 1 BY DEF Upload, Inc, TypeOK, ServiceOK, Counts
<1>3. /\ InTopic(p)' = InTopic(p) /\ InState(p)' = InState(p)
      /\ InRetry(p)' = InRetry(p) /\ InHandler(p)' = InHandler(p)
  BY <1>1 DEF InTopic, InState, InRetry, InHandler
<1>4. confirmed'[p] = confirmed[p] /\ deadLettered'[p] = deadLettered[p] BY <1>1
<1>5. Tokens(p)' = Tokens(p) + 1
  BY <1>2, <1>3, <1>4, TokensAre, TokenTerms, SMTT(30)
<1>. QED BY <1>1, <1>5 DEF Upload

-----------------------------------------------------------------------------
(***************************************************************************)
(* One unit per upload                                                     *)
(***************************************************************************)

\* What has happened stays, and so does what was expired, with its cause.
LEMMA HistoryStays ==
    ASSUME [Next]_vars
    PROVE  /\ happened \subseteq happened'
           /\ expired' = expired \/ "cleanup" \in happened'
<1>1. CASE UNCHANGED vars BY <1>1 DEF vars, storeVars, faultVars
<1>2. CASE ServiceCrash \/ FlinkRestart
  BY <1>2, FaultHappens DEF ServiceCrash, FlinkRestart, storeVars
<1>3. ASSUME NEW p \in Paths, PathStep(p)
      PROVE  happened \subseteq happened' /\ (expired' = expired \/ "cleanup" \in happened')
  <2>1. happened \subseteq happened'
    BY <1>3, FaultHappens
    DEF PathStep, Upload, UploadWebhook, UploadWebhookRepeats, FileReadyWebhook,
        FileReadyWebhookRepeats, MoverCopy, MoverCopyFails, MoverRemove, PollRetry,
        PollRetryFails, CommitRetry, RetryMove, RetryMoveFails, RetryRemove,
        RetryProduce, RetryProduceFails, ExpiredCleanup, ProcessElement1,
        ProcessElement2, OnTimer, faultVars
  <2>2. CASE ExpiredCleanup(p) BY <2>1, <2>2, FaultHappens DEF ExpiredCleanup
  <2>3. CASE ~ExpiredCleanup(p)
    BY <1>3, <2>1, <2>3
    DEF PathStep, Upload, UploadWebhook, UploadWebhookRepeats, FileReadyWebhook,
        FileReadyWebhookRepeats, MoverCopy, MoverCopyFails, MoverRemove, PollRetry,
        PollRetryFails, CommitRetry, RetryMove, RetryMoveFails, RetryRemove,
        RetryProduce, RetryProduceFails, ProcessElement1, ProcessElement2, OnTimer,
        CopyObject, storeVars
  <2>. QED BY <2>2, <2>3
<1>. QED BY <1>1, <1>2, <1>3 DEF Next

\* A crash puts the record in the handler back into the retry topic, a restart
\* the event in the job's state back into the received topic.
LEMMA RestartTokens ==
    ASSUME TypeOK, StateIsTimed, HandlerUncommitted, NEW p \in Paths,
           ServiceCrash \/ FlinkRestart
    PROVE  Repeats(p)
<1>1. UNCHANGED <<putHooks, received, retry, confirmed, deadLettered, uploaded>>
  BY DEF ServiceCrash, FlinkRestart, storeVars, hookVars, topicVars, outcomeVars
<1>2. happened' \cap Repeating # {}
  BY FaultHappens DEF ServiceCrash, FlinkRestart, Repeating
<1>3. /\ putHooks'[p] = putHooks[p] /\ confirmed'[p] = confirmed[p]
      /\ deadLettered'[p] = deadLettered[p]
  BY <1>1
<1>4. CASE ServiceCrash
  <2>1. UNCHANGED <<receivedPos, receivedState>> /\ retryPos' = retryCommitted /\ retrier' = Idle
    BY <1>4 DEF ServiceCrash, flinkVars
  <2>2. InTopic(p)' = InTopic(p) /\ InState(p)' = InState(p) /\ InHandler(p)' = 0
    BY <1>1, <2>1 DEF InTopic, InState, InHandler, One
  <2>3. InRetry(p)' >= InRetry(p) + InHandler(p) /\ InRetry(p)' \in Nat
    BY <1>1, <2>1 DEF InRetry, InHandler, One, HandlerUncommitted, TypeOK, GroupOK,
                      TopicsOK, Counts
  <2>4. Tokens(p)' >= Tokens(p)
    BY <1>3, <2>2, <2>3, TokensAre, TokenTerms, SMTT(30)
  <2>. QED BY <1>1, <1>2, <2>4 DEF Repeats
<1>5. CASE FlinkRestart
  <2>1. /\ UNCHANGED <<retryPos, retrier>>
        /\ receivedPos'[p] = 0 /\ receivedState'[p] = NoEvent
    BY <1>5 DEF FlinkRestart, groupVars
  <2>2. InRetry(p)' = InRetry(p) /\ InHandler(p)' = InHandler(p) /\ InState(p)' = 0
    BY <1>1, <2>1 DEF InRetry, InState, InHandler, One
  <2>3. InTopic(p)' >= InTopic(p) + InState(p) /\ InTopic(p)' \in Nat
    BY <1>1, <2>1 DEF InTopic, InState, One, StateIsTimed, TypeOK, JobOK, TopicsOK, Counts
  <2>4. Tokens(p)' >= Tokens(p)
    BY <1>3, <2>2, <2>3, TokensAre, TokenTerms, SMTT(30)
  <2>. QED BY <1>1, <1>2, <2>4 DEF Repeats
<1>. QED BY <1>4, <1>5

\* Each of the four keeps the count.
LEMMA CountIsKept ==
    ASSUME TypeOK, NEW p \in Paths, TokenCount(p), Tokens(p)' \in Nat,
           happened \subseteq happened',
           Passes(p) \/ Drops(p) \/ Merges(p) \/ Repeats(p)
    PROVE  TokenCount(p)'
<1>1. Tokens(p) \in Nat BY TokenTerms
<1>2. CASE Passes(p) BY <1>2 DEF Passes, TokenCount
<1>3. CASE Drops(p) BY <1>1, <1>3 DEF Drops, TokenCount, One
<1>4. CASE Merges(p) BY <1>1, <1>4 DEF Merges, TokenCount, One
<1>5. CASE Repeats(p) BY <1>1, <1>5 DEF Repeats, TokenCount, One
<1>. QED BY <1>2, <1>3, <1>4, <1>5

\* A step keeps the count of its own path ...
LEMMA OwnTokenCount ==
    ASSUME IInv, TokenInv, NEW p \in Paths, PathStep(p)
    PROVE  TokenCount(p)'
<1>1. TypeOK /\ CleanupHappened BY DEF IInv, TokenInv
<1>2. happened \subseteq happened' BY HistoryStays DEF Next
<1>3. TokenCount(p) BY DEF TokenInv
<1>4. Tokens(p) \in Nat BY <1>1, TokenTerms
<1>5. Tokens(p)' \in Nat BY <1>1, TokensAfter DEF Next
<1>6. CASE Passes(p) \/ Drops(p) \/ Merges(p) \/ Repeats(p)
  BY <1>1, <1>2, <1>3, <1>5, <1>6, CountIsKept
<1>7. CASE Upload(p)
  <2>1. /\ p \notin uploaded /\ p \in uploaded' /\ Tokens(p)' = Tokens(p) + 1
        /\ happened' = happened
    BY <1>1, <1>7, UploadTokens
  <2>. QED BY <1>3, <1>4, <2>1 DEF TokenCount, One
<1>8. CASE UploadWebhookRepeats(p) BY <1>1, <1>6, <1>8, RepeatTokens
<1>9. CASE UploadWebhook(p) BY <1>1, <1>6, <1>9, WebhookTokens
<1>10. CASE \/ FileReadyWebhook(p) \/ FileReadyWebhookRepeats(p)
            \/ MoverCopy(p) \/ MoverCopyFails(p) \/ MoverRemove(p)
            \/ CommitRetry(p) \/ ExpiredCleanup(p)
  BY <1>1, <1>6, <1>10, MoverTokens
<1>11. CASE PollRetry(p) \/ PollRetryFails(p)
  BY <1>1, <1>6, <1>11, PollTokens
<1>12. CASE RetryMove(p) \/ RetryMoveFails(p) \/ RetryRemove(p)
  BY <1>1, <1>6, <1>12, MoveTokens
<1>13. CASE RetryProduce(p) \/ RetryProduceFails(p)
  BY <1>1, <1>6, <1>13, ProduceTokens
<1>14. CASE ProcessElement1(p) BY <1>1, <1>6, <1>14, ReceivedTokens
<1>15. CASE ProcessElement2(p) BY <1>1, <1>6, <1>15, ReadyTokens
<1>16. CASE OnTimer(p) BY <1>1, <1>6, <1>16, TimerTokens
<1>. QED BY <1>7, <1>8, <1>9, <1>10, <1>11, <1>12, <1>13, <1>14, <1>15, <1>16
         DEF PathStep

\* The job's state: what is in it was read, and has a timer.
LEMMA TimedStep ==
    ASSUME TypeOK, StateIsTimed, [Next]_vars
    PROVE  StateIsTimed'
<1>. USE DEF StateIsTimed
<1>1. CASE UNCHANGED <<receivedPos, receivedState, timers>> BY <1>1
<1>2. CASE FlinkRestart BY <1>2 DEF FlinkRestart
<1>3. ASSUME NEW q \in Paths, ProcessElement1(q) PROVE StateIsTimed'
  <2>1. /\ receivedPos'[q] = receivedPos[q] + 1 /\ receivedPos[q] \in Nat
        /\ timers'[q] > 0
        /\ \A p \in Paths \ {q} : receivedPos'[p] = receivedPos[p] /\ timers'[p] = timers[p]
    BY <1>3 DEF ProcessElement1, RegisterTimer, Inc, TypeOK, JobOK, Counts
  <2>2. \A p \in Paths \ {q} : receivedState'[p] = receivedState[p]
    <3>1. PICK event, isReady : CheckFastConfirm(q, event, isReady)
      BY <1>3 DEF ProcessElement1
    <3>2. CASE BothPresent(event, isReady)
      BY <3>1, <3>2 DEF CheckFastConfirm, Clear, TypeOK, JobOK
    <3>3. CASE ~BothPresent(event, isReady)
      BY <3>1, <3>3 DEF CheckFastConfirm, TypeOK, JobOK
    <3>. QED BY <3>2, <3>3
  <2>. QED BY <2>1, <2>2
<1>4. ASSUME NEW q \in Paths, ProcessElement2(q) PROVE StateIsTimed'
  <2>1. UNCHANGED <<receivedPos, timers>> BY <1>4 DEF ProcessElement2
  <2>2. CheckFastConfirm(q, receivedState[q], TRUE) BY <1>4 DEF ProcessElement2
  <2>3. \A p \in Paths : receivedState'[p] # NoEvent => receivedState'[p] = receivedState[p]
    <3>1. CASE BothPresent(receivedState[q], TRUE)
      BY <2>2, <3>1 DEF CheckFastConfirm, Clear, TypeOK, JobOK
    <3>2. CASE ~BothPresent(receivedState[q], TRUE)
      BY <2>2, <3>2 DEF CheckFastConfirm, TypeOK, JobOK
    <3>. QED BY <3>1, <3>2
  <2>. QED BY <2>1, <2>3
<1>5. ASSUME NEW q \in Paths, OnTimer(q) PROVE StateIsTimed'
  <2>1. UNCHANGED receivedPos BY <1>5 DEF OnTimer
  <2>2. /\ receivedState'[q] = NoEvent
        /\ \A p \in Paths \ {q} : receivedState'[p] = receivedState[p] /\ timers'[p] = timers[p]
    BY <1>5 DEF OnTimer, Clear, Dec, TypeOK, JobOK, Counts
  <2>. QED BY <2>1, <2>2
<1>6. CASE UNCHANGED vars BY <1>1, <1>6 DEF vars, flinkVars
<1>7. CASE ServiceCrash BY <1>1, <1>7 DEF ServiceCrash, flinkVars
<1>8. ASSUME NEW q \in Paths, PathStep(q),
             ~ProcessElement1(q), ~ProcessElement2(q), ~OnTimer(q)
      PROVE  StateIsTimed'
  BY <1>1, <1>8
  DEF PathStep, Upload, UploadWebhook, UploadWebhookRepeats, FileReadyWebhook,
      FileReadyWebhookRepeats, MoverCopy, MoverCopyFails, MoverRemove, PollRetry,
      PollRetryFails, CommitRetry, RetryMove, RetryMoveFails, RetryRemove,
      RetryProduce, RetryProduceFails, ExpiredCleanup, flinkVars
<1>. QED BY <1>2, <1>3, <1>4, <1>5, <1>6, <1>7, <1>8 DEF Next

\* The retry handler: commits wait until it is done.
LEMMA CommittedStep ==
    ASSUME TypeOK, HandlerUncommitted, [Next]_vars
    PROVE  HandlerUncommitted'
<1>. USE DEF HandlerUncommitted
<1>1. CASE UNCHANGED <<retrier, retryPos, retryCommitted>> BY <1>1
<1>2. CASE retrier' = Idle BY <1>2
<1>3. ASSUME NEW q \in Paths, PollRetry(q) PROVE HandlerUncommitted'
  BY <1>3 DEF PollRetry, Inc, TypeOK, GroupOK, Counts
<1>4. ASSUME NEW q \in Paths, PollRetryFails(q) \/ CommitRetry(q) PROVE HandlerUncommitted'
  BY <1>2, <1>4 DEF PollRetryFails, CommitRetry
<1>5. ASSUME NEW q \in Paths,
             \/ RetryMove(q) \/ RetryMoveFails(q) \/ RetryRemove(q)
             \/ RetryProduce(q) \/ RetryProduceFails(q)
      PROVE HandlerUncommitted'
  <2>1. UNCHANGED <<retryPos, retryCommitted>>
    BY <1>5 DEF RetryMove, RetryMoveFails, RetryRemove, RetryProduce, RetryProduceFails
  <2>2. retrier # Idle
    BY <1>5 DEF RetryMove, RetryMoveFails, RetryRemove, RetryProduce, RetryProduceFails,
                Handling
  <2>3. retrier' = Idle \/ retrier'.path = retrier.path
    BY <1>5, <2>2
    DEF RetryMove, RetryMoveFails, RetryRemove, RetryProduce, RetryProduceFails,
        AfterMoveError, TypeOK, RetrierOK
  <2>. QED BY <2>1, <2>2, <2>3
<1>6. CASE UNCHANGED vars BY <1>1, <1>6 DEF vars, groupVars
<1>7. CASE ServiceCrash BY <1>2, <1>7 DEF ServiceCrash
<1>8. CASE FlinkRestart BY <1>1, <1>8 DEF FlinkRestart, groupVars
<1>9. ASSUME NEW q \in Paths,
             \/ Upload(q) \/ UploadWebhook(q) \/ UploadWebhookRepeats(q)
             \/ FileReadyWebhook(q) \/ FileReadyWebhookRepeats(q)
             \/ MoverCopy(q) \/ MoverCopyFails(q) \/ MoverRemove(q)
             \/ ExpiredCleanup(q)
             \/ ProcessElement1(q) \/ ProcessElement2(q) \/ OnTimer(q)
      PROVE  HandlerUncommitted'
  BY <1>1, <1>9
  DEF Upload, UploadWebhook, UploadWebhookRepeats, FileReadyWebhook,
      FileReadyWebhookRepeats, MoverCopy, MoverCopyFails, MoverRemove, ExpiredCleanup,
      ProcessElement1, ProcessElement2, OnTimer, groupVars
<1>. QED BY <1>3, <1>4, <1>5, <1>6, <1>7, <1>8, <1>9 DEF Next, PathStep

\* ... and of every other.
LEMMA NextTokens ==
    ASSUME IInv, TokenInv, [Next]_vars
    PROVE  TokenInv'
<1>0. TypeOK BY DEF IInv
<1>1. happened \subseteq happened' /\ (expired' = expired \/ "cleanup" \in happened')
  BY HistoryStays
<1>2. CleanupHappened' BY <1>1 DEF TokenInv, CleanupHappened
<1>3. StateIsTimed' /\ HandlerUncommitted'
  BY <1>0, TimedStep, CommittedStep DEF TokenInv
<1>4. ASSUME NEW p \in Paths PROVE TokenCount(p)'
  <2>1. TokenCount(p) BY DEF TokenInv
  <2>2. CASE ServiceCrash \/ FlinkRestart
    <3>1. Tokens(p)' \in Nat BY <1>0, TokensAfter
    <3>2. Repeats(p) BY <1>0, <2>2, RestartTokens DEF TokenInv
    <3>. QED BY <1>0, <1>1, <2>1, <3>1, <3>2, CountIsKept
  <2>3. CASE PathStep(p) BY <2>3, OwnTokenCount
  <2>4. ASSUME NEW q \in Paths, q # p, PathStep(q) PROVE TokenCount(p)'
    <3>1. Tokens(p)' = Tokens(p) /\ (p \in uploaded' <=> p \in uploaded)
      BY <1>0, <2>4, OtherTokens
    <3>. QED BY <1>1, <2>1, <3>1 DEF TokenCount, One
  <2>5. CASE UNCHANGED vars
    <3>1. Tokens(p)' = Tokens(p) /\ uploaded' = uploaded /\ happened' = happened
      BY <2>5 DEF Tokens, vars, storeVars, hookVars, groupVars, topicVars, flinkVars,
                  outcomeVars, faultVars
    <3>. QED BY <2>1, <3>1 DEF TokenCount
  <2>. QED BY <2>2, <2>3, <2>4, <2>5 DEF Next
<1>. QED BY <1>2, <1>3, <1>4 DEF TokenInv

\* Nothing has been uploaded.
LEMMA InitTokens == Init => TokenInv
<1>. SUFFICES ASSUME Init PROVE TokenInv OBVIOUS
<1>1. expired = {} BY DEF Init
<1>2. ASSUME NEW p \in Paths PROVE TokenCount(p)
  <2>1. /\ putHooks[p] = 0 /\ confirmed[p] = 0 /\ deadLettered[p] = 0
        /\ Len(received[p]) = 0 /\ receivedPos[p] = 0
        /\ Len(retry[p]) = 0 /\ retryPos[p] = 0
        /\ receivedState[p] = NoEvent /\ retrier = Idle /\ p \notin uploaded
    BY DEF Init
  <2>2. /\ InTopic(p) = 0 /\ InState(p) = 0 /\ InRetry(p) = 0 /\ InHandler(p) = 0
    BY <2>1 DEF InTopic, InState, InRetry, InHandler, One
  <2>3. Tokens(p) = 0 BY <2>1, <2>2, TokensAre
  <2>. QED BY <2>1, <2>3 DEF TokenCount, One
<1>3. StateIsTimed /\ HandlerUncommitted BY DEF Init, StateIsTimed, HandlerUncommitted
<1>. QED BY <1>1, <1>2, <1>3 DEF TokenInv, CleanupHappened

\* The two invariants together are inductive.
THEOREM TokenInvariance == Spec => [](IInv /\ TokenInv)
<1>1. IInv /\ TokenInv /\ [Next]_vars => TokenInv' BY NextTokens
<1>. QED BY <1>1, InitTokens, Invariance, PTL DEF Spec

\* While nothing is repeated an upload has no second unit of work, wherever
\* late timers and retries leave the first; and while nothing is dropped the
\* unit is not lost, through any number of crashes, restarts and repeats.
THEOREM TokenSafety == Spec => []OneToken
<1>1. TokenInv => OneToken BY DEF TokenInv, TokenCount, OneToken
<1>. QED BY <1>1, TokenInvariance, PTL

\* Something the system is going to do about an upload: MinIO, the job, the
\* consumer loop, the retry handler or a timer has it.
WorkDue(p) ==
    \/ putHooks[p] > 0
    \/ receivedPos[p] < Len(received[p])
    \/ retryPos[p] < Len(retry[p])
    \/ retrier # Idle /\ retrier.path = p
    \/ receivedState[p] # NoEvent /\ timers[p] > 0

\* No upload is stuck: unless something was dropped, one without an outcome has
\* work due, and if it is an event in the job's state, a timer to time it out.
THEOREM NoUploadStuck ==
    Spec => [](happened \cap Dropping = {} =>
                   \A p \in uploaded : Settled(p) \/ WorkDue(p))
<1>1. IInv /\ TokenInv => (happened \cap Dropping = {} =>
                              \A p \in uploaded : Settled(p) \/ WorkDue(p))
  <2>1. SUFFICES ASSUME IInv, TokenInv, happened \cap Dropping = {}, NEW p \in uploaded,
                        ~Settled(p), ~WorkDue(p)
                 PROVE  FALSE
    OBVIOUS
  <2>2. TypeOK /\ p \in Paths BY <2>1 DEF IInv, TypeOK, StoreOK
  <2>3. Tokens(p) >= 1 BY <2>1, <2>2 DEF TokenInv, TokenCount, One
  <2>4. putHooks[p] = 0 /\ confirmed[p] = 0 /\ deadLettered[p] = 0
    BY <2>1, <2>2, TokenTerms DEF WorkDue, Settled
  <2>5. InTopic(p) = 0 /\ InRetry(p) = 0
    BY <2>1, <2>2 DEF WorkDue, InTopic, InRetry, TypeOK, TopicsOK, JobOK, GroupOK, Counts
  <2>6. InHandler(p) = 0 BY <2>1 DEF WorkDue, InHandler, One
  <2>7. InState(p) = 0
    BY <2>1, <2>2 DEF WorkDue, TokenInv, StateIsTimed, InState, One
  <2>. QED BY <2>3, <2>4, <2>5, <2>6, <2>7, TokensAre
<1>. QED BY <1>1, TokenInvariance, PTL

-----------------------------------------------------------------------------
(***************************************************************************)
(* The outcome is final                                                    *)
(***************************************************************************)

\* With the unit in an outcome there is none anywhere else.
LEMMA NothingElsewhere ==
    ASSUME IInv, TokenInv, happened \cap Repeating = {}, NEW p \in Paths,
           confirmed[p] + deadLettered[p] > 0
    PROVE  /\ putHooks[p] = 0 /\ receivedPos[p] = Len(received[p])
           /\ receivedState[p] = NoEvent /\ ~(retrier # Idle /\ retrier.path = p)
<1>1. TypeOK BY DEF IInv
<1>2. Tokens(p) <= 1 BY <1>1, TokenTerms DEF TokenInv, TokenCount, One
<1>3. putHooks[p] = 0 /\ InTopic(p) = 0 /\ InState(p) = 0 /\ InHandler(p) = 0
  <2>1. Tokens(p) = putHooks[p] + InTopic(p) + InState(p) + InRetry(p) + InHandler(p)
                       + confirmed[p] + deadLettered[p]
    BY TokensAre
  <2>2. /\ putHooks[p] \in Nat /\ InTopic(p) \in Nat /\ InState(p) \in Nat
        /\ InRetry(p) \in Nat /\ InHandler(p) \in Nat
        /\ confirmed[p] \in Nat /\ deadLettered[p] \in Nat
    BY <1>1, TokenTerms
  <2>. QED BY <1>2, <2>1, <2>2
<1>4. receivedPos[p] = Len(received[p])
  BY <1>1, <1>3 DEF InTopic, TypeOK, JobOK, TopicsOK, Counts
<1>. QED BY <1>3, <1>4 DEF InState, InHandler, One

\* A step about the path itself finds nothing to do.
LEMMA OwnOutcomeStays ==
    ASSUME TypeOK, NEW p \in Paths, PathStep(p), happened' \cap Repeating = {},
           putHooks[p] = 0, receivedPos[p] = Len(received[p]),
           receivedState[p] = NoEvent, ~(retrier # Idle /\ retrier.path = p)
    PROVE  UNCHANGED <<confirmed, deadLettered, received, retry>>
<1>1. /\ ~UploadWebhook(p) /\ ~UploadWebhookRepeats(p)
      /\ ~RetryMove(p) /\ ~RetryMoveFails(p) /\ ~RetryRemove(p)
      /\ ~RetryProduce(p) /\ ~RetryProduceFails(p) /\ ~ProcessElement1(p)
  BY DEF UploadWebhook, UploadWebhookRepeats, RetryMove, RetryMoveFails, RetryRemove,
         RetryProduce, RetryProduceFails, Handling, ProcessElement1, TypeOK, JobOK,
         TopicsOK, Counts
<1>2. CASE Upload(p) \/ FileReadyWebhook(p) \/ FileReadyWebhookRepeats(p)
  BY <1>2 DEF Upload, FileReadyWebhook, FileReadyWebhookRepeats, topicVars, outcomeVars
<1>3. CASE MoverCopy(p) \/ MoverCopyFails(p) \/ MoverRemove(p) \/ ExpiredCleanup(p)
  BY <1>3 DEF MoverCopy, MoverCopyFails, MoverRemove, ExpiredCleanup, topicVars,
              outcomeVars
<1>4. CASE PollRetry(p) \/ PollRetryFails(p) \/ CommitRetry(p)
  BY <1>4 DEF PollRetry, PollRetryFails, CommitRetry, topicVars, outcomeVars
<1>5. CASE ProcessElement2(p)
  BY <1>5 DEF ProcessElement2, CheckFastConfirm, BothPresent, topicVars
<1>6. CASE OnTimer(p) BY <1>6 DEF OnTimer, BothPresent
<1>. QED BY <1>1, <1>2, <1>3, <1>4, <1>5, <1>6 DEF PathStep

\* A step about another path does not reach this one's outcome.
LEMMA OtherOutcomeStays ==
    ASSUME TypeOK, NEW p \in Paths, NEW q \in Paths, p # q, PathStep(q)
    PROVE  UNCHANGED <<confirmed[p], deadLettered[p], received[p], retry[p]>>
<1>. USE DEF TypeOK, TopicsOK, OutcomesOK, Counts, Inc
<1>1. CASE \/ Upload(q) \/ ExpiredCleanup(q) \/ FileReadyWebhook(q)
           \/ FileReadyWebhookRepeats(q) \/ MoverCopy(q) \/ MoverCopyFails(q)
           \/ MoverRemove(q) \/ PollRetry(q) \/ PollRetryFails(q) \/ CommitRetry(q)
           \/ RetryMove(q) \/ RetryMoveFails(q) \/ RetryRemove(q) \/ RetryProduceFails(q)
  <2>1. UNCHANGED <<confirmed, deadLettered, received, retry>>
    BY <1>1
    DEF Upload, ExpiredCleanup, FileReadyWebhook, FileReadyWebhookRepeats, MoverCopy,
        MoverCopyFails, MoverRemove, PollRetry, PollRetryFails, CommitRetry, RetryMove,
        RetryMoveFails, RetryRemove, RetryProduceFails, topicVars, outcomeVars
  <2>. QED BY <2>1
<1>2. CASE UploadWebhook(q) \/ UploadWebhookRepeats(q) \/ RetryProduce(q)
  BY <1>2 DEF UploadWebhook, UploadWebhookRepeats, RetryProduce, outcomeVars
<1>3. CASE ProcessElement1(q) \/ ProcessElement2(q)
  <2>1. PICK event, isReady : CheckFastConfirm(q, event, isReady)
    BY <1>3 DEF ProcessElement1, ProcessElement2
  <2>2. confirmed'[p] = confirmed[p]
    <3>1. CASE BothPresent(event, isReady) BY <2>1, <3>1 DEF CheckFastConfirm
    <3>2. CASE ~BothPresent(event, isReady) BY <2>1, <3>2 DEF CheckFastConfirm
    <3>. QED BY <3>1, <3>2
  <2>. QED BY <1>3, <2>2 DEF ProcessElement1, ProcessElement2, topicVars
<1>4. CASE OnTimer(q)
  <2>1. confirmed'[p] = confirmed[p] BY <1>4 DEF OnTimer
  <2>2. retry'[p] = retry[p] BY <1>4 DEF OnTimer
  <2>3. deadLettered'[p] = deadLettered[p] BY <1>4 DEF OnTimer
  <2>. QED BY <1>4, <2>1, <2>2, <2>3 DEF OnTimer
<1>. QED BY <1>1, <1>2, <1>3, <1>4 DEF PathStep

\* While nothing is repeated, an upload that was confirmed or dead-lettered gets
\* no second outcome, no retry and no further upload.received.
THEOREM OutcomesAreFinal == Spec => OutcomeIsFinal
<1>. DEFINE Final == happened' \cap Repeating = {} =>
                \A p \in Paths : confirmed[p] + deadLettered[p] > 0 =>
                    UNCHANGED <<confirmed[p], deadLettered[p], received[p], retry[p]>>
<1>1. IInv /\ TokenInv /\ [Next]_vars => [Final]_vars
  <2>1. SUFFICES ASSUME IInv, TokenInv, Next, happened' \cap Repeating = {},
                        NEW p \in Paths, confirmed[p] + deadLettered[p] > 0
                 PROVE  UNCHANGED <<confirmed[p], deadLettered[p], received[p], retry[p]>>
    OBVIOUS
  <2>2. TypeOK /\ happened \cap Repeating = {} BY <2>1, HistoryStays DEF IInv
  <2>3. ~ServiceCrash /\ ~FlinkRestart
    BY <2>1, FaultHappens DEF ServiceCrash, FlinkRestart, Repeating
  <2>4. PICK q \in Paths : PathStep(q) BY <2>1, <2>3 DEF Next
  <2>5. CASE q = p
    BY <2>1, <2>2, <2>4, <2>5, NothingElsewhere, OwnOutcomeStays
  <2>6. CASE q # p BY <2>2, <2>4, <2>6, OtherOutcomeStays
  <2>. QED BY <2>5, <2>6
<1>. QED BY <1>1, TokenInvariance, PTL DEF Spec, OutcomeIsFinal
=============================================================================
