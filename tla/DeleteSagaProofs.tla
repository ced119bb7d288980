-------------------------- MODULE DeleteSagaProofs --------------------------
(***************************************************************************)
(* Proofs about DeleteSaga, for every set of files, every MAX_RETRIES, any *)
(* number of intents and any number and set of failures.                   *)
(***************************************************************************)
EXTENDS DeleteSaga, TLAPS

-----------------------------------------------------------------------------
(***************************************************************************)
(* Type correctness                                                        *)
(***************************************************************************)
Phases == {"lookup", "soft_delete", "announce", "remove", "retry_remove"}
              \cup ProducingPhases

Busy == [phase : Phases, file : Files, retry_count : Nat]

\* A handler in a phase has the record of a file.
LEMMA AtIsBusy ==
    ASSUME TypeOK, NEW f, NEW phase, At(f, phase)
    PROVE  /\ handler \in Busy /\ handler.file = f /\ handler.phase = phase
           /\ handler.retry_count \in Nat
BY DEF TypeOK, HandlerOK, At, Busy, Phases

\* A handler that goes on keeps its record.
LEMMA GotoIsBusy ==
    ASSUME handler \in Busy, NEW phase \in Phases
    PROVE  /\ Goto(phase) \in Busy
           /\ Goto(phase).file = handler.file /\ Goto(phase).phase = phase
BY DEF Busy, Goto

\* The handler is at rest or has a record.
LEMMA HandlerIs == HandlerOK <=> handler = Idle \/ handler \in Busy
BY DEF HandlerOK, Busy, Phases

\* A failure that happens is one that may, and is counted.
LEMMA FaultTypes ==
    ASSUME TypeOK, NEW kind, Fault(kind)
    PROVE  /\ faults' \in 0..MaxFaults /\ happened' \subseteq FaultKinds
           /\ happened' = happened \cup {kind}
BY DeleteSagaAssumption DEF TypeOK, OutcomesOK, Fault

\* The initial states are well typed.
LEMMA InitTypes == Init => TypeOK
BY DeleteSagaAssumption
DEF Init, TypeOK, HandlerOK, StoreOK, TopicsOK, OutcomesOK, Counts

\* Deleting the rows keeps the counts.
LEMMA UpdateRowsTypes ==
    ASSUME TypeOK, NEW f \in Files, UpdateRows(f) \/ UNCHANGED dbVars
    PROVE  active' \in Counts /\ softDeleted' \in Counts
BY DEF TypeOK, StoreOK, Counts, UpdateRows, dbVars

\* The steps of the user, the balance job and the polls keep the types.
LEMMA QueueStepTypes ==
    ASSUME TypeOK, NEW f \in Files,
           \/ Intent(f) \/ InsertRow(f) \/ PollIntent(f) \/ PollRetry(f) \/ PollFails(f)
           \/ ConfirmAgain(f) \/ CopyAgain(f)
    PROVE  TypeOK'
<1>. USE DEF TypeOK, dbVars, topicVars, groupVars, uploadVars, outcomeVars, faultVars
<1>1. CASE Intent(f)
  <2>1. HandlerOK' BY <1>1 DEF Intent, HandlerOK
  <2>2. StoreOK' BY <1>1 DEF Intent, StoreOK
  <2>3. TopicsOK'
    BY <1>1, DeleteSagaAssumption DEF Intent, Inc, TopicsOK, Counts
  <2>4. OutcomesOK' BY <1>1 DEF Intent, OutcomesOK
  <2>. QED BY <2>1, <2>2, <2>3, <2>4
<1>2. CASE InsertRow(f)
  <2>1. HandlerOK' BY <1>2 DEF InsertRow, HandlerOK
  <2>2. StoreOK' BY <1>2 DEF InsertRow, Inc, StoreOK, Counts
  <2>3. TopicsOK' BY <1>2 DEF InsertRow, TopicsOK
  <2>4. OutcomesOK' BY <1>2 DEF InsertRow, OutcomesOK
  <2>. QED BY <2>1, <2>2, <2>3, <2>4
<1>3. CASE PollIntent(f)
  <2>1. handler' \in Busy BY <1>3 DEF PollIntent, Busy, Phases
  <2>2. HandlerOK' BY <2>1 DEF HandlerOK, Busy, Phases
  <2>3. StoreOK' BY <1>3 DEF PollIntent, StoreOK
  <2>4. TopicsOK' BY <1>3 DEF PollIntent, NextIntent, Inc, TopicsOK, Counts
  <2>5. OutcomesOK' BY <1>3 DEF PollIntent, OutcomesOK
  <2>. QED BY <2>2, <2>3, <2>4, <2>5
<1>4. CASE PollRetry(f)
  <2>0. retry[f][retryPos[f] + 1] \in Nat
    BY <1>4 DEF PollRetry, TopicsOK, Counts
  <2>1. handler' \in Busy BY <1>4, <2>0 DEF PollRetry, Busy, Phases
  <2>2. HandlerOK' BY <2>1 DEF HandlerOK, Busy, Phases
  <2>3. StoreOK' BY <1>4 DEF PollRetry, StoreOK
  <2>4. TopicsOK' BY <1>4 DEF PollRetry, Inc, TopicsOK, Counts
  <2>5. OutcomesOK' BY <1>4 DEF PollRetry, OutcomesOK
  <2>. QED BY <2>2, <2>3, <2>4, <2>5
<1>5. CASE PollFails(f)
  <2>1. HandlerOK' BY <1>5 DEF PollFails, HandlerOK
  <2>2. StoreOK' BY <1>5 DEF PollFails, StoreOK
  <2>3. TopicsOK'
    <3>1. CASE intentPos[f] < intents[f] /\ intentPos' = Inc(intentPos, f) /\ UNCHANGED retryPos
      BY <1>5, <3>1 DEF PollFails, Inc, TopicsOK, Counts
    <3>2. CASE retryPos[f] < Len(retry[f]) /\ retryPos' = Inc(retryPos, f) /\ UNCHANGED intentPos
      BY <1>5, <3>2 DEF PollFails, Inc, TopicsOK, Counts
    <3>. QED BY <1>5, <3>1, <3>2 DEF PollFails
  <2>4. OutcomesOK' BY <1>5, FaultTypes DEF PollFails, OutcomesOK
  <2>. QED BY <2>1, <2>2, <2>3, <2>4
<1>6. CASE ConfirmAgain(f)
  <2>1. HandlerOK' BY <1>6 DEF ConfirmAgain, HandlerOK
  <2>2. StoreOK' BY <1>6 DEF ConfirmAgain, Inc, StoreOK, Counts
  <2>3. TopicsOK' BY <1>6 DEF ConfirmAgain, TopicsOK
  <2>4. OutcomesOK' BY <1>6, FaultTypes DEF ConfirmAgain, OutcomesOK
  <2>. QED BY <2>1, <2>2, <2>3, <2>4
<1>7. CASE CopyAgain(f)
  <2>1. HandlerOK' BY <1>7 DEF CopyAgain, HandlerOK
  <2>2. StoreOK' BY <1>7 DEF CopyAgain, StoreOK
  <2>3. TopicsOK' BY <1>7 DEF CopyAgain, TopicsOK
  <2>4. OutcomesOK' BY <1>7, FaultTypes DEF CopyAgain, OutcomesOK
  <2>. QED BY <2>1, <2>2, <2>3, <2>4
<1>. QED BY <1>1, <1>2, <1>3, <1>4, <1>5, <1>6, <1>7

\* The steps of DeleteHandler.Handle up to its first call of MinIO keep them.
LEMMA IntentStepTypes ==
    ASSUME TypeOK, NEW f \in Files,
           \/ Lookup(f) \/ RejectNotFound(f) \/ SoftDelete(f) \/ SoftDeleteFails(f)
           \/ Announce(f)
    PROVE  TypeOK'
<1>. USE DEF TypeOK, topicVars, groupVars, uploadVars, outcomeVars, faultVars
<1>0. \A phase \in Phases : At(f, phase) =>
         /\ handler \in Busy /\ \A next \in Phases : Goto(next) \in Busy
  BY AtIsBusy, GotoIsBusy
<1>1. CASE Lookup(f)
  <2>1. handler' \in Busy
    BY <1>0, <1>1 DEF Lookup, AfterLookup, Phases, ProducingPhases
  <2>2. HandlerOK' BY <2>1 DEF HandlerOK, Busy, Phases
  <2>3. StoreOK' BY <1>1 DEF Lookup, StoreOK, dbVars
  <2>4. TopicsOK' BY <1>1 DEF Lookup, TopicsOK
  <2>5. OutcomesOK' BY <1>1 DEF Lookup, OutcomesOK
  <2>. QED BY <2>2, <2>3, <2>4, <2>5
<1>2. CASE RejectNotFound(f)
  <2>1. HandlerOK' BY <1>2 DEF RejectNotFound, HandlerOK
  <2>2. StoreOK' BY <1>2 DEF RejectNotFound, StoreOK, dbVars
  <2>3. TopicsOK' BY <1>2 DEF RejectNotFound, TopicsOK
  <2>4. OutcomesOK' BY <1>2 DEF RejectNotFound, Reject, OutcomesOK
  <2>. QED BY <2>1, <2>2, <2>3, <2>4
<1>3. CASE SoftDelete(f)
  <2>1. handler' \in Busy
    BY <1>0, <1>3 DEF SoftDelete, Phases, ProducingPhases
  <2>2. HandlerOK' BY <2>1 DEF HandlerOK, Busy, Phases
  <2>3. StoreOK' BY <1>3, UpdateRowsTypes DEF SoftDelete, StoreOK
  <2>4. TopicsOK' BY <1>3 DEF SoftDelete, TopicsOK
  <2>5. OutcomesOK' BY <1>3 DEF SoftDelete, OutcomesOK
  <2>. QED BY <2>2, <2>3, <2>4, <2>5
<1>4. CASE SoftDeleteFails(f)
  <2>1. HandlerOK' BY <1>4 DEF SoftDeleteFails, HandlerOK
  <2>2. StoreOK' BY <1>4, UpdateRowsTypes DEF SoftDeleteFails, StoreOK
  <2>3. TopicsOK' BY <1>4 DEF SoftDeleteFails, TopicsOK
  <2>4. OutcomesOK' BY <1>4, FaultTypes DEF SoftDeleteFails, Reject, OutcomesOK
  <2>. QED BY <2>1, <2>2, <2>3, <2>4
<1>5. CASE Announce(f)
  <2>1. handler' \in Busy
    BY <1>0, <1>5 DEF Announce, Phases, ProducingPhases
  <2>2. HandlerOK' BY <2>1 DEF HandlerOK, Busy, Phases
  <2>3. StoreOK' BY <1>5 DEF Announce, StoreOK, dbVars
  <2>4. TopicsOK' BY <1>5 DEF Announce, TopicsOK
  <2>5. OutcomesOK' BY <1>5 DEF Announce, Inc, OutcomesOK, Counts
  <2>. QED BY <2>2, <2>3, <2>4, <2>5
<1>. QED BY <1>1, <1>2, <1>3, <1>4, <1>5

\* The steps of a removal and of its retries keep them.
LEMMA RemovalStepTypes ==
    ASSUME TypeOK, NEW f \in Files,
           \/ Remove(f) \/ RemoveFails(f) \/ Requeue(f) \/ RetryRemoveFails(f)
           \/ DeadLetter(f) \/ ProduceFails(f) \/ LookupFails(f)
    PROVE  TypeOK'
<1>. USE DEF TypeOK, dbVars, groupVars, uploadVars, outcomeVars, faultVars
<1>0. \A phase \in Phases : At(f, phase) =>
         /\ handler \in Busy /\ handler.retry_count \in Nat
         /\ \A next \in Phases : Goto(next) \in Busy
  BY AtIsBusy, GotoIsBusy
<1>1. CASE Remove(f)
  <2>1. HandlerOK' BY <1>1 DEF Remove, HandlerOK
  <2>2. StoreOK' BY <1>1 DEF Remove, StoreOK
  <2>3. TopicsOK' BY <1>1 DEF Remove, TopicsOK, topicVars
  <2>4. OutcomesOK' BY <1>1 DEF Remove, OutcomesOK
  <2>. QED BY <2>1, <2>2, <2>3, <2>4
<1>2. CASE RemoveFails(f)
  <2>1. handler' \in Busy
    BY <1>0, <1>2 DEF RemoveFails, AfterFailedRemove, Phases, ProducingPhases
  <2>2. HandlerOK' BY <2>1 DEF HandlerOK, Busy, Phases
  <2>3. StoreOK' BY <1>2 DEF RemoveFails, StoreOK
  <2>4. TopicsOK' BY <1>2 DEF RemoveFails, TopicsOK, topicVars
  <2>5. OutcomesOK' BY <1>2, FaultTypes DEF RemoveFails, OutcomesOK
  <2>. QED BY <2>2, <2>3, <2>4, <2>5
<1>3. CASE Requeue(f)
  <2>1. handler.retry_count \in Nat
    BY <1>0, <1>3 DEF Requeue, Phases, ProducingPhases
  <2>2. HandlerOK' BY <1>3 DEF Requeue, HandlerOK
  <2>3. StoreOK' BY <1>3 DEF Requeue, StoreOK
  <2>4. TopicsOK' BY <1>3, <2>1 DEF Requeue, TopicsOK, Counts
  <2>5. OutcomesOK' BY <1>3 DEF Requeue, OutcomesOK
  <2>. QED BY <2>2, <2>3, <2>4, <2>5
<1>4. CASE RetryRemoveFails(f)
  <2>1. /\ handler.retry_count \in Nat /\ handler \in Busy
        /\ Goto("dead_letter") \in Busy /\ Goto("requeue") \in Busy
    BY <1>0, <1>4 DEF RetryRemoveFails, Phases, ProducingPhases
  <2>2. [Goto("requeue") EXCEPT !.retry_count = NextRetryCount(@)] \in Busy
    <3>1. Goto("requeue").retry_count + 1 \in Nat BY <2>1 DEF Busy
    <3>. QED BY <2>1, <3>1 DEF Busy, NextRetryCount
  <2>3. handler' \in Busy BY <1>4, <2>1, <2>2 DEF RetryRemoveFails
  <2>4. HandlerOK' BY <2>3 DEF HandlerOK, Busy, Phases
  <2>5. StoreOK' BY <1>4 DEF RetryRemoveFails, StoreOK
  <2>6. TopicsOK' BY <1>4 DEF RetryRemoveFails, TopicsOK, topicVars
  <2>7. OutcomesOK'
    BY <1>4, FaultTypes DEF RetryRemoveFails, Inc, OutcomesOK, Counts
  <2>. QED BY <2>4, <2>5, <2>6, <2>7
<1>5. CASE DeadLetter(f)
  <2>1. HandlerOK' BY <1>5 DEF DeadLetter, HandlerOK
  <2>2. StoreOK' BY <1>5 DEF DeadLetter, StoreOK
  <2>3. TopicsOK' BY <1>5 DEF DeadLetter, TopicsOK, topicVars
  <2>4. OutcomesOK' BY <1>5 DEF DeadLetter, Inc, OutcomesOK, Counts
  <2>. QED BY <2>1, <2>2, <2>3, <2>4
<1>6. CASE ProduceFails(f) \/ LookupFails(f)
  <2>1. PICK phase, kind : HandlerFails(f, phase, kind)
    BY <1>6 DEF ProduceFails, LookupFails
  <2>2. HandlerOK' BY <2>1 DEF HandlerFails, HandlerOK
  <2>3. StoreOK' BY <2>1 DEF HandlerFails, StoreOK
  <2>4. TopicsOK' BY <2>1 DEF HandlerFails, TopicsOK, topicVars
  <2>5. OutcomesOK' BY <2>1, FaultTypes DEF HandlerFails, OutcomesOK
  <2>. QED BY <2>2, <2>3, <2>4, <2>5
<1>. QED BY <1>1, <1>2, <1>3, <1>4, <1>5, <1>6

\* Restarts keep them.
LEMMA RestartTypes ==
    ASSUME TypeOK, ServiceCrash \/ BalanceRestart
    PROVE  TypeOK'
<1>. USE DEF TypeOK, dbVars, topicVars, groupVars, uploadVars, outcomeVars
<1>1. CASE ServiceCrash
  <2>1. HandlerOK' BY <1>1 DEF ServiceCrash, HandlerOK
  <2>2. StoreOK' BY <1>1 DEF ServiceCrash, StoreOK
  <2>3. PICK f \in Files :
            /\ \E pos \in 0..intentPos[f] : intentPos' = [intentPos EXCEPT ![f] = pos]
            /\ \E pos \in 0..retryPos[f] : retryPos' = [retryPos EXCEPT ![f] = pos]
    BY <1>1 DEF ServiceCrash
  <2>4. TopicsOK' BY <1>1, <2>3 DEF ServiceCrash, TopicsOK, Counts
  <2>5. OutcomesOK' BY <1>1, FaultTypes DEF ServiceCrash, OutcomesOK
  <2>. QED BY <2>1, <2>2, <2>4, <2>5
<1>2. CASE BalanceRestart
  <2>1. HandlerOK' BY <1>2 DEF BalanceRestart, HandlerOK
  <2>2. StoreOK' BY <1>2 DEF BalanceRestart, StoreOK, Counts
  <2>3. TopicsOK' BY <1>2 DEF BalanceRestart, TopicsOK
  <2>4. OutcomesOK' BY <1>2, FaultTypes DEF BalanceRestart, OutcomesOK
  <2>. QED BY <2>1, <2>2, <2>3, <2>4
<1>. QED BY <1>1, <1>2

\* A step of the saga keeps the types.
LEMMA NextTypes ==
    ASSUME TypeOK, [Next]_vars
    PROVE  TypeOK'
<1>1. CASE Next
  BY <1>1, QueueStepTypes, IntentStepTypes, RemovalStepTypes, RestartTypes
  DEF Next, HandlerStep, FailureStep
<1>2. CASE UNCHANGED vars
  BY <1>2 DEF vars, dbVars, topicVars, groupVars, uploadVars, outcomeVars, faultVars,
              TypeOK,
              HandlerOK, StoreOK, TopicsOK, OutcomesOK
<1>. QED BY <1>1, <1>2

\* The variables of the delete saga keep their types, and no reader passes the
\* end of its topic.
THEOREM DeleteTypeCorrect == Spec => []TypeOK
BY InitTypes, NextTypes, PTL DEF Spec

-----------------------------------------------------------------------------
(***************************************************************************)
(* The inductive invariant                                                 *)
(*                                                                         *)
(* An object goes only after the rows: whoever is to remove it - a handler *)
(* past its UPDATE, a record of the retry topic - was set off by an UPDATE *)
(* that found a row.                                                       *)
(***************************************************************************)
Cleaning == {"announce", "remove", "retry_remove", "requeue", "dead_letter"}

Cleans(f) == handler # Idle /\ handler.file = f /\ handler.phase \in Cleaning

Told(f) == deleted[f] + (IF At(f, "announce") THEN 1 ELSE 0)

RowsGoFirst(f) ==
    /\ At(f, "soft_delete") => active[f] > 0
    /\ Cleans(f) \/ retry[f] # <<>> \/ f \notin stored => softDeleted[f] > 0
    /\ Told(f) <= softDeleted[f]

\* The balance job inserts a row per confirmation, until it starts again.
RowsCounted(f) == Rows(f) = confirmedPos[f]

\* CleanupPending, without a handler that only looks the file up.
CleanupGoesOn(f) ==
    softDeleted[f] > 0 /\ f \in stored =>
        Cleans(f) \/ retryPos[f] < Len(retry[f]) \/ deadLettered[f] > 0

RowsInv == \A f \in Files : RowsGoFirst(f)
CountInv == "restart" \notin happened => \A f \in Files : RowsCounted(f)
OrphanInv == happened \cap Breaking = {} => \A f \in Files : CleanupGoesOn(f)

IInv == TypeOK /\ RowsInv /\ CountInv /\ OrphanInv

\* What one step does to the file it is about.
KeepsOwn(f) ==
    /\ RowsGoFirst(f)'
    /\ RowsCounted(f) => RowsCounted(f)'
    /\ happened' \cap Breaking = {} /\ CleanupGoesOn(f) => CleanupGoesOn(f)'

FileStep(f) ==
    \/ Intent(f) \/ ConfirmAgain(f) \/ CopyAgain(f) \/ InsertRow(f)
    \/ HandlerStep(f) \/ FailureStep(f)

\* The initial states satisfy the invariant.
LEMMA InitInv == Init => RowsInv /\ CountInv /\ OrphanInv
BY DEF Init, RowsInv, CountInv, OrphanInv, RowsGoFirst, RowsCounted, Rows,
       CleanupGoesOn,
       Told, At, Cleans

\* Before the handler of a file ends, it was at most at one call.
LEMMA IdleIsNowhere ==
    ASSUME NEW f, handler = Idle
    PROVE  ~Cleans(f) /\ \A phase : ~At(f, phase)
BY DEF Cleans, At

\* The same after a step.
LEMMA EndIsNowhere ==
    ASSUME NEW f, handler' = Idle
    PROVE  ~Cleans(f)' /\ \A phase : ~At(f, phase)'
BY DEF Cleans, At

\* A handler that moves on is at its new call only.
LEMMA GotoIsThere ==
    ASSUME TypeOK, NEW f, NEW phase, At(f, phase), NEW next \in Phases,
           handler' = Goto(next)
    PROVE  /\ \A p : At(f, p)' <=> p = next
           /\ Cleans(f)' <=> next \in Cleaning
<1>1. handler \in Busy /\ handler.file = f BY AtIsBusy
<1>2. handler' \in Busy /\ handler'.file = f /\ handler'.phase = next
  BY <1>1, GotoIsBusy
<1>3. handler' # Idle BY <1>2 DEF Busy, Phases, ProducingPhases, Idle
<1>. QED BY <1>2, <1>3 DEF At, Cleans

\* The steps of a producer, the balance job and the polls.
LEMMA QueueStepKeepsOwn ==
    ASSUME TypeOK, NEW f \in Files, RowsGoFirst(f),
           \/ Intent(f) \/ InsertRow(f) \/ PollIntent(f) \/ PollRetry(f) \/ PollFails(f)
           \/ ConfirmAgain(f) \/ CopyAgain(f)
    PROVE  KeepsOwn(f)
<1>. USE DEF TypeOK, StoreOK, TopicsOK, OutcomesOK, Counts, uploadVars
<1>1. CASE Intent(f)
  BY <1>1 DEF Intent, KeepsOwn, RowsGoFirst, RowsCounted, Rows, CleanupGoesOn, Told,
              At, Cleans,
              dbVars, groupVars, outcomeVars, faultVars
<1>2. CASE InsertRow(f)
  BY <1>2 DEF InsertRow, Inc, KeepsOwn, RowsGoFirst, RowsCounted, Rows,
              CleanupGoesOn, Told, At,
              Cleans, topicVars, groupVars, outcomeVars, faultVars
<1>3. CASE PollIntent(f)
  <2>1. ~Cleans(f) /\ ~At(f, "announce") BY <1>3, IdleIsNowhere DEF PollIntent
  <2>2. ~Cleans(f)' /\ ~At(f, "announce")' /\ ~At(f, "soft_delete")'
    BY <1>3 DEF PollIntent, Cleans, Cleaning, At
  <2>3. UNCHANGED <<active, softDeleted, stored, retry, retryPos, confirmedPos, deleted,
                    deadLettered, happened>>
    BY <1>3 DEF PollIntent, dbVars, topicVars, outcomeVars, faultVars
  <2>. QED BY <2>1, <2>2, <2>3
           DEF KeepsOwn, RowsGoFirst, RowsCounted, Rows, CleanupGoesOn, Told
<1>4. CASE PollRetry(f)
  <2>1. ~At(f, "announce") BY <1>4, IdleIsNowhere DEF PollRetry
  <2>2. Cleans(f)' /\ ~At(f, "announce")' /\ ~At(f, "soft_delete")'
    BY <1>4 DEF PollRetry, Cleans, Cleaning, At, Idle
  <2>3. UNCHANGED <<active, softDeleted, stored, retry, confirmedPos, deleted,
                    deadLettered, happened>>
    BY <1>4 DEF PollRetry, dbVars, topicVars, outcomeVars, faultVars
  <2>4. retry[f] # <<>> BY <1>4 DEF PollRetry
  <2>. QED BY <2>1, <2>2, <2>3, <2>4
           DEF KeepsOwn, RowsGoFirst, RowsCounted, Rows, CleanupGoesOn, Told
<1>5. CASE PollFails(f)
  <2>1. ~Cleans(f)' /\ \A phase : ~At(f, phase)'
    BY <1>5, EndIsNowhere DEF PollFails
  <2>2. UNCHANGED <<active, softDeleted, stored, retry, confirmedPos, deleted,
                    deadLettered>>
    BY <1>5 DEF PollFails, dbVars, topicVars, outcomeVars
  <2>3. happened' \cap Breaking # {}
    BY <1>5, FaultTypes DEF PollFails, Breaking
  <2>. QED BY <2>1, <2>2, <2>3 DEF KeepsOwn, RowsGoFirst, RowsCounted, Rows, Told
<1>6. CASE ConfirmAgain(f)
  BY <1>6 DEF ConfirmAgain, KeepsOwn, RowsGoFirst, RowsCounted, Rows, CleanupGoesOn,
              Told, At, Cleans, dbVars, topicVars, groupVars, outcomeVars
<1>7. CASE CopyAgain(f)
  <2>1. happened' \cap Breaking # {} BY <1>7, FaultTypes DEF CopyAgain, Breaking
  <2>2. stored \subseteq stored' BY <1>7 DEF CopyAgain
  <2>3. UNCHANGED <<active, softDeleted, retry, handler, confirmedPos, deleted>>
    BY <1>7 DEF CopyAgain, dbVars, topicVars, groupVars, uploadVars, outcomeVars
  <2>. QED BY <2>1, <2>2, <2>3
           DEF KeepsOwn, RowsGoFirst, RowsCounted, Rows, Told, At, Cleans
<1>. QED BY <1>1, <1>2, <1>3, <1>4, <1>5, <1>6, <1>7

\* The steps of an intent.  The UPDATE finds a row, since only the loop itself
\* takes rows away and the lookup came before it.
LEMMA IntentStepKeepsOwn ==
    ASSUME TypeOK, NEW f \in Files, RowsGoFirst(f),
           \/ Lookup(f) \/ RejectNotFound(f) \/ SoftDelete(f) \/ SoftDeleteFails(f)
           \/ Announce(f) \/ LookupFails(f)
    PROVE  KeepsOwn(f)
<1>. USE DEF TypeOK, StoreOK, TopicsOK, OutcomesOK, Counts, uploadVars
<1>1. CASE Lookup(f)
  <2>0. ~Cleans(f) /\ ~At(f, "announce") BY <1>1 DEF Lookup, At, Cleans, Cleaning
  <2>1. /\ ~Cleans(f)' /\ ~At(f, "announce")'
        /\ At(f, "soft_delete")' => active[f] > 0
    <3>1. At(f, "lookup") BY <1>1 DEF Lookup
    <3>2. CASE active[f] > 0
      <4>1. handler' = Goto("soft_delete") BY <1>1, <3>2 DEF Lookup, AfterLookup
      <4>. QED BY <3>1, <3>2, <4>1, GotoIsThere DEF Cleaning, Phases
    <3>3. CASE ~(active[f] > 0)
      <4>1. handler' = Goto("reject") BY <1>1, <3>3 DEF Lookup
      <4>. QED BY <3>1, <4>1, GotoIsThere DEF Cleaning, Phases, ProducingPhases
    <3>. QED BY <3>2, <3>3
  <2>2. UNCHANGED <<active, softDeleted, stored, retry, retryPos, confirmedPos, deleted,
                    deadLettered, happened>>
    BY <1>1 DEF Lookup, dbVars, topicVars, outcomeVars, faultVars
  <2>. QED BY <2>0, <2>1, <2>2
           DEF KeepsOwn, RowsGoFirst, RowsCounted, Rows, CleanupGoesOn, Told
<1>2. CASE RejectNotFound(f)
  <2>1. ~Cleans(f) /\ ~At(f, "announce")
    BY <1>2 DEF RejectNotFound, Cleans, Cleaning, At
  <2>2. ~Cleans(f)' /\ \A phase : ~At(f, phase)'
    BY <1>2, EndIsNowhere DEF RejectNotFound
  <2>3. UNCHANGED <<active, softDeleted, stored, retry, retryPos, confirmedPos, deleted,
                    deadLettered, happened>>
    BY <1>2 DEF RejectNotFound, dbVars, topicVars, faultVars
  <2>. QED BY <2>1, <2>2, <2>3
           DEF KeepsOwn, RowsGoFirst, RowsCounted, Rows, CleanupGoesOn, Told
<1>3. CASE SoftDelete(f)
  <2>1. At(f, "soft_delete") BY <1>3 DEF SoftDelete
  <2>2. ~At(f, "announce") BY <2>1 DEF At
  <2>3. Cleans(f)' /\ At(f, "announce")' /\ ~At(f, "soft_delete")'
    BY <1>3, <2>1, GotoIsThere DEF SoftDelete, Phases, ProducingPhases, Cleaning
  <2>4. /\ softDeleted'[f] = softDeleted[f] + active[f] /\ active'[f] = 0
        /\ UNCHANGED <<stored, retry, retryPos, confirmedPos, deleted, deadLettered,
                       happened>>
    BY <1>3 DEF SoftDelete, UpdateRows, topicVars, outcomeVars, faultVars
  <2>5. active[f] > 0 BY <2>1 DEF RowsGoFirst
  <2>. QED BY <2>2, <2>3, <2>4, <2>5
           DEF KeepsOwn, RowsGoFirst, RowsCounted, Rows, CleanupGoesOn, Told
<1>4. CASE SoftDeleteFails(f)
  <2>1. ~At(f, "announce") BY <1>4 DEF SoftDeleteFails, At
  <2>2. ~Cleans(f)' /\ \A phase : ~At(f, phase)'
    BY <1>4, EndIsNowhere DEF SoftDeleteFails
  <2>3. /\ softDeleted'[f] >= softDeleted[f]
        /\ active'[f] + softDeleted'[f] = active[f] + softDeleted[f]
    BY <1>4 DEF SoftDeleteFails, UpdateRows, dbVars
  <2>4. UNCHANGED <<stored, retry, retryPos, confirmedPos, deleted, deadLettered>>
    BY <1>4 DEF SoftDeleteFails, topicVars
  <2>5. happened' \cap Breaking # {} BY <1>4, FaultTypes DEF SoftDeleteFails, Breaking
  <2>6. softDeleted'[f] \in Nat BY <1>4, UpdateRowsTypes DEF SoftDeleteFails
  <2>. QED BY <2>1, <2>2, <2>3, <2>4, <2>5, <2>6
           DEF KeepsOwn, RowsGoFirst, RowsCounted, Rows, Told
<1>5. CASE Announce(f)
  <2>1. At(f, "announce") /\ Cleans(f) BY <1>5 DEF Announce, At, Cleans, Cleaning
  <2>2. Cleans(f)' /\ ~At(f, "announce")' /\ ~At(f, "soft_delete")'
    BY <1>5, <2>1, GotoIsThere DEF Announce, Phases, Cleaning
  <2>3. /\ deleted'[f] = deleted[f] + 1
        /\ UNCHANGED <<active, softDeleted, stored, retry, retryPos, confirmedPos,
                       deadLettered, happened>>
    BY <1>5 DEF Announce, Inc, dbVars, topicVars, faultVars
  <2>. QED BY <2>1, <2>2, <2>3
           DEF KeepsOwn, RowsGoFirst, RowsCounted, Rows, CleanupGoesOn, Told
<1>6. CASE LookupFails(f)
  <2>0. HandlerFails(f, "lookup", "lookup") BY <1>6 DEF LookupFails
  <2>1. ~Cleans(f) /\ ~At(f, "announce")
    BY <2>0 DEF HandlerFails, Cleans, Cleaning, At
  <2>2. ~Cleans(f)' /\ \A phase : ~At(f, phase)'
    BY <2>0, EndIsNowhere DEF HandlerFails
  <2>3. UNCHANGED <<active, softDeleted, stored, retry, retryPos, confirmedPos, deleted,
                    deadLettered>>
    BY <2>0 DEF HandlerFails, dbVars, topicVars, outcomeVars
  <2>4. happened \subseteq happened' BY <2>0, FaultTypes DEF HandlerFails
  <2>. QED BY <2>1, <2>2, <2>3, <2>4
           DEF KeepsOwn, RowsGoFirst, RowsCounted, Rows, CleanupGoesOn, Told
<1>. QED BY <1>1, <1>2, <1>3, <1>4, <1>5, <1>6

\* The steps of a removal.  Where it ends with the object in place, a record of
\* the retry topic or of the dead letter takes over.
LEMMA RemovalStepKeepsOwn ==
    ASSUME TypeOK, NEW f \in Files, RowsGoFirst(f),
           \/ Remove(f) \/ RemoveFails(f) \/ Requeue(f) \/ RetryRemoveFails(f)
           \/ DeadLetter(f) \/ ProduceFails(f)
    PROVE  KeepsOwn(f)
<1>. USE DEF TypeOK, StoreOK, TopicsOK, OutcomesOK, Counts, uploadVars
<1>1. CASE Remove(f)
  <2>1. Cleans(f) /\ ~At(f, "announce") BY <1>1 DEF Remove, At, Cleans, Cleaning
  <2>2. ~Cleans(f)' /\ \A phase : ~At(f, phase)' BY <1>1, EndIsNowhere DEF Remove
  <2>3. /\ f \notin stored'
        /\ UNCHANGED <<active, softDeleted, retry, confirmedPos, deleted>>
    BY <1>1 DEF Remove, dbVars, topicVars, outcomeVars
  <2>. QED BY <2>1, <2>2, <2>3
           DEF KeepsOwn, RowsGoFirst, RowsCounted, Rows, CleanupGoesOn, Told
<1>2. CASE RemoveFails(f)
  <2>1. At(f, "remove") BY <1>2 DEF RemoveFails
  <2>2. Cleans(f) /\ ~At(f, "announce") BY <2>1 DEF At, Cleans, Cleaning
  <2>3. Cleans(f)' /\ ~At(f, "announce")' /\ ~At(f, "soft_delete")'
    BY <1>2, <2>1, GotoIsThere
    DEF RemoveFails, AfterFailedRemove, Phases, ProducingPhases, Cleaning
  <2>4. UNCHANGED <<active, softDeleted, retry, confirmedPos, deleted>>
    BY <1>2 DEF RemoveFails, dbVars, topicVars, outcomeVars
  <2>. QED BY <2>2, <2>3, <2>4
           DEF KeepsOwn, RowsGoFirst, RowsCounted, Rows, CleanupGoesOn, Told
<1>3. CASE Requeue(f)
  <2>1. Cleans(f) /\ ~At(f, "announce") BY <1>3 DEF Requeue, At, Cleans, Cleaning
  <2>2. ~Cleans(f)' /\ \A phase : ~At(f, phase)' BY <1>3, EndIsNowhere DEF Requeue
  <2>3. UNCHANGED <<active, softDeleted, stored, retryPos, confirmedPos, deleted>>
    BY <1>3 DEF Requeue, dbVars, outcomeVars
  <2>4. handler.retry_count \in Nat BY <1>3, AtIsBusy DEF Requeue
  <2>5. Len(retry'[f]) = Len(retry[f]) + 1
    BY <1>3, <2>4 DEF Requeue
  <2>. QED BY <2>1, <2>2, <2>3, <2>5
           DEF KeepsOwn, RowsGoFirst, RowsCounted, Rows, CleanupGoesOn, Told
<1>4. CASE RetryRemoveFails(f)
  <2>1. At(f, "retry_remove") BY <1>4 DEF RetryRemoveFails
  <2>2. Cleans(f) /\ ~At(f, "announce") BY <2>1 DEF At, Cleans, Cleaning
  <2>3. /\ handler' # Idle /\ handler'.file = f
        /\ handler'.phase \in {"dead_letter", "requeue"}
    <3>1. handler \in Busy /\ handler.file = f BY <2>1, AtIsBusy
    <3>2. CASE handler' = Goto("dead_letter")
      BY <3>1, <3>2 DEF Goto, Busy, Idle
    <3>3. CASE handler' = [Goto("requeue") EXCEPT !.retry_count = NextRetryCount(@)]
      BY <3>1, <3>3 DEF Goto, Busy, Idle
    <3>. QED BY <1>4, <3>2, <3>3 DEF RetryRemoveFails
  <2>4. Cleans(f)' /\ ~At(f, "announce")' /\ ~At(f, "soft_delete")'
    BY <2>3 DEF Cleans, Cleaning, At
  <2>5. UNCHANGED <<active, softDeleted, retry, confirmedPos, deleted>>
    BY <1>4 DEF RetryRemoveFails, dbVars, topicVars, outcomeVars
  <2>. QED BY <2>2, <2>4, <2>5
           DEF KeepsOwn, RowsGoFirst, RowsCounted, Rows, CleanupGoesOn, Told
<1>5. CASE DeadLetter(f)
  <2>1. Cleans(f) /\ ~At(f, "announce") BY <1>5 DEF DeadLetter, At, Cleans, Cleaning
  <2>2. ~Cleans(f)' /\ \A phase : ~At(f, phase)' BY <1>5, EndIsNowhere DEF DeadLetter
  <2>3. /\ deadLettered'[f] = deadLettered[f] + 1
        /\ UNCHANGED <<active, softDeleted, stored, retry, confirmedPos, deleted>>
    BY <1>5 DEF DeadLetter, Inc, dbVars, topicVars
  <2>. QED BY <2>1, <2>2, <2>3
           DEF KeepsOwn, RowsGoFirst, RowsCounted, Rows, CleanupGoesOn, Told
<1>6. CASE ProduceFails(f)
  <2>1. PICK phase \in ProducingPhases : HandlerFails(f, phase, "produce")
    BY <1>6 DEF ProduceFails
  <2>2. ~Cleans(f)' /\ \A p : ~At(f, p)'
    BY <2>1, EndIsNowhere DEF HandlerFails
  <2>3. UNCHANGED <<active, softDeleted, stored, retry, confirmedPos, deleted>>
    BY <2>1 DEF HandlerFails, dbVars, topicVars, outcomeVars
  <2>4. happened' \cap Breaking # {} BY <2>1, FaultTypes DEF HandlerFails, Breaking
  <2>. QED BY <2>2, <2>3, <2>4 DEF KeepsOwn, RowsGoFirst, RowsCounted, Rows, Told
<1>. QED BY <1>1, <1>2, <1>3, <1>4, <1>5, <1>6

\* What the invariant says of a file is not touched by the steps of another.
Untouched(f) ==
    /\ active'[f] = active[f] /\ softDeleted'[f] = softDeleted[f]
    /\ retry'[f] = retry[f] /\ retryPos'[f] = retryPos[f]
    /\ confirmedPos'[f] = confirmedPos[f] /\ deleted'[f] = deleted[f]
    /\ deadLettered'[f] = deadLettered[f]
    /\ f \in stored' <=> f \in stored
    /\ Cleans(f)' <=> Cleans(f)
    /\ \A phase : At(f, phase)' <=> At(f, phase)

\* The handler is about one file.
LEMMA OthersAreNotHandled ==
    ASSUME TypeOK, NEW f \in Files, NEW g \in Files, g # f,
           handler = Idle \/ handler.file = f \/ handler' = handler,
           handler' = Idle \/ handler'.file = f \/ handler' = handler
    PROVE  (Cleans(g)' <=> Cleans(g)) /\ \A phase : At(g, phase)' <=> At(g, phase)
BY DEF Cleans, At

\* A step about a file moves only a handler of that file.
LEMMA HandlerStaysWithFile ==
    ASSUME TypeOK, NEW f \in Files, FileStep(f)
    PROVE  \/ handler' = handler
           \/ /\ handler = Idle \/ handler.file = f
              /\ handler' = Idle \/ handler'.file = f
<1>1. CASE Intent(f) \/ ConfirmAgain(f) \/ CopyAgain(f) \/ InsertRow(f) \/ PollFails(f)
  BY <1>1 DEF Intent, ConfirmAgain, CopyAgain, InsertRow, PollFails, groupVars
<1>2. CASE PollIntent(f) \/ PollRetry(f)
  BY <1>2 DEF PollIntent, PollRetry
<1>3. CASE \/ RejectNotFound(f) \/ SoftDeleteFails(f) \/ Remove(f) \/ Requeue(f)
           \/ DeadLetter(f) \/ ProduceFails(f) \/ LookupFails(f)
  BY <1>3 DEF RejectNotFound, SoftDeleteFails, Remove, Requeue, DeadLetter,
              ProduceFails,
              LookupFails, HandlerFails, At
<1>4. ASSUME NEW phase, NEW next \in Phases, At(f, phase), handler' = Goto(next)
      PROVE  handler.file = f /\ handler'.file = f
  BY <1>4, AtIsBusy, GotoIsBusy
<1>5. CASE Lookup(f) \/ SoftDelete(f) \/ Announce(f) \/ RemoveFails(f)
  BY <1>4, <1>5 DEF Lookup, AfterLookup, SoftDelete, Announce, RemoveFails,
                    AfterFailedRemove, Phases, ProducingPhases
<1>6. CASE RetryRemoveFails(f)
  <2>1. handler \in Busy /\ handler.file = f BY <1>6, AtIsBusy DEF RetryRemoveFails
  <2>2. \/ handler' = Goto("dead_letter")
        \/ handler' = [Goto("requeue") EXCEPT !.retry_count = NextRetryCount(@)]
    BY <1>6 DEF RetryRemoveFails
  <2>3. handler'.file = f BY <2>1, <2>2 DEF Goto, Busy
  <2>. QED BY <2>1, <2>3
<1>. QED BY <1>1, <1>2, <1>3, <1>5, <1>6 DEF FileStep, HandlerStep, FailureStep

\* A step about one file leaves the others alone.
LEMMA OthersUntouched ==
    ASSUME TypeOK, NEW f \in Files, NEW g \in Files, g # f, FileStep(f)
    PROVE  Untouched(g)
<1>. USE DEF TypeOK, StoreOK, TopicsOK, OutcomesOK, Counts, Inc, uploadVars
<1>1. (Cleans(g)' <=> Cleans(g)) /\ \A phase : At(g, phase)' <=> At(g, phase)
  BY HandlerStaysWithFile, OthersAreNotHandled
<1>2. CASE \/ Intent(f) \/ ConfirmAgain(f) \/ CopyAgain(f) \/ InsertRow(f)
           \/ PollIntent(f) \/ PollRetry(f) \/ PollFails(f)
  BY <1>1, <1>2 DEF Untouched, Intent, ConfirmAgain, CopyAgain, InsertRow,
                    PollIntent, PollRetry, PollFails,
                    dbVars, topicVars, groupVars, outcomeVars
<1>3. CASE Lookup(f) \/ RejectNotFound(f) \/ ProduceFails(f) \/ LookupFails(f)
  BY <1>1, <1>3 DEF Untouched, Lookup, RejectNotFound, ProduceFails, LookupFails,
                    HandlerFails, dbVars, topicVars, outcomeVars
<1>4. CASE SoftDelete(f) \/ SoftDeleteFails(f)
  BY <1>1, <1>4 DEF Untouched, SoftDelete, SoftDeleteFails, UpdateRows, dbVars,
                    topicVars, outcomeVars
<1>5. CASE Announce(f) \/ Remove(f) \/ DeadLetter(f)
  BY <1>1, <1>5 DEF Untouched, Announce, Remove, DeadLetter, dbVars, topicVars,
                    outcomeVars
<1>6. CASE RemoveFails(f) \/ RetryRemoveFails(f) \/ Requeue(f)
  BY <1>1, <1>6 DEF Untouched, RemoveFails, RetryRemoveFails, Requeue, dbVars,
                    topicVars, outcomeVars
<1>. QED BY <1>2, <1>3, <1>4, <1>5, <1>6 DEF FileStep, HandlerStep, FailureStep

\* What has happened stays.
LEMMA HappenedStays ==
    ASSUME TypeOK, [Next]_vars
    PROVE  happened \subseteq happened'
BY FaultTypes
DEF Next, FileStep, HandlerStep, FailureStep, Intent, ConfirmAgain, CopyAgain,
    InsertRow, PollIntent, PollRetry,
    PollFails, Lookup, RejectNotFound, SoftDelete, SoftDeleteFails, Announce, Remove,
    RemoveFails, Requeue, RetryRemoveFails, DeadLetter, ProduceFails, LookupFails,
    HandlerFails, ServiceCrash, BalanceRestart, vars, faultVars

\* A step about a file keeps the invariant.
LEMMA FileStepInv ==
    ASSUME IInv, NEW f \in Files, FileStep(f), happened \subseteq happened'
    PROVE  RowsInv' /\ CountInv' /\ OrphanInv'
<1>1. KeepsOwn(f)
  BY QueueStepKeepsOwn, IntentStepKeepsOwn, RemovalStepKeepsOwn
  DEF IInv, RowsInv, FileStep, HandlerStep, FailureStep
<1>2. ASSUME NEW g \in Files, g # f PROVE KeepsOwn(g)
  <2>1. Untouched(g) BY <1>2, OthersUntouched DEF IInv
  <2>2. RowsGoFirst(g) BY DEF IInv, RowsInv
  <2>3. Told(g)' = Told(g) BY <2>1 DEF Untouched, Told
  <2>. QED BY <2>1, <2>2, <2>3
           DEF Untouched, KeepsOwn, RowsGoFirst, RowsCounted, Rows, CleanupGoesOn
<1>3. \A g \in Files : KeepsOwn(g) BY <1>1, <1>2
<1>. QED BY <1>3 DEF KeepsOwn, IInv, RowsInv, CountInv, OrphanInv

\* So does a crash, which ends the handler, and a restart of the balance job,
\* which ends what RowsCounted promises.
LEMMA RestartInv ==
    ASSUME IInv, ServiceCrash \/ BalanceRestart
    PROVE  RowsInv' /\ CountInv' /\ OrphanInv'
<1>. USE DEF IInv, TypeOK, dbVars, topicVars, groupVars, uploadVars, outcomeVars
<1>1. CASE ServiceCrash
  <2>1. UNCHANGED <<active, softDeleted, stored, retry, confirmedPos, deleted>>
    BY <1>1 DEF ServiceCrash
  <2>2. happened' = happened \cup {"crash"} BY <1>1, FaultTypes DEF ServiceCrash
  <2>3. \A f : ~Cleans(f)' /\ \A phase : ~At(f, phase)'
    BY <1>1, EndIsNowhere DEF ServiceCrash
  <2>4. RowsInv'
    <3>1. SUFFICES ASSUME NEW f \in Files PROVE RowsGoFirst(f)' BY DEF RowsInv
    <3>2. RowsGoFirst(f) BY DEF RowsInv
    <3>3. deleted[f] \in Nat /\ softDeleted[f] \in Nat
      BY DEF StoreOK, OutcomesOK, Counts
    <3>4. Told(f)' = deleted[f] /\ deleted[f] <= Told(f) /\ Told(f) \in Nat
      BY <2>1, <2>3, <3>3 DEF Told
    <3>5. Told(f)' <= softDeleted'[f] BY <2>1, <3>2, <3>3, <3>4 DEF RowsGoFirst
    <3>. QED BY <2>1, <2>3, <3>2, <3>5 DEF RowsGoFirst
  <2>5. CountInv' BY <2>1, <2>2 DEF CountInv, RowsCounted, Rows
  <2>6. OrphanInv' BY <2>2 DEF OrphanInv, Breaking
  <2>. QED BY <2>4, <2>5, <2>6
<1>2. CASE BalanceRestart
  <2>1. UNCHANGED <<active, softDeleted, stored, retry, retryPos, handler, deleted,
                    deadLettered>>
    BY <1>2 DEF BalanceRestart
  <2>2. happened' = happened \cup {"restart"} BY <1>2, FaultTypes DEF BalanceRestart
  <2>3. RowsInv' BY <2>1 DEF RowsInv, RowsGoFirst, Told, At, Cleans
  <2>4. CountInv' BY <2>2 DEF CountInv
  <2>5. OrphanInv' BY <2>1, <2>2 DEF OrphanInv, CleanupGoesOn, Cleans
  <2>. QED BY <2>3, <2>4, <2>5
<1>. QED BY <1>1, <1>2

\* IInv is inductive.
LEMMA NextInv ==
    ASSUME IInv, [Next]_vars
    PROVE  IInv'
<1>1. TypeOK' /\ happened \subseteq happened' BY NextTypes, HappenedStays DEF IInv
<1>2. CASE \E f \in Files : FileStep(f) BY <1>1, <1>2, FileStepInv DEF IInv
<1>3. CASE ServiceCrash \/ BalanceRestart BY <1>1, <1>3, RestartInv DEF IInv
<1>4. CASE UNCHANGED vars
  BY <1>1, <1>4
  DEF vars, dbVars, topicVars, groupVars, uploadVars, outcomeVars, faultVars, IInv,
      RowsInv,
      CountInv, OrphanInv, RowsGoFirst, RowsCounted, Rows, CleanupGoesOn, Told, At,
      Cleans
<1>. QED BY <1>2, <1>3, <1>4 DEF Next, FileStep

\* The invariant of the delete saga.
THEOREM DeleteInvariance == Spec => []IInv
<1>1. Init => IInv BY InitTypes, InitInv DEF IInv
<1>. QED BY <1>1, NextInv, PTL DEF Spec

-----------------------------------------------------------------------------
(***************************************************************************)
(* Safety                                                                  *)
(***************************************************************************)

\* An object that is gone means a deleted row, so an active row beside it is a
\* further one: of another confirmation, unless the balance job was restarted.
THEOREM ListingSafety == Spec => []ListedIsStored
<1>1. IInv => ListedIsStored
  <2>1. SUFFICES ASSUME IInv, NEW f \in Files, active[f] > 0, f \notin stored
                 PROVE  Rows(f) > 1 /\ (confirmed[f] > 1 \/ "restart" \in happened)
    BY DEF ListedIsStored
  <2>2. /\ active[f] \in Nat /\ softDeleted[f] \in Nat /\ confirmed[f] \in Nat
        /\ confirmedPos[f] \in Nat /\ confirmedPos[f] <= confirmed[f]
    BY <2>1 DEF IInv, TypeOK, StoreOK, Counts
  <2>3. softDeleted[f] > 0 BY <2>1 DEF IInv, RowsInv, RowsGoFirst
  <2>4. Rows(f) > 1 BY <2>1, <2>2, <2>3 DEF Rows
  <2>5. "restart" \notin happened => Rows(f) = confirmedPos[f]
    BY <2>1 DEF IInv, CountInv, RowsCounted
  <2>. QED BY <2>2, <2>4, <2>5
<1>. QED BY <1>1, DeleteInvariance, PTL

\* Each announcement stands for a row that its UPDATE deleted, and each row for a
\* confirmation, unless the balance job was restarted.
THEOREM AnnouncementSafety == Spec => []AnnouncedOnce
<1>1. IInv => AnnouncedOnce
  <2>1. SUFFICES ASSUME IInv, NEW f \in Files
                 PROVE  /\ deleted[f] <= Rows(f)
                        /\ deleted[f] <= confirmed[f] \/ "restart" \in happened
    BY DEF AnnouncedOnce
  <2>2. /\ active[f] \in Nat /\ softDeleted[f] \in Nat /\ deleted[f] \in Nat
        /\ confirmed[f] \in Nat
        /\ confirmedPos[f] \in Nat /\ confirmedPos[f] <= confirmed[f]
    BY <2>1 DEF IInv, TypeOK, StoreOK, OutcomesOK, Counts
  <2>3. Told(f) <= softDeleted[f] BY <2>1 DEF IInv, RowsInv, RowsGoFirst
  <2>4. deleted[f] <= Told(f) /\ Told(f) \in Nat BY <2>2 DEF Told
  <2>5. deleted[f] <= Rows(f) BY <2>2, <2>3, <2>4 DEF Rows
  <2>6. "restart" \notin happened => Rows(f) = confirmedPos[f]
    BY <2>1 DEF IInv, CountInv, RowsCounted
  <2>. QED BY <2>2, <2>5, <2>6
<1>. QED BY <1>1, DeleteInvariance, PTL

\* The object of a deleted row is being removed, queued or dead-lettered.
THEOREM OrphanSafety == Spec => []NoSilentOrphan
<1>1. IInv => NoSilentOrphan
  BY DEF IInv, OrphanInv, CleanupGoesOn, NoSilentOrphan, CleanupPending, Cleans
<1>. QED BY <1>1, DeleteInvariance, PTL
=============================================================================
