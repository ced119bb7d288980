------------------------ MODULE MessageDeliveryProofs ------------------------
(***************************************************************************)
(* Proofs about MessageConsumer and MessageDelivery, for every set of      *)
(* replicas and requests, every configuration and any number of failures.  *)
(* What the first part shows of the consumer holds of any log; the second  *)
(* part shows that the composition is a behaviour of the consumer and      *)
(* keeps the invariant of the gateway.                                     *)
(***************************************************************************)
EXTENDS MessageDelivery, TLAPS

-----------------------------------------------------------------------------
(***************************************************************************)
(* Type correctness                                                        *)
(***************************************************************************)

\* A replica that works off a batch is at a record of the topic.
LEMMA PositionInLog ==
    ASSUME TypeOK, NEW c \in Consumers, Working(c)
    PROVE  /\ Position(c) \in 1..Len(log)
           /\ Position(c) <= last[c]
           /\ Position(c) = next[c] + 1
BY DEF TypeOK, CursorsOK, Working, Idle, Position

\* Storing the next record keeps the rows within the topic.
LEMMA InsertKeepsRows ==
    ASSUME TypeOK, NEW c \in Consumers, Working(c), InsertPosition(c), UNCHANGED log
    PROVE  RowsOK'
BY PositionInLog DEF TypeOK, RowsOK, InsertPosition

\* The process of a replica ends.
LEMMA DiesKeepsTypes ==
    ASSUME TypeOK, NEW c \in Consumers, Dies(c), UNCHANGED log
    PROVE  /\ CursorsOK'
           /\ session' \in [Consumers -> {"stopped", "polling", "cancelled"}]
           /\ DOMAIN known' = Consumers
           /\ UNCHANGED owner
BY DEF TypeOK, CursorsOK, MembersOK, Dies, groupVars

\* A failure that happens is one that may, and is counted.
LEMMA FaultTypes ==
    ASSUME TypeOK, NEW kind, Fault(kind)
    PROVE  faults' \in Nat /\ happened' \subseteq FaultKinds
BY DEF TypeOK, MembersOK, Fault

\* The initial states are well typed.
LEMMA InitTypes == Init => TypeOK
BY DEF Init, ConsumerInit, TypeOK, CursorsOK, RowsOK, MembersOK

\* A step of a replica keeps the types.
LEMMA StepTypes ==
    ASSUME TypeOK, NEW c \in Consumers, ConsumerStep(c), UNCHANGED log
    PROVE  TypeOK'
<1>. USE DEF TypeOK
<1>1. CASE Start(c)
  <2>1. CursorsOK' BY <1>1 DEF Start, CursorsOK, groupVars
  <2>2. RowsOK' BY <1>1 DEF Start, RowsOK, rowVars
  <2>3. MembersOK' BY <1>1 DEF Start, MembersOK, groupVars, faultVars
  <2>. QED BY <2>1, <2>2, <2>3
<1>2. CASE Assign(c)
  <2>1. CursorsOK' BY <1>2 DEF Assign, CursorsOK, StartOffset
  <2>2. RowsOK' BY <1>2 DEF Assign, RowsOK, rowVars
  <2>3. MembersOK' BY <1>2 DEF Assign, MembersOK, faultVars
  <2>. QED BY <2>1, <2>2, <2>3
<1>3. CASE Expel(c)
  <2>1. CursorsOK' BY <1>3 DEF Expel, CursorsOK, memberVars
  <2>2. RowsOK' BY <1>3 DEF Expel, RowsOK, rowVars
  <2>3. MembersOK' BY <1>3 DEF Expel, MembersOK, memberVars, faultVars
  <2>. QED BY <2>1, <2>2, <2>3
<1>4. CASE Revoke(c)
  <2>1. CursorsOK' BY <1>4 DEF Revoke, CursorsOK, memberVars
  <2>2. RowsOK' BY <1>4 DEF Revoke, RowsOK, rowVars
  <2>3. MembersOK' BY <1>4, FaultTypes DEF Revoke, MembersOK, memberVars
  <2>. QED BY <2>1, <2>2, <2>3
<1>5. CASE Commit(c)
  <2>1. CursorsOK' BY <1>5 DEF Commit, Committable, CursorsOK, memberVars
  <2>2. RowsOK' BY <1>5 DEF Commit, RowsOK, rowVars
  <2>3. MembersOK' BY <1>5 DEF Commit, MembersOK, memberVars, faultVars
  <2>. QED BY <2>1, <2>2, <2>3
<1>6. CASE Poll(c)
  <2>1. PICK n \in 1..Len(log) : Polls(c, n) BY <1>6 DEF Poll
  <2>2. CursorsOK' BY <1>6, <2>1 DEF Poll, Polls, CursorsOK, groupVars
  <2>3. RowsOK' BY <1>6 DEF Poll, RowsOK, rowVars
  <2>4. MembersOK' BY <1>6 DEF Poll, MembersOK, groupVars, faultVars
  <2>. QED BY <2>2, <2>3, <2>4
<1>7. CASE PollFails(c)
  <2>1. PICK n \in 1..Len(log) :
            /\ Polls(c, n)
            /\ next' = [next EXCEPT ![c] = n]
            /\ skipped' = skipped \cup (resume[c] + 1)..n
    BY <1>7 DEF PollFails
  <2>2. CursorsOK' BY <1>7, <2>1 DEF PollFails, Polls, CursorsOK, groupVars
  <2>3. (resume[c] + 1)..n \subseteq 1..Len(log) BY DEF CursorsOK
  <2>4. RowsOK' BY <1>7, <2>1, <2>3 DEF PollFails, RowsOK
  <2>5. MembersOK' BY <1>7, FaultTypes DEF PollFails, MembersOK, groupVars
  <2>. QED BY <2>2, <2>4, <2>5
<1>8. CASE InsertRow(c)
  <2>1. Working(c) BY <1>8 DEF InsertRow
  <2>2. CursorsOK'
    BY <1>8, <2>1, PositionInLog
    DEF InsertRow, Advance, NextPosition, Position, CursorsOK, groupVars
  <2>3. RowsOK' BY <1>8, <2>1, InsertKeepsRows DEF InsertRow
  <2>4. MembersOK'
    BY <1>8 DEF InsertRow, FetchSchema, MembersOK, groupVars, faultVars
  <2>. QED BY <2>2, <2>3, <2>4
<1>9. CASE SkipRecord(c)
  <2>1. Working(c) BY <1>9 DEF SkipRecord
  <2>2. CursorsOK'
    BY <1>9, <2>1, PositionInLog
    DEF SkipRecord, Advance, NextPosition, Position, CursorsOK, groupVars
  <2>3. RowsOK' BY <1>9, <2>1, PositionInLog DEF SkipRecord, RowsOK
  <2>4. faults' \in Nat /\ happened' \subseteq FaultKinds
    BY <1>9, FaultTypes DEF SkipRecord, MembersOK, faultVars
  <2>5. DOMAIN known' = Consumers BY <1>9 DEF SkipRecord, FetchSchema, MembersOK
  <2>6. MembersOK' BY <1>9, <2>4, <2>5 DEF SkipRecord, MembersOK, groupVars
  <2>. QED BY <2>2, <2>3, <2>6
<1>10. CASE InsertFails(c)
  <2>1. Working(c) /\ Dies(c) BY <1>10 DEF InsertFails
  <2>2. InsertPosition(c) \/ UNCHANGED rowVars BY <1>10 DEF InsertFails
  <2>3. RowsOK' BY <2>1, <2>2, InsertKeepsRows DEF RowsOK, rowVars
  <2>4. faults' \in Nat /\ happened' \subseteq FaultKinds
    BY <1>10, FaultTypes DEF InsertFails, MembersOK, faultVars
  <2>5. CursorsOK' /\ MembersOK' BY <2>1, <2>4, DiesKeepsTypes DEF MembersOK
  <2>. QED BY <2>3, <2>5
<1>11. CASE Crash(c)
  <2>1. RowsOK' BY <1>11 DEF Crash, RowsOK, rowVars
  <2>2. Dies(c) BY <1>11 DEF Crash
  <2>3. faults' \in Nat /\ happened' \subseteq FaultKinds
    BY <1>11, FaultTypes DEF Crash
  <2>4. CursorsOK' /\ MembersOK' BY <2>2, <2>3, DiesKeepsTypes DEF MembersOK
  <2>. QED BY <2>1, <2>4
<1>12. CASE Interrupt(c)
  <2>1. CursorsOK' BY <1>12 DEF Interrupt, CursorsOK, groupVars
  <2>2. RowsOK' BY <1>12 DEF Interrupt, RowsOK, rowVars
  <2>3. MembersOK' BY <1>12, FaultTypes DEF Interrupt, MembersOK, groupVars
  <2>. QED BY <2>1, <2>2, <2>3
<1>. QED BY <1>1, <1>2, <1>3, <1>4, <1>5, <1>6, <1>7, <1>8, <1>9, <1>10, <1>11,
            <1>12 DEF ConsumerStep

\* A record more in the topic.
LEMMA ProducedTypes ==
    ASSUME TypeOK, Produced
    PROVE  TypeOK'
<1>. USE DEF TypeOK
<1>1. log' \in Seq(Records) /\ Len(log') >= Len(log) BY DEF Produced
<1>2. CursorsOK'
  BY <1>1 DEF Produced, CursorsOK, consumerVars, groupVars, memberVars
<1>3. RowsOK' BY <1>1 DEF Produced, RowsOK, consumerVars, rowVars
<1>4. faults' \in Nat /\ happened' \subseteq FaultKinds
  BY FaultTypes DEF Produced, MembersOK, faultVars
<1>5. MembersOK'
  BY <1>4 DEF Produced, MembersOK, consumerVars, groupVars, memberVars
<1>. QED BY <1>1, <1>2, <1>3, <1>5

\* Every variable of the consumer keeps its type, and no cursor of a replica
\* or of the group passes the end of the topic.
THEOREM ConsumerTypeCorrect == Spec => []TypeOK
<1>1. TypeOK /\ [Next]_vars => TypeOK'
  <2>. SUFFICES ASSUME TypeOK, [Next]_vars PROVE TypeOK' OBVIOUS
  <2>1. CASE ConsumerNext BY <2>1, StepTypes DEF ConsumerNext
  <2>2. CASE Produced BY <2>2, ProducedTypes
  <2>3. CASE UNCHANGED vars
    BY <2>3 DEF TypeOK, CursorsOK, RowsOK, MembersOK, vars, consumerVars,
                groupVars, memberVars, rowVars, faultVars
  <2>. QED BY <2>1, <2>2, <2>3 DEF Next
<1>. QED BY <1>1, InitTypes, PTL DEF Spec

-----------------------------------------------------------------------------
(***************************************************************************)
(* No record is left behind                                                *)
(*                                                                         *)
(* CommittedIsSettled is not inductive: what a replica may commit next has *)
(* to be settled too.  A cursor from which nothing has been worked off yet *)
(* is the end of a batch, so the batch must be finished before its end is  *)
(* settled.                                                                *)
(***************************************************************************)
CursorSettled(c) ==
    /\ Settled(next[c]) /\ Settled(done[c])
    /\ resume[c] = last[c] \/ Settled(resume[c])

SettledInv == Settled(committed) /\ \A c \in Consumers : CursorSettled(c)

\* Rows and gaps stay.
LEMMA RowsStay ==
    ASSUME [Next]_vars
    PROVE  inserted \subseteq inserted' /\ skipped \subseteq skipped'
<1>1. ASSUME NEW c \in Consumers, ConsumerStep(c)
      PROVE  inserted \subseteq inserted' /\ skipped \subseteq skipped'
  BY <1>1 DEF ConsumerStep, Start, Assign, Expel, Revoke, Commit, Poll, PollFails,
              InsertRow, InsertPosition, SkipRecord, InsertFails, Crash, Interrupt, rowVars
<1>. QED BY <1>1 DEF Next, ConsumerNext, Produced, vars, consumerVars, rowVars

\* So what is settled stays settled.
LEMMA SettledStays ==
    ASSUME [Next]_vars, NEW n, Settled(n)
    PROVE  Settled(n)'
BY RowsStay DEF Settled

\* The cursors of the other replicas are not touched.
LEMMA OthersKeepCursors ==
    ASSUME TypeOK, NEW c \in Consumers, ConsumerStep(c), NEW d \in Consumers, d # c
    PROVE  /\ next'[d] = next[d] /\ last'[d] = last[d]
           /\ resume'[d] = resume[d] /\ done'[d] = done[d]
<1>. USE DEF TypeOK, CursorsOK
<1>1. CASE Start(c) \/ Expel(c) \/ Revoke(c) \/ Commit(c) \/ Interrupt(c)
  BY <1>1 DEF Start, Expel, Revoke, Commit, Interrupt, memberVars
<1>2. CASE Assign(c) BY <1>2 DEF Assign
<1>3. CASE Poll(c) BY <1>3 DEF Poll, Polls
<1>4. CASE PollFails(c) BY <1>4 DEF PollFails, Polls
<1>5. CASE InsertRow(c) \/ SkipRecord(c) BY <1>5 DEF InsertRow, SkipRecord, Advance
<1>6. CASE InsertFails(c) \/ Crash(c) BY <1>6 DEF InsertFails, Crash, Dies
<1>. QED BY <1>1, <1>2, <1>3, <1>4, <1>5, <1>6 DEF ConsumerStep

\* The cursors of the replica that moves.
LEMMA StepKeepsCursorSettled ==
    ASSUME TypeOK, SettledInv, NEW c \in Consumers, ConsumerStep(c), UNCHANGED log,
           TypeOK'
    PROVE  Settled(committed)' /\ CursorSettled(c)'
<1>. USE DEF TypeOK, CursorsOK
<1>0. [Next]_vars BY DEF Next, ConsumerNext
<1>1. \A n \in Nat : Settled(n) => Settled(n)' BY <1>0, SettledStays
<1>2. Settled(0)' BY DEF Settled
<1>3. CursorSettled(c) /\ Settled(committed) BY DEF SettledInv
<1>4. CASE Start(c) \/ Expel(c) \/ Revoke(c) \/ Interrupt(c)
  <2>1. UNCHANGED <<next, last, resume, done, committed>>
    BY <1>4 DEF Start, Expel, Revoke, Interrupt, memberVars, groupVars
  <2>. QED BY <2>1, <1>1, <1>3 DEF CursorSettled
<1>5. CASE Assign(c)
  <2>1. /\ UNCHANGED <<next, last, committed>>
        /\ resume'[c] = committed /\ done'[c] = committed
    BY <1>5 DEF Assign, StartOffset
  <2>. QED BY <2>1, <1>1, <1>3 DEF CursorSettled
<1>6. CASE Commit(c)
  <2>1. /\ UNCHANGED <<next, last, resume, done>>
        /\ committed' = IF next[c] = last[c] THEN resume[c] ELSE done[c]
    BY <1>6 DEF Commit, Committable, Idle, memberVars
  <2>2. Settled(committed') BY <2>1, <1>3 DEF CursorSettled, Settled
  <2>. QED BY <2>1, <2>2, <1>1, <1>3 DEF CursorSettled
<1>7. CASE Poll(c)
  <2>1. PICK n \in 1..Len(log) : Polls(c, n) BY <1>7 DEF Poll
  <2>2. /\ next[c] = last[c] /\ committed' = committed
        /\ next'[c] = resume[c] /\ done'[c] = resume[c]
        /\ last'[c] = n /\ resume'[c] = n
    BY <1>7, <2>1 DEF Poll, Polls, Idle, groupVars
  <2>3. Settled(resume[c]) BY <2>2, <1>3 DEF CursorSettled
  <2>. QED BY <2>2, <2>3, <1>1, <1>3 DEF CursorSettled
<1>8. CASE PollFails(c)
  <2>1. PICK n \in 1..Len(log) :
            /\ Polls(c, n)
            /\ next' = [next EXCEPT ![c] = n]
            /\ skipped' = skipped \cup (resume[c] + 1)..n
    BY <1>8 DEF PollFails
  <2>2. /\ next[c] = last[c] /\ committed' = committed
        /\ next'[c] = n /\ done'[c] = resume[c]
        /\ last'[c] = n /\ resume'[c] = n
    BY <1>8, <2>1 DEF PollFails, Polls, Idle, groupVars
  <2>3. Settled(resume[c]) BY <2>2, <1>3 DEF CursorSettled
  <2>4. 1..n \subseteq 1..resume[c] \cup (resume[c] + 1)..n OBVIOUS
  <2>5. inserted' = inserted BY <1>8 DEF PollFails
  <2>6. Settled(n)' BY <2>1, <2>3, <2>4, <2>5 DEF Settled
  <2>. QED BY <2>2, <2>3, <2>6, <1>1, <1>3 DEF CursorSettled
<1>9. CASE InsertRow(c) \/ SkipRecord(c)
  <2>1. /\ Working(c) /\ UNCHANGED <<last, resume, done, committed>>
        /\ next'[c] = next[c] + 1
    BY <1>9 DEF InsertRow, SkipRecord, Advance, NextPosition, groupVars
  <2>2. Position(c) \in inserted' \cup skipped'
    BY <1>9 DEF InsertRow, InsertPosition, SkipRecord
  <2>3. 1..(next[c] + 1) \subseteq 1..next[c] \cup {Position(c)} BY DEF Position
  <2>4. 1..next[c] \subseteq inserted' \cup skipped'
    BY <1>1, <1>3 DEF CursorSettled, Settled
  <2>5. Settled(next[c])' BY <2>1, <2>2, <2>3, <2>4 DEF Settled
  <2>. QED BY <2>1, <2>5, <1>1, <1>3 DEF CursorSettled
<1>10. CASE InsertFails(c) \/ Crash(c)
  <2>1. Dies(c) BY <1>10 DEF InsertFails, Crash
  <2>2. /\ next'[c] = 0 /\ last'[c] = 0 /\ resume'[c] = 0 /\ done'[c] = 0
        /\ committed' = committed
    BY <2>1 DEF Dies, groupVars
  <2>. QED BY <2>2, <1>1, <1>2, <1>3 DEF CursorSettled
<1>. QED BY <1>4, <1>5, <1>6, <1>7, <1>8, <1>9, <1>10 DEF ConsumerStep

\* Nothing is behind the first cursor.
LEMMA InitSettled == Init => SettledInv
BY DEF Init, ConsumerInit, SettledInv, CursorSettled, Settled

\* SettledInv is inductive, given the types.
LEMMA NextSettled ==
    ASSUME TypeOK, TypeOK', SettledInv, [Next]_vars
    PROVE  SettledInv'
<1>0. committed \in Nat /\ \A c \in Consumers : next[c] \in Nat /\ done[c] \in Nat /\ resume[c] \in Nat
  BY DEF TypeOK, CursorsOK
<1>1. \A n \in Nat : Settled(n) => Settled(n)' BY SettledStays
<1>2. CASE UNCHANGED <<next, last, resume, done, committed>>
  BY <1>0, <1>1, <1>2 DEF SettledInv, CursorSettled
<1>3. ASSUME NEW c \in Consumers, ConsumerStep(c), UNCHANGED log
      PROVE  SettledInv'
  <2>1. Settled(committed)' /\ CursorSettled(c)' BY <1>3, StepKeepsCursorSettled
  <2>2. ASSUME NEW d \in Consumers, d # c PROVE CursorSettled(d)'
    <3>1. /\ next'[d] = next[d] /\ last'[d] = last[d]
          /\ resume'[d] = resume[d] /\ done'[d] = done[d]
      BY <1>3, <2>2, OthersKeepCursors
    <3>2. CursorSettled(d) BY DEF SettledInv
    <3>. QED BY <3>1, <3>2, <1>0, <1>1 DEF CursorSettled
  <2>. QED BY <2>1, <2>2 DEF SettledInv
<1>. QED BY <1>2, <1>3 DEF Next, ConsumerNext, Produced, vars, consumerVars,
            groupVars, memberVars

\* The types and the settled cursors together.
THEOREM ConsumerInvariance == Spec => [](TypeOK /\ SettledInv)
<1>1. TypeOK /\ TypeOK' /\ SettledInv /\ [Next]_vars => SettledInv' BY NextSettled
<1>. QED BY <1>1, InitSettled, ConsumerTypeCorrect, PTL DEF Spec

\* No crash, failed INSERT, rebalance or leftover batch makes the group commit
\* past a record that was neither stored nor passed over.
THEOREM NoRecordIsLeftBehind == Spec => []CommittedIsSettled
<1>1. SettledInv => CommittedIsSettled BY DEF SettledInv, CommittedIsSettled
<1>. QED BY <1>1, ConsumerInvariance, PTL

-----------------------------------------------------------------------------
(***************************************************************************)
(* Gaps and repeats have a cause                                           *)
(*                                                                         *)
(* As long as nothing has happened that redelivers records, the partition  *)
(* is still with its first owner, which has stored nothing beyond the      *)
(* cursor it works off: so what it stores next is stored for the first     *)
(* time.                                                                   *)
(***************************************************************************)
Redelivering == {"rebalance", "consumer_crash", "consumer_interrupt", "insert"}
Skipping == {"poll", "unreadable", "consumer_interrupt"}

Redelivered ==
    \/ happened \cap Redelivering # {}
    \/ \E i \in 1..Len(log) : log[i].request \in Refused

FirstOwner ==
    /\ repeated = {}
    /\ owner = {} => inserted = {} /\ committed = 0
    /\ \A c \in Consumers :
          IF c \in owner
          THEN /\ session[c] = "polling" /\ resume[c] = last[c]
               /\ inserted \subseteq 1..next[c]
          ELSE next[c] = 0 /\ last[c] = 0

GapsHaveACause == skipped # {} => happened \cap Skipping # {}

CancelledHasACause ==
    \A c \in Consumers : session[c] = "cancelled" => "consumer_interrupt" \in happened

CauseInv == (Redelivered \/ FirstOwner) /\ GapsHaveACause /\ CancelledHasACause

\* A cause stays one.
LEMMA CausesStay ==
    ASSUME TypeOK, [Next]_vars
    PROVE  /\ happened \subseteq happened'
           /\ Redelivered => Redelivered'
<1>1. ASSUME NEW c \in Consumers, ConsumerStep(c) PROVE happened \subseteq happened'
  BY <1>1 DEF ConsumerStep, Start, Assign, Expel, Revoke, Commit, Poll, PollFails,
              InsertRow, SkipRecord, InsertFails, Crash, Interrupt, Fault, faultVars
<1>2. happened \subseteq happened'
  BY <1>1 DEF Next, ConsumerNext, Produced, Fault, vars, faultVars
<1>3. log' = log \/ Produced BY DEF Next, ConsumerNext, vars
<1>4. ASSUME Produced PROVE /\ Len(log') \in Nat /\ Len(log') >= Len(log)
                           /\ \A i \in 1..Len(log) : log'[i] = log[i]
  BY <1>4 DEF Produced, TypeOK
<1>5. ASSUME NEW i \in 1..Len(log), log[i].request \in Refused
      PROVE  i \in 1..Len(log') /\ log'[i].request \in Refused
  BY <1>3, <1>4, <1>5 DEF TypeOK
<1>. QED BY <1>2, <1>5 DEF Redelivered

\* A step of a replica under which the partition stays with its first owner.
LEMMA StepKeepsFirstOwner ==
    ASSUME TypeOK, CauseInv, NEW c \in Consumers, ConsumerStep(c), UNCHANGED log,
           ~Redelivered'
    PROVE  FirstOwner'
<1>. USE DEF TypeOK, CursorsOK, MembersOK
<1>0. [Next]_vars BY DEF Next, ConsumerNext
<1>1. FirstOwner /\ ~Redelivered BY <1>0, CausesStay DEF CauseInv
<1>2. \A d \in Consumers : d # c =>
          next'[d] = next[d] /\ last'[d] = last[d] /\ resume'[d] = resume[d]
  BY OthersKeepCursors
<1>3. ASSUME NEW kind \in Redelivering, Fault(kind) PROVE FALSE
  BY <1>3 DEF Fault, Redelivered
<1>4. Working(c) => c \in owner /\ session[c] = "polling"
  BY <1>1 DEF FirstOwner, Working, Idle
<1>5. CASE Start(c)
  BY <1>5, <1>1 DEF Start, FirstOwner, groupVars, rowVars
<1>6. CASE Assign(c)
  <2>1. /\ owner = {} /\ owner' = {c} /\ resume'[c] = committed
        /\ session' = session /\ next' = next /\ last' = last
        /\ inserted' = inserted /\ repeated' = repeated
    BY <1>6 DEF Assign, StartOffset, rowVars
  <2>2. session[c] = "polling"
    BY <1>6, <1>1 DEF Assign, CauseInv, CancelledHasACause, Redelivered, Redelivering
  <2>3. inserted = {} /\ committed = 0 /\ last[c] = 0 BY <2>1, <1>1 DEF FirstOwner
  <2>. QED BY <2>1, <2>2, <2>3, <1>1 DEF FirstOwner
<1>7. CASE Expel(c) BY <1>7, <1>1 DEF Expel, FirstOwner
<1>8. CASE Revoke(c) BY <1>8, <1>3 DEF Revoke, Redelivering
<1>9. CASE Commit(c)
  BY <1>9, <1>1 DEF Commit, FirstOwner, memberVars, rowVars
<1>10. CASE Poll(c)
  <2>1. PICK n \in 1..Len(log) : Polls(c, n) BY <1>10 DEF Poll
  <2>2. /\ owner = {c} /\ owner' = owner /\ session' = session
        /\ next[c] = last[c] /\ next'[c] = resume[c]
        /\ last'[c] = n /\ resume'[c] = n
        /\ inserted' = inserted /\ repeated' = repeated
    BY <1>10, <2>1 DEF Poll, Polls, Idle, groupVars, rowVars
  <2>. QED BY <2>2, <1>1, <1>2 DEF FirstOwner
<1>11. CASE PollFails(c)
  <2>1. PICK n \in 1..Len(log) : Polls(c, n) /\ next' = [next EXCEPT ![c] = n]
    BY <1>11 DEF PollFails
  <2>2. /\ owner = {c} /\ owner' = owner /\ session' = session
        /\ next[c] = last[c] /\ next'[c] = n /\ n > resume[c]
        /\ last'[c] = n /\ resume'[c] = n
        /\ inserted' = inserted /\ repeated' = repeated
    BY <1>11, <2>1 DEF PollFails, Polls, Idle, groupVars
  <2>3. 1..next[c] \subseteq 1..n BY <2>2, <1>1 DEF FirstOwner
  <2>. QED BY <2>2, <2>3, <1>1, <1>2 DEF FirstOwner
<1>12. CASE InsertRow(c)
  <2>1. Working(c) /\ c \in owner /\ session[c] = "polling"
    BY <1>12, <1>4 DEF InsertRow
  <2>2. /\ owner' = owner /\ session' = session /\ last' = last /\ resume' = resume
        /\ next'[c] = next[c] + 1 /\ inserted' = inserted \cup {next[c] + 1}
    BY <1>12 DEF InsertRow, InsertPosition, Advance, NextPosition, Position, groupVars
  <2>3. inserted \subseteq 1..next[c] BY <2>1, <1>1 DEF FirstOwner
  <2>4. Position(c) \notin inserted BY <2>3 DEF Position
  <2>5. repeated' = {}
    BY <1>12, <2>4, <1>1 DEF InsertRow, InsertPosition, FirstOwner
  <2>6. owner = {c} BY <2>1
  <2>7. inserted' \subseteq 1..next'[c]
    <3>1. next[c] \in Nat OBVIOUS
    <3>2. 1..(next[c] + 1) = 1..next[c] \cup {next[c] + 1} BY <3>1
    <3>. QED BY <2>2, <2>3, <3>2
  <2>. QED BY <2>1, <2>2, <2>5, <2>6, <2>7, <1>1, <1>2 DEF FirstOwner
<1>13. CASE SkipRecord(c)
  <2>1. Working(c) /\ c \in owner /\ session[c] = "polling"
    BY <1>13, <1>4 DEF SkipRecord
  <2>2. /\ owner' = owner /\ session' = session /\ last' = last /\ resume' = resume
        /\ next'[c] = next[c] + 1
        /\ inserted' = inserted /\ repeated' = repeated
    BY <1>13 DEF SkipRecord, Advance, NextPosition, groupVars
  <2>3. inserted \subseteq 1..(next[c] + 1) BY <2>1, <1>1 DEF FirstOwner
  <2>4. owner = {c} BY <2>1
  <2>. QED BY <2>1, <2>2, <2>3, <2>4, <1>1, <1>2 DEF FirstOwner
<1>14. CASE InsertFails(c)
  <2>1. Working(c) /\ session[c] = "polling" BY <1>14, <1>4 DEF InsertFails
  <2>2. Record(c).request \in Refused \/ Fault("insert")
    BY <1>14, <2>1 DEF InsertFails
  <2>3. Position(c) \in 1..Len(log) BY <2>1, PositionInLog
  <2>. QED BY <2>2, <2>3, <1>1, <1>3 DEF Redelivered, Redelivering, Record
<1>15. CASE Crash(c) BY <1>15, <1>3 DEF Crash, Redelivering
<1>16. CASE Interrupt(c) BY <1>16, <1>3 DEF Interrupt, Redelivering
<1>. QED BY <1>5, <1>6, <1>7, <1>8, <1>9, <1>10, <1>11, <1>12, <1>13, <1>14, <1>15,
            <1>16 DEF ConsumerStep

\* A gap, and a cancelled replica, come with their failure.
LEMMA StepKeepsCauses ==
    ASSUME TypeOK, CauseInv, NEW c \in Consumers, ConsumerStep(c), UNCHANGED log
    PROVE  GapsHaveACause' /\ CancelledHasACause'
<1>. USE DEF TypeOK, MembersOK
<1>0. [Next]_vars BY DEF Next, ConsumerNext
<1>1. happened \subseteq happened' BY <1>0, CausesStay
<1>2. GapsHaveACause /\ CancelledHasACause BY DEF CauseInv
<1>3. ASSUME skipped' = skipped PROVE GapsHaveACause'
  BY <1>3, <1>1, <1>2 DEF GapsHaveACause
<1>4. ASSUME \A d \in Consumers : session'[d] = "cancelled" => session[d] = "cancelled"
      PROVE  CancelledHasACause'
  BY <1>4, <1>1, <1>2 DEF CancelledHasACause
<1>5. CASE Start(c) BY <1>5, <1>3, <1>4 DEF Start, rowVars
<1>6. CASE Assign(c) \/ Expel(c) \/ Revoke(c) \/ Commit(c) \/ Poll(c)
  BY <1>6, <1>3, <1>4 DEF Assign, Expel, Revoke, Commit, Poll, memberVars, rowVars
<1>7. CASE PollFails(c)
  <2>1. "poll" \in happened' BY <1>7 DEF PollFails, Fault
  <2>. QED BY <1>7, <2>1, <1>4 DEF PollFails, GapsHaveACause, Skipping
<1>8. CASE InsertRow(c) BY <1>8, <1>3, <1>4 DEF InsertRow, InsertPosition
<1>9. CASE SkipRecord(c)
  <2>1. happened' \cap Skipping # {}
    BY <1>9, <1>1, <1>2 DEF SkipRecord, Fault, CancelledHasACause, Skipping
  <2>. QED BY <1>9, <2>1, <1>4 DEF SkipRecord, GapsHaveACause
<1>10. CASE InsertFails(c) \/ Crash(c)
  <2>1. Dies(c) /\ skipped' = skipped
    BY <1>10 DEF InsertFails, InsertPosition, Crash, rowVars
  <2>. QED BY <2>1, <1>3, <1>4 DEF Dies
<1>11. CASE Interrupt(c)
  <2>1. "consumer_interrupt" \in happened' BY <1>11 DEF Interrupt, Fault
  <2>. QED BY <1>11, <2>1, <1>3 DEF Interrupt, CancelledHasACause, rowVars
<1>. QED BY <1>5, <1>6, <1>7, <1>8, <1>9, <1>10, <1>11 DEF ConsumerStep

\* CauseInv is inductive, given the types.
LEMMA NextCauses ==
    ASSUME TypeOK, CauseInv, [Next]_vars
    PROVE  CauseInv'
<1>1. CASE ConsumerNext
  BY <1>1, StepKeepsFirstOwner, StepKeepsCauses DEF ConsumerNext, CauseInv
<1>2. CASE UNCHANGED consumerVars
  <2>1. FirstOwner => FirstOwner'
    BY <1>2 DEF FirstOwner, consumerVars, groupVars, memberVars, rowVars
  <2>2. GapsHaveACause' /\ CancelledHasACause'
    BY <1>2, CausesStay
    DEF CauseInv, GapsHaveACause, CancelledHasACause, consumerVars, memberVars, rowVars
  <2>. QED BY <2>1, <2>2, CausesStay DEF CauseInv
<1>. QED BY <1>1, <1>2 DEF Next, Produced, vars

\* A record without a row comes from a poll error or a record that cannot be
\* read, and a repeated row from a redelivery: never from the loop itself.
THEOREM GapsAndRepeatsAreCaused == Spec => []GapsAndRepeatsHaveACause
<1>1. Init => CauseInv
  BY DEF Init, ConsumerInit, CauseInv, FirstOwner, GapsHaveACause, CancelledHasACause
<1>2. TypeOK /\ CauseInv /\ [Next]_vars => CauseInv' BY NextCauses
<1>3. CauseInv => GapsAndRepeatsHaveACause
  BY DEF CauseInv, Redelivered, Redelivering, FirstOwner, GapsHaveACause, Skipping,
         GapsAndRepeatsHaveACause
<1>. QED BY <1>1, <1>2, <1>3, ConsumerTypeCorrect, PTL DEF Spec

-----------------------------------------------------------------------------
(***************************************************************************)
(* The consumer implements the stream                                      *)
(***************************************************************************)
streamVars == <<Len(log), inserted, skipped>>

\* A replica settles what comes next, or nothing.
LEMMA StepIsStreamStep ==
    ASSUME TypeOK, SettledInv, NEW c \in Consumers, ConsumerStep(c), UNCHANGED log
    PROVE  [Stream!Next]_streamVars
<1>. USE DEF TypeOK, CursorsOK
<1>1. CursorSettled(c) BY DEF SettledInv
<1>2. ASSUME Working(c), InsertPosition(c) PROVE Stream!Store(Position(c))
  <2>1. Position(c) - 1 = next[c] BY DEF Position
  <2>. QED BY <1>1, <1>2, <2>1
       DEF InsertPosition, CursorSettled, Settled, Stream!Store, Stream!IsTurn
<1>3. CASE Start(c) \/ Assign(c) \/ Expel(c) \/ Revoke(c) \/ Commit(c) \/ Poll(c)
           \/ Crash(c) \/ Interrupt(c)
  BY <1>3 DEF Start, Assign, Expel, Revoke, Commit, Poll, Crash, Interrupt, rowVars,
              streamVars
<1>4. CASE InsertRow(c)
  BY <1>4, <1>2, PositionInLog DEF InsertRow, Stream!Next
<1>5. CASE InsertFails(c)
  <2>1. Working(c) /\ (InsertPosition(c) \/ UNCHANGED rowVars)
    BY <1>5 DEF InsertFails
  <2>2. CASE InsertPosition(c) BY <2>1, <2>2, <1>2, PositionInLog DEF Stream!Next
  <2>3. CASE UNCHANGED rowVars BY <2>3 DEF rowVars, streamVars
  <2>. QED BY <2>1, <2>2, <2>3
<1>6. CASE SkipRecord(c)
  <2>1. Position(c) \in 1..Len(log) /\ Position(c) - 1 = next[c]
    BY <1>6, PositionInLog DEF SkipRecord, Position
  <2>2. Position(c)..Position(c) = {Position(c)} BY <2>1
  <2>3. skipped' = skipped \cup Position(c)..Position(c) /\ inserted' = inserted
    BY <1>6, <2>2 DEF SkipRecord
  <2>4. Stream!Skip(Position(c), Position(c))
    BY <2>1, <2>3, <1>1 DEF CursorSettled, Settled, Stream!Skip, Stream!IsTurn
  <2>. QED BY <2>1, <2>4 DEF Stream!Next
<1>7. CASE PollFails(c)
  <2>1. PICK n \in 1..Len(log) :
            /\ Polls(c, n)
            /\ skipped' = skipped \cup (resume[c] + 1)..n
    BY <1>7 DEF PollFails
  <2>2. inserted' = inserted BY <1>7 DEF PollFails
  <2>3. next[c] = last[c] /\ resume[c] + 1 \in 1..Len(log)
    BY <2>1 DEF Polls, Idle
  <2>4. 1..((resume[c] + 1) - 1) \subseteq inserted \cup skipped
    BY <2>3, <1>1 DEF CursorSettled, Settled
  <2>5. Stream!Skip(resume[c] + 1, n)
    BY <2>1, <2>2, <2>4 DEF Stream!Skip, Stream!IsTurn
  <2>. QED BY <2>3, <2>5 DEF Stream!Next
<1>. QED BY <1>3, <1>4, <1>5, <1>6, <1>7 DEF ConsumerStep

\* With any number of replicas that crash, are rebalanced or work off batches
\* they no longer own, the consumer is an in-order stream: each step settles
\* the next record, repeats an earlier one, or changes nothing.
THEOREM ConsumerImplementsStream == Spec => StreamSpec
<1>1. Init => Stream!Init BY DEF Init, ConsumerInit, Stream!Init
<1>2. TypeOK /\ SettledInv /\ [Next]_vars => [Stream!Next]_streamVars
  <2>. SUFFICES ASSUME TypeOK, SettledInv, [Next]_vars
                PROVE  [Stream!Next]_streamVars
    OBVIOUS
  <2>1. CASE ConsumerNext BY <2>1, StepIsStreamStep DEF ConsumerNext
  <2>2. CASE Produced
    <3>1. Len(log') = Len(log) \/ Len(log') = Len(log) + 1
      BY <2>2 DEF Produced, TypeOK
    <3>. QED BY <2>2, <3>1
         DEF Produced, consumerVars, rowVars, Stream!Next, Stream!Grow, streamVars
  <2>3. CASE UNCHANGED vars BY <2>3 DEF vars, consumerVars, rowVars, streamVars
  <2>. QED BY <2>1, <2>2, <2>3 DEF Next
<1>. QED BY <1>1, <1>2, ConsumerInvariance, PTL DEF Spec, StreamSpec, Stream!Spec, streamVars

-----------------------------------------------------------------------------
(***************************************************************************)
(* The composition                                                         *)
(***************************************************************************)

\* The gateway's invariant and lemmas, for the gateway of this composition.
GP == INSTANCE EventGatewayProofs WITH Evolving <- Endpoints

\* The composition meets the assumption of the gateway.
LEMMA GatewayAssumption ==
    /\ Endpoints \subseteq GP!RelayEndpoints \cup GP!MediaEndpoints
    /\ Configured \subseteq {"hmac_secret", "jwks", "webhook_secret"}
    /\ Mount \in {"volume", "subPath"}
    /\ MaxVersion \in Nat \ {0} /\ MaxFaults \in Nat
BY MessageDeliveryAssumption DEF Endpoints, GP!RelayEndpoints

GatewayInv == GP!IInv /\ GP!Accounts

\* Both instances name the same gateway.
LEMMA SameInit == Gateway!Init <=> GP!Init
BY DEF Gateway!Init, GP!Init, Gateway!RoutedEndpoints, GP!RoutedEndpoints,
       Gateway!NoCall, GP!NoCall

LEMMA SameProcess ==
    /\ Gateway!Start <=> GP!Start
    /\ Gateway!Listen <=> GP!Listen
    /\ Gateway!Reload <=> GP!Reload
    /\ Gateway!Crash <=> GP!Crash
    /\ Gateway!Interrupt <=> GP!Interrupt
    /\ Gateway!Exit <=> GP!Exit
<1>. USE DEF Gateway!Fault, GP!Fault, Gateway!processVars, GP!processVars,
             Gateway!recordVars, GP!recordVars, Gateway!outsideVars, GP!outsideVars,
             Gateway!faultVars, GP!faultVars, Gateway!Reloaded, GP!Reloaded
<1>1. Gateway!Start <=> GP!Start
  BY DEF Gateway!Start, GP!Start, Gateway!FetchJWKS, GP!FetchJWKS
<1>2. Gateway!Listen <=> GP!Listen
  BY DEF Gateway!Listen, GP!Listen, Gateway!WireMedia, GP!WireMedia
<1>3. Gateway!Reload <=> GP!Reload BY DEF Gateway!Reload, GP!Reload
<1>4. Gateway!ProcessEnds <=> GP!ProcessEnds
  BY DEF Gateway!ProcessEnds, GP!ProcessEnds, Gateway!EmptyCache, GP!EmptyCache,
         Gateway!InFlight, GP!InFlight, Gateway!Ended, GP!Ended,
         Gateway!LoseBuffered, GP!LoseBuffered, Gateway!Buffered, GP!Buffered
<1>5. Gateway!Crash <=> GP!Crash BY <1>4 DEF Gateway!Crash, GP!Crash
<1>6. Gateway!Interrupt <=> GP!Interrupt BY DEF Gateway!Interrupt, GP!Interrupt
<1>7. Gateway!Exit <=> GP!Exit BY <1>4 DEF Gateway!Exit, GP!Exit
<1>. QED BY <1>1, <1>2, <1>3, <1>5, <1>6, <1>7

LEMMA SameRequest ==
    ASSUME NEW r \in Requests
    PROVE  /\ Gateway!Receive(r) <=> GP!Receive(r)
           /\ Gateway!Handle(r) <=> GP!Handle(r)
<1>. USE DEF Gateway!Fault, GP!Fault, Gateway!processVars, GP!processVars,
             Gateway!recordVars, GP!recordVars, Gateway!outsideVars, GP!outsideVars,
             Gateway!faultVars, GP!faultVars, Gateway!Step, GP!Step,
             Gateway!NotProduced, GP!NotProduced,
             Gateway!RelayEndpoints, GP!RelayEndpoints
<1>1. Gateway!Receive(r) <=> GP!Receive(r)
  <2>1. \A e, credential : Gateway!Admits(e, credential) <=> GP!Admits(e, credential)
    BY DEF Gateway!Admits, GP!Admits, Gateway!WebhookAdmits, GP!WebhookAdmits,
           Gateway!ExternalAdmits, GP!ExternalAdmits,
           Gateway!MediaAdmits, GP!MediaAdmits,
           Gateway!AuthenticateRequest, GP!AuthenticateRequest,
           Gateway!Verified, GP!Verified,
           Gateway!MediaEndpoints, GP!MediaEndpoints
  <2>2. \A e : Gateway!FirstStep(e) = GP!FirstStep(e)
    BY DEF Gateway!FirstStep, GP!FirstStep
  <2>. QED BY <2>1, <2>2 DEF Gateway!Receive, GP!Receive
<1>2. Gateway!CheckCredit(r) <=> GP!CheckCredit(r)
  BY DEF Gateway!CheckCredit, GP!CheckCredit
<1>3. Gateway!GetFileMetadata(r) <=> GP!GetFileMetadata(r)
  BY DEF Gateway!GetFileMetadata, GP!GetFileMetadata,
         Gateway!AfterLookup, GP!AfterLookup
<1>4. Gateway!SoftDelete(r) <=> GP!SoftDelete(r)
  BY DEF Gateway!SoftDelete, GP!SoftDelete, Gateway!UpdateRow, GP!UpdateRow
<1>5. Gateway!SoftDeleteFails(r) <=> GP!SoftDeleteFails(r)
  BY DEF Gateway!SoftDeleteFails, GP!SoftDeleteFails,
         Gateway!UpdateRow, GP!UpdateRow
<1>6. Gateway!ResolveSchema(r) <=> GP!ResolveSchema(r)
  BY DEF Gateway!ResolveSchema, GP!ResolveSchema
<1>7. Gateway!ResolveSchemaFails(r) <=> GP!ResolveSchemaFails(r)
  BY DEF Gateway!ResolveSchemaFails, GP!ResolveSchemaFails
<1>8. Gateway!StoreSchema(r) <=> GP!StoreSchema(r)
  BY DEF Gateway!StoreSchema, GP!StoreSchema
<1>9. Gateway!Encode(r) <=> GP!Encode(r)
  BY DEF Gateway!Encode, GP!Encode, Gateway!Produce, GP!Produce,
         Gateway!Record, GP!Record
<1>10. Gateway!Answer(r) <=> GP!Answer(r) BY DEF Gateway!Answer, GP!Answer
<1>. QED BY <1>1, <1>2, <1>3, <1>4, <1>5, <1>6, <1>7, <1>8, <1>9, <1>10
         DEF Gateway!Handle, GP!Handle

LEMMA SameOutside ==
    /\ \A e \in Endpoints : /\ Gateway!Flush(e) <=> GP!Flush(e)
                            /\ Gateway!ProduceFails(e) <=> GP!ProduceFails(e)
                            /\ Gateway!EvolveSchema(e) <=> GP!EvolveSchema(e)
    /\ Gateway!EditRoutes <=> GP!EditRoutes
    /\ Gateway!OtherDelete <=> GP!OtherDelete
BY DEF Gateway!Fault, GP!Fault, Gateway!processVars, GP!processVars,
       Gateway!recordVars, GP!recordVars, Gateway!outsideVars, GP!outsideVars,
       Gateway!faultVars, GP!faultVars, Gateway!Flush, GP!Flush,
       Gateway!ProduceFails, GP!ProduceFails, Gateway!GiveUp, GP!GiveUp,
       Gateway!EvolveSchema, GP!EvolveSchema, Gateway!EditRoutes, GP!EditRoutes,
       Gateway!Watched, GP!Watched, Gateway!RoutedEndpoints, GP!RoutedEndpoints,
       Gateway!OtherDelete, GP!OtherDelete

LEMMA SameNext == Gateway!Next <=> GP!Next
BY SameProcess, SameRequest, SameOutside DEF Gateway!Next, GP!Next

-----------------------------------------------------------------------------
(***************************************************************************)
(* The gateway's side                                                      *)
(***************************************************************************)

\* What a step of a replica does to the failures.
LEMMA ConsumerFaults ==
    ASSUME ConsumerNext
    PROVE  UNCHANGED faultVars \/ \E kind : Fault(kind)
BY DEF ConsumerNext, ConsumerStep, Start, Assign, Expel, Revoke, Commit, Poll,
       PollFails, InsertRow, SkipRecord, InsertFails, Crash, Interrupt

\* The gateway starts as it does alone.
LEMMA InitGateway == DeliveryInit => GatewayInv
BY SameInit, GP!InitInv, GP!InitAccounts, GatewayAssumption
DEF DeliveryInit, GatewayInv

\* A step of the gateway keeps its invariant, as it does alone.
LEMMA GatewayKeepsItself ==
    ASSUME GatewayInv, GatewayStep
    PROVE  GatewayInv'
<1>1. GP!Next BY SameNext DEF GatewayStep
<1>2. GP!IInv' BY <1>1, GP!NextInv, GatewayAssumption DEF GatewayInv
<1>3. GP!Accounts' BY <1>1, GP!NextAccounts, GatewayAssumption DEF GatewayInv
<1>. QED BY <1>2, <1>3 DEF GatewayInv

\* A step of the consumer only adds failures.
LEMMA ConsumerKeepsGateway ==
    ASSUME GatewayInv, DeliveryStep
    PROVE  GatewayInv'
<1>1. UNCHANGED faultVars \/ \E kind : Fault(kind)
  BY ConsumerFaults DEF DeliveryStep
<1>2. happened \subseteq happened' BY <1>1 DEF Fault, faultVars
<1>3. GP!TypeOK BY DEF GatewayInv, GP!IInv
<1>4. faults' \in 0..MaxFaults /\ happened' \subseteq FaultKinds
  BY <1>1, <1>3, MessageDeliveryAssumption DEF GP!TypeOK, Fault, faultVars
<1>. USE DEF DeliveryStep, gatewayVars
<1>5. GP!TypeOK' BY <1>3, <1>4 DEF GP!TypeOK
<1>6. GP!IInv'
  BY <1>5
  DEF GatewayInv, GP!IInv, GP!CallsKnown, GP!NothingKept, GP!InFlight,
      GP!EmptyCache, GP!FreshInMemory, GP!Fresh, GP!FreshOnTheWay,
      GP!FreshRecords, GP!NotPastUpdate
<1>7. GP!Accounts'
  BY <1>2, GP!QuietAccounts, GatewayAssumption DEF GatewayInv, GP!recordVars, GP!Accounts
<1>. QED BY <1>6, <1>7 DEF GatewayInv

LEMMA StutterKeepsGateway ==
    ASSUME GatewayInv, UNCHANGED deliveryVars
    PROVE  GatewayInv'
<1>1. UNCHANGED <<gatewayVars, faultVars>> BY DEF deliveryVars, vars
<1>2. GP!TypeOK' BY <1>1 DEF GatewayInv, GP!IInv, GP!TypeOK, gatewayVars, faultVars
<1>3. GP!IInv'
  BY <1>1, <1>2
  DEF gatewayVars, GatewayInv, GP!IInv, GP!CallsKnown, GP!NothingKept, GP!InFlight,
      GP!EmptyCache, GP!FreshInMemory, GP!Fresh, GP!FreshOnTheWay,
      GP!FreshRecords, GP!NotPastUpdate
<1>4. GP!Accounts'
  BY <1>1, GP!QuietAccounts, GatewayAssumption
  DEF gatewayVars, faultVars, GatewayInv, GP!recordVars, GP!Accounts
<1>. QED BY <1>3, <1>4 DEF GatewayInv

-----------------------------------------------------------------------------
(***************************************************************************)
(* The consumer's side                                                     *)
(***************************************************************************)

\* The log is the topic that the gateway's client sends to.
LogIsTopic == log = topic["external"]

\* What a step of the gateway's process does to the topic and to the failures.
LEMMA ProcessIsProduced ==
    ASSUME GP!Start \/ GP!Listen \/ GP!Reload \/ GP!Crash \/ GP!Interrupt \/ GP!Exit
    PROVE  /\ UNCHANGED topic
           /\ UNCHANGED faultVars \/ \E kind \in GP!GatewayFaultKinds : GP!Fault(kind)
BY DEF GP!Start, GP!FetchJWKS, GP!Listen, GP!WireMedia, GP!Reload, GP!Crash,
       GP!Interrupt, GP!Exit, GP!ProcessEnds, GP!recordVars, GP!faultVars, faultVars,
       GP!GatewayFaultKinds

\* A request changes neither: it only hands its record to the client.
LEMMA RequestIsProduced ==
    ASSUME NEW r \in Requests, GP!Receive(r) \/ GP!Handle(r)
    PROVE  /\ UNCHANGED topic
           /\ UNCHANGED faultVars \/ \E kind \in GP!GatewayFaultKinds : GP!Fault(kind)
BY DEF GP!Receive, GP!Handle, GP!CheckCredit, GP!GetFileMetadata, GP!SoftDelete,
       GP!SoftDeleteFails, GP!ResolveSchema, GP!ResolveSchemaFails, GP!StoreSchema,
       GP!Encode, GP!Answer, GP!recordVars, GP!faultVars, faultVars,
       GP!GatewayFaultKinds

\* The client appends a record, and that is all that comes into the topic.
LEMMA OutsideIsProduced ==
    ASSUME GP!TypeOK,
           \/ \E e \in Endpoints : GP!Flush(e) \/ GP!ProduceFails(e) \/ GP!EvolveSchema(e)
           \/ GP!EditRoutes \/ GP!OtherDelete
    PROVE  /\ \/ UNCHANGED topic
              \/ \E record \in Records :
                     topic'["external"] = Append(topic["external"], record)
           /\ UNCHANGED faultVars \/ \E kind \in GP!GatewayFaultKinds : GP!Fault(kind)
<1>1. ASSUME NEW e \in Endpoints, GP!Flush(e)
      PROVE  /\ UNCHANGED faultVars
             /\ \E record \in Records :
                    topic'["external"] = Append(topic["external"], record)
  <2>1. e = "external" BY DEF Endpoints
  <2>2. buffer["external"] \in Seq(GP!RecordType) /\ topic \in [Endpoints -> Seq(GP!RecordType)]
    BY <1>1, <2>1 DEF GP!TypeOK
  <2>3. Head(buffer["external"]) \in GP!RecordType
    BY <1>1, <2>1, <2>2 DEF GP!Flush
  <2>4. GP!RecordType \subseteq Records
    BY MessageDeliveryAssumption DEF GP!RecordType, Gateway!RecordType
  <2>. QED BY <1>1, <2>1, <2>2, <2>3, <2>4 DEF GP!Flush, GP!faultVars, faultVars
<1>2. CASE \E e \in Endpoints : GP!ProduceFails(e) \/ GP!EvolveSchema(e)
  BY <1>2 DEF GP!ProduceFails, GP!EvolveSchema, GP!recordVars, GP!faultVars, faultVars,
              GP!GatewayFaultKinds
<1>3. CASE GP!EditRoutes \/ GP!OtherDelete
  BY <1>3 DEF GP!EditRoutes, GP!OtherDelete, GP!recordVars, GP!faultVars, faultVars,
              GP!GatewayFaultKinds
<1>. QED BY <1>1, <1>2, <1>3

\* What the gateway does is, for the consumer, a record more or a failure
\* upstream.
LEMMA GatewayIsProduced ==
    ASSUME GatewayInv, LogIsTopic, GatewayStep
    PROVE  [Next]_vars
<1>1. GP!Next BY SameNext DEF GatewayStep
<1>2. GP!TypeOK BY DEF GatewayInv, GP!IInv
<1>3. /\ \/ UNCHANGED topic
         \/ \E record \in Records :
                topic'["external"] = Append(topic["external"], record)
      /\ UNCHANGED faultVars \/ \E kind \in GP!GatewayFaultKinds : GP!Fault(kind)
  BY <1>1, <1>2, ProcessIsProduced, RequestIsProduced, OutsideIsProduced DEF GP!Next
<1>4. UNCHANGED log \/ \E record \in Records : log' = Append(log, record)
  BY <1>3 DEF GatewayStep, LogIsTopic
<1>5. \A kind \in GP!GatewayFaultKinds : kind \notin ConsumerFaultKinds
  BY DEF GP!GatewayFaultKinds, ConsumerFaultKinds
<1>6. \/ UNCHANGED faultVars
      \/ \E kind \in FaultKinds \ ConsumerFaultKinds : Fault(kind)
  BY <1>3, <1>5 DEF GP!Fault, Fault
<1>. QED BY <1>4, <1>6 DEF GatewayStep, Next, Produced

DeliveryNext == GatewayStep \/ DeliveryStep

DeliveryInv == GatewayInv /\ LogIsTopic

\* The invariant of the composition, and its steps as steps of the consumer.
LEMMA NextDelivery ==
    ASSUME DeliveryInv, [DeliveryNext]_deliveryVars
    PROVE  DeliveryInv' /\ [Next]_vars
<1>1. CASE GatewayStep
  <2>1. LogIsTopic' BY <1>1 DEF GatewayStep, LogIsTopic
  <2>. QED BY <1>1, <2>1, GatewayKeepsItself, GatewayIsProduced DEF DeliveryInv
<1>2. CASE DeliveryStep
  <2>1. LogIsTopic' /\ Next
    BY <1>2 DEF DeliveryInv, DeliveryStep, ConsumerNext, gatewayVars, LogIsTopic, Next
  <2>. QED BY <1>2, <2>1, ConsumerKeepsGateway DEF DeliveryInv
<1>3. CASE UNCHANGED deliveryVars
  <2>1. LogIsTopic' /\ UNCHANGED vars
    BY <1>3 DEF DeliveryInv, deliveryVars, gatewayVars, vars, LogIsTopic
  <2>. QED BY <1>3, <2>1, StutterKeepsGateway DEF DeliveryInv
<1>. QED BY <1>1, <1>2, <1>3 DEF DeliveryNext

LEMMA InitDelivery == DeliveryInit => DeliveryInv /\ Init
<1>1. SUFFICES ASSUME DeliveryInit PROVE DeliveryInv /\ Init OBVIOUS
<1>2. topic["external"] = <<>> /\ faults = 0 /\ happened = {}
  BY <1>1 DEF DeliveryInit, Gateway!Init, Endpoints
<1>. QED BY <1>1, <1>2, InitGateway DEF DeliveryInit, DeliveryInv, LogIsTopic, Init

-----------------------------------------------------------------------------
(***************************************************************************)
(* Theorems                                                                *)
(***************************************************************************)

\* The invariant of the gateway holds in the composition, where the failures
\* of the consumer share its budget; the consumer reads what it has sent.
THEOREM DeliveryInvariance == DeliverySpec => []DeliveryInv
<1>1. DeliveryInit => DeliveryInv BY InitDelivery
<1>2. DeliveryInv /\ [GatewayStep \/ DeliveryStep]_deliveryVars => DeliveryInv'
  BY NextDelivery DEF DeliveryNext
<1>. QED BY <1>1, <1>2, PTL DEF DeliverySpec

\* Reading from the gateway the consumer behaves as it does alone, so that
\* whatever the first part shows of it holds here.
THEOREM DeliveryKeepsConsumer == DeliverySpec => Spec
<1>1. DeliveryInit => Init BY InitDelivery
<1>2. DeliveryInv /\ [GatewayStep \/ DeliveryStep]_deliveryVars => [Next]_vars
  BY NextDelivery DEF DeliveryNext
<1>. QED BY <1>1, <1>2, DeliveryInvariance, PTL DEF DeliverySpec, Spec

\* A record becomes a broadcast for one of two reasons: it is none of the
\* direct ones, or its schema has no field that says so.
BroadcastInv ==
    \A i \in broadcast : log[i].request \in Direct => log[i].version < FieldsSince

\* Only the row of the record that is inserted can become one.
LEMMA StepBroadcasts ==
    ASSUME TypeOK, BroadcastInv, NEW c \in Consumers, ConsumerStep(c), UNCHANGED log
    PROVE  BroadcastInv'
<1>1. ASSUME broadcast' = broadcast PROVE BroadcastInv' BY <1>1 DEF BroadcastInv
<1>2. ASSUME InsertPosition(c) PROVE BroadcastInv'
  BY <1>2 DEF InsertPosition, IsBroadcast, Record, BroadcastInv
<1>3. broadcast' = broadcast \/ InsertPosition(c)
  BY DEF ConsumerStep, Start, Assign, Expel, Revoke, Commit, Poll, PollFails,
         InsertRow, SkipRecord, InsertFails, Crash, Interrupt, rowVars
<1>. QED BY <1>1, <1>2, <1>3

\* A broadcast row of a direct message has a version without the fields.
THEOREM BroadcastsAreCaused == Spec => []BroadcastInv
<1>1. Init => BroadcastInv BY DEF Init, ConsumerInit, BroadcastInv
<1>2. TypeOK /\ BroadcastInv /\ [Next]_vars => BroadcastInv'
  <2>. SUFFICES ASSUME TypeOK, BroadcastInv, [Next]_vars PROVE BroadcastInv' OBVIOUS
  <2>1. CASE ConsumerNext BY <2>1, StepBroadcasts DEF ConsumerNext
  <2>2. CASE Produced
    <3>1. broadcast' = broadcast /\ broadcast \subseteq 1..Len(log)
      BY <2>2 DEF Produced, consumerVars, rowVars, TypeOK, RowsOK
    <3>2. \A i \in 1..Len(log) : log'[i] = log[i] BY <2>2 DEF Produced, TypeOK
    <3>. QED BY <3>1, <3>2 DEF BroadcastInv
  <2>3. CASE UNCHANGED vars
    BY <2>3 DEF BroadcastInv, vars, consumerVars, rowVars
  <2>. QED BY <2>1, <2>2, <2>3 DEF Next
<1>. QED BY <1>1, <1>2, ConsumerTypeCorrect, PTL DEF Spec

\* A direct message is shown to everyone only when the gateway that encoded it
\* had started before the schema had a visibility: the staleness of the
\* gateway's cache is bounded by its process, and the consumer adds none.
THEOREM DirectSafety == DeliverySpec => []DirectStaysDirect
<1>1. DeliveryInv /\ TypeOK /\ BroadcastInv => DirectStaysDirect
  <2>1. SUFFICES ASSUME DeliveryInv, TypeOK, BroadcastInv,
                        NEW i \in broadcast, log[i].request \in Direct
                 PROVE  log[i].floor < FieldsSince
    BY DEF DirectStaysDirect
  <2>2. i \in 1..Len(log) BY <2>1 DEF TypeOK, RowsOK
  <2>3. log[i] \in GP!RecordType /\ log[i].version >= log[i].floor
    BY <2>1, <2>2
    DEF DeliveryInv, LogIsTopic, GatewayInv, GP!IInv, GP!TypeOK, GP!FreshOnTheWay,
        GP!FreshRecords, Endpoints
  <2>4. log[i].version \in Nat /\ log[i].floor \in Nat BY <2>3 DEF GP!RecordType
  <2>5. log[i].version < FieldsSince BY <2>1 DEF BroadcastInv
  <2>. QED BY <2>3, <2>4, <2>5, MessageConsumerAssumption
<1>. QED BY <1>1, DeliveryInvariance, DeliveryKeepsConsumer, ConsumerTypeCorrect,
            BroadcastsAreCaused, PTL

\* Where the message of an accepted request is: lost by the gateway, on its way
\* to the topic, waiting in front of the group's offset, or settled behind it.
Sent(r) == \E i \in 1..Len(buffer["external"]) : buffer["external"][i].request = r
Received(r) ==
    \E i \in 1..Len(log) :
        /\ log[i].request = r
        /\ \/ i > committed \/ i \in inserted
           \/ i \in skipped /\ happened \cap Skipping # {}

\* A row stands for a request that got as far as Produce: it was answered 204, is
\* about to be, or ended with the gateway before the answer.  A refused one has
\* none, and no request has the rows of two records.
MessageAccounted ==
    /\ \A r \in Requests : call[r].at = "accepted" =>
           \/ r \in lost /\ happened \cap GP!Losing # {}
           \/ Sent(r) \/ Received(r)
    /\ \A i, j \in inserted :
           /\ call[log[i].request].at \in GP!MayBeHanded /\ log[i].request \notin lost
           /\ log[i].request = log[j].request => i = j

\* No message is lost between the two programs: the safe part of
\* AcceptedIsDelivered.  One that was answered 204 and has no row is still to
\* be sent or read, or a failure lost it or passed it over; and redeliveries and
\* restarts make no row for a message that was refused or lost.  A request that
\* the gateway's end left unanswered may have a row: its message can be shown
\* although the caller was told nothing.
THEOREM NoMessageIsLost == DeliverySpec => []MessageAccounted
<1>1. DeliveryInv /\ TypeOK /\ CommittedIsSettled /\ GapsAndRepeatsHaveACause
          => MessageAccounted
  <2>. SUFFICES ASSUME DeliveryInv, TypeOK, CommittedIsSettled, GapsAndRepeatsHaveACause
                PROVE  MessageAccounted
    OBVIOUS
  <2>0. /\ LogIsTopic /\ log \in Seq(GP!RecordType) /\ Len(log) \in Nat
        /\ \A r \in Requests : GP!AccountOf(r)
        /\ committed \in 0..Len(log) /\ inserted \subseteq 1..Len(log)
    BY DEF DeliveryInv, LogIsTopic, GatewayInv, GP!IInv, GP!TypeOK, GP!Accounts, Endpoints,
           TypeOK, CursorsOK, RowsOK
  <2>1. ASSUME NEW r \in Requests, call[r].at = "accepted"
        PROVE  \/ r \in lost /\ happened \cap GP!Losing # {}
               \/ Sent(r) \/ Received(r)
    <3>1. CASE r \in lost BY <2>0, <3>1 DEF GP!AccountOf
    <3>2. CASE r \notin lost
      <4>1. call[r].endpoint \in GP!RelayEndpoints
        BY <2>1 DEF DeliveryInv, GatewayInv, GP!IInv, GP!CallsKnown, Endpoints,
                    GP!RelayEndpoints
      <4>2. PICK e \in Endpoints, side \in GP!Sides, i \in Nat : GP!Holds(r, e, side, i)
        BY <2>0, <2>1, <3>2, <4>1 DEF GP!AccountOf, GP!WasHanded, GP!Somewhere
      <4>3. e = "external" BY DEF Endpoints
      <4>4. CASE side = "buffer"
        BY <4>2, <4>3, <4>4 DEF GP!Holds, GP!Log, Sent
      <4>5. CASE side = "topic"
        <5>1. i \in 1..Len(log) /\ log[i].request = r
          BY <2>0, <4>2, <4>3, <4>5 DEF GP!Holds, GP!Log, LogIsTopic
        <5>2. i <= committed => i \in inserted \cup skipped
          BY <5>1 DEF CommittedIsSettled, Settled
        <5>3. i \in skipped => happened \cap Skipping # {}
          BY DEF GapsAndRepeatsHaveACause, Skipping
        <5>. QED BY <2>0, <5>1, <5>2, <5>3 DEF Received
      <4>. QED BY <4>2, <4>4, <4>5 DEF GP!Sides
    <3>. QED BY <3>1, <3>2
  <2>2. ASSUME NEW i \in inserted
        PROVE  /\ log[i].request \in Requests
               /\ GP!Holds(log[i].request, "external", "topic", i)
    <3>1. i \in 1..Len(log) BY <2>0
    <3>2. log[i] \in GP!RecordType BY <2>0, <3>1
    <3>3. log[i].request \in Requests BY <3>2 DEF GP!RecordType
    <3>. QED BY <2>0, <3>1, <3>3 DEF GP!Holds, GP!Log, LogIsTopic
  <2>3. ASSUME NEW i \in inserted, NEW j \in inserted
        PROVE  /\ call[log[i].request].at \in GP!MayBeHanded /\ log[i].request \notin lost
               /\ log[i].request = log[j].request => i = j
    <3>1. GP!AccountOf(log[i].request) BY <2>0, <2>2
    <3>2. "external" \in Endpoints /\ "topic" \in GP!Sides /\ i \in Nat /\ j \in Nat
      BY <2>0 DEF Endpoints, GP!Sides
    <3>3. GP!Somewhere(log[i].request) BY <2>2, <3>2 DEF GP!Somewhere
    <3>4. log[i].request = log[j].request => i = j
      BY <2>2, <3>1, <3>2 DEF GP!AccountOf, GP!InOnePlace
    <3>. QED BY <3>1, <3>3, <3>4 DEF GP!AccountOf
  <2>. QED BY <2>1, <2>3 DEF MessageAccounted
<1>. QED BY <1>1, DeliveryInvariance, DeliveryKeepsConsumer, ConsumerTypeCorrect,
            NoRecordIsLeftBehind, GapsAndRepeatsAreCaused, PTL
=============================================================================
