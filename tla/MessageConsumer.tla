-------------------------- MODULE MessageConsumer --------------------------
(***************************************************************************)
(* The message consumer: public.user.message.events becomes rows of        *)
(* user_notifications.                                                     *)
(*                                                                         *)
(* KEDA runs up to 15 replicas in one consumer group, and the topic has    *)
(* one partition: one member owns it at a time, but a member that lost it  *)
(* still works off the batch it polled.  The client commits by itself, and *)
(* only records of polls before the last one.                              *)
(***************************************************************************)
EXTENDS Integers, Sequences, FiniteSets

CONSTANTS
    Consumers,    \* the members of the group
    Records,      \* what producers write: records with a request and a version
    Direct,       \* requests whose message is for one recipient
    Refused,      \* requests whose row the database never accepts
    FieldsSince,  \* first schema version with visibility and recipient_id
    MaxFaults,    \* bound: failures in one behaviour
    FaultKinds    \* the kinds of failure that may happen

ConsumerFaultKinds ==
    {"poll",                  \* a poll reports an error with its records
     "unreadable",            \* no answer of the schema registry, or a record
                              \* that is no Avro record of UserMessage
     "insert",                \* the INSERT fails, before or after its commit
     "rebalance",             \* the group takes the partition away
     "consumer_crash", "consumer_interrupt"} \* SIGTERM or a kill; SIGINT

ASSUME MessageConsumerAssumption ==
    /\ \A record \in Records : {"request", "version"} \subseteq DOMAIN record
    /\ FieldsSince \in Nat

VARIABLES
    log,        \* the topic: records of a request in a schema version
    committed,  \* the group's offset: how many records are done with
    owner,      \* the member that has the partition, if any
    session,    \* member -> "stopped", "polling" or "cancelled"
    next,       \* member -> records of the log before its next one
    last,       \* member -> end of the batch it polled
    resume,     \* member -> where its next poll starts
    done,       \* member -> offset its client may commit
    known,      \* member -> schema versions it has fetched
    inserted,   \* positions with a row
    repeated,   \* positions with more than one row
    broadcast,  \* positions with a row that every user sees
    skipped,    \* positions passed over
    faults,
    happened

memberVars == <<session, next, last, resume, done, known>>
groupVars  == <<committed, owner>>
rowVars    == <<inserted, repeated, broadcast, skipped>>
faultVars  == <<faults, happened>>

consumerVars == <<groupVars, memberVars, rowVars>>
vars == <<log, consumerVars, faultVars>>

Fault(kind) ==
    /\ kind \in FaultKinds
    /\ faults < MaxFaults
    /\ faults' = faults + 1
    /\ happened' = happened \cup {kind}

ConsumerInit ==
    /\ committed = 0 /\ owner = {}
    /\ session = [c \in Consumers |-> "stopped"]
    /\ next = [c \in Consumers |-> 0] /\ last = [c \in Consumers |-> 0]
    /\ resume = [c \in Consumers |-> 0] /\ done = [c \in Consumers |-> 0]
    /\ known = [c \in Consumers |-> {}]
    /\ inserted = {} /\ repeated = {} /\ broadcast = {} /\ skipped = {}

Init == log = <<>> /\ ConsumerInit /\ faults = 0 /\ happened = {}

Idle(c) == next[c] = last[c]
Working(c) == session[c] # "stopped" /\ ~Idle(c)
Position(c) == next[c] + 1
Record(c) == log[Position(c)]

-----------------------------------------------------------------------------
(***************************************************************************)
(* Plausible mistakes, variants of the definitions below.                  *)
(***************************************************************************)
CommitPolled(c) == last[c]
SkipOne(c) == next[c] + 2
InsertTwice(c) ==
    /\ inserted' = inserted \cup {Position(c)}
    /\ repeated' = repeated \cup {Position(c)}
    /\ UNCHANGED <<broadcast, skipped>>
InsertLast(c) ==
    /\ inserted' = inserted \cup {last[c]}
    /\ UNCHANGED <<repeated, broadcast, skipped>>
StartAtEnd == Len(log)

-----------------------------------------------------------------------------
(***************************************************************************)
(* The consumer group                                                      *)
(***************************************************************************)
\* main() up to the loop: the database answers the ping, and the cache of
\* schemas is empty.
Start(c) ==
    /\ session[c] = "stopped" /\ c \notin owner
    /\ session' = [session EXCEPT ![c] = "polling"]
    /\ UNCHANGED <<groupVars, next, last, resume, done, known, rowVars, faultVars>>

\* The committed offset, or the start of the topic.
StartOffset == committed

Assign(c) ==
    /\ owner = {} /\ session[c] # "stopped"
    /\ owner' = {c}
    /\ resume' = [resume EXCEPT ![c] = StartOffset]
    /\ done' = [done EXCEPT ![c] = StartOffset]
    /\ UNCHANGED <<committed, session, next, last, known, rowVars, faultVars>>

\* The session of a member that died times out.
Expel(c) ==
    /\ owner = {c} /\ session[c] = "stopped"
    /\ owner' = {}
    /\ UNCHANGED <<committed, memberVars, rowVars, faultVars>>

\* A live member loses the partition: a new member joined, or it was late.
Revoke(c) ==
    /\ owner = {c} /\ session[c] # "stopped"
    /\ Fault("rebalance")
    /\ owner' = {}
    /\ UNCHANGED <<committed, memberVars, rowVars>>

\* Autocommit, and the commit on a revocation: a member that waits in
\* PollFetches is done with all it polled, one that works off a batch is done
\* with the polls before it.
Committable(c) == IF Idle(c) THEN resume[c] ELSE done[c]

Commit(c) ==
    /\ owner = {c} /\ session[c] # "stopped"
    /\ committed' = Committable(c)
    /\ UNCHANGED <<owner, memberVars, rowVars, faultVars>>

-----------------------------------------------------------------------------
(***************************************************************************)
(* The loop of main                                                        *)
(***************************************************************************)

\* PollFetches returns at least one record.
Polls(c, n) ==
    /\ session[c] = "polling" /\ owner = {c} /\ Idle(c)
    /\ n \in (resume[c] + 1)..Len(log)
    /\ last' = [last EXCEPT ![c] = n]
    /\ resume' = [resume EXCEPT ![c] = n]
    /\ done' = [done EXCEPT ![c] = resume[c]]

Poll(c) ==
    /\ \E n \in 1..Len(log) : Polls(c, n)
    /\ next' = [next EXCEPT ![c] = resume[c]]
    /\ UNCHANGED <<groupVars, session, known, rowVars, faultVars>>

\* "Poll errors": continue, with the records that came along.
PollFails(c) ==
    /\ \E n \in 1..Len(log) :
           /\ Polls(c, n)
           /\ next' = [next EXCEPT ![c] = n]
           /\ skipped' = skipped \cup (resume[c] + 1)..n
    /\ Fault("poll")
    /\ UNCHANGED <<groupVars, session, known, inserted, repeated, broadcast>>

\* The next record of the batch.
NextPosition(c) == next[c] + 1
Advance(c) == next' = [next EXCEPT ![c] = NextPosition(c)]

\* The schema id of the record resolves, from the cache or by a fetch.
FetchSchema(c) == known' = [known EXCEPT ![c] = @ \cup {Record(c).version}]

\* Fields the schema of the record does not have decode to "", which stands
\* for a broadcast.
IsBroadcast(m) == m.version < FieldsSince \/ m.request \notin Direct

\* No unique key: inserting again makes a second row.
InsertPosition(c) ==
    /\ inserted' = inserted \cup {Position(c)}
    /\ repeated' = IF Position(c) \in inserted
                   THEN repeated \cup {Position(c)} ELSE repeated
    /\ broadcast' = IF IsBroadcast(Record(c))
                    THEN broadcast \cup {Position(c)} ELSE broadcast
    /\ UNCHANGED skipped

InsertRow(c) ==
    /\ Working(c) /\ session[c] = "polling"
    /\ Record(c).request \notin Refused
    /\ FetchSchema(c)
    /\ InsertPosition(c)
    /\ Advance(c)
    /\ UNCHANGED <<groupVars, session, last, resume, done, faultVars>>

\* A record that cannot be read is logged and passed over: its schema cannot be
\* fetched, its payload is too short or has another magic byte, or, its schema
\* being known, it does not decode into a UserMessage.
SkipRecord(c) ==
    /\ Working(c)
    /\ \/ /\ session[c] = "cancelled" /\ Record(c).version \notin known[c]
          /\ UNCHANGED <<known, faultVars>>
       \/ /\ Fault("unreadable")
          /\ \/ UNCHANGED known
             \/ session[c] = "polling" /\ FetchSchema(c)
    /\ skipped' = skipped \cup {Position(c)}
    /\ Advance(c)
    /\ UNCHANGED <<groupVars, session, last, resume, done,
                   inserted, repeated, broadcast>>

\* What is left of a member whose process is gone; the group still counts it.
Dies(c) ==
    /\ session' = [session EXCEPT ![c] = "stopped"]
    /\ next' = [next EXCEPT ![c] = 0]
    /\ last' = [last EXCEPT ![c] = 0]
    /\ resume' = [resume EXCEPT ![c] = 0]
    /\ done' = [done EXCEPT ![c] = 0]
    /\ known' = [known EXCEPT ![c] = {}]
    /\ UNCHANGED groupVars

\* log.Fatal on a failed INSERT.
InsertFails(c) ==
    /\ Working(c)
    /\ \/ /\ \/ session[c] = "cancelled" /\ Record(c).version \in known[c]
             \/ session[c] = "polling" /\ Record(c).request \in Refused
          /\ UNCHANGED <<rowVars, faultVars>>
       \/ /\ session[c] = "polling" /\ Record(c).request \notin Refused
          /\ Fault("insert")
          /\ InsertPosition(c) \/ UNCHANGED rowVars
    /\ Dies(c)

Crash(c) ==
    /\ session[c] # "stopped"
    /\ Fault("consumer_crash")
    /\ Dies(c)
    /\ UNCHANGED rowVars

\* os.Interrupt: every poll returns at once with the context's error, and the
\* loop goes on.
Interrupt(c) ==
    /\ session[c] = "polling"
    /\ Fault("consumer_interrupt")
    /\ session' = [session EXCEPT ![c] = "cancelled"]
    /\ UNCHANGED <<groupVars, next, last, resume, done, known, rowVars>>

-----------------------------------------------------------------------------
Loop(c) == Poll(c) \/ InsertRow(c) \/ SkipRecord(c) \/ InsertFails(c)

ConsumerStep(c) ==
    \/ Start(c) \/ Assign(c) \/ Expel(c) \/ Revoke(c) \/ Commit(c)
    \/ Poll(c) \/ PollFails(c) \/ InsertRow(c) \/ SkipRecord(c)
    \/ InsertFails(c) \/ Crash(c) \/ Interrupt(c)

ConsumerNext == \E c \in Consumers : ConsumerStep(c) /\ UNCHANGED log

\* What happens upstream: a record is written, or something fails there.
Produced ==
    /\ UNCHANGED log \/ \E record \in Records : log' = Append(log, record)
    /\ \/ UNCHANGED faultVars
       \/ \E kind \in FaultKinds \ ConsumerFaultKinds : Fault(kind)
    /\ UNCHANGED consumerVars

Next == ConsumerNext \/ Produced

Spec == Init /\ [][Next]_vars

\* Kubernetes restarts a replica, the group coordinator expels the dead and
\* assigns the partition, and the loop runs.
ConsumerFairness ==
    /\ WF_vars(\E c \in Consumers : Assign(c) /\ UNCHANGED log)
    /\ \A c \in Consumers :
           /\ WF_vars(Start(c) /\ UNCHANGED log)
           /\ WF_vars(Expel(c) /\ UNCHANGED log)
           /\ WF_vars(Loop(c) /\ UNCHANGED log)

-----------------------------------------------------------------------------
(***************************************************************************)
(* Properties                                                              *)
(***************************************************************************)
CursorsOK ==
    /\ next \in [Consumers -> Nat] /\ last \in [Consumers -> Nat]
    /\ resume \in [Consumers -> Nat] /\ done \in [Consumers -> Nat]
    /\ committed \in 0..Len(log)
    /\ \A c \in Consumers :
           /\ next[c] <= last[c] /\ last[c] <= Len(log)
           /\ done[c] <= resume[c] /\ resume[c] <= Len(log)

RowsOK ==
    /\ inserted \subseteq 1..Len(log) /\ skipped \subseteq 1..Len(log)
    /\ repeated \subseteq inserted /\ broadcast \subseteq inserted

MembersOK ==
    /\ owner = {} \/ \E c \in Consumers : owner = {c}
    /\ session \in [Consumers -> {"stopped", "polling", "cancelled"}]
    /\ DOMAIN known = Consumers
    /\ faults \in Nat /\ happened \subseteq FaultKinds

\* The variables have their types and no cursor is beyond the topic.
TypeOK == log \in Seq(Records) /\ CursorsOK /\ RowsOK /\ MembersOK

Settled(n) == 1..n \subseteq inserted \cup skipped

\* The offset of the group never passes a record that has no row and was not
\* passed over: a batch that is cut short by a crash, a failed INSERT or a
\* rebalance is read again ("crashing to prevent uncommitted message loss").
CommittedIsSettled == Settled(committed)

\* Records without a row, and rows that the user sees twice, come from
\* failures: a poll error, an unanswered schema request or a record that does not
\* decode (none of the gateway's does, while its schema fits) leaves a gap; only a
\* redelivery repeats a row, after a rebalance, a dead replica, or a record
\* that the database refuses for good.
GapsAndRepeatsHaveACause ==
    /\ skipped # {} => happened \cap {"poll", "unreadable", "consumer_interrupt"} # {}
    /\ repeated # {} =>
          \/ happened \cap {"rebalance", "consumer_crash", "consumer_interrupt",
                            "insert"} # {}
          \/ \E i \in 1..Len(log) : log[i].request \in Refused

\* The abstract stream: every record is settled after the ones before it.
Stream == INSTANCE MessageStream WITH produced <- Len(log), stored <- inserted
StreamSpec == Stream!Spec
=============================================================================
