---------------------------- MODULE Notification ----------------------------
(***************************************************************************)
(* The notification service: one loop that fetches a message from Kafka,   *)
(* processes it, which at this commit is to log it, and commits its offset *)
(* for the consumer group.  Kafka keeps the partitions and the offsets;    *)
(* what the loop has fetched is lost with the process.                     *)
(***************************************************************************)
EXTENDS Naturals, Sequences

CONSTANTS
  Partition,         \* partitions of the topics in KAFKA_TOPICS
  MaxMessages,       \* bound: messages a partition may get
  None               \* no message at hand

VARIABLES
  log,               \* Kafka: the messages of each partition
  committed,         \* Kafka: how many the group has committed
  position,          \* the reader: how many it has fetched
  current,           \* the message the loop is at
  processed          \* history: the offsets processMessage was called with

notificationVars == <<log, committed, position, current, processed>>

-----------------------------------------------------------------------------
Message == {"event", "malformed"}

Offset == 1..MaxMessages

Fetched == [partition : Partition, offset : Offset, pc : {"process", "commit"}]

ASSUME NotificationAssumption == MaxMessages \in Nat /\ None \notin Fetched

NotificationTypeOK ==
  /\ log \in [Partition -> Seq(Message)]
  /\ committed \in [Partition -> 0..MaxMessages]
  /\ position \in [Partition -> 0..MaxMessages]
  /\ current \in Fetched \cup {None}
  /\ processed \in [Partition -> SUBSET Offset]
  /\ \A p \in Partition :
       /\ Len(log[p]) <= MaxMessages
       /\ position[p] <= Len(log[p]) /\ committed[p] <= Len(log[p])
  /\ current # None => current.offset <= Len(log[current.partition])

AtMessage(p, pc) == current # None /\ current.partition = p /\ current.pc = pc

-----------------------------------------------------------------------------
\* A producer: the schedule service, or the reminder worker.
Publish(p, m) ==
  /\ Len(log[p]) < MaxMessages
  /\ log' = [log EXCEPT ![p] = Append(@, m)]
  /\ UNCHANGED <<committed, position, current, processed>>

\* FetchMessage returns; when it fails, the loop calls it again.
FetchMessage(p) ==
  /\ current = None
  /\ position[p] < Len(log[p])
  /\ position' = [position EXCEPT ![p] = @ + 1]
  /\ current' = [partition |-> p, offset |-> position[p] + 1, pc |-> "process"]
  /\ UNCHANGED <<log, committed, processed>>

RetryMalformed(p) ==
  /\ AtMessage(p, "process")
  /\ IF log[p][current.offset] = "malformed"
       THEN /\ position' = [position EXCEPT ![p] = current.offset - 1]
            /\ current' = None
            /\ UNCHANGED processed
       ELSE /\ processed' = [processed EXCEPT ![p] = @ \cup {current.offset}]
            /\ current' = [current EXCEPT !.pc = "commit"]
            /\ UNCHANGED position
  /\ UNCHANGED <<log, committed>>

\* processMessage logs an event and a malformed message alike.
ProcessMessage(p) ==
  /\ AtMessage(p, "process")
  /\ processed' = [processed EXCEPT ![p] = @ \cup {current.offset}]
  /\ current' = [current EXCEPT !.pc = "commit"]
  /\ UNCHANGED <<log, committed, position>>

CommitFirst(p) ==
  /\ current # None /\ current.partition = p
  /\ committed' = [committed EXCEPT ![p] = current.offset]
  /\ current' = IF current.pc = "commit" THEN None ELSE current
  /\ UNCHANGED <<log, position, processed>>

\* CommitMessages; that its answer is lost makes no difference to the loop.
CommitMessages(p) ==
  /\ AtMessage(p, "commit")
  /\ committed' = [committed EXCEPT ![p] = current.offset]
  /\ current' = None
  /\ UNCHANGED <<log, position, processed>>

\* An error of CommitMessages is logged; the next message's commit covers it.
CommitFails(p) ==
  /\ AtMessage(p, "commit")
  /\ current' = None
  /\ UNCHANGED <<log, committed, position, processed>>

StartAtTheEnd ==
  /\ position' = [p \in Partition |-> Len(log[p])]
  /\ current' = None
  /\ UNCHANGED <<log, committed, processed>>

\* The process stops anywhere; started again, the reader goes on at the offset
\* of the group, at the first message if there is none.
Restart ==
  /\ position' = committed
  /\ current' = None
  /\ UNCHANGED <<log, committed, processed>>

\* Kafka takes the partitions from the group and hands them out again: the
\* reader goes on at the group's offset, the loop with the message it is at.
Rebalance ==
  /\ position' = committed
  /\ UNCHANGED <<log, committed, current, processed>>

NotificationInit ==
  /\ log = [p \in Partition |-> <<>>]
  /\ committed = [p \in Partition |-> 0]
  /\ position = [p \in Partition |-> 0]
  /\ current = None
  /\ processed = [p \in Partition |-> {}]

NotificationNext ==
  \/ \E p \in Partition :
       \/ \E m \in Message : Publish(p, m)
       \/ FetchMessage(p)
       \/ ProcessMessage(p)
       \/ CommitMessages(p)
       \/ CommitFails(p)
  \/ Restart
  \/ Rebalance

NotificationSpec == NotificationInit /\ [][NotificationNext]_notificationVars

\* The loop goes on and reads every partition.  It is not stopped each time
\* just before the same call, and not every commit fails.
FairNotificationSpec ==
  /\ NotificationSpec
  /\ \A p \in Partition :
       /\ SF_notificationVars(FetchMessage(p))
       /\ SF_notificationVars(ProcessMessage(p))
       /\ SF_notificationVars(CommitMessages(p))

-----------------------------------------------------------------------------
(* Properties *)

\* At least once: the group's offset never passes a message that was not
\* processed, wherever the process stops and whichever commits fail.
CommittedIsProcessed ==
  \A p \in Partition : 1..committed[p] \subseteq processed[p]

\* Messages of a partition are first processed in their order: stopped,
\* restarted and rebalanced, the loop may repeat messages and skips none.
NoneIsSkipped ==
  \A p \in Partition : \A o \in processed[p] : 1..o \subseteq processed[p]

\* Every message is processed in the end, malformed ones before it included.
EveryMessageIsProcessed ==
  \A p \in Partition, o \in Offset : o <= Len(log[p]) ~> o \in processed[p]
=============================================================================
