----------------------------- MODULE Reminders -----------------------------
(***************************************************************************)
(* The reminder worker of the homework service, beside its handlers: once  *)
(* a minute it asks for the assignments due within a day, and sends an     *)
(* event for each to Kafka.  What it found may have been handed in, moved  *)
(* or deleted when its event is sent.  Nothing records what was sent.      *)
(***************************************************************************)
EXTENDS Homework, SequencesExt

CONSTANTS
  Window,            \* the day ahead, in the unit of the clock
  Unsendable         \* assignments whose event Kafka never accepts

VARIABLES
  batch,             \* the assignments the worker still has to send, in order
  sent               \* history: the assignments an event was accepted for

remVars == <<vars, batch, sent>>

\* Only finitely many ids can be given: a UUID has 128 bits.
ASSUME ReminderAssumption ==
  /\ IsFiniteSet(Assignment)
  /\ Window \in Nat
  /\ Unsendable \subseteq Assignment

RemindersTypeOK ==
  /\ batch \in Seq(Assignment) /\ IsInjective(batch)
  /\ sent \subseteq Assignment

-----------------------------------------------------------------------------
\* The WHERE clause of FindAssignmentsDueSoon.
IsDueSoon(a) ==
  /\ IsRow(assignments[a])
  /\ assignments[a] # NoDue
  /\ assignments[a] \in now..now + Window
  /\ Status(a) \notin {"REVIEWED", "OVERDUE"}

\* A tick of the worker, and its query, which asks for no order; a tick while
\* the worker is busy is dropped.
ProcessReminders ==
  /\ batch = <<>>
  /\ batch' \in SetToSeqs({a \in Assignment : IsDueSoon(a)})
  /\ UNCHANGED <<vars, sent>>

\* The event of the first in the batch is written, and the worker goes on.
Send(a) ==
  /\ batch # <<>> /\ Head(batch) = a
  /\ a \notin Unsendable
  /\ batch' = Tail(batch)
  /\ sent' = sent \cup {a}
  /\ UNCHANGED vars

SendFailsAndReturns(a) ==
  /\ batch # <<>> /\ Head(batch) = a
  /\ batch' = <<>>
  /\ UNCHANGED <<vars, sent>>

\* The event is refused: logged, and the worker goes on with the others.
SendFails(a) ==
  /\ batch # <<>> /\ Head(batch) = a
  /\ batch' = Tail(batch)
  /\ UNCHANGED <<vars, sent>>

\* The service stops in the middle of a batch; a later tick starts anew.
WorkerRestart ==
  /\ batch # <<>>
  /\ batch' = <<>>
  /\ UNCHANGED <<vars, sent>>

RemindersInit == Init /\ batch = <<>> /\ sent = {}

Attempt(a) == Send(a) \/ SendFails(a)

RemindersNext ==
  \/ Next /\ UNCHANGED <<batch, sent>>
  \/ ProcessReminders
  \/ \E a \in Assignment : Attempt(a)
  \/ WorkerRestart

RemindersSpec == RemindersInit /\ [][RemindersNext]_remVars

\* The ticker ticks and the loop goes on: the service is not stopped each time
\* just before the same event's turn, and Kafka does not refuse every attempt
\* at an event it can take.
FairRemindersSpec ==
  /\ RemindersSpec
  /\ WF_remVars(ProcessReminders)
  /\ \A a \in Assignment : SF_remVars(Attempt(a)) /\ SF_remVars(Send(a))

-----------------------------------------------------------------------------
(* Properties *)

\* Every assignment that comes due soon and stays so is reminded of, whatever
\* happens to the events of the others in the same batch.  The clock's stop
\* stands for a window that is long beside the worker's interval.
DueSoonIsReminded ==
  \A a \in Assignment \ Unsendable : <>[]IsDueSoon(a) => <>(a \in sent)
=============================================================================
