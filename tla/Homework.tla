------------------------------ MODULE Homework ------------------------------
(***************************************************************************)
(* The homework service: assignments, the submissions to them and the      *)
(* feedback on those.  No column says how far an assignment has got: its   *)
(* status is computed from the three tables and the clock by every query.  *)
(*                                                                         *)
(* A handler that uses later what it read or what time it was keeps it in  *)
(* handlers[h]; a handler that uses only what never changes (who an        *)
(* assignment is for, what a submission is to) is one action, at its       *)
(* write.  Refused requests change nothing and are left out, and so are    *)
(* texts and files, with UpdateFeedback, which changes nothing else.       *)
(***************************************************************************)
EXTENDS Naturals, FiniteSets

CONSTANTS
  Assignment, Submission, Feedback,  \* the UUIDs rows may get
  Handler,           \* goroutines that can be inside a request at once
  Horizon,           \* the clock stops here
  MaxStamp,          \* bound: the created_at values a behaviour may hand out
  NoDue,             \* a due_date that is NULL
  NoRow,             \* an id no row has been inserted under
  Removed,           \* the id of a deleted row
  Idle               \* a goroutine serving no request

VARIABLES
  assignments,       \* table assignments: the due dates
  submissions,       \* table submissions
  feedbacks,         \* table feedbacks: the submissions they are on
  handlers,          \* what each goroutine holds between two round trips
  now,               \* the clock, as coarse as due dates need
  stamp              \* the same clock, as fine as created_at: the last value

tables == <<assignments, submissions, feedbacks>>

vars == <<assignments, submissions, feedbacks, handlers, now, stamp>>

-----------------------------------------------------------------------------
(* Types *)

Time == 0..Horizon

Due == Time \cup {NoDue}

Stamp == 0..MaxStamp

SubmissionRow == [assignment : Assignment, created_at : Stamp]

\* A request between two round trips, with the locals it still needs.
Call ==
       [pc : {"update_assignment"}, assignment : Assignment, due : Due]
  \cup [pc : {"insert_submission"}, assignment : Assignment, created_at : Stamp]

ASSUME HomeworkAssumption ==
  /\ Horizon \in Nat /\ MaxStamp \in Nat
  /\ NoDue \notin Time
  /\ NoRow \notin Due /\ Removed \notin Due
  /\ NoRow \notin SubmissionRow /\ Removed \notin SubmissionRow
  /\ NoRow \notin Submission /\ Removed \notin Submission
  /\ NoRow # Removed
  /\ Idle \notin Call

TypeOK ==
  /\ assignments \in [Assignment -> Due \cup {NoRow, Removed}]
  /\ submissions \in [Submission -> SubmissionRow \cup {NoRow, Removed}]
  /\ feedbacks \in [Feedback -> Submission \cup {NoRow, Removed}]
  /\ handlers \in [Handler -> Call \cup {Idle}]
  /\ now \in Time
  /\ stamp \in Stamp

-----------------------------------------------------------------------------
(* Helpers *)

IsRow(x) == x \notin {NoRow, Removed}

SubmissionsOf(a) ==
  {s \in Submission : IsRow(submissions[s]) /\ submissions[s].assignment = a}

FeedbacksOn(s) == {f \in Feedback : feedbacks[f] = s}

At(h, pc) == handlers[h] # Idle /\ handlers[h].pc = pc

Goto(h, call) == handlers' = [handlers EXCEPT ![h] = call]
Return(h)     == Goto(h, Idle)

Earliest(a) ==
  CHOOSE s \in SubmissionsOf(a) :
    \A s2 \in SubmissionsOf(a) : submissions[s].created_at <= submissions[s2].created_at

\* latest_submissions: the row with the greatest created_at.
Latest(a) ==
  CHOOSE s \in SubmissionsOf(a) :
    \A s2 \in SubmissionsOf(a) : submissions[s2].created_at <= submissions[s].created_at

IsSubmitted(a) == SubmissionsOf(a) # {}

IsReviewedOnce(a) == \E s \in SubmissionsOf(a) : FeedbacksOn(s) # {}

\* Only feedback on the latest submission counts.
IsReviewed(a) == IsSubmitted(a) /\ FeedbacksOn(Latest(a)) # {}

HasPassed(due) == due # NoDue /\ due <= now

StatusDueFirst(a) ==
  CASE HasPassed(assignments[a]) /\ ~IsReviewed(a) -> "OVERDUE"
    [] IsReviewed(a) -> "REVIEWED"
    [] IsSubmitted(a) /\ ~IsReviewed(a) -> "UNREVIEWED"
    [] OTHER -> "UNSENT"

\* statusSubQuery; a comparison with a NULL due_date is not true.
Status(a) ==
  CASE IsReviewed(a) -> "REVIEWED"
    [] IsSubmitted(a) /\ ~IsReviewed(a) -> "UNREVIEWED"
    [] ~IsSubmitted(a) /\ HasPassed(assignments[a]) -> "OVERDUE"
    [] ~IsSubmitted(a) /\ assignments[a] = NoDue -> "UNSPECIFIED"
    [] OTHER -> "UNSENT"

-----------------------------------------------------------------------------
(* Assignments *)

\* CreateAssignment for a pair the user service called active.
CreateAssignment(a, due) ==
  /\ assignments[a] = NoRow
  /\ assignments' = [assignments EXCEPT ![a] = due]
  /\ UNCHANGED <<submissions, feedbacks, handlers, now, stamp>>

\* UpdateAssignment reads the row; the request may or may not have a new due
\* date, and without one the one that was read is written back.
UpdateAssignment(h, a, due) ==
  /\ handlers[h] = Idle
  /\ IsRow(assignments[a])
  /\ due \in Time \cup {assignments[a]}
  /\ Goto(h, [pc |-> "update_assignment", assignment |-> a, due |-> due])
  /\ UNCHANGED <<tables, now, stamp>>

SaveAssignment(h) ==
  /\ At(h, "update_assignment")
  /\ assignments' = [assignments EXCEPT ![handlers[h].assignment] = handlers[h].due]
  /\ Return(h)
  /\ UNCHANGED <<submissions, feedbacks, now, stamp>>

\* The UPDATE by id, which finds no row if the assignment is deleted by now.
WriteAssignment(h) ==
  /\ At(h, "update_assignment")
  /\ assignments' = IF IsRow(assignments[handlers[h].assignment])
                      THEN [assignments EXCEPT ![handlers[h].assignment] = handlers[h].due]
                      ELSE assignments
  /\ Return(h)
  /\ UNCHANGED <<submissions, feedbacks, now, stamp>>

\* DeleteAssignment: submissions and feedback go with it, ON DELETE CASCADE.
DeleteAssignment(a) ==
  /\ IsRow(assignments[a])
  /\ assignments' = [assignments EXCEPT ![a] = Removed]
  /\ submissions' = [s \in Submission |->
                       IF s \in SubmissionsOf(a) THEN Removed ELSE submissions[s]]
  /\ feedbacks' = [f \in Feedback |->
                     IF feedbacks[f] \in SubmissionsOf(a) THEN Removed ELSE feedbacks[f]]
  /\ UNCHANGED <<handlers, now, stamp>>

-----------------------------------------------------------------------------
(* Submissions and feedback *)

\* CreateSubmission reads the assignment, then takes the time of the row.
CreateSubmission(h, a) ==
  /\ handlers[h] = Idle
  /\ IsRow(assignments[a])
  /\ stamp < MaxStamp
  /\ stamp' = stamp + 1
  /\ Goto(h, [pc |-> "insert_submission", assignment |-> a, created_at |-> stamp + 1])
  /\ UNCHANGED <<tables, now>>

InsertAnyway(h, s) ==
  /\ At(h, "insert_submission")
  /\ submissions[s] = NoRow
  /\ submissions' = [submissions EXCEPT ![s] =
                       [assignment |-> handlers[h].assignment,
                        created_at |-> handlers[h].created_at]]
  /\ Return(h)
  /\ UNCHANGED <<assignments, feedbacks, now, stamp>>

\* The INSERT, which may come after that of a later created_at.
InsertSubmission(h, s) ==
  /\ At(h, "insert_submission")
  /\ submissions[s] = NoRow
  /\ IsRow(assignments[handlers[h].assignment])
  /\ submissions' = [submissions EXCEPT ![s] =
                       [assignment |-> handlers[h].assignment,
                        created_at |-> handlers[h].created_at]]
  /\ Return(h)
  /\ UNCHANGED <<assignments, feedbacks, now, stamp>>

\* CreateFeedback: reads what never changes, then the INSERT, refused by its
\* foreign key once the submission is gone.
CreateFeedback(f, s) ==
  /\ feedbacks[f] = NoRow
  /\ IsRow(submissions[s])
  /\ feedbacks' = [feedbacks EXCEPT ![f] = s]
  /\ UNCHANGED <<assignments, submissions, handlers, now, stamp>>

-----------------------------------------------------------------------------
\* A statement fails, in particular an INSERT at its foreign key.
Abandon(h) ==
  /\ handlers[h] # Idle
  /\ Return(h)
  /\ UNCHANGED <<tables, now, stamp>>

Tick ==
  /\ now < Horizon
  /\ now' = now + 1
  /\ UNCHANGED <<tables, handlers, stamp>>

Init ==
  /\ assignments = [a \in Assignment |-> NoRow]
  /\ submissions = [s \in Submission |-> NoRow]
  /\ feedbacks = [f \in Feedback |-> NoRow]
  /\ handlers = [h \in Handler |-> Idle]
  /\ now = 0
  /\ stamp = 0

HandlerStep(h) ==
  \/ \E a \in Assignment :
       \/ \E due \in Due : UpdateAssignment(h, a, due)
       \/ CreateSubmission(h, a)
  \/ WriteAssignment(h)
  \/ \E s \in Submission : InsertSubmission(h, s)
  \/ Abandon(h)

Next ==
  \/ \E a \in Assignment :
       \/ \E due \in Due : CreateAssignment(a, due)
       \/ DeleteAssignment(a)
  \/ \E f \in Feedback, s \in Submission : CreateFeedback(f, s)
  \/ \E h \in Handler : HandlerStep(h)
  \/ Tick

Spec == Init /\ [][Next]_vars

-----------------------------------------------------------------------------
(* Properties *)

\* However deletions race with the inserts of requests that saw their parent,
\* every submission has its assignment and every feedback its submission.
NoOrphans ==
  /\ \A s \in Submission :
       IsRow(submissions[s]) => IsRow(assignments[submissions[s].assignment])
  /\ \A f \in Feedback : IsRow(feedbacks[f]) => IsRow(submissions[feedbacks[f]])

\* A request that read an assignment before it was deleted does not bring it
\* back, nor what was deleted with it.
DeletedForGood ==
  [][/\ \A a \in Assignment : assignments[a] = Removed => assignments'[a] = Removed
     /\ \A s \in Submission : submissions[s] = Removed => submissions'[s] = Removed
     /\ \A f \in Feedback : feedbacks[f] = Removed => feedbacks'[f] = Removed]_vars

\* Work that was handed in never counts as missing again, whatever happens to
\* the due date afterwards.
SubmittedStaysSubmitted ==
  [][\A a \in Assignment :
       /\ IsRow(assignments[a]) /\ IsRow(assignments'[a])
       /\ Status(a) \in {"UNREVIEWED", "REVIEWED"}
       => Status(a)' \in {"UNREVIEWED", "REVIEWED"}]_vars

\* A review is undone by a newer submission and by nothing else: not by time,
\* by an edit of the assignment, or by a submission that was made before the
\* reviewed one and is inserted after it.
ReviewStands ==
  [][\A a \in Assignment :
       /\ IsRow(assignments[a]) /\ IsRow(assignments'[a])
       /\ Status(a) = "REVIEWED" /\ Status(a)' # "REVIEWED"
       => /\ Status(a)' = "UNREVIEWED"
          /\ \E s \in SubmissionsOf(a)' \ SubmissionsOf(a) :
               \A s2 \in SubmissionsOf(a) :
                 submissions[s2].created_at < submissions'[s].created_at]_vars

-----------------------------------------------------------------------------
(* The life of an assignment, and what it implements *)

Handed(phase, a) == [phase |-> phase, latest |-> submissions[Latest(a)].created_at]

Progress(a) ==
  CASE assignments[a] = NoRow     -> [phase |-> "unborn", latest |-> 0]
    [] assignments[a] = Removed   -> [phase |-> "deleted", latest |-> 0]
    [] IsRow(assignments[a]) /\ Status(a) = "REVIEWED"   -> Handed("reviewed", a)
    [] IsRow(assignments[a]) /\ Status(a) = "UNREVIEWED" -> Handed("submitted", a)
    [] OTHER                      -> [phase |-> "open", latest |-> 0]

Lifecycle == INSTANCE AssignmentLifecycle
               WITH progress <- [a \in Assignment |-> Progress(a)]

\* Read through its status, every assignment lives the life of module
\* AssignmentLifecycle, one assignment at a time: no late insert, no old
\* feedback, no edit, no deletion of another and no passing of time moves it.
WorkMovesOn == Lifecycle!Spec
=============================================================================
