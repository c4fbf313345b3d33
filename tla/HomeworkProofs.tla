--------------------------- MODULE HomeworkProofs ---------------------------
(* Theorems of modules Homework and Reminders, and of Notification, which   *)
(* gets the reminders.  What the tables promise about each other rests on   *)
(* the foreign keys alone: each action that inserts has its parent, each    *)
(* that deletes takes the children with it, and an assignment that a late   *)
(* request writes is still there.  Which submission is the latest rests on  *)
(* the clock giving no created_at twice.                                    *)
EXTENDS Reminders, Notification, FiniteSetTheorems, TLAPS

LEMMA InitTyped == Init => TypeOK
  BY HomeworkAssumption DEF Init, TypeOK, Time, Stamp

LEMMA CallTyped ==
  ASSUME TypeOK, NEW h \in Handler, NEW pc, At(h, pc)
  PROVE  /\ handlers[h] \in Call
         /\ handlers[h].pc = pc
         /\ handlers[h].assignment \in Assignment
         /\ pc = "update_assignment" => handlers[h].due \in Due
         /\ pc = "insert_submission" => handlers[h].created_at \in Stamp
  BY DEF TypeOK, At, Call

LEMMA StepTyped == TypeOK /\ [Next]_vars => TypeOK'
<1> SUFFICES ASSUME TypeOK, [Next]_vars PROVE TypeOK'
  OBVIOUS
<1> USE HomeworkAssumption
<1>1. ASSUME NEW a \in Assignment, NEW due \in Due, CreateAssignment(a, due)
      PROVE  TypeOK'
  BY <1>1 DEF CreateAssignment, TypeOK
<1>2. ASSUME NEW a \in Assignment, DeleteAssignment(a)
      PROVE  TypeOK'
  BY <1>2 DEF DeleteAssignment, TypeOK
<1>3. ASSUME NEW f \in Feedback, NEW s \in Submission, CreateFeedback(f, s)
      PROVE  TypeOK'
  BY <1>3 DEF CreateFeedback, TypeOK
<1>4. ASSUME NEW h \in Handler, HandlerStep(h)
      PROVE  TypeOK'
  <2>1. ASSUME NEW a \in Assignment, NEW due \in Due, UpdateAssignment(h, a, due)
        PROVE  TypeOK'
    <3>1. [pc |-> "update_assignment", assignment |-> a, due |-> due] \in Call
      BY DEF Call
    <3> QED
      BY <2>1, <3>1 DEF UpdateAssignment, Goto, TypeOK, tables
  <2>2. ASSUME NEW a \in Assignment, CreateSubmission(h, a)
        PROVE  TypeOK'
    <3>1. stamp + 1 \in Stamp
      BY <2>2 DEF CreateSubmission, TypeOK, Stamp
    <3>2. [pc |-> "insert_submission", assignment |-> a, created_at |-> stamp + 1] \in Call
      BY <3>1 DEF Call
    <3> QED
      BY <2>2, <3>1, <3>2 DEF CreateSubmission, Goto, TypeOK, tables
  <2>3. CASE WriteAssignment(h)
    <3>1. handlers[h].assignment \in Assignment /\ handlers[h].due \in Due
      BY <2>3, CallTyped DEF WriteAssignment
    <3> QED
      BY <2>3, <3>1 DEF WriteAssignment, Return, Goto, TypeOK
  <2>4. ASSUME NEW s \in Submission, InsertSubmission(h, s)
        PROVE  TypeOK'
    <3>1. handlers[h].assignment \in Assignment /\ handlers[h].created_at \in Stamp
      BY <2>4, CallTyped DEF InsertSubmission
    <3>2. [assignment |-> handlers[h].assignment,
           created_at |-> handlers[h].created_at] \in SubmissionRow
      BY <3>1 DEF SubmissionRow
    <3> QED
      BY <2>4, <3>2 DEF InsertSubmission, Return, Goto, TypeOK
  <2>5. CASE Abandon(h)
    BY <2>5 DEF Abandon, Return, Goto, TypeOK, tables
  <2> QED
    BY <1>4, <2>1, <2>2, <2>3, <2>4, <2>5 DEF HandlerStep
<1>5. CASE Tick
  BY <1>5 DEF Tick, TypeOK, tables, Time
<1>6. CASE UNCHANGED vars
  BY <1>6 DEF vars, tables, TypeOK
<1> QED
  BY <1>1, <1>2, <1>3, <1>4, <1>5, <1>6 DEF Next

\* What the tables and every request in flight hold is of its type, for any
\* number of assignments, submissions and handlers.
THEOREM Typed == Spec => []TypeOK
  BY InitTyped, StepTyped, PTL DEF Spec

-----------------------------------------------------------------------------
\* The steps a table can change in, each with what it does to the tables.
TableStep ==
  \/ \E a \in Assignment :
       \/ \E due \in Due : CreateAssignment(a, due)
       \/ DeleteAssignment(a)
  \/ \E f \in Feedback, s \in Submission : CreateFeedback(f, s)
  \/ \E h \in Handler : WriteAssignment(h)
  \/ \E h \in Handler, s \in Submission : InsertSubmission(h, s)
  \/ UNCHANGED tables

LEMMA EveryStepIsATableStep == [Next]_vars => TableStep
<1> SUFFICES ASSUME [Next]_vars PROVE TableStep
  OBVIOUS
<1>1. CASE Tick \/ UNCHANGED vars
  BY <1>1 DEF Tick, vars, tables, TableStep
<1>2. ASSUME NEW h \in Handler, HandlerStep(h)
      PROVE  TableStep
  BY <1>2 DEF HandlerStep, UpdateAssignment, CreateSubmission, Abandon, TableStep,
              tables
<1> QED
  BY <1>1, <1>2 DEF Next, TableStep

LEMMA InitNoOrphans == Init => NoOrphans
  BY DEF Init, NoOrphans, IsRow

LEMMA StepNoOrphans == TypeOK /\ NoOrphans /\ [Next]_vars => NoOrphans'
<1> SUFFICES ASSUME TypeOK, NoOrphans, TableStep PROVE NoOrphans'
  BY EveryStepIsATableStep
<1> USE HomeworkAssumption
<1>1. ASSUME NEW a \in Assignment, NEW due \in Due, CreateAssignment(a, due)
      PROVE  NoOrphans'
  BY <1>1 DEF CreateAssignment, TypeOK, NoOrphans, IsRow
<1>2. ASSUME NEW a \in Assignment, DeleteAssignment(a)
      PROVE  NoOrphans'
  <2> USE <1>2 DEF DeleteAssignment, TypeOK, IsRow
  <2>1. ASSUME NEW s \in Submission, IsRow(submissions'[s])
        PROVE  IsRow(assignments'[submissions'[s].assignment])
    <3>1. s \notin SubmissionsOf(a) /\ submissions'[s] = submissions[s]
      BY <2>1
    <3>2. submissions[s].assignment # a
      BY <2>1, <3>1 DEF SubmissionsOf
    <3>3. submissions[s] \in SubmissionRow
      BY <2>1, <3>1
    <3> QED
      BY <2>1, <3>1, <3>2, <3>3 DEF NoOrphans, SubmissionRow
  <2>2. ASSUME NEW f \in Feedback, IsRow(feedbacks'[f])
        PROVE  IsRow(submissions'[feedbacks'[f]])
    <3>1. feedbacks'[f] = feedbacks[f] /\ feedbacks[f] \notin SubmissionsOf(a)
      BY <2>2
    <3>2. feedbacks[f] \in Submission
      BY <2>2, <3>1
    <3> QED
      BY <2>2, <3>1, <3>2 DEF NoOrphans
  <2> QED
    BY <2>1, <2>2 DEF NoOrphans
<1>3. ASSUME NEW f \in Feedback, NEW s \in Submission, CreateFeedback(f, s)
      PROVE  NoOrphans'
  BY <1>3 DEF CreateFeedback, TypeOK, NoOrphans, IsRow
<1>4. ASSUME NEW h \in Handler, WriteAssignment(h)
      PROVE  NoOrphans'
  <2>1. handlers[h].assignment \in Assignment /\ handlers[h].due \in Due
    BY <1>4, CallTyped DEF WriteAssignment
  <2> QED
    BY <1>4, <2>1 DEF WriteAssignment, TypeOK, NoOrphans, IsRow
<1>5. ASSUME NEW h \in Handler, NEW s \in Submission, InsertSubmission(h, s)
      PROVE  NoOrphans'
  <2>1. handlers[h].assignment \in Assignment
    BY <1>5, CallTyped DEF InsertSubmission
  <2> QED
    BY <1>5, <2>1 DEF InsertSubmission, TypeOK, NoOrphans, IsRow
<1>6. CASE UNCHANGED tables
  BY <1>6 DEF tables, NoOrphans
<1> QED
  BY <1>1, <1>2, <1>3, <1>4, <1>5, <1>6 DEF TableStep

\* However deletions and late inserts interleave, no submission outlives its
\* assignment and no feedback its submission.
THEOREM OrphansNeverAppear == Spec => []NoOrphans
<1>1. TypeOK /\ NoOrphans /\ [Next]_vars => (TypeOK /\ NoOrphans)'
  BY StepTyped, StepNoOrphans
<1> QED
  BY <1>1, InitTyped, InitNoOrphans, PTL DEF Spec

-----------------------------------------------------------------------------
LEMMA StepDeletedForGood ==
  ASSUME TypeOK, TableStep
  PROVE  /\ \A a \in Assignment : assignments[a] = Removed => assignments'[a] = Removed
         /\ \A s \in Submission : submissions[s] = Removed => submissions'[s] = Removed
         /\ \A f \in Feedback : feedbacks[f] = Removed => feedbacks'[f] = Removed
<1> USE HomeworkAssumption DEF TypeOK, IsRow
<1>1. ASSUME NEW h \in Handler, WriteAssignment(h)
      PROVE  \A a \in Assignment : assignments[a] = Removed => assignments'[a] = Removed
  BY <1>1 DEF WriteAssignment
<1> QED
  BY <1>1 DEF TableStep, CreateAssignment, DeleteAssignment, CreateFeedback,
              WriteAssignment, InsertSubmission, SubmissionsOf, tables

\* A request that read a row before it was deleted never brings it back.
THEOREM DeletionIsFinal == Spec => DeletedForGood
  BY Typed, EveryStepIsATableStep, StepDeletedForGood, PTL DEF Spec, DeletedForGood

-----------------------------------------------------------------------------
\* The status says submitted exactly when there is a submission: time and the
\* due date decide only among the others.
LEMMA StatusOfSubmitted ==
  ASSUME NEW a \in Assignment
  PROVE  Status(a) \in {"UNREVIEWED", "REVIEWED"} <=> IsSubmitted(a)
  BY DEF Status, IsReviewed

LEMMA StepKeepsSubmitted ==
  ASSUME TypeOK, TableStep,
         NEW a \in Assignment, IsRow(assignments'[a]), IsSubmitted(a)
  PROVE  IsSubmitted(a)'
<1> USE HomeworkAssumption DEF IsSubmitted, SubmissionsOf
<1>1. ASSUME NEW a2 \in Assignment, DeleteAssignment(a2)
      PROVE  IsSubmitted(a)'
  <2>1. a2 # a
    BY <1>1 DEF DeleteAssignment, IsRow, TypeOK
  <2> QED
    BY <1>1, <2>1 DEF DeleteAssignment
<1>2. ASSUME NEW h \in Handler, NEW s \in Submission, InsertSubmission(h, s)
      PROVE  IsSubmitted(a)'
  BY <1>2 DEF InsertSubmission, TypeOK, IsRow
<1> QED
  BY <1>1, <1>2 DEF TableStep, CreateAssignment, CreateFeedback, WriteAssignment, tables

\* Work that was handed in never counts as missing again, however late, and
\* whatever is done to the due date meanwhile.
THEOREM SubmittedNeverMissing == Spec => SubmittedStaysSubmitted
<1>1. TypeOK /\ [Next]_vars =>
        \A a \in Assignment :
          /\ IsRow(assignments[a]) /\ IsRow(assignments'[a])
          /\ Status(a) \in {"UNREVIEWED", "REVIEWED"}
          => Status(a)' \in {"UNREVIEWED", "REVIEWED"}
  <2> SUFFICES ASSUME TypeOK, [Next]_vars, NEW a \in Assignment,
                      IsRow(assignments'[a]), IsSubmitted(a)
               PROVE  Status(a)' \in {"UNREVIEWED", "REVIEWED"}
    BY StatusOfSubmitted
  <2>1. IsSubmitted(a)'
    BY EveryStepIsATableStep, StepKeepsSubmitted
  <2> QED
    BY <2>1 DEF Status, IsReviewed
<1> QED
  BY <1>1, Typed, PTL DEF Spec, SubmittedStaysSubmitted

-----------------------------------------------------------------------------
(* Which submission is the latest *)

\* No two submissions, stored or about to be inserted, have one created_at,
\* and none has one that the clock has not reached.
CreatedOnce ==
  /\ \A s \in Submission : IsRow(submissions[s]) => submissions[s].created_at <= stamp
  /\ \A h \in Handler : At(h, "insert_submission") => handlers[h].created_at <= stamp
  /\ \A s, t \in Submission :
       IsRow(submissions[s]) /\ IsRow(submissions[t]) /\ s # t
         => submissions[s].created_at # submissions[t].created_at
  /\ \A s \in Submission, h \in Handler :
       IsRow(submissions[s]) /\ At(h, "insert_submission")
         => submissions[s].created_at # handlers[h].created_at
  /\ \A g, h \in Handler :
       At(g, "insert_submission") /\ At(h, "insert_submission") /\ g # h
         => handlers[g].created_at # handlers[h].created_at

IsLatest(s, a) ==
  /\ s \in SubmissionsOf(a)
  /\ \A t \in SubmissionsOf(a) : submissions[t].created_at <= submissions[s].created_at

\* What latest_submissions chooses from is never without a greatest element.
LatestExists ==
  \A a \in Assignment : IsSubmitted(a) => \E s \in Submission : IsLatest(s, a)

Dated == TypeOK /\ CreatedOnce /\ LatestExists

LEMMA RowTyped ==
  ASSUME TypeOK, NEW s \in Submission, IsRow(submissions[s])
  PROVE  /\ submissions[s] \in SubmissionRow
         /\ submissions[s].assignment \in Assignment
         /\ submissions[s].created_at \in Nat
  BY DEF TypeOK, IsRow, SubmissionRow, Stamp

\* An INSERT in terms of the row it adds.
Inserts(h, s, a) ==
  /\ At(h, "insert_submission") /\ handlers[h].assignment = a
  /\ submissions[s] = NoRow
  /\ IsRow(submissions'[s]) /\ submissions'[s].assignment = a
  /\ submissions'[s].created_at = handlers[h].created_at
  /\ \A t \in Submission \ {s} : submissions'[t] = submissions[t]

LEMMA Inserting ==
  ASSUME TypeOK, NEW h \in Handler, NEW s \in Submission, InsertSubmission(h, s)
  PROVE  \E a \in Assignment : Inserts(h, s, a)
<1> DEFINE row == [assignment |-> handlers[h].assignment,
                   created_at |-> handlers[h].created_at]
<1>1. row \in SubmissionRow /\ handlers[h].assignment \in Assignment
  BY CallTyped DEF InsertSubmission, SubmissionRow
<1>2. submissions' = [submissions EXCEPT ![s] = row]
  BY DEF InsertSubmission
<1>3. IsRow(row)
  BY <1>1, HomeworkAssumption DEF IsRow
<1> QED
  BY <1>1, <1>2, <1>3 DEF Inserts, InsertSubmission, TypeOK

LEMMA InitDated == Init => Dated
<1> SUFFICES ASSUME Init PROVE Dated
  OBVIOUS
<1>1. \A s \in Submission : ~IsRow(submissions[s])
  BY DEF Init, IsRow
<1>2. \A h \in Handler : ~At(h, "insert_submission")
  BY DEF Init, At
<1>3. \A a \in Assignment : ~IsSubmitted(a)
  BY <1>1 DEF IsSubmitted, SubmissionsOf
<1> QED
  BY <1>1, <1>2, <1>3, InitTyped DEF Dated, CreatedOnce, LatestExists

LEMMA StepCreatedOnce == TypeOK /\ CreatedOnce /\ [Next]_vars => CreatedOnce'
<1> SUFFICES ASSUME TypeOK, CreatedOnce, [Next]_vars PROVE CreatedOnce'
  OBVIOUS
<1> DEFINE Fewer == \A s \in Submission : IsRow(submissions'[s]) =>
                      IsRow(submissions[s]) /\ submissions'[s] = submissions[s]
           Idler == \A h \in Handler : At(h, "insert_submission")' =>
                      At(h, "insert_submission") /\ handlers'[h] = handlers[h]
<1>0. stamp \in Nat
  BY DEF TypeOK, Stamp
<1>1. ASSUME Fewer, Idler, stamp' = stamp
      PROVE  CreatedOnce'
  BY <1>1 DEF CreatedOnce
<1>2. ASSUME NEW h \in Handler, NEW a \in Assignment, CreateSubmission(h, a)
      PROVE  CreatedOnce'
  <2>1. /\ stamp' = stamp + 1 /\ submissions' = submissions
        /\ At(h, "insert_submission")' /\ handlers'[h].created_at = stamp + 1
        /\ \A g \in Handler \ {h} : handlers'[g] = handlers[g]
    BY <1>2, HomeworkAssumption
       DEF CreateSubmission, Goto, At, Call, TypeOK, tables, Stamp
  <2>2. \A s \in Submission : IsRow(submissions[s]) =>
          /\ submissions[s].created_at \in Nat
          /\ submissions[s].created_at <= stamp
    BY RowTyped DEF CreatedOnce
  <2>3. \A g \in Handler : At(g, "insert_submission") =>
          /\ handlers[g].created_at \in Nat
          /\ handlers[g].created_at <= stamp
    BY CallTyped DEF CreatedOnce, Stamp
  <2>4. \A g \in Handler \ {h} : At(g, "insert_submission")' => At(g, "insert_submission")
    BY <2>1 DEF At
  <2>5. \A s \in Submission : IsRow(submissions'[s]) =>
          /\ submissions'[s].created_at <= stamp'
          /\ submissions'[s].created_at # handlers'[h].created_at
    BY <1>0, <2>1, <2>2
  <2>6. \A g \in Handler : At(g, "insert_submission")' =>
          /\ handlers'[g].created_at <= stamp'
          /\ g # h => handlers'[g].created_at # handlers'[h].created_at
    BY <1>0, <2>1, <2>3, <2>4
  <2>7. \A g \in Handler \ {h} : At(g, "insert_submission")' =>
          \A s \in Submission : IsRow(submissions'[s]) =>
            submissions'[s].created_at # handlers'[g].created_at
    BY <2>1, <2>4 DEF CreatedOnce
  <2>8. \A s, t \in Submission :
          IsRow(submissions'[s]) /\ IsRow(submissions'[t]) /\ s # t
            => submissions'[s].created_at # submissions'[t].created_at
    BY <2>1 DEF CreatedOnce
  <2>9. \A f, g \in Handler \ {h} :
          At(f, "insert_submission")' /\ At(g, "insert_submission")' /\ f # g
            => handlers'[f].created_at # handlers'[g].created_at
    BY <2>1, <2>4 DEF CreatedOnce
  <2> QED
    BY <2>5, <2>6, <2>7, <2>8, <2>9 DEF CreatedOnce
<1>3. ASSUME NEW h \in Handler, NEW s \in Submission, InsertSubmission(h, s)
      PROVE  CreatedOnce'
  <2>1. PICK a \in Assignment : Inserts(h, s, a)
    BY <1>3, Inserting
  <2>2. /\ handlers'[h] = Idle /\ stamp' = stamp
        /\ \A g \in Handler \ {h} : handlers'[g] = handlers[g]
    BY <1>3 DEF InsertSubmission, Return, Goto, TypeOK
  <2>3. \A g \in Handler : At(g, "insert_submission")' =>
          g # h /\ At(g, "insert_submission") /\ handlers'[g] = handlers[g]
    BY <2>2 DEF At
  <2>4. \A t \in Submission : IsRow(submissions'[t]) =>
          \/ t = s
          \/ IsRow(submissions[t]) /\ submissions'[t] = submissions[t]
    BY <2>1 DEF Inserts
  <2> QED
    BY <2>1, <2>2, <2>3, <2>4 DEF CreatedOnce, Inserts
<1>4. CASE UNCHANGED vars \/ Tick
  BY <1>1, <1>4 DEF vars, Tick, tables, At
<1>5. ASSUME NEW a \in Assignment, NEW due \in Due, CreateAssignment(a, due)
      PROVE  CreatedOnce'
  BY <1>1, <1>5 DEF CreateAssignment, At
<1>6. ASSUME NEW a \in Assignment, DeleteAssignment(a)
      PROVE  CreatedOnce'
  <2>1. Fewer
    BY <1>6 DEF DeleteAssignment, IsRow
  <2> QED
    BY <1>1, <1>6, <2>1 DEF DeleteAssignment, At
<1>7. ASSUME NEW f \in Feedback, NEW s \in Submission, CreateFeedback(f, s)
      PROVE  CreatedOnce'
  BY <1>1, <1>7 DEF CreateFeedback, At
<1>8. ASSUME NEW h \in Handler,
             \/ \E a \in Assignment, due \in Due : UpdateAssignment(h, a, due)
             \/ WriteAssignment(h) \/ Abandon(h)
      PROVE  CreatedOnce'
  <2>1. Idler
    BY <1>8 DEF UpdateAssignment, WriteAssignment, Abandon, Return, Goto, At, TypeOK
  <2> QED
    BY <1>1, <1>8, <2>1 DEF UpdateAssignment, WriteAssignment, Abandon, tables
<1> QED
  BY <1>2, <1>3, <1>4, <1>5, <1>6, <1>7, <1>8 DEF Next, HandlerStep

\* What a step does to the submissions of one assignment that it keeps.
SubmissionsStand(a) == /\ SubmissionsOf(a)' = SubmissionsOf(a)
                       /\ \A s \in SubmissionsOf(a) : submissions'[s] = submissions[s]

LEMMA SubmissionSteps ==
  ASSUME TypeOK, TableStep, NEW a \in Assignment
  PROVE  \/ SubmissionsStand(a)
         \/ DeleteAssignment(a) /\ SubmissionsOf(a)' = {}
         \/ \E h \in Handler, s \in Submission :
              InsertSubmission(h, s) /\ Inserts(h, s, a)
<1> USE HomeworkAssumption
<1>1. CASE UNCHANGED submissions
  BY <1>1 DEF SubmissionsStand, SubmissionsOf
<1>2. CASE DeleteAssignment(a)
  BY <1>2 DEF DeleteAssignment, SubmissionsOf, IsRow
<1>3. ASSUME NEW b \in Assignment \ {a}, DeleteAssignment(b)
      PROVE  SubmissionsStand(a)
  <2>1. \A s \in Submission :
          s \in SubmissionsOf(a) => s \notin SubmissionsOf(b)
    BY <1>3 DEF SubmissionsOf
  <2> QED
    BY <1>3, <2>1 DEF DeleteAssignment, SubmissionsStand, SubmissionsOf, IsRow
<1>4. ASSUME NEW h \in Handler, NEW s \in Submission, InsertSubmission(h, s)
      PROVE  SubmissionsStand(a) \/ Inserts(h, s, a)
  <2>1. PICK b \in Assignment : Inserts(h, s, b)
    BY <1>4, Inserting
  <2>2. CASE b # a
    <3>1. ~IsRow(submissions[s])
      BY <2>1 DEF Inserts, IsRow
    <3> QED
      BY <2>1, <2>2, <3>1 DEF Inserts, SubmissionsStand, SubmissionsOf
  <2> QED
    BY <2>1, <2>2
<1> QED
  BY <1>1, <1>2, <1>3, <1>4
     DEF TableStep, CreateAssignment, CreateFeedback, WriteAssignment, tables

\* A submission that is inserted is the latest from then on, if it was made
\* after the latest so far; otherwise the latest so far remains it.
LEMMA LatestAfterInsert ==
  ASSUME TypeOK, CreatedOnce, NEW a \in Assignment, NEW h \in Handler, NEW s \in Submission,
         Inserts(h, s, a)
  PROVE  /\ SubmissionsOf(a)' = SubmissionsOf(a) \cup {s}
         /\ s \notin SubmissionsOf(a)
         /\ SubmissionsOf(a) = {} => IsLatest(s, a)'
         /\ \A l \in Submission : IsLatest(l, a) =>
              \/ IsLatest(l, a)'
              \/ /\ IsLatest(s, a)'
                 /\ \A t \in SubmissionsOf(a) :
                      submissions[t].created_at < submissions'[s].created_at
<1>1. SubmissionsOf(a)' = SubmissionsOf(a) \cup {s} /\ s \notin SubmissionsOf(a)
  BY DEF Inserts, SubmissionsOf, IsRow
<1>2. /\ submissions'[s].created_at \in Nat
      /\ \A t \in SubmissionsOf(a) : /\ submissions[t].created_at \in Nat
                                     /\ submissions'[t] = submissions[t]
  BY <1>1, RowTyped, CallTyped DEF Inserts, SubmissionsOf, Stamp
<1>3. \A t \in SubmissionsOf(a) : submissions[t].created_at # submissions'[s].created_at
  BY DEF CreatedOnce, Inserts, SubmissionsOf
<1>4. SubmissionsOf(a) = {} => IsLatest(s, a)'
  BY <1>1, <1>2 DEF IsLatest
<1>5. ASSUME NEW l \in Submission, IsLatest(l, a)
      PROVE  \/ IsLatest(l, a)'
             \/ /\ IsLatest(s, a)'
                /\ \A t \in SubmissionsOf(a) :
                     submissions[t].created_at < submissions'[s].created_at
  <2>1. CASE submissions'[s].created_at < submissions[l].created_at
    BY <1>1, <1>2, <1>5, <2>1 DEF IsLatest
  <2>2. CASE submissions[l].created_at < submissions'[s].created_at
    <3>1. \A t \in SubmissionsOf(a) :
            submissions[t].created_at < submissions'[s].created_at
      BY <1>2, <1>5, <2>2 DEF IsLatest
    <3> QED
      BY <1>1, <1>2, <3>1 DEF IsLatest
  <2> QED
    BY <1>2, <1>3, <1>5, <2>1, <2>2 DEF IsLatest
<1> QED
  BY <1>1, <1>4, <1>5

LEMMA StepLatestExists == Dated /\ [Next]_vars => LatestExists'
<1> SUFFICES ASSUME Dated, TableStep, NEW a \in Assignment, IsSubmitted(a)'
             PROVE  \E s \in Submission : IsLatest(s, a)'
  BY EveryStepIsATableStep DEF LatestExists
<1> USE DEF Dated
<1>1. CASE SubmissionsStand(a)
  <2>1. PICK s \in Submission : IsLatest(s, a)
    BY <1>1 DEF SubmissionsStand, LatestExists, IsSubmitted
  <2> QED
    BY <1>1, <2>1 DEF SubmissionsStand, IsLatest
<1>2. ASSUME NEW h \in Handler, NEW s \in Submission, Inserts(h, s, a)
      PROVE  \E t \in Submission : IsLatest(t, a)'
  BY <1>2, LatestAfterInsert DEF LatestExists, IsSubmitted
<1> QED
  BY <1>1, <1>2, SubmissionSteps DEF IsSubmitted

\* At every moment one submission of an assignment is the latest: neither the
\* order of the inserts nor a deletion leaves two to choose from, or none.
THEOREM DatedAlways == Spec => []Dated
<1>1. Dated /\ [Next]_vars => Dated'
  BY StepTyped, StepCreatedOnce, StepLatestExists DEF Dated
<1> QED
  BY <1>1, InitDated, PTL DEF Spec

LEMMA LatestIs ==
  ASSUME TypeOK, CreatedOnce, NEW a \in Assignment, NEW s \in Submission, IsLatest(s, a)
  PROVE  Latest(a) = s
<1>1. IsLatest(Latest(a), a)
  BY DEF IsLatest, Latest
<1>2. /\ s \in Submission /\ Latest(a) \in Submission
      /\ IsRow(submissions[s]) /\ IsRow(submissions[Latest(a)])
  BY <1>1 DEF IsLatest, SubmissionsOf
<1>3. submissions[s].created_at = submissions[Latest(a)].created_at
  BY <1>1, <1>2, RowTyped DEF IsLatest
<1> QED
  BY <1>2, <1>3 DEF CreatedOnce

LEMMA LatestIsNext ==
  ASSUME TypeOK', CreatedOnce', NEW a \in Assignment, NEW s \in Submission, IsLatest(s, a)'
  PROVE  Latest(a)' = s
<1>1. IsLatest(Latest(a), a)'
  BY DEF IsLatest, Latest
<1>2. /\ s \in Submission /\ Latest(a)' \in Submission
      /\ IsRow(submissions'[s]) /\ IsRow(submissions'[Latest(a)'])
  BY <1>1 DEF IsLatest, SubmissionsOf
<1>3. \A t \in Submission : IsRow(submissions'[t]) => submissions'[t].created_at \in Nat
  BY DEF TypeOK, IsRow, SubmissionRow, Stamp
<1>4. submissions'[s].created_at = submissions'[Latest(a)'].created_at
  BY <1>1, <1>2, <1>3 DEF IsLatest
<1> QED
  BY <1>2, <1>4 DEF CreatedOnce

LEMMA FeedbackStays ==
  ASSUME TypeOK, TableStep, NEW s \in Submission, FeedbacksOn(s) # {}, IsRow(submissions'[s])
  PROVE  FeedbacksOn(s)' # {}
<1> USE HomeworkAssumption DEF FeedbacksOn, TypeOK
<1>1. PICK f \in Feedback : feedbacks[f] = s
  OBVIOUS
<1>2. ASSUME NEW a \in Assignment, DeleteAssignment(a)
      PROVE  feedbacks'[f] = s
  <2>1. s \notin SubmissionsOf(a)
    BY <1>2 DEF DeleteAssignment, IsRow
  <2> QED
    BY <1>1, <1>2, <2>1 DEF DeleteAssignment
<1>3. ASSUME NEW g \in Feedback, NEW t \in Submission, CreateFeedback(g, t)
      PROVE  feedbacks'[f] = s
  BY <1>1, <1>3 DEF CreateFeedback
<1> QED
  BY <1>1, <1>2, <1>3
     DEF TableStep, CreateAssignment, WriteAssignment, InsertSubmission, tables

\* Only a newer submission makes reviewed work unreviewed again.
LEMMA StepReviewStands ==
  ASSUME Dated, Dated', TableStep,
         NEW a \in Assignment, IsRow(assignments[a]), IsRow(assignments'[a]),
         Status(a) = "REVIEWED", Status(a)' # "REVIEWED"
  PROVE  /\ Status(a)' = "UNREVIEWED"
         /\ \E s \in SubmissionsOf(a)' \ SubmissionsOf(a) :
              \A s2 \in SubmissionsOf(a) :
                submissions[s2].created_at < submissions'[s].created_at
<1> USE DEF Dated
<1>1. IsReviewed(a) /\ ~IsReviewed(a)' /\ IsSubmitted(a)
  BY DEF Status, IsReviewed
<1>2. IsSubmitted(a)'
  BY <1>1, StepKeepsSubmitted
<1>3. Status(a)' = "UNREVIEWED"
  BY <1>1, <1>2 DEF Status
<1>4. PICK l \in Submission : IsLatest(l, a)
  BY <1>1 DEF LatestExists
<1>5. FeedbacksOn(l) # {}
  BY <1>1, <1>4, LatestIs DEF IsReviewed
<1>6. ~IsLatest(l, a)'
  <2> SUFFICES ASSUME IsLatest(l, a)' PROVE FALSE
    OBVIOUS
  <2>1. IsRow(submissions'[l]) /\ Latest(a)' = l
    BY LatestIsNext DEF IsLatest, SubmissionsOf
  <2>2. FeedbacksOn(l)' # {}
    BY <1>5, <2>1, FeedbackStays
  <2> QED
    BY <1>1, <1>2, <2>1, <2>2 DEF IsReviewed
<1>7. CASE SubmissionsStand(a)
  BY <1>4, <1>6, <1>7 DEF SubmissionsStand, IsLatest
<1>8. ASSUME NEW h \in Handler, NEW s \in Submission, Inserts(h, s, a)
      PROVE  \E t \in SubmissionsOf(a)' \ SubmissionsOf(a) :
               \A s2 \in SubmissionsOf(a) :
                 submissions[s2].created_at < submissions'[t].created_at
  BY <1>4, <1>6, <1>8, LatestAfterInsert
<1> QED
  BY <1>2, <1>3, <1>7, <1>8, SubmissionSteps DEF IsSubmitted

\* A review is undone by a newer submission and by nothing else: not by the
\* late insert of an older one, by time, or by an edit of the assignment.
THEOREM OnlyNewWorkUndoesReview == Spec => ReviewStands
<1>1. Dated /\ Dated' /\ [Next]_vars =>
        \A a \in Assignment :
          /\ IsRow(assignments[a]) /\ IsRow(assignments'[a])
          /\ Status(a) = "REVIEWED" /\ Status(a)' # "REVIEWED"
          => /\ Status(a)' = "UNREVIEWED"
             /\ \E s \in SubmissionsOf(a)' \ SubmissionsOf(a) :
                  \A s2 \in SubmissionsOf(a) :
                    submissions[s2].created_at < submissions'[s].created_at
  BY EveryStepIsATableStep, StepReviewStands
<1> QED
  BY <1>1, DatedAlways, PTL DEF Spec, ReviewStands

-----------------------------------------------------------------------------
(* Refinement: every step moves one assignment along AssignmentLifecycle, or *)
(* none.                                                                     *)

LEMMA Progresses ==
  ASSUME TypeOK, CreatedOnce, NEW a \in Assignment
  PROVE  /\ assignments[a] = NoRow => Progress(a) = [phase |-> "unborn", latest |-> 0]
         /\ assignments[a] = Removed => Progress(a) = [phase |-> "deleted", latest |-> 0]
         /\ IsRow(assignments[a]) /\ ~IsSubmitted(a)
              => Progress(a) = [phase |-> "open", latest |-> 0]
         /\ \A s \in Submission : IsRow(assignments[a]) /\ IsLatest(s, a) =>
              Progress(a) = [phase  |-> IF FeedbacksOn(s) = {} THEN "submitted"
                                                               ELSE "reviewed",
                             latest |-> submissions[s].created_at]
<1> USE HomeworkAssumption DEF IsRow
<1>1. ~IsSubmitted(a) => Status(a) \notin {"UNREVIEWED", "REVIEWED"}
  BY StatusOfSubmitted
<1>2. ASSUME NEW s \in Submission, IsRow(assignments[a]), IsLatest(s, a)
      PROVE  Progress(a) = [phase  |-> IF FeedbacksOn(s) = {} THEN "submitted"
                                                              ELSE "reviewed",
                            latest |-> submissions[s].created_at]
  <2>1. Latest(a) = s /\ IsSubmitted(a)
    BY <1>2, LatestIs DEF IsSubmitted, IsLatest
  <2>2. IsReviewed(a) <=> FeedbacksOn(s) # {}
    BY <2>1 DEF IsReviewed
  <2>3. Status(a) = IF FeedbacksOn(s) = {} THEN "UNREVIEWED" ELSE "REVIEWED"
    BY <2>1, <2>2 DEF Status
  <2> QED
    BY <1>2, <2>1, <2>3 DEF Progress, Handed
<1> QED
  BY <1>1, <1>2 DEF Progress

LEMMA ProgressesNext ==
  ASSUME TypeOK', CreatedOnce', NEW a \in Assignment
  PROVE  /\ assignments'[a] = NoRow => Progress(a)' = [phase |-> "unborn", latest |-> 0]
         /\ assignments'[a] = Removed => Progress(a)' = [phase |-> "deleted", latest |-> 0]
         /\ IsRow(assignments'[a]) /\ ~IsSubmitted(a)'
              => Progress(a)' = [phase |-> "open", latest |-> 0]
         /\ \A s \in Submission : IsRow(assignments'[a]) /\ IsLatest(s, a)' =>
              Progress(a)' = [phase  |-> IF FeedbacksOn(s)' = {} THEN "submitted"
                                                                 ELSE "reviewed",
                              latest |-> submissions'[s].created_at]
<1> USE HomeworkAssumption DEF IsRow
<1>1. ~IsSubmitted(a)' => Status(a)' \notin {"UNREVIEWED", "REVIEWED"}
  BY DEF Status, IsReviewed
<1>2. ASSUME NEW s \in Submission, IsRow(assignments'[a]), IsLatest(s, a)'
      PROVE  Progress(a)' = [phase  |-> IF FeedbacksOn(s)' = {} THEN "submitted"
                                                                ELSE "reviewed",
                             latest |-> submissions'[s].created_at]
  <2>1. Latest(a)' = s /\ IsSubmitted(a)'
    BY <1>2, LatestIsNext DEF IsSubmitted, IsLatest
  <2>2. IsReviewed(a)' <=> FeedbacksOn(s)' # {}
    BY <2>1 DEF IsReviewed
  <2>3. Status(a)' = IF FeedbacksOn(s)' = {} THEN "UNREVIEWED" ELSE "REVIEWED"
    BY <2>1, <2>2 DEF Status
  <2> QED
    BY <1>2, <2>1, <2>3 DEF Progress, Handed
<1> QED
  BY <1>1, <1>2 DEF Progress

\* What is left alone: the row is there or not as before, its submissions are
\* the same, and each of them has feedback or not as before.
LEMMA ProgressKept ==
  ASSUME Dated, Dated', NEW a \in Assignment, SubmissionsStand(a),
         \/ assignments'[a] = assignments[a]
         \/ IsRow(assignments[a]) /\ IsRow(assignments'[a]),
         \A s \in SubmissionsOf(a) : FeedbacksOn(s)' = {} <=> FeedbacksOn(s) = {}
  PROVE  Progress(a)' = Progress(a)
<1> USE DEF Dated
<1>1. CASE ~IsRow(assignments[a])
  BY <1>1, Progresses, ProgressesNext DEF IsRow
<1>2. CASE IsRow(assignments[a]) /\ ~IsSubmitted(a)
  <2>1. IsRow(assignments'[a]) /\ ~IsSubmitted(a)'
    BY <1>2 DEF SubmissionsStand, IsSubmitted
  <2> QED
    BY <1>2, <2>1, Progresses, ProgressesNext
<1>3. CASE IsRow(assignments[a]) /\ IsSubmitted(a)
  <2>1. PICK s \in Submission : IsLatest(s, a)
    BY <1>3 DEF LatestExists
  <2>2. /\ IsRow(assignments'[a]) /\ IsLatest(s, a)'
        /\ submissions'[s] = submissions[s]
        /\ FeedbacksOn(s)' = {} <=> FeedbacksOn(s) = {}
    BY <1>3, <2>1 DEF SubmissionsStand, IsLatest
  <2> QED
    BY <1>3, <2>1, <2>2, Progresses, ProgressesNext
<1> QED
  BY <1>1, <1>2, <1>3

\* One step of one assignment, the others staying as they are.
MovesTo(a, phase, latest) ==
  /\ Progress(a)' = [phase |-> phase, latest |-> latest]
  /\ \A b \in Assignment \ {a} : Progress(b)' = Progress(b)

LEMMA CreateMoves ==
  ASSUME Dated, Dated', NoOrphans, NEW a \in Assignment, NEW due \in Due,
         CreateAssignment(a, due)
  PROVE  Progress(a).phase = "unborn" /\ MovesTo(a, "open", 0)
<1> USE HomeworkAssumption DEF Dated
<1>1. /\ assignments[a] = NoRow /\ IsRow(assignments'[a])
      /\ \A b \in Assignment \ {a} : assignments'[b] = assignments[b]
      /\ submissions' = submissions /\ feedbacks' = feedbacks
  BY DEF CreateAssignment, TypeOK, IsRow
<1>2. ~IsSubmitted(a)'
  BY <1>1 DEF NoOrphans, IsSubmitted, SubmissionsOf, IsRow
<1>3. \A b \in Assignment \ {a} : Progress(b)' = Progress(b)
  BY <1>1, ProgressKept DEF SubmissionsStand, SubmissionsOf, FeedbacksOn
<1> QED
  BY <1>1, <1>2, <1>3, Progresses, ProgressesNext DEF MovesTo

LEMMA DeleteMoves ==
  ASSUME Dated, Dated', NEW a \in Assignment, DeleteAssignment(a)
  PROVE  /\ Progress(a).phase \in {"open", "submitted", "reviewed"}
         /\ MovesTo(a, "deleted", 0)
<1> USE HomeworkAssumption DEF Dated
<1>1. /\ IsRow(assignments[a]) /\ assignments'[a] = Removed
      /\ \A b \in Assignment \ {a} : assignments'[b] = assignments[b]
  BY DEF DeleteAssignment, TypeOK
<1>2. ASSUME NEW b \in Assignment \ {a}
      PROVE  Progress(b)' = Progress(b)
  <2>1. ~DeleteAssignment(b)
    BY <1>1 DEF DeleteAssignment, IsRow
  <2>2. ASSUME NEW h \in Handler, NEW s \in Submission
        PROVE  ~Inserts(h, s, b)
    BY DEF DeleteAssignment, Inserts, IsRow
  <2>3. SubmissionsStand(b)
    BY <2>1, <2>2, SubmissionSteps DEF TableStep
  <2>4. ASSUME NEW s \in SubmissionsOf(b)
        PROVE  FeedbacksOn(s)' = FeedbacksOn(s)
    <3>1. s \notin SubmissionsOf(a) /\ s # Removed
      BY DEF SubmissionsOf
    <3> QED
      BY <3>1 DEF DeleteAssignment, FeedbacksOn
  <2> QED
    BY <1>1, <2>3, <2>4, ProgressKept
<1>3. Progress(a).phase \in {"open", "submitted", "reviewed"}
  BY <1>1, Progresses DEF LatestExists
<1> QED
  BY <1>1, <1>2, <1>3, ProgressesNext DEF MovesTo

LEMMA FeedbackMoves ==
  ASSUME Dated, Dated', NoOrphans, NEW f \in Feedback, NEW s \in Submission,
         CreateFeedback(f, s)
  PROVE  \/ \A a \in Assignment : Progress(a)' = Progress(a)
         \/ \E a \in Assignment : /\ Progress(a).phase = "submitted"
                                  /\ MovesTo(a, "reviewed", Progress(a).latest)
<1> USE HomeworkAssumption DEF Dated
<1>1. PICK a \in Assignment : s \in SubmissionsOf(a)
  BY RowTyped DEF CreateFeedback, SubmissionsOf
<1>2. /\ \A b \in Assignment : SubmissionsStand(b)
      /\ assignments' = assignments /\ submissions' = submissions
  BY DEF CreateFeedback, SubmissionsStand, SubmissionsOf
<1>3. /\ FeedbacksOn(s)' # {}
      /\ \A t \in Submission \ {s} : FeedbacksOn(t)' = FeedbacksOn(t)
  BY DEF CreateFeedback, FeedbacksOn, TypeOK
<1>4. \A b \in Assignment \ {a} : Progress(b)' = Progress(b)
  <2> SUFFICES ASSUME NEW b \in Assignment \ {a} PROVE Progress(b)' = Progress(b)
    OBVIOUS
  <2>1. \A t \in SubmissionsOf(b) : t \in Submission \ {s}
    BY <1>1 DEF SubmissionsOf
  <2> QED
    BY <1>2, <1>3, <2>1, ProgressKept
<1>5. CASE IsLatest(s, a) /\ FeedbacksOn(s) = {}
  <2>1. IsRow(assignments[a])
    BY <1>1 DEF NoOrphans, SubmissionsOf
  <2>2. IsRow(assignments'[a]) /\ IsLatest(s, a)'
    BY <1>2, <1>5, <2>1 DEF SubmissionsStand, IsLatest
  <2>3. Progress(a) = [phase |-> "submitted", latest |-> submissions[s].created_at]
    BY <1>5, <2>1, Progresses
  <2>4. Progress(a)' = [phase |-> "reviewed", latest |-> submissions[s].created_at]
    BY <1>2, <1>3, <2>2, ProgressesNext
  <2> QED
    BY <1>4, <2>3, <2>4 DEF MovesTo
<1>6. CASE FeedbacksOn(s) # {}
  BY <1>2, <1>3, <1>4, <1>6, ProgressKept DEF SubmissionsOf
<1>7. CASE ~IsLatest(s, a)
  <2>1. IsRow(assignments[a])
    BY <1>1 DEF NoOrphans, SubmissionsOf
  <2>2. PICK l \in Submission : IsLatest(l, a)
    BY <1>1 DEF LatestExists, IsSubmitted
  <2>3. l # s /\ FeedbacksOn(l)' = FeedbacksOn(l)
    BY <1>3, <1>7, <2>2
  <2>4. IsRow(assignments'[a]) /\ IsLatest(l, a)'
    BY <1>2, <2>1, <2>2 DEF SubmissionsStand, IsLatest
  <2>5. Progress(a)' = Progress(a)
    BY <1>2, <2>1, <2>2, <2>3, <2>4, Progresses, ProgressesNext
  <2> QED
    BY <1>4, <2>5
<1> QED
  BY <1>5, <1>6, <1>7

LEMMA InsertMoves ==
  ASSUME Dated, Dated', NoOrphans, NEW h \in Handler, NEW s \in Submission,
         InsertSubmission(h, s)
  PROVE  \/ \A a \in Assignment : Progress(a)' = Progress(a)
         \/ \E a \in Assignment, t \in Stamp :
              /\ \/ Progress(a).phase = "open"
                 \/ /\ Progress(a).phase \in {"submitted", "reviewed"}
                    /\ Progress(a).latest < t
              /\ MovesTo(a, "submitted", t)
<1> USE HomeworkAssumption DEF Dated
<1>1. PICK a \in Assignment : Inserts(h, s, a)
  BY Inserting
<1>2. /\ IsRow(assignments[a]) /\ assignments' = assignments
      /\ feedbacks' = feedbacks
  BY <1>1 DEF InsertSubmission, Inserts
<1>3. \A t \in Submission : FeedbacksOn(t)' = FeedbacksOn(t)
  BY <1>2 DEF FeedbacksOn
<1>4. FeedbacksOn(s) = {}
  BY <1>1 DEF Inserts, NoOrphans, FeedbacksOn, IsRow
<1>5. \A b \in Assignment \ {a} : Progress(b)' = Progress(b)
  <2> SUFFICES ASSUME NEW b \in Assignment \ {a} PROVE Progress(b)' = Progress(b)
    OBVIOUS
  <2>1. SubmissionsStand(b)
    BY <1>1 DEF Inserts, SubmissionsStand, SubmissionsOf, IsRow
  <2> QED
    BY <1>2, <1>3, <2>1, ProgressKept DEF SubmissionsOf
<1>6. submissions'[s].created_at \in Stamp
  BY <1>1, CallTyped DEF Inserts
<1>7. CASE ~IsSubmitted(a)
  <2>1. IsLatest(s, a)'
    BY <1>1, <1>7, LatestAfterInsert DEF IsSubmitted
  <2>2. Progress(a).phase = "open"
    BY <1>2, <1>7, Progresses
  <2>3. Progress(a)' = [phase |-> "submitted", latest |-> submissions'[s].created_at]
    BY <1>2, <1>3, <1>4, <2>1, ProgressesNext
  <2> QED
    BY <1>5, <1>6, <2>2, <2>3 DEF MovesTo
<1>8. CASE IsSubmitted(a)
  <2>1. PICK l \in Submission : IsLatest(l, a)
    BY <1>8 DEF LatestExists
  <2>2. /\ Progress(a).phase \in {"submitted", "reviewed"}
        /\ Progress(a).latest = submissions[l].created_at
        /\ Progress(a) = [phase  |-> IF FeedbacksOn(l) = {} THEN "submitted"
                                                            ELSE "reviewed",
                          latest |-> submissions[l].created_at]
    BY <1>2, <2>1, Progresses
  <2>3. CASE IsLatest(l, a)'
    <3>1. submissions'[l] = submissions[l]
      BY <1>1, <2>1 DEF Inserts, IsLatest, SubmissionsOf, IsRow
    <3>2. Progress(a)' = Progress(a)
      BY <1>2, <1>3, <2>2, <2>3, <3>1, ProgressesNext
    <3> QED
      BY <1>5, <3>2
  <2>4. CASE /\ IsLatest(s, a)'
             /\ submissions[l].created_at < submissions'[s].created_at
    <3>1. Progress(a)' = [phase |-> "submitted", latest |-> submissions'[s].created_at]
      BY <1>2, <1>3, <1>4, <2>4, ProgressesNext
    <3> QED
      BY <1>5, <1>6, <2>2, <2>4, <3>1 DEF MovesTo
  <2> QED
    BY <1>1, <2>1, <2>3, <2>4, LatestAfterInsert DEF IsLatest
<1> QED
  BY <1>7, <1>8

LEMMA EditMoves ==
  ASSUME Dated, Dated', NEW a \in Assignment,
         UNCHANGED tables \/ \E h \in Handler : WriteAssignment(h)
  PROVE  Progress(a)' = Progress(a)
<1> USE HomeworkAssumption DEF Dated
<1>1. SubmissionsStand(a) /\ feedbacks' = feedbacks
  BY DEF WriteAssignment, tables, SubmissionsStand, SubmissionsOf
<1>2. \/ assignments'[a] = assignments[a]
      \/ IsRow(assignments[a]) /\ IsRow(assignments'[a])
  <2>1. ASSUME NEW h \in Handler, WriteAssignment(h)
        PROVE  \/ assignments'[a] = assignments[a]
               \/ IsRow(assignments[a]) /\ IsRow(assignments'[a])
    <3>1. handlers[h].due \in Due /\ handlers[h].assignment \in Assignment
      BY <2>1, CallTyped DEF WriteAssignment
    <3> QED
      BY <2>1, <3>1 DEF WriteAssignment, IsRow, TypeOK
  <2> QED
    BY <2>1 DEF tables
<1> QED
  BY <1>1, <1>2, ProgressKept DEF FeedbacksOn

\* The homework service, read through its computed status, implements the life
\* of an assignment: its latest work only ever gets later, and a review
\* belongs to it until then.
THEOREM ImplementsLifecycle == Spec => WorkMovesOn
<1> DEFINE progress == [a \in Assignment |-> Progress(a)]
           Inv == Dated /\ NoOrphans
<1>1. Init => Lifecycle!Init
  <2> SUFFICES ASSUME Init PROVE Lifecycle!Init
    OBVIOUS
  <2>1. TypeOK /\ CreatedOnce
    BY InitDated DEF Dated
  <2> QED
    BY <2>1, Progresses DEF Init, Lifecycle!Init
<1>2. Inv /\ Inv' /\ [Next]_vars => [Lifecycle!Next]_progress
  <2> SUFFICES ASSUME Inv, Inv', TableStep
               PROVE  progress' = progress \/ Lifecycle!Next
    BY EveryStepIsATableStep
  <2>1. ASSUME NEW a \in Assignment, NEW phase, NEW latest, MovesTo(a, phase, latest)
        PROVE  Lifecycle!Move(a, phase, latest)
    BY <2>1 DEF MovesTo, Lifecycle!Move
  <2>2. CASE \A a \in Assignment : Progress(a)' = Progress(a)
    BY <2>2
  <2>3. ASSUME NEW a \in Assignment, NEW due \in Due, CreateAssignment(a, due)
        PROVE  Lifecycle!Next
    BY <2>1, <2>3, CreateMoves DEF Lifecycle!Next, Lifecycle!Create
  <2>4. ASSUME NEW a \in Assignment, DeleteAssignment(a)
        PROVE  Lifecycle!Next
    BY <2>1, <2>4, DeleteMoves DEF Lifecycle!Next, Lifecycle!Delete
  <2>5. ASSUME NEW a \in Assignment, Progress(a).phase = "submitted",
               MovesTo(a, "reviewed", Progress(a).latest)
        PROVE  Lifecycle!Next
    BY <2>1, <2>5 DEF Lifecycle!Next, Lifecycle!Review
  <2>6. ASSUME NEW a \in Assignment, NEW t \in Stamp, MovesTo(a, "submitted", t),
               \/ Progress(a).phase = "open"
               \/ /\ Progress(a).phase \in {"submitted", "reviewed"}
                  /\ Progress(a).latest < t
        PROVE  Lifecycle!Next
    BY <2>1, <2>6 DEF Lifecycle!Next, Lifecycle!Submit
  <2> QED
    BY <2>2, <2>3, <2>4, <2>5, <2>6, FeedbackMoves, InsertMoves, EditMoves DEF TableStep
<1>3. Spec => []Inv
  BY DatedAlways, OrphansNeverAppear, PTL
<1> QED
  BY <1>1, <1>2, <1>3, PTL DEF Spec, WorkMovesOn, Lifecycle!Spec

-----------------------------------------------------------------------------
(* The reminder worker *)

\* Every list of a finite set without repetition is a sequence of its members.
LEMMA ListTyped ==
  ASSUME NEW S, IsFiniteSet(S), NEW q \in SetToSeqs(S)
  PROVE  q \in Seq(S) /\ IsInjective(q)
<1>1. Cardinality(S) \in Nat
  BY FS_CardinalityType
<1> QED
  BY <1>1 DEF SetToSeqs, IsInjective

LEMMA TailTyped ==
  ASSUME NEW S, NEW q \in Seq(S), IsInjective(q), q # <<>>
  PROVE  Tail(q) \in Seq(S) /\ IsInjective(Tail(q))
<1>1. /\ Tail(q) \in Seq(S)
      /\ DOMAIN Tail(q) = 1..Len(q) - 1
      /\ \A i \in 1..Len(q) - 1 : Tail(q)[i] = q[i + 1]
  OBVIOUS
<1>2. ASSUME NEW i \in 1..Len(q) - 1, NEW j \in 1..Len(q) - 1, q[i + 1] = q[j + 1]
      PROVE  i = j
  <2>1. i + 1 \in DOMAIN q /\ j + 1 \in DOMAIN q
    OBVIOUS
  <2>2. i + 1 = j + 1
    BY <1>2, <2>1 DEF IsInjective
  <2> QED
    BY <2>2
<1> QED
  BY <1>1, <1>2 DEF IsInjective

LEMMA RemindersStepTyped == RemindersTypeOK /\ [RemindersNext]_remVars => RemindersTypeOK'
<1> SUFFICES ASSUME RemindersTypeOK, [RemindersNext]_remVars PROVE RemindersTypeOK'
  OBVIOUS
<1> USE DEF RemindersTypeOK
<1>1. CASE batch' = <<>> /\ sent' = sent
  BY <1>1 DEF IsInjective
<1>2. CASE ProcessReminders
  <2> DEFINE due == {a \in Assignment : IsDueSoon(a)}
  <2>1. IsFiniteSet(due)
    BY ReminderAssumption, FS_Subset
  <2>2. batch' \in SetToSeqs(due) /\ sent' = sent
    BY <1>2 DEF ProcessReminders
  <2>3. batch' \in Seq(due) /\ IsInjective(batch')
    BY <2>1, <2>2, ListTyped
  <2>4. due \subseteq Assignment
    OBVIOUS
  <2> HIDE DEF due
  <2> QED
    BY <2>2, <2>3, <2>4
<1>3. ASSUME NEW a \in Assignment, Attempt(a)
      PROVE  RemindersTypeOK'
  <2>1. batch' = Tail(batch) /\ batch # <<>> /\ sent' \subseteq Assignment
    BY <1>3 DEF Attempt, Send, SendFails
  <2> QED
    BY <2>1, TailTyped
<1>4. CASE UNCHANGED <<batch, sent>>
  BY <1>4
<1> QED
  BY <1>1, <1>2, <1>3, <1>4 DEF RemindersNext, WorkerRestart, remVars

\* The batch is a list of assignments, none of them twice: no assignment is
\* reminded of twice in one round, however often events are refused.
THEOREM BatchTyped == RemindersSpec => []RemindersTypeOK
<1>1. RemindersInit => RemindersTypeOK
  BY DEF RemindersInit, RemindersTypeOK, IsInjective
<1> QED
  BY <1>1, RemindersStepTyped, PTL DEF RemindersSpec

-----------------------------------------------------------------------------
(* The notification service, which gets the reminders.  Delivery at least   *)
(* once rests on two places the reader may go on at: behind what it has     *)
(* fetched, or behind what the group has committed; both must only have     *)
(* processed messages, or the one at hand, behind them.                     *)

\* Everything behind the message at hand is processed, and it is itself before
\* it is committed.
CurrentIsNext ==
  current # None =>
    /\ 1..current.offset - 1 \subseteq processed[current.partition]
    /\ current.pc = "commit" => current.offset \in processed[current.partition]

\* What the reader has fetched is processed or at hand.
FetchedIsProcessed ==
  \A p \in Partition : \A o \in 1..position[p] :
    o \in processed[p] \/ (AtMessage(p, "process") /\ current.offset = o)

LogInv ==
  /\ NotificationTypeOK
  /\ CommittedIsProcessed
  /\ NoneIsSkipped
  /\ CurrentIsNext
  /\ FetchedIsProcessed

LEMMA LogInvInitially == NotificationInit => LogInv
  BY NotificationAssumption
     DEF NotificationInit, LogInv, NotificationTypeOK, CommittedIsProcessed, NoneIsSkipped,
         CurrentIsNext, FetchedIsProcessed, Message

LEMMA AtFetched ==
  ASSUME NotificationTypeOK, NEW p \in Partition, NEW pc, AtMessage(p, pc)
  PROVE  /\ current \in Fetched /\ current # None
         /\ current.partition = p /\ current.pc = pc
         /\ current.offset \in Offset /\ current.offset <= Len(log[p])
  BY DEF AtMessage, NotificationTypeOK, Fetched

\* A Publish makes the log longer and changes nothing else.
LEMMA PublishKeeps ==
  ASSUME LogInv, NEW p \in Partition, NEW m \in Message, Publish(p, m)
  PROVE  LogInv'
<1>1. \A q \in Partition : Len(log[q]) \in Nat /\ Len(log'[q]) \in Len(log[q])..MaxMessages
  BY NotificationAssumption DEF LogInv, NotificationTypeOK, Publish
<1>2. log' \in [Partition -> Seq(Message)]
  BY DEF LogInv, NotificationTypeOK, Publish
<1>3. \A q \in Partition : position[q] <= Len(log'[q]) /\ committed[q] <= Len(log'[q])
  BY <1>1, NotificationAssumption DEF LogInv, NotificationTypeOK
<1>4. current # None => current.partition \in Partition /\ current.offset \in Offset
  BY DEF LogInv, NotificationTypeOK, Fetched
<1>5. current # None => current.offset <= Len(log'[current.partition])
  BY <1>1, <1>4, NotificationAssumption DEF LogInv, NotificationTypeOK, Offset
<1>6. NotificationTypeOK'
  BY <1>1, <1>2, <1>3, <1>5 DEF LogInv, NotificationTypeOK, Publish
<1> QED
  BY <1>6 DEF LogInv, Publish, CommittedIsProcessed, NoneIsSkipped, CurrentIsNext,
              FetchedIsProcessed, AtMessage

\* The next message: everything the reader fetched before it is processed,
\* because the loop is at no message.
LEMMA FetchKeeps ==
  ASSUME LogInv, NEW p \in Partition, FetchMessage(p)
  PROVE  LogInv'
<1> USE NotificationAssumption
<1>1. /\ position[p] + 1 \in Offset /\ position[p] + 1 <= Len(log[p])
      /\ position'[p] = position[p] + 1
      /\ \A q \in Partition \ {p} : position'[q] = position[q]
  BY DEF LogInv, NotificationTypeOK, FetchMessage, Offset
<1>2. current' \in Fetched /\ current' # None
  BY <1>1 DEF FetchMessage, Fetched
<1>3. NotificationTypeOK'
  BY <1>1, <1>2 DEF LogInv, NotificationTypeOK, FetchMessage, Offset
<1>4. 1..position[p] \subseteq processed[p]
  BY DEF LogInv, FetchedIsProcessed, FetchMessage, AtMessage
<1>5. CurrentIsNext'
  BY <1>1, <1>4 DEF CurrentIsNext, FetchMessage, LogInv, NotificationTypeOK
<1>6. FetchedIsProcessed'
  <2> SUFFICES ASSUME NEW q \in Partition, NEW o \in 1..position'[q]
               PROVE  o \in processed[q] \/ (AtMessage(q, "process")' /\ current'.offset = o)
    BY DEF FetchedIsProcessed, FetchMessage
  <2>1. CASE q = p /\ o = position[p] + 1
    BY <1>2, <2>1 DEF AtMessage, FetchMessage
  <2>2. CASE ~(q = p /\ o = position[p] + 1)
    <3>1. o \in 1..position[q]
      BY <1>1, <2>2 DEF LogInv, NotificationTypeOK
    <3> QED
      BY <3>1 DEF LogInv, FetchedIsProcessed, AtMessage, FetchMessage
  <2> QED
    BY <2>1, <2>2
<1> QED
  BY <1>3, <1>5, <1>6 DEF LogInv, FetchMessage, CommittedIsProcessed, NoneIsSkipped

LEMMA ProcessKeeps ==
  ASSUME LogInv, NEW p \in Partition, ProcessMessage(p)
  PROVE  LogInv'
<1>1. /\ current \in Fetched /\ current # None /\ current.partition = p
      /\ current.offset \in Offset /\ current.pc = "process"
      /\ current.offset <= Len(log[p])
  BY AtFetched DEF LogInv, ProcessMessage
<1>2. /\ current' \in Fetched /\ current' # None /\ current'.partition = p
      /\ current'.offset = current.offset /\ current'.pc = "commit"
  BY <1>1, NotificationAssumption DEF ProcessMessage, Fetched
<1>3. /\ processed'[p] = processed[p] \cup {current.offset}
      /\ \A q \in Partition \ {p} : processed'[q] = processed[q]
  BY DEF LogInv, NotificationTypeOK, ProcessMessage
<1>4. NotificationTypeOK'
  BY <1>1, <1>2 DEF LogInv, NotificationTypeOK, ProcessMessage
<1>5. CommittedIsProcessed'
  BY <1>3 DEF LogInv, CommittedIsProcessed, ProcessMessage
<1>6. 1..current.offset \subseteq processed'[p]
  BY <1>1, <1>3 DEF LogInv, CurrentIsNext, Offset
<1>7. NoneIsSkipped'
  BY <1>3, <1>6 DEF LogInv, NoneIsSkipped
<1>8. CurrentIsNext'
  BY <1>1, <1>2, <1>3, <1>6 DEF CurrentIsNext, Offset
<1>9. FetchedIsProcessed'
  BY <1>1, <1>3 DEF LogInv, FetchedIsProcessed, ProcessMessage, AtMessage
<1> QED
  BY <1>4, <1>5, <1>7, <1>8, <1>9 DEF LogInv

\* The offset that is committed is of a message behind which all is processed.
LEMMA CommitKeeps ==
  ASSUME LogInv, NEW p \in Partition, CommitMessages(p)
  PROVE  LogInv'
<1>1. /\ current \in Fetched /\ current # None /\ current.partition = p
      /\ current.offset \in Offset /\ current.pc = "commit"
      /\ current.offset <= Len(log[p])
  BY AtFetched DEF LogInv, CommitMessages
<1>2. /\ committed'[p] = current.offset
      /\ \A q \in Partition \ {p} : committed'[q] = committed[q]
  BY DEF LogInv, NotificationTypeOK, CommitMessages
<1>3. NotificationTypeOK'
  BY <1>1, <1>2, NotificationAssumption DEF LogInv, NotificationTypeOK, CommitMessages, Offset
<1>4. 1..current.offset \subseteq processed[p]
  BY <1>1 DEF LogInv, CurrentIsNext, Offset
<1>5. CommittedIsProcessed'
  BY <1>2, <1>4 DEF LogInv, CommittedIsProcessed, CommitMessages
<1>6. FetchedIsProcessed'
  BY <1>1 DEF LogInv, FetchedIsProcessed, CommitMessages, AtMessage
<1> QED
  BY <1>3, <1>5, <1>6 DEF LogInv, CommitMessages, NoneIsSkipped, CurrentIsNext

LEMMA CommitFailureKeeps ==
  ASSUME LogInv, NEW p \in Partition, CommitFails(p)
  PROVE  LogInv'
<1>1. current # None /\ current.pc = "commit"
  BY DEF CommitFails, AtMessage
<1>2. NotificationTypeOK'
  BY DEF LogInv, NotificationTypeOK, CommitFails
<1>3. FetchedIsProcessed'
  BY <1>1 DEF LogInv, FetchedIsProcessed, CommitFails, AtMessage
<1> QED
  BY <1>2, <1>3 DEF LogInv, CommitFails, CommittedIsProcessed, NoneIsSkipped, CurrentIsNext

\* Behind the group's offset everything is processed, so the reader may go on
\* there, whatever is at hand.
LEMMA GoingOnKeeps ==
  ASSUME LogInv, Restart \/ Rebalance
  PROVE  LogInv'
<1>1. /\ position' = committed /\ current' \in {current, None}
      /\ UNCHANGED <<log, committed, processed>>
  BY DEF Restart, Rebalance
<1>2. NotificationTypeOK'
  BY <1>1 DEF LogInv, NotificationTypeOK
<1>3. FetchedIsProcessed'
  BY <1>1 DEF LogInv, CommittedIsProcessed, FetchedIsProcessed
<1> QED
  BY <1>1, <1>2, <1>3 DEF LogInv, CommittedIsProcessed, NoneIsSkipped, CurrentIsNext

LEMMA LogInvStep == LogInv /\ [NotificationNext]_notificationVars => LogInv'
<1>1. LogInv /\ UNCHANGED notificationVars => LogInv'
  BY DEF notificationVars, LogInv, NotificationTypeOK, CommittedIsProcessed, NoneIsSkipped,
         CurrentIsNext, FetchedIsProcessed, AtMessage
<1> QED
  BY <1>1, PublishKeeps, FetchKeeps, ProcessKeeps, CommitKeeps, CommitFailureKeeps,
     GoingOnKeeps DEF NotificationNext

\* Log, offsets and the message at hand fit together, for any number of
\* partitions and messages.
THEOREM NotificationTyped == NotificationSpec => []NotificationTypeOK
  BY LogInvInitially, LogInvStep, PTL DEF NotificationSpec, LogInv

\* At-least-once delivery: wherever the process stops, whichever commits fail
\* and however often the group is rebalanced, no offset is committed beyond a
\* message that was not processed.
THEOREM AtLeastOnce == NotificationSpec => []CommittedIsProcessed
  BY LogInvInitially, LogInvStep, PTL DEF NotificationSpec, LogInv

\* Messages of a partition are first processed in the order they came in.
THEOREM InOrder == NotificationSpec => []NoneIsSkipped
  BY LogInvInitially, LogInvStep, PTL DEF NotificationSpec, LogInv
=============================================================================
