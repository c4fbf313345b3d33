--------------------------- MODULE ScheduleProofs ---------------------------
(***************************************************************************)
(* Proofs about Schedule for any sets of slots, lessons, users and         *)
(* concurrent requests.  Consistent is the inductive invariant: what the   *)
(* tables satisfy, strengthened by what the requests in flight carry.      *)
(*                                                                         *)
(* Proofs about Payment follow.  The payment service changes the tables of *)
(* the schedule service only through MarkAsPaid, so every theorem about    *)
(* Schedule holds beside it; the rest follows one receipt from its INSERT. *)
(***************************************************************************)
EXTENDS Payment, TLAPS

Consistent == /\ TypeOK
              /\ OneLessonPerSlot
              /\ LessonHasSlot
              /\ BookedSlotHasLiveLesson
              /\ StaleCancelIsHarmless
              /\ EventsDescribeLessons

-----------------------------------------------------------------------------
(* What a request in flight carries, by its pc. *)

LEMMA InsertSlotCall ==
  ASSUME TypeOK, NEW w \in Worker, At(w, "insert_slot")
  PROVE  workers[w] \in [pc : {"insert_slot"}, tutor : Tutor, at : Interval]
BY DEF TypeOK, At, Call

LEMMA UpdateSlotCall ==
  ASSUME TypeOK, NEW w \in Worker, At(w, "update_slot")
  PROVE  workers[w] \in [pc : {"update_slot"}, slot : Slot, at : Interval]
BY DEF TypeOK, At, Call

LEMMA DeleteSlotCall ==
  ASSUME TypeOK, NEW w \in Worker, At(w, "delete_slot")
  PROVE  workers[w] \in [pc : {"delete_slot"}, slot : Slot]
BY DEF TypeOK, At, Call

LEMMA CreateLessonCall ==
  ASSUME TypeOK, NEW w \in Worker, At(w, "validate_pair") \/ At(w, "book_slot")
  PROVE  workers[w] \in [pc : {"validate_pair", "book_slot"}, slot : Slot,
                         tutor : Tutor, student : Student, at : Interval]
BY DEF TypeOK, At, Call

LEMMA SendEventCall ==
  ASSUME TypeOK, NEW w \in Worker, At(w, "send_event")
  PROVE  workers[w] \in [pc : {"send_event"}, event : Event]
BY DEF TypeOK, At, Call

LEMMA UpdateLessonCall ==
  ASSUME TypeOK, NEW w \in Worker, At(w, "update_lesson")
  PROVE  workers[w] \in [pc : {"update_lesson"}, lesson : Lesson, status : Status,
                         is_paid : BOOLEAN, details : SUBSET Detail]
BY DEF TypeOK, At, Call

LEMMA SlotTypes ==
  ASSUME TypeOK, NEW s \in Slot, SlotExists(s)
  PROVE  slots[s] \in SlotRow
BY DEF TypeOK, SlotExists

LEMMA LessonTypes ==
  ASSUME TypeOK, NEW l \in Lesson, LessonExists(l)
  PROVE  lessons[l] \in LessonRow
BY DEF TypeOK, LessonExists

-----------------------------------------------------------------------------
(* Type correctness *)

LEMMA InitTyped == Init => TypeOK
BY ScheduleAssumption DEF Init, TypeOK, Time

LEMMA StepTyped == Consistent /\ [Next]_vars => TypeOK'
<1> SUFFICES ASSUME Consistent, [Next]_vars PROVE TypeOK'
  OBVIOUS
<1> USE ScheduleAssumption DEF Consistent
<1>1. ASSUME NEW w \in Worker, NEW t \in Tutor, NEW i \in Range, CreateSlot(w, t, i)
      PROVE  TypeOK'
  BY <1>1 DEF TypeOK, CreateSlot, Bookable, Goto, Call, Interval
<1>2. ASSUME NEW w \in Worker, NEW s \in Slot, InsertSlot(w, s)
      PROVE  TypeOK'
  <2>1. workers[w] \in [pc : {"insert_slot"}, tutor : Tutor, at : Interval]
    BY <1>2, InsertSlotCall DEF InsertSlot
  <2>2. slots' \in [Slot -> SlotRow \cup {NoRow, Removed}]
    <3> DEFINE row == [tutor |-> workers[w].tutor, at |-> workers[w].at,
                       is_booked |-> FALSE]
    <3>1. row \in SlotRow
      BY <2>1 DEF SlotRow
    <3>2. slots' = [slots EXCEPT ![s] = row] \/ slots' = slots
      BY <1>2 DEF InsertSlot
    <3> QED
      BY <3>1, <3>2 DEF TypeOK
  <2> QED
    BY <1>2, <2>2 DEF TypeOK, InsertSlot, Goto, Return
<1>3. ASSUME NEW w \in Worker, NEW s \in Slot, NEW i \in Range, UpdateSlot(w, s, i)
      PROVE  TypeOK'
  BY <1>3 DEF TypeOK, UpdateSlot, Bookable, Goto, Call, Interval
<1>4. ASSUME NEW w \in Worker, WriteSlot(w)
      PROVE  TypeOK'
  <2>1. workers[w].slot \in Slot /\ workers[w].at \in Interval
    BY <1>4, UpdateSlotCall DEF WriteSlot
  <2>2. slots' \in [Slot -> SlotRow \cup {NoRow, Removed}]
    BY <1>4, <2>1, SlotTypes DEF TypeOK, WriteSlot, SlotRow
  <2> QED
    BY <1>4, <2>2 DEF TypeOK, WriteSlot, Goto, Return
<1>5. ASSUME NEW w \in Worker, NEW s \in Slot, DeleteSlot(w, s)
      PROVE  TypeOK'
  BY <1>5 DEF TypeOK, DeleteSlot, Goto, Call
<1>6. ASSUME NEW w \in Worker, RemoveSlot(w)
      PROVE  TypeOK'
  BY <1>6 DEF TypeOK, RemoveSlot, Goto, Return
<1>7. ASSUME NEW w \in Worker, NEW s \in Slot, NEW st \in Student, CreateLesson(w, s, st)
      PROVE  TypeOK'
  BY <1>7, SlotTypes DEF TypeOK, CreateLesson, Goto, Call, SlotRow
<1>8. ASSUME NEW w \in Worker, ValidatePair(w)
      PROVE  TypeOK'
  <2>1. [workers[w] EXCEPT !.pc = "book_slot"] \in Call
    BY <1>8, CreateLessonCall DEF ValidatePair, Call
  <2> QED
    BY <1>8, <2>1 DEF TypeOK, ValidatePair, Goto
<1>9. ASSUME NEW w \in Worker, NEW l \in Lesson, BookSlot(w, l)
      PROVE  TypeOK'
  <2>1. workers[w] \in [pc : {"validate_pair", "book_slot"}, slot : Slot,
                        tutor : Tutor, student : Student, at : Interval]
    BY <1>9, CreateLessonCall DEF BookSlot
  <2>2. slots' \in [Slot -> SlotRow \cup {NoRow, Removed}]
    BY <1>9, <2>1, SlotTypes DEF TypeOK, BookSlot, CanBook, SlotRow
  <2>3. lessons' \in [Lesson -> LessonRow \cup {NoRow}]
    BY <1>9, <2>1 DEF TypeOK, BookSlot, LessonRow, Status
  <2>4. workers' \in [Worker -> Call \cup {Idle}]
    BY <1>9, <2>1 DEF TypeOK, BookSlot, Goto, Call, Event
  <2> QED
    BY <1>9, <2>2, <2>3, <2>4 DEF TypeOK, BookSlot
<1>10. ASSUME NEW w \in Worker, BookingRefused(w)
       PROVE  TypeOK'
  BY <1>10 DEF TypeOK, BookingRefused, Goto, Return
<1>11. ASSUME NEW w \in Worker, SendReminderEvent(w)
       PROVE  TypeOK'
  BY <1>11, SendEventCall DEF TypeOK, SendReminderEvent, Goto, Return
<1>12. ASSUME NEW w \in Worker, NEW l \in Lesson, NEW d \in SUBSET Detail,
              UpdateLesson(w, l, d)
       PROVE  TypeOK'
  <2>1. lessons[l] \in LessonRow
    BY <1>12, LessonTypes DEF UpdateLesson
  <2>2. [pc |-> "update_lesson", lesson |-> l,
         status |-> lessons[l].status, is_paid |-> lessons[l].is_paid,
         details |-> lessons[l].details \cup d] \in Call
    BY <2>1 DEF LessonRow, Call
  <2> QED
    BY <1>12, <2>2 DEF TypeOK, UpdateLesson, Goto
<1>13. ASSUME NEW w \in Worker, WriteLesson(w)
       PROVE  TypeOK'
  <2>1. workers[w] \in [pc : {"update_lesson"}, lesson : Lesson, status : Status,
                        is_paid : BOOLEAN, details : SUBSET Detail]
    BY <1>13, UpdateLessonCall DEF WriteLesson
  <2>2. lessons[workers[w].lesson] \in LessonRow
    BY <1>13, <2>1, LessonTypes DEF WriteLesson, StaleCancelIsHarmless
  <2>3. lessons' \in [Lesson -> LessonRow \cup {NoRow}]
    BY <1>13, <2>1, <2>2 DEF TypeOK, WriteLesson, LessonRow
  <2> QED
    BY <1>13, <2>3 DEF TypeOK, WriteLesson, Goto, Return
<1>14. ASSUME NEW l \in Lesson, CancelLesson(l)
       PROVE  TypeOK'
  <2>1. lessons[l] \in LessonRow
    BY <1>14, LessonTypes DEF CancelLesson
  <2>2. slots[lessons[l].slot] \in SlotRow
    BY <1>14, <2>1, SlotTypes DEF CancelLesson, LessonHasSlot, LessonRow
  <2>3. slots' \in [Slot -> SlotRow \cup {NoRow, Removed}]
    BY <1>14, <2>1, <2>2 DEF TypeOK, CancelLesson, SlotRow, LessonRow
  <2>4. lessons' \in [Lesson -> LessonRow \cup {NoRow}]
    BY <1>14, <2>1 DEF TypeOK, CancelLesson, LessonRow, Status
  <2> QED
    BY <1>14, <2>3, <2>4 DEF TypeOK, CancelLesson
<1>15. ASSUME NEW l \in Lesson, MarkAsPaid(l)
       PROVE  TypeOK'
  BY <1>15, LessonTypes DEF TypeOK, MarkAsPaid, LessonRow
<1>16. CASE UpdateCompletedLessons
  <2>1. \A l \in Lesson : Ended(l) =>
          [lessons[l] EXCEPT !.status = "completed"] \in LessonRow
    BY LessonTypes DEF Ended, LessonRow, Status
  <2> QED
    BY <1>16, <2>1 DEF TypeOK, UpdateCompletedLessons
<1>17. ASSUME NEW w \in Worker, Abandon(w)
       PROVE  TypeOK'
  BY <1>17 DEF TypeOK, Abandon, Goto, Return
<1>18. CASE Tick
  BY <1>18 DEF TypeOK, Tick, Time
<1>19. CASE UNCHANGED vars
  BY <1>19 DEF TypeOK, vars
<1> QED
  BY <1>1, <1>2, <1>3, <1>4, <1>5, <1>6, <1>7, <1>8, <1>9, <1>10, <1>11, <1>12,
     <1>13, <1>14, <1>15, <1>16, <1>17, <1>18, <1>19
     DEF Next, SlotStep, LessonStep

-----------------------------------------------------------------------------
(* How one step may change the two tables *)

\* An insertion or a change of interval never touches is_booked or a row
\* another handler sees as booked.
Inserted(s) == /\ slots[s] = NoRow
               /\ \E row \in SlotRow : /\ ~row.is_booked
                                       /\ slots' = [slots EXCEPT ![s] = row]

Moved(s) == /\ SlotExists(s)
            /\ \E i \in Interval : slots' = [slots EXCEPT ![s].at = i]

Deleted(s) == /\ Deletable(s)
              /\ slots' = [slots EXCEPT ![s] = Removed]

LEMMA TableSteps ==
  ASSUME Consistent, [Next]_vars
  PROVE  \/ UNCHANGED <<slots, lessons>>
         \/ /\ UNCHANGED lessons
            /\ \E s \in Slot : Inserted(s) \/ Moved(s) \/ Deleted(s)
         \/ \E w \in Worker, l \in Lesson : BookSlot(w, l)
         \/ \E w \in Worker : WriteLesson(w)
         \/ \E l \in Lesson : CancelLesson(l) \/ MarkAsPaid(l)
         \/ UpdateCompletedLessons
<1>1. ASSUME NEW w \in Worker, NEW s \in Slot, InsertSlot(w, s)
      PROVE  /\ UNCHANGED lessons
             /\ UNCHANGED slots \/ Inserted(s)
  <2> DEFINE row == [tutor |-> workers[w].tutor, at |-> workers[w].at,
                     is_booked |-> FALSE]
  <2>1. row \in SlotRow /\ ~row.is_booked
    BY <1>1, InsertSlotCall DEF Consistent, InsertSlot, SlotRow
  <2>2. slots' = [slots EXCEPT ![s] = row] \/ UNCHANGED slots
    BY <1>1 DEF InsertSlot
  <2> QED
    BY <1>1, <2>1, <2>2 DEF InsertSlot, Inserted
<1>2. ASSUME NEW w \in Worker, WriteSlot(w)
      PROVE  /\ UNCHANGED lessons
             /\ UNCHANGED slots \/ \E s \in Slot : Moved(s)
  <2>1. workers[w].slot \in Slot /\ workers[w].at \in Interval
    BY <1>2, UpdateSlotCall DEF Consistent, WriteSlot
  <2>2. UNCHANGED slots \/ Moved(workers[w].slot)
    BY <1>2, <2>1 DEF WriteSlot, Moved
  <2> QED
    BY <1>2, <2>1, <2>2 DEF WriteSlot
<1>3. ASSUME NEW w \in Worker, RemoveSlot(w)
      PROVE  /\ UNCHANGED lessons
             /\ UNCHANGED slots \/ \E s \in Slot : Deleted(s)
  <2>1. workers[w].slot \in Slot
    BY <1>3, DeleteSlotCall DEF Consistent, RemoveSlot
  <2>2. UNCHANGED slots \/ Deleted(workers[w].slot)
    BY <1>3 DEF RemoveSlot, Deleted
  <2> QED
    BY <1>3, <2>1, <2>2 DEF RemoveSlot
<1>4. ASSUME NEW w \in Worker,
             \/ \E t \in Tutor, i \in Range : CreateSlot(w, t, i)
             \/ \E s \in Slot, i \in Range : UpdateSlot(w, s, i)
             \/ \E s \in Slot : DeleteSlot(w, s)
             \/ \E s \in Slot, st \in Student : CreateLesson(w, s, st)
             \/ ValidatePair(w) \/ BookingRefused(w) \/ SendReminderEvent(w)
             \/ \E l \in Lesson, d \in SUBSET Detail : UpdateLesson(w, l, d)
             \/ Abandon(w)
      PROVE  UNCHANGED <<slots, lessons>>
  BY <1>4 DEF CreateSlot, UpdateSlot, DeleteSlot, CreateLesson, ValidatePair,
              BookingRefused, SendReminderEvent, UpdateLesson, Abandon
<1> QED
  BY <1>1, <1>2, <1>3, <1>4 DEF Next, SlotStep, LessonStep, Tick, vars

\* A lesson keeps its slot and student for good.
Keeps(l) == /\ LessonExists(l)'
            /\ lessons'[l].slot = lessons[l].slot
            /\ lessons'[l].student = lessons[l].student

LEMMA LessonsKept ==
  ASSUME Consistent, [Next]_vars, NEW l \in Lesson, LessonExists(l)
  PROVE  Keeps(l)
<1> USE ScheduleAssumption
<1>0. lessons[l] \in LessonRow
  BY LessonTypes DEF Consistent
<1>1. CASE UNCHANGED lessons
  BY <1>1 DEF Keeps, LessonExists
<1>2. ASSUME NEW w \in Worker, NEW m \in Lesson, BookSlot(w, m)
      PROVE  Keeps(l)
  <2>1. lessons'[l] = lessons[l]
    BY <1>2 DEF BookSlot, Consistent, TypeOK, LessonExists
  <2> QED
    BY <2>1 DEF Keeps, LessonExists
<1>3. ASSUME NEW w \in Worker, WriteLesson(w)
      PROVE  Keeps(l)
  <2>1. workers[w].lesson \in Lesson /\ workers[w].status \in Status
          /\ workers[w].is_paid \in BOOLEAN /\ workers[w].details \in SUBSET Detail
    BY <1>3, UpdateLessonCall DEF Consistent, WriteLesson
  <2> QED
    BY <1>0, <1>3, <2>1 DEF WriteLesson, Keeps, LessonExists, LessonRow, Consistent, TypeOK
<1>4. ASSUME NEW m \in Lesson, CancelLesson(m) \/ MarkAsPaid(m)
      PROVE  Keeps(l)
  <2>1. \/ lessons' = [lessons EXCEPT ![m].status = "cancelled"]
        \/ lessons' = [lessons EXCEPT ![m].is_paid = TRUE]
    BY <1>4 DEF CancelLesson, MarkAsPaid
  <2>2. lessons'[l] \in {lessons[l], [lessons[l] EXCEPT !.status = "cancelled"],
                         [lessons[l] EXCEPT !.is_paid = TRUE]}
    BY <2>1 DEF Consistent, TypeOK
  <2>3. lessons'[l] \in LessonRow
    BY <1>0, <2>2 DEF LessonRow, Status
  <2> QED
    BY <1>0, <2>2, <2>3 DEF Keeps, LessonExists, LessonRow
<1>5. CASE UpdateCompletedLessons
  BY <1>0, <1>5 DEF UpdateCompletedLessons, Keeps, LessonExists, LessonRow, Status
<1> QED
  BY <1>1, <1>2, <1>3, <1>4, <1>5, TableSteps

LEMMA LessonsAdded ==
  ASSUME Consistent, [Next]_vars, NEW l \in Lesson, ~LessonExists(l), LessonExists(l)'
  PROVE  \E w \in Worker : BookSlot(w, l)
<1> USE DEF Consistent, TypeOK, LessonExists
<1>1. CASE UNCHANGED lessons
  BY <1>1
<1>2. ASSUME NEW w \in Worker, NEW m \in Lesson, BookSlot(w, m)
      PROVE  BookSlot(w, l)
  BY <1>2 DEF BookSlot
<1>3. ASSUME NEW w \in Worker, WriteLesson(w)
      PROVE  FALSE
  <2>1. workers[w].lesson # l
    BY <1>3 DEF WriteLesson, StaleCancelIsHarmless
  <2> QED
    BY <1>3, <2>1 DEF WriteLesson
<1>4. ASSUME NEW m \in Lesson, CancelLesson(m) \/ MarkAsPaid(m)
      PROVE  FALSE
  BY <1>4 DEF CancelLesson, MarkAsPaid
<1>5. CASE UpdateCompletedLessons
  BY <1>5 DEF UpdateCompletedLessons, Ended
<1> QED
  BY <1>1, <1>2, <1>3, <1>4, <1>5, TableSteps

\* What a committed booking does, for the slot s it books.
Books(w, l, s) ==
  /\ s = workers[w].slot
  /\ slots[s] \in SlotRow /\ SlotExists(s) /\ ~slots[s].is_booked
  /\ LessonsOf(s) = {}
  /\ ~LessonExists(l) /\ LessonExists(l)'
  /\ lessons'[l] = [slot |-> s, student |-> workers[w].student, status |-> "booked",
                    is_paid |-> FALSE, details |-> {}]
  /\ \A m \in Lesson \ {l} : lessons'[m] = lessons[m]
  /\ slots' = [slots EXCEPT ![s].is_booked = TRUE]

LEMMA Booking ==
  ASSUME Consistent, NEW w \in Worker, NEW l \in Lesson, BookSlot(w, l)
  PROVE  \E s \in Slot : Books(w, l, s)
<1> DEFINE s == workers[w].slot
           row == [slot |-> s, student |-> workers[w].student, status |-> "booked",
                   is_paid |-> FALSE, details |-> {}]
<1>1. workers[w] \in [pc : {"validate_pair", "book_slot"}, slot : Slot,
                      tutor : Tutor, student : Student, at : Interval]
  BY CreateLessonCall DEF BookSlot, Consistent
<1>2. row \in LessonRow /\ s \in Slot
  BY <1>1 DEF LessonRow, Status
<1>3. /\ CanBook(s) /\ lessons[l] = NoRow
      /\ slots' = [slots EXCEPT ![s].is_booked = TRUE]
      /\ lessons' = [lessons EXCEPT ![l] = row]
  BY DEF BookSlot
<1>4. slots[s] \in SlotRow
  BY <1>2, <1>3, SlotTypes DEF CanBook, Consistent
<1> QED
  BY <1>2, <1>3, <1>4, ScheduleAssumption
     DEF Books, CanBook, LessonExists, Consistent, TypeOK

LEMMA SlotsKept ==
  ASSUME Consistent, [Next]_vars, NEW s \in Slot, SlotExists(s)
  PROVE  \/ Deleted(s) /\ UNCHANGED lessons
         \/ SlotExists(s)' /\ slots'[s].tutor = slots[s].tutor
<1> USE ScheduleAssumption
<1>0. slots[s] \in SlotRow
  BY SlotTypes DEF Consistent
<1>1. CASE UNCHANGED slots
  BY <1>1 DEF SlotExists
<1>2. ASSUME NEW r \in Slot, Inserted(r)
      PROVE  slots'[s] = slots[s]
  BY <1>2 DEF Inserted, SlotExists, Consistent, TypeOK
<1>3. ASSUME NEW r \in Slot, Moved(r)
      PROVE  slots'[s] \in SlotRow /\ slots'[s].tutor = slots[s].tutor
  BY <1>0, <1>3 DEF Moved, SlotRow, Consistent, TypeOK
<1>4. ASSUME NEW r \in Slot, Deleted(r)
      PROVE  Deleted(s) \/ slots'[s] = slots[s]
  BY <1>4 DEF Deleted, Consistent, TypeOK
<1>5. ASSUME NEW w \in Worker, NEW l \in Lesson, BookSlot(w, l)
      PROVE  slots'[s] \in SlotRow /\ slots'[s].tutor = slots[s].tutor
  <2>1. PICK r \in Slot : slots' = [slots EXCEPT ![r].is_booked = TRUE]
    BY <1>5, Booking DEF Books
  <2> QED
    BY <1>0, <2>1 DEF SlotRow, Consistent, TypeOK
<1>6. ASSUME NEW l \in Lesson, CancelLesson(l)
      PROVE  slots'[s] \in SlotRow /\ slots'[s].tutor = slots[s].tutor
  BY <1>0, <1>6 DEF CancelLesson, SlotRow, Consistent, TypeOK
<1> QED
  BY <1>1, <1>2, <1>3, <1>4, <1>5, <1>6, TableSteps
     DEF SlotExists, WriteLesson, MarkAsPaid, UpdateCompletedLessons

-----------------------------------------------------------------------------
(* Each conjunct is kept *)

LEMMA OneLessonKept ==
  ASSUME Consistent, [Next]_vars
  PROVE  OneLessonPerSlot'
<1>1. ASSUME NEW a \in Lesson, NEW b \in Lesson, a # b,
             ~LessonExists(a), LessonExists(a)', LessonExists(b)'
      PROVE  lessons'[a].slot # lessons'[b].slot
  <2>1. PICK w \in Worker, s \in Slot : Books(w, a, s)
    BY <1>1, LessonsAdded, Booking
  <2>2. lessons'[a].slot = s /\ lessons'[b] = lessons[b]
    BY <1>1, <2>1 DEF Books
  <2>3. b \notin LessonsOf(s) /\ LessonExists(b)
    BY <1>1, <2>1, <2>2 DEF Books, LessonExists
  <2> QED
    BY <2>2, <2>3 DEF LessonsOf
<1>2. ASSUME NEW l \in Lesson, NEW m \in Lesson, LessonExists(l)', LessonExists(m)',
             lessons'[l].slot = lessons'[m].slot
      PROVE  l = m
  <2>1. CASE LessonExists(l) /\ LessonExists(m)
    BY <1>2, <2>1, LessonsKept DEF Keeps, Consistent, OneLessonPerSlot
  <2> QED
    BY <1>1, <1>2, <2>1
<1> QED
  BY <1>2 DEF OneLessonPerSlot

LEMMA HasSlotKept ==
  ASSUME Consistent, [Next]_vars
  PROVE  LessonHasSlot'
<1> SUFFICES ASSUME NEW l \in Lesson, LessonExists(l)'
             PROVE  SlotExists(lessons[l].slot)'
  BY DEF LessonHasSlot
<1>1. CASE LessonExists(l)
  <2> DEFINE s == lessons[l].slot
  <2>1. s \in Slot /\ SlotExists(s) /\ lessons'[l].slot = s
    BY <1>1, LessonTypes, LessonsKept DEF Keeps, Consistent, LessonHasSlot, LessonRow
  <2>2. ~Deleted(s)
    BY <1>1 DEF Deleted, Deletable, LessonsOf
  <2>3. slots'[s] \notin {NoRow, Removed}
    BY <2>1, <2>2, SlotsKept DEF SlotExists
  <2> QED
    BY <2>1, <2>3 DEF SlotExists
<1>2. CASE ~LessonExists(l)
  <2>1. PICK w \in Worker, s \in Slot : Books(w, l, s)
    BY <1>2, LessonsAdded, Booking
  <2>2. SlotExists(s) /\ lessons'[l].slot = s /\ lessons' # lessons
    BY <2>1 DEF Books, LessonExists
  <2>3. slots'[s] \notin {NoRow, Removed}
    BY <2>2, SlotsKept DEF SlotExists
  <2> QED
    BY <2>2, <2>3 DEF SlotExists
<1> QED
  BY <1>1, <1>2

LEMMA BookedKept ==
  ASSUME Consistent, [Next]_vars
  PROVE  BookedSlotHasLiveLesson'
<1> USE ScheduleAssumption
<1> SUFFICES ASSUME NEW s \in Slot, IsBooked(s)'
             PROVE  \E l \in Lesson : /\ LessonExists(l)'
                                     /\ lessons'[l].slot = s
                                     /\ lessons'[l].status # "cancelled"
  BY DEF BookedSlotHasLiveLesson, LessonsOf, LessonExists
<1>0. ASSUME IsBooked(s)
      PROVE  \E l \in Lesson : /\ lessons[l] \in LessonRow
                              /\ LessonExists(l)
                              /\ lessons[l].slot = s
                              /\ lessons[l].status # "cancelled"
  BY <1>0, LessonTypes DEF Consistent, BookedSlotHasLiveLesson, LessonsOf
<1>1. CASE UNCHANGED <<slots, lessons>>
  BY <1>0, <1>1 DEF IsBooked, SlotExists, LessonExists
<1>2. CASE UNCHANGED lessons /\ \E r \in Slot : Inserted(r) \/ Moved(r) \/ Deleted(r)
  <2>1. ASSUME NEW r \in Slot, Inserted(r)
        PROVE  IsBooked(s)
    BY <2>1 DEF Inserted, IsBooked, SlotExists, SlotRow, Consistent, TypeOK
  <2>2. ASSUME NEW r \in Slot, Moved(r)
        PROVE  IsBooked(s)
    <3>1. slots[r] \in SlotRow
      BY <2>2, SlotTypes DEF Moved, Consistent
    <3> QED
      BY <2>2, <3>1 DEF Moved, IsBooked, SlotExists, SlotRow, Consistent, TypeOK
  <2>3. ASSUME NEW r \in Slot, Deleted(r)
        PROVE  IsBooked(s)
    BY <2>3 DEF Deleted, IsBooked, SlotExists, Consistent, TypeOK
  <2> QED
    BY <1>0, <1>2, <2>1, <2>2, <2>3 DEF LessonExists
<1>3. ASSUME NEW w \in Worker, NEW l \in Lesson, BookSlot(w, l)
      PROVE  \E m \in Lesson : /\ LessonExists(m)'
                              /\ lessons'[m].slot = s
                              /\ lessons'[m].status # "cancelled"
  <2>1. PICK r \in Slot : Books(w, l, r)
    BY <1>3, Booking
  <2>2. CASE r = s
    BY <2>1, <2>2 DEF Books
  <2>3. CASE r # s
    <3>1. IsBooked(s)
      BY <2>1, <2>3 DEF Books, IsBooked, SlotExists, Consistent, TypeOK
    <3>2. PICK m \in Lesson : /\ LessonExists(m)
                              /\ lessons[m].slot = s
                              /\ lessons[m].status # "cancelled"
      BY <1>0, <3>1
    <3>3. lessons'[m] = lessons[m]
      BY <2>1, <3>2 DEF Books
    <3> QED
      BY <3>2, <3>3 DEF LessonExists
  <2> QED
    BY <2>2, <2>3
<1>4. ASSUME NEW w \in Worker, WriteLesson(w)
      PROVE  \E m \in Lesson : /\ LessonExists(m)'
                              /\ lessons'[m].slot = s
                              /\ lessons'[m].status # "cancelled"
  <2> DEFINE c == workers[w]
  <2>1. IsBooked(s)
    BY <1>4 DEF WriteLesson, IsBooked, SlotExists
  <2>2. PICK m \in Lesson : /\ LessonExists(m)
                            /\ lessons[m] \in LessonRow
                            /\ lessons[m].slot = s
                            /\ lessons[m].status # "cancelled"
    BY <1>0, <2>1
  <2>3. Keeps(m)
    BY <2>2, LessonsKept
  <2>4. c.lesson \in Lesson /\ c.status \in Status
    BY <1>4, UpdateLessonCall DEF WriteLesson, Consistent
  <2>5. c.lesson = m => c.status # "cancelled"
    BY <1>4, <2>1, <2>2 DEF WriteLesson, Consistent, StaleCancelIsHarmless
  <2>6. lessons'[m].status = IF c.lesson = m THEN c.status ELSE lessons[m].status
    BY <1>4, <2>2, <2>4 DEF WriteLesson, LessonRow, Consistent, TypeOK
  <2> QED
    BY <2>2, <2>3, <2>5, <2>6 DEF Keeps
<1>5. ASSUME NEW l \in Lesson, CancelLesson(l)
      PROVE  \E m \in Lesson : /\ LessonExists(m)'
                              /\ lessons'[m].slot = s
                              /\ lessons'[m].status # "cancelled"
  <2>1. lessons[l].slot \in Slot /\ slots[lessons[l].slot] \in SlotRow
    BY <1>5, LessonTypes, SlotTypes DEF CancelLesson, Consistent, LessonHasSlot, LessonRow
  <2>2. lessons[l].slot # s /\ IsBooked(s)
    BY <1>5, <2>1 DEF CancelLesson, IsBooked, SlotExists, SlotRow, Consistent, TypeOK
  <2>3. PICK m \in Lesson : /\ LessonExists(m)
                            /\ lessons[m].slot = s
                            /\ lessons[m].status # "cancelled"
    BY <1>0, <2>2
  <2>4. lessons'[m] = lessons[m]
    BY <1>5, <2>2, <2>3 DEF CancelLesson, Consistent, TypeOK
  <2> QED
    BY <2>3, <2>4 DEF LessonExists
<1>6. ASSUME NEW l \in Lesson, MarkAsPaid(l)
      PROVE  \E m \in Lesson : /\ LessonExists(m)'
                              /\ lessons'[m].slot = s
                              /\ lessons'[m].status # "cancelled"
  <2>1. PICK m \in Lesson : /\ LessonExists(m)
                            /\ lessons[m] \in LessonRow
                            /\ lessons[m].slot = s
                            /\ lessons[m].status # "cancelled"
    BY <1>0, <1>6 DEF MarkAsPaid, IsBooked, SlotExists
  <2>2. lessons'[m].status = lessons[m].status
    BY <1>6, <2>1 DEF MarkAsPaid, LessonRow, Consistent, TypeOK
  <2> QED
    BY <2>1, <2>2, LessonsKept DEF Keeps
<1>7. CASE UpdateCompletedLessons
  <2>1. PICK m \in Lesson : /\ LessonExists(m)
                            /\ lessons[m] \in LessonRow
                            /\ lessons[m].slot = s
                            /\ lessons[m].status # "cancelled"
    BY <1>0, <1>7 DEF UpdateCompletedLessons, IsBooked, SlotExists
  <2>2. lessons'[m].status # "cancelled"
    BY <1>7, <2>1 DEF UpdateCompletedLessons, LessonRow
  <2> QED
    BY <2>1, <2>2, LessonsKept DEF Keeps
<1> QED
  BY <1>1, <1>2, <1>3, <1>4, <1>5, <1>6, <1>7, TableSteps

\* Only the transaction of a booking sets is_booked.
LEMMA BookedByBooking ==
  ASSUME Consistent, [Next]_vars, NEW s \in Slot, ~IsBooked(s), IsBooked(s)'
  PROVE  \E w \in Worker, l \in Lesson : Books(w, l, s)
<1> USE ScheduleAssumption DEF IsBooked, SlotExists
<1>1. CASE UNCHANGED slots
  BY <1>1
<1>2. ASSUME NEW r \in Slot, Inserted(r)
      PROVE  FALSE
  BY <1>2 DEF Inserted, SlotRow, Consistent, TypeOK
<1>3. ASSUME NEW r \in Slot, Moved(r)
      PROVE  FALSE
  <2>1. slots[r] \in SlotRow
    BY <1>3, SlotTypes DEF Moved, Consistent
  <2> QED
    BY <1>3, <2>1 DEF Moved, SlotRow, Consistent, TypeOK
<1>4. ASSUME NEW r \in Slot, Deleted(r)
      PROVE  FALSE
  BY <1>4 DEF Deleted, Consistent, TypeOK
<1>5. ASSUME NEW w \in Worker, NEW l \in Lesson, BookSlot(w, l)
      PROVE  Books(w, l, s)
  <2>1. PICK r \in Slot : Books(w, l, r)
    BY <1>5, Booking
  <2>2. r = s
    BY <2>1 DEF Books, Consistent, TypeOK
  <2> QED
    BY <2>1, <2>2
<1>6. ASSUME NEW l \in Lesson, CancelLesson(l)
      PROVE  FALSE
  <2>1. lessons[l].slot \in Slot /\ slots[lessons[l].slot] \in SlotRow
    BY <1>6, LessonTypes, SlotTypes DEF CancelLesson, Consistent, LessonHasSlot, LessonRow
  <2> QED
    BY <1>6, <2>1 DEF CancelLesson, SlotRow, Consistent, TypeOK
<1> QED
  BY <1>1, <1>2, <1>3, <1>4, <1>5, <1>6, TableSteps
     DEF WriteLesson, MarkAsPaid, UpdateCompletedLessons

\* Which step brings a request to the pc the invariant speaks of.
LEMMA ReachesUpdateLesson ==
  ASSUME Consistent, [Next]_vars, NEW w \in Worker, At(w, "update_lesson")'
  PROVE  \/ At(w, "update_lesson") /\ workers'[w] = workers[w]
         \/ \E l \in Lesson, d \in SUBSET Detail : UpdateLesson(w, l, d)
<1> USE DEF Consistent, TypeOK, At, Goto, Return
<1>1. ASSUME NEW v \in Worker, SlotStep(v)
      PROVE  At(w, "update_lesson") /\ workers'[w] = workers[w]
  BY <1>1 DEF SlotStep, CreateSlot, InsertSlot, UpdateSlot, WriteSlot, DeleteSlot, RemoveSlot
<1>2. ASSUME NEW v \in Worker, NEW l \in Lesson, NEW d \in SUBSET Detail,
             UpdateLesson(v, l, d), v # w
      PROVE  At(w, "update_lesson") /\ workers'[w] = workers[w]
  BY <1>2 DEF UpdateLesson
<1>3. ASSUME NEW v \in Worker,
             \/ \E s \in Slot, st \in Student : CreateLesson(v, s, st)
             \/ \E l \in Lesson : BookSlot(v, l)
             \/ BookingRefused(v) \/ SendReminderEvent(v) \/ WriteLesson(v)
             \/ Abandon(v)
      PROVE  At(w, "update_lesson") /\ workers'[w] = workers[w]
  BY <1>3 DEF CreateLesson, BookSlot, BookingRefused, SendReminderEvent, WriteLesson, Abandon
<1>4. ASSUME NEW v \in Worker, ValidatePair(v)
      PROVE  At(w, "update_lesson") /\ workers'[w] = workers[w]
  <2>1. workers[v] \in [pc : {"validate_pair", "book_slot"}, slot : Slot,
                        tutor : Tutor, student : Student, at : Interval]
    BY <1>4, CreateLessonCall DEF ValidatePair
  <2>2. workers' = [workers EXCEPT ![v] = [workers[v] EXCEPT !.pc = "book_slot"]]
    BY <1>4 DEF ValidatePair
  <2> QED
    BY <2>1, <2>2
<1>5. ASSUME UNCHANGED workers
      PROVE  At(w, "update_lesson") /\ workers'[w] = workers[w]
  BY <1>5
<1> QED
  BY <1>1, <1>2, <1>3, <1>4, <1>5
     DEF Next, LessonStep, CancelLesson, MarkAsPaid, UpdateCompletedLessons, Tick, vars

LEMMA StaleKept ==
  ASSUME Consistent, [Next]_vars
  PROVE  StaleCancelIsHarmless'
<1> SUFFICES ASSUME NEW w \in Worker, At(w, "update_lesson")'
             PROVE  /\ LessonExists(workers[w].lesson)'
                    /\ workers'[w].status = "cancelled"
                         => ~IsBooked(lessons[workers[w].lesson].slot)'
  BY DEF StaleCancelIsHarmless
<1>1. CASE At(w, "update_lesson") /\ workers'[w] = workers[w]
  <2>1. PICK l \in Lesson : l = workers[w].lesson
    BY <1>1, UpdateLessonCall DEF Consistent
  <2>2. LessonExists(l) /\ lessons[l] \in LessonRow
    BY <1>1, <2>1, LessonTypes DEF Consistent, StaleCancelIsHarmless
  <2>3. PICK s \in Slot : s = lessons[l].slot
    BY <2>2 DEF LessonRow
  <2>4. LessonExists(l)' /\ lessons'[l].slot = s
    BY <2>2, <2>3, LessonsKept DEF Keeps
  <2>5. ASSUME ~IsBooked(s)
        PROVE  ~IsBooked(s)'
    <3>1. l \in LessonsOf(s)
      BY <2>2, <2>3 DEF LessonsOf
    <3>2. ~(\E v \in Worker, m \in Lesson : Books(v, m, s))
      BY <3>1 DEF Books
    <3> QED
      BY <2>5, <3>2, BookedByBooking
  <2>6. workers[w].status = "cancelled" => ~IsBooked(s)
    BY <1>1, <2>1, <2>3 DEF Consistent, StaleCancelIsHarmless
  <2> QED
    BY <1>1, <2>1, <2>4, <2>5, <2>6 DEF LessonExists, IsBooked, SlotExists
<1>2. ASSUME NEW l \in Lesson, NEW d \in SUBSET Detail, UpdateLesson(w, l, d)
      PROVE  /\ LessonExists(workers[w].lesson)'
             /\ workers'[w].status = "cancelled"
                  => ~IsBooked(lessons[workers[w].lesson].slot)'
  <2>1. /\ workers'[w].lesson = l /\ workers'[w].status = lessons[l].status
        /\ UNCHANGED <<slots, lessons>>
        /\ LessonExists(l) /\ lessons[l] \in LessonRow
    BY <1>2, LessonTypes DEF UpdateLesson, Goto, Consistent, TypeOK
  <2>2. ASSUME lessons[l].status = "cancelled"
        PROVE  ~IsBooked(lessons[l].slot)
    <3>1. \A m \in LessonsOf(lessons[l].slot) : m = l
      BY <2>1 DEF LessonsOf, Consistent, OneLessonPerSlot
    <3> QED
      BY <2>1, <2>2, <3>1 DEF Consistent, BookedSlotHasLiveLesson, LessonRow
  <2> QED
    BY <2>1, <2>2 DEF LessonExists, IsBooked, SlotExists
<1> QED
  BY <1>1, <1>2, ReachesUpdateLesson

LEMMA DescribesKept ==
  ASSUME Consistent, [Next]_vars, NEW e \in Event, Describes(e)
  PROVE  Describes(e)'
<1>1. e.lesson \in Lesson /\ e.slot \in Slot
  BY DEF Event
<1>2. Keeps(e.lesson)
  BY <1>1, LessonsKept DEF Describes
<1>3. ~Deleted(e.slot)
  BY <1>1 DEF Describes, Deleted, Deletable, LessonsOf
<1>4. SlotExists(e.slot)' /\ slots'[e.slot].tutor = slots[e.slot].tutor
  BY <1>1, <1>3, SlotsKept DEF Describes
<1> QED
  BY <1>2, <1>4 DEF Describes, Keeps

LEMMA KnowsTutorKept ==
  ASSUME Consistent, [Next]_vars, NEW c, c.slot \in Slot, KnowsTutor(c)
  PROVE  KnowsTutor(c)'
<1> USE ScheduleAssumption
<1>1. PICK s \in Slot : s = c.slot
  OBVIOUS
<1>2. CASE slots[s] = Removed
  <2>1. ASSUME NEW r \in Slot, Inserted(r) \/ Moved(r) \/ Deleted(r)
        PROVE  slots'[s] = Removed
    BY <1>2, <2>1 DEF Inserted, Moved, Deleted, Deletable, SlotExists, Consistent, TypeOK
  <2>2. ASSUME NEW w \in Worker, NEW l \in Lesson, BookSlot(w, l)
        PROVE  slots'[s] = Removed
    BY <1>2, <2>2, Booking DEF Books, SlotExists, Consistent, TypeOK
  <2>3. ASSUME NEW l \in Lesson, CancelLesson(l)
        PROVE  slots'[s] = Removed
    BY <1>2, <2>3 DEF CancelLesson, SlotExists, Consistent, TypeOK, LessonHasSlot
  <2>4. UNCHANGED slots \/ slots'[s] = Removed
    BY <2>1, <2>2, <2>3, TableSteps DEF WriteLesson, MarkAsPaid, UpdateCompletedLessons
  <2> QED
    BY <1>1, <1>2, <2>4 DEF KnowsTutor
<1>3. CASE SlotExists(s) /\ slots[s].tutor = c.tutor
  <2>1. \/ slots'[s] = Removed
        \/ SlotExists(s)' /\ slots'[s].tutor = slots[s].tutor
    BY <1>3, SlotsKept DEF Deleted, Consistent, TypeOK
  <2> QED
    BY <1>1, <1>3, <2>1 DEF KnowsTutor
<1> QED
  BY <1>1, <1>2, <1>3 DEF KnowsTutor

LEMMA ReachesSendEvent ==
  ASSUME Consistent, [Next]_vars, NEW w \in Worker, At(w, "send_event")'
  PROVE  \/ At(w, "send_event") /\ workers'[w] = workers[w]
         \/ \E l \in Lesson : BookSlot(w, l)
<1> USE DEF Consistent, TypeOK, At, Goto, Return
<1>1. ASSUME NEW v \in Worker, SlotStep(v)
      PROVE  At(w, "send_event") /\ workers'[w] = workers[w]
  BY <1>1 DEF SlotStep, CreateSlot, InsertSlot, UpdateSlot, WriteSlot, DeleteSlot, RemoveSlot
<1>2. ASSUME NEW v \in Worker, NEW l \in Lesson, BookSlot(v, l), v # w
      PROVE  At(w, "send_event") /\ workers'[w] = workers[w]
  BY <1>2 DEF BookSlot
<1>3. ASSUME NEW v \in Worker,
             \/ \E s \in Slot, st \in Student : CreateLesson(v, s, st)
             \/ \E l \in Lesson, d \in SUBSET Detail : UpdateLesson(v, l, d)
             \/ BookingRefused(v) \/ SendReminderEvent(v) \/ WriteLesson(v)
             \/ Abandon(v)
      PROVE  At(w, "send_event") /\ workers'[w] = workers[w]
  BY <1>3 DEF CreateLesson, UpdateLesson, BookingRefused, SendReminderEvent, WriteLesson,
              Abandon
<1>4. ASSUME NEW v \in Worker, ValidatePair(v)
      PROVE  At(w, "send_event") /\ workers'[w] = workers[w]
  <2>1. workers[v] \in [pc : {"validate_pair", "book_slot"}, slot : Slot,
                        tutor : Tutor, student : Student, at : Interval]
    BY <1>4, CreateLessonCall DEF ValidatePair
  <2>2. workers' = [workers EXCEPT ![v] = [workers[v] EXCEPT !.pc = "book_slot"]]
    BY <1>4 DEF ValidatePair
  <2> QED
    BY <2>1, <2>2
<1>5. ASSUME UNCHANGED workers
      PROVE  At(w, "send_event") /\ workers'[w] = workers[w]
  BY <1>5
<1> QED
  BY <1>1, <1>2, <1>3, <1>4, <1>5
     DEF Next, LessonStep, CancelLesson, MarkAsPaid, UpdateCompletedLessons, Tick, vars

LEMMA ReachesBooking ==
  ASSUME Consistent, [Next]_vars, NEW w \in Worker,
         At(w, "validate_pair")' \/ At(w, "book_slot")'
  PROVE  \/ /\ At(w, "validate_pair") \/ At(w, "book_slot")
            /\ workers'[w].slot = workers[w].slot
            /\ workers'[w].tutor = workers[w].tutor
         \/ \E s \in Slot, st \in Student : CreateLesson(w, s, st)
<1> DEFINE Stays == /\ At(w, "validate_pair") \/ At(w, "book_slot")
                    /\ workers'[w].slot = workers[w].slot
                    /\ workers'[w].tutor = workers[w].tutor
<1> USE DEF Consistent, TypeOK, At, Goto, Return
<1>1. ASSUME NEW v \in Worker, SlotStep(v)
      PROVE  Stays
  BY <1>1 DEF SlotStep, CreateSlot, InsertSlot, UpdateSlot, WriteSlot, DeleteSlot, RemoveSlot
<1>2. ASSUME NEW v \in Worker, NEW s \in Slot, NEW st \in Student,
             CreateLesson(v, s, st), v # w
      PROVE  Stays
  BY <1>2 DEF CreateLesson
<1>3. ASSUME NEW v \in Worker,
             \/ \E l \in Lesson : BookSlot(v, l)
             \/ \E l \in Lesson, d \in SUBSET Detail : UpdateLesson(v, l, d)
             \/ BookingRefused(v) \/ SendReminderEvent(v) \/ WriteLesson(v)
             \/ Abandon(v)
      PROVE  Stays
  BY <1>3 DEF BookSlot, UpdateLesson, BookingRefused, SendReminderEvent, WriteLesson, Abandon
<1>4. ASSUME NEW v \in Worker, ValidatePair(v)
      PROVE  Stays
  <2>1. workers[v] \in [pc : {"validate_pair", "book_slot"}, slot : Slot,
                        tutor : Tutor, student : Student, at : Interval]
    BY <1>4, CreateLessonCall DEF ValidatePair
  <2>2. workers' = [workers EXCEPT ![v] = [workers[v] EXCEPT !.pc = "book_slot"]]
    BY <1>4 DEF ValidatePair
  <2>3. CASE v = w
    BY <1>4, <2>1, <2>2, <2>3 DEF ValidatePair
  <2>4. CASE v # w
    BY <2>2, <2>4
  <2> QED
    BY <2>3, <2>4
<1>5. ASSUME UNCHANGED workers
      PROVE  Stays
  BY <1>5
<1> QED
  BY <1>1, <1>2, <1>3, <1>4, <1>5
     DEF Next, LessonStep, CancelLesson, MarkAsPaid, UpdateCompletedLessons, Tick, vars

LEMMA EventsKept ==
  ASSUME Consistent, [Next]_vars
  PROVE  EventsDescribeLessons'
<1>1. ASSUME NEW e \in events'
      PROVE  Describes(e)'
  <2>1. e \in events \/ \E w \in Worker : At(w, "send_event") /\ e = workers[w].event
    BY <1>1 DEF Next, SlotStep, LessonStep, CreateSlot, InsertSlot, UpdateSlot, WriteSlot,
       DeleteSlot, RemoveSlot, CreateLesson, ValidatePair, BookSlot, BookingRefused,
       SendReminderEvent, UpdateLesson, WriteLesson, CancelLesson, MarkAsPaid,
       UpdateCompletedLessons, Abandon, Tick, vars
  <2>2. e \in Event /\ Describes(e)
    BY <2>1, SendEventCall DEF Consistent, TypeOK, EventsDescribeLessons
  <2> QED
    BY <2>2, DescribesKept
<1>2. ASSUME NEW w \in Worker, At(w, "send_event")'
      PROVE  Describes(workers[w].event)'
  <2>1. CASE At(w, "send_event") /\ workers'[w] = workers[w]
    <3>1. PICK e \in Event : e = workers[w].event
      BY <2>1, SendEventCall DEF Consistent
    <3>2. Describes(e)'
      BY <2>1, <3>1, DescribesKept DEF Consistent, EventsDescribeLessons
    <3> QED
      BY <2>1, <3>1, <3>2
  <2>2. ASSUME NEW l \in Lesson, BookSlot(w, l)
        PROVE  Describes(workers[w].event)'
    <3>1. PICK s \in Slot : Books(w, l, s)
      BY <2>2, Booking
    <3>2. workers'[w].event = [lesson |-> l, slot |-> s, tutor |-> workers[w].tutor,
                               student |-> workers[w].student, at |-> workers[w].at]
      BY <2>2, <3>1 DEF BookSlot, Books, Goto, Consistent, TypeOK
    <3>3. slots[s].tutor = workers[w].tutor
      BY <2>2, <3>1, ScheduleAssumption
         DEF BookSlot, Books, Consistent, EventsDescribeLessons, KnowsTutor, SlotExists
    <3>4. SlotExists(s)' /\ slots'[s].tutor = slots[s].tutor
      BY <2>2, <3>1, SlotsKept DEF Books, LessonExists
    <3> QED
      BY <3>1, <3>2, <3>3, <3>4 DEF Describes, Books, LessonExists, SlotExists
  <2> QED
    BY <1>2, <2>1, <2>2, ReachesSendEvent
<1>3. ASSUME NEW w \in Worker, At(w, "validate_pair")' \/ At(w, "book_slot")'
      PROVE  KnowsTutor(workers[w])'
  <2>1. CASE /\ At(w, "validate_pair") \/ At(w, "book_slot")
             /\ workers'[w].slot = workers[w].slot
             /\ workers'[w].tutor = workers[w].tutor
    <3>1. PICK c : c = workers[w]
      OBVIOUS
    <3>2. c.slot \in Slot /\ KnowsTutor(c)
      BY <2>1, <3>1, CreateLessonCall DEF Consistent, EventsDescribeLessons
    <3>3. KnowsTutor(c)'
      BY <3>2, KnowsTutorKept
    <3> QED
      BY <2>1, <3>1, <3>3 DEF KnowsTutor, SlotExists
  <2>2. ASSUME NEW s \in Slot, NEW st \in Student, CreateLesson(w, s, st)
        PROVE  KnowsTutor(workers[w])'
    BY <2>2 DEF CreateLesson, Goto, KnowsTutor, SlotExists, Consistent, TypeOK
  <2> QED
    BY <1>3, <2>1, <2>2, ReachesBooking
<1> QED
  BY <1>1, <1>2, <1>3 DEF EventsDescribeLessons

-----------------------------------------------------------------------------
(* The invariants *)

LEMMA InitConsistent == Init => Consistent
<1> SUFFICES ASSUME Init PROVE Consistent
  OBVIOUS
<1>1. TypeOK
  BY InitTyped
<1>2. OneLessonPerSlot /\ LessonHasSlot
  BY DEF Init, OneLessonPerSlot, LessonHasSlot, LessonExists
<1>3. BookedSlotHasLiveLesson
  BY DEF Init, BookedSlotHasLiveLesson, IsBooked, SlotExists
<1>4. StaleCancelIsHarmless /\ EventsDescribeLessons
  BY DEF Init, StaleCancelIsHarmless, EventsDescribeLessons, At
<1> QED
  BY <1>1, <1>2, <1>3, <1>4 DEF Consistent

LEMMA ConsistentStep == Consistent /\ [Next]_vars => Consistent'
BY StepTyped, OneLessonKept, HasSlotKept, BookedKept, StaleKept, EventsKept DEF Consistent

\* The inductive invariant: what the database guarantees of the two tables,
\* together with what every request in flight still knows to be true.
THEOREM ConsistentAlways == Spec => []Consistent
BY InitConsistent, ConsistentStep, PTL DEF Spec

\* No handler, in any interleaving, stores or holds a value out of its type.
THEOREM TypeCorrect == Spec => []TypeOK
BY ConsistentAlways, PTL DEF Consistent

\* Concurrent CreateLesson calls, and bookings after a cancellation, leave at
\* most one lesson per slot.
THEOREM NoDoubleBooking == Spec => []OneLessonPerSlot
BY ConsistentAlways, PTL DEF Consistent

\* DeleteSlot never takes the slot from under a lesson.
THEOREM NoOrphanLesson == Spec => []LessonHasSlot
BY ConsistentAlways, PTL DEF Consistent

\* A slot marked as booked is held by a lesson that is not cancelled.
THEOREM NoBlockedSlot == Spec => []BookedSlotHasLiveLesson
BY ConsistentAlways, PTL DEF Consistent

\* A stored cancellation that a slow edit writes back blocks no slot.
THEOREM StaleEditsBlockNothing == Spec => []StaleCancelIsHarmless
BY ConsistentAlways, PTL DEF Consistent

\* Reminder events speak of committed lessons and of nothing else.
THEOREM RemindersAreTrue == Spec => []EventsDescribeLessons
BY ConsistentAlways, PTL DEF Consistent

-----------------------------------------------------------------------------
(* Refinement: every step moves one slot along SlotLifecycle, or none. *)

LEMMA Phases ==
  ASSUME NEW s \in Slot
  PROVE  /\ slots[s] = NoRow => SlotPhase(s) = "unborn"
         /\ slots[s] = Removed => SlotPhase(s) = "removed"
         /\ SlotExists(s) /\ LessonsOf(s) = {} => SlotPhase(s) = "free"
         /\ IsBooked(s) /\ LessonsOf(s) # {} => SlotPhase(s) = "taken"
         /\ SlotExists(s) /\ ~IsBooked(s) /\ LessonsOf(s) # {}
              => SlotPhase(s) = "released"
BY ScheduleAssumption DEF SlotPhase, SlotExists, IsBooked

LEMMA PhasesNext ==
  ASSUME NEW s \in Slot
  PROVE  /\ slots'[s] = NoRow => SlotPhase(s)' = "unborn"
         /\ slots'[s] = Removed => SlotPhase(s)' = "removed"
         /\ SlotExists(s)' /\ LessonsOf(s)' = {} => SlotPhase(s)' = "free"
         /\ IsBooked(s)' /\ LessonsOf(s)' # {} => SlotPhase(s)' = "taken"
         /\ SlotExists(s)' /\ ~IsBooked(s)' /\ LessonsOf(s)' # {}
              => SlotPhase(s)' = "released"
BY ScheduleAssumption DEF SlotPhase, SlotExists, IsBooked

LEMMA LessonsOfKept ==
  ASSUME Consistent, [Next]_vars, NEW s \in Slot,
         ~(\E w \in Worker, l \in Lesson : Books(w, l, s))
  PROVE  LessonsOf(s)' = LessonsOf(s)
<1>1. ASSUME NEW l \in Lesson, LessonExists(l)', lessons'[l].slot = s, ~LessonExists(l)
      PROVE  FALSE
  <2>1. PICK w \in Worker, r \in Slot : Books(w, l, r)
    BY <1>1, LessonsAdded, Booking
  <2>2. r = s
    BY <1>1, <2>1 DEF Books, Consistent, TypeOK
  <2> QED
    BY <2>1, <2>2
<1> QED
  BY <1>1, LessonsKept DEF Keeps, LessonsOf

LEMMA PhaseKept ==
  ASSUME NEW s \in Slot, LessonsOf(s)' = LessonsOf(s),
         \/ slots'[s] = slots[s]
         \/ /\ SlotExists(s) /\ SlotExists(s)'
            /\ slots'[s].is_booked = slots[s].is_booked \/ LessonsOf(s) = {}
  PROVE  SlotPhase(s)' = SlotPhase(s)
BY ScheduleAssumption DEF SlotPhase, SlotExists

PhaseMove(s, from, to) == /\ SlotPhase(s) = from /\ SlotPhase(s)' = to
                          /\ \A r \in Slot \ {s} : SlotPhase(r)' = SlotPhase(r)

LEMMA PhaseSteps ==
  ASSUME Consistent, [Next]_vars
  PROVE  \/ \A s \in Slot : SlotPhase(s)' = SlotPhase(s)
         \/ \E s \in Slot : \/ PhaseMove(s, "unborn", "free")
                           \/ PhaseMove(s, "free", "taken")
                           \/ PhaseMove(s, "taken", "released")
                           \/ PhaseMove(s, "free", "removed")
<1> USE ScheduleAssumption
<1>1. CASE UNCHANGED <<slots, lessons>>
  BY <1>1 DEF SlotPhase, SlotExists, LessonsOf, LessonExists
<1>2. ASSUME UNCHANGED lessons, NEW s \in Slot, Inserted(s)
      PROVE  PhaseMove(s, "unborn", "free")
  <2>1. \A r \in Slot : LessonsOf(r)' = LessonsOf(r)
    BY <1>2 DEF LessonsOf, LessonExists
  <2>2. LessonsOf(s) = {}
    BY <1>2 DEF Inserted, LessonsOf, SlotExists, Consistent, LessonHasSlot
  <2>3. /\ slots[s] = NoRow /\ SlotExists(s)'
        /\ \A r \in Slot \ {s} : slots'[r] = slots[r]
    BY <1>2 DEF Inserted, SlotExists, Consistent, TypeOK
  <2>4. SlotPhase(s) = "unborn" /\ SlotPhase(s)' = "free"
    BY <2>1, <2>2, <2>3, Phases, PhasesNext
  <2> QED
    BY <2>1, <2>3, <2>4, PhaseKept DEF PhaseMove
<1>3. ASSUME UNCHANGED lessons, NEW s \in Slot, Moved(s), NEW r \in Slot
      PROVE  SlotPhase(r)' = SlotPhase(r)
  <2>1. LessonsOf(r)' = LessonsOf(r)
    BY <1>3 DEF LessonsOf, LessonExists
  <2>2. slots[s] \in SlotRow
    BY <1>3, SlotTypes DEF Moved, Consistent
  <2>3. CASE r = s
    <3>1. /\ SlotExists(r) /\ slots'[r] \in SlotRow
          /\ slots'[r].is_booked = slots[r].is_booked
      BY <1>3, <2>2, <2>3 DEF Moved, SlotRow, Consistent, TypeOK
    <3> QED
      BY <2>1, <3>1, PhaseKept DEF SlotExists
  <2>4. CASE r # s
    BY <1>3, <2>1, <2>4, PhaseKept DEF Moved, Consistent, TypeOK
  <2> QED
    BY <2>3, <2>4
<1>4. ASSUME UNCHANGED lessons, NEW s \in Slot, Deleted(s)
      PROVE  PhaseMove(s, "free", "removed")
  <2>1. \A r \in Slot : LessonsOf(r)' = LessonsOf(r)
    BY <1>4 DEF LessonsOf, LessonExists
  <2>2. /\ SlotExists(s) /\ LessonsOf(s) = {} /\ slots'[s] = Removed
        /\ \A r \in Slot \ {s} : slots'[r] = slots[r]
    BY <1>4 DEF Deleted, Deletable, Consistent, TypeOK
  <2>3. SlotPhase(s) = "free" /\ SlotPhase(s)' = "removed"
    BY <2>2, Phases, PhasesNext
  <2> QED
    BY <2>1, <2>2, <2>3, PhaseKept DEF PhaseMove
<1>5. ASSUME NEW w \in Worker, NEW l \in Lesson, NEW s \in Slot, BookSlot(w, l),
             Books(w, l, s)
      PROVE  PhaseMove(s, "free", "taken")
  <2>1. /\ SlotExists(s) /\ LessonsOf(s) = {}
        /\ IsBooked(s)' /\ l \in LessonsOf(s)'
    <3>1. SlotExists(s) /\ LessonsOf(s) = {} /\ slots[s] \in SlotRow
      BY <1>5, SlotTypes DEF Books, Consistent
    <3>2. slots'[s] \in SlotRow /\ slots'[s].is_booked
      BY <1>5, <3>1 DEF Books, SlotRow, Consistent, TypeOK
    <3>3. LessonExists(l)' /\ lessons'[l].slot = s
      BY <1>5 DEF Books, LessonExists, LessonRow, Consistent, TypeOK
    <3> QED
      BY <3>1, <3>2, <3>3 DEF IsBooked, SlotExists, LessonsOf
  <2>2. SlotPhase(s) = "free" /\ SlotPhase(s)' = "taken"
    BY <2>1, Phases, PhasesNext
  <2>3. ASSUME NEW r \in Slot \ {s}
        PROVE  LessonsOf(r)' = LessonsOf(r) /\ slots'[r] = slots[r]
    <3>1. slots'[r] = slots[r]
      BY <1>5 DEF Books, Consistent, TypeOK
    <3>2. ~(\E v \in Worker, m \in Lesson : Books(v, m, r))
      BY <3>1 DEF Books, SlotRow, Consistent, TypeOK
    <3> QED
      BY <3>1, <3>2, LessonsOfKept
  <2> QED
    BY <2>2, <2>3, PhaseKept DEF PhaseMove
<1>6. ASSUME UNCHANGED slots, NEW r \in Slot
      PROVE  SlotPhase(r)' = SlotPhase(r)
  <2>1. ~(\E w \in Worker, l \in Lesson : Books(w, l, r))
    BY <1>6 DEF Books, SlotRow, Consistent, TypeOK
  <2> QED
    BY <1>6, <2>1, LessonsOfKept, PhaseKept
<1>7. ASSUME NEW l \in Lesson, CancelLesson(l)
      PROVE  \/ \A r \in Slot : SlotPhase(r)' = SlotPhase(r)
             \/ \E s \in Slot : PhaseMove(s, "taken", "released")
  <2>1. PICK s \in Slot : s = lessons[l].slot
    BY <1>7, LessonTypes DEF CancelLesson, LessonRow, Consistent
  <2>2. SlotExists(s) /\ slots[s] \in SlotRow /\ l \in LessonsOf(s)
    BY <1>7, <2>1, SlotTypes DEF CancelLesson, LessonsOf, LessonHasSlot, Consistent
  <2>3. /\ slots'[s] \in SlotRow /\ ~slots'[s].is_booked
        /\ \A r \in Slot \ {s} : slots'[r] = slots[r]
    BY <1>7, <2>1, <2>2 DEF CancelLesson, SlotRow, Consistent, TypeOK
  <2>4. \A r \in Slot : LessonsOf(r)' = LessonsOf(r)
    <3>1. \A w \in Worker, m \in Lesson, r \in Slot : ~Books(w, m, r)
      BY <2>2, <2>3 DEF Books, SlotRow, Consistent, TypeOK
    <3> QED
      BY <3>1, LessonsOfKept
  <2>5. \A r \in Slot \ {s} : SlotPhase(r)' = SlotPhase(r)
    BY <2>3, <2>4, PhaseKept
  <2>6. SlotExists(s)' /\ ~IsBooked(s)' /\ LessonsOf(s)' # {}
    BY <2>2, <2>3, <2>4 DEF SlotExists, IsBooked
  <2>7. SlotPhase(s)' = "released"
    BY <2>6, PhasesNext
  <2>8. SlotPhase(s) \in {"taken", "released"}
    BY <2>2, Phases DEF IsBooked
  <2> QED
    BY <2>5, <2>7, <2>8 DEF PhaseMove
<1> QED
  <2>1. ASSUME NEW w \in Worker, NEW l \in Lesson, BookSlot(w, l)
        PROVE  \E s \in Slot : PhaseMove(s, "free", "taken")
    BY <2>1, <1>5, Booking
  <2> QED
    BY <1>1, <1>2, <1>3, <1>4, <2>1, <1>6, <1>7, TableSteps
       DEF WriteLesson, MarkAsPaid, UpdateCompletedLessons

\* The schedule service implements the life of a slot: offered, taken at most
\* once, and neither taken again nor removed after its release.
THEOREM ImplementsLifecycle == Spec => SlotLivesOnce
<1> DEFINE Phase == [s \in Slot |-> SlotPhase(s)]
<1>1. Init => Lifecycle!Init
  BY Phases DEF Init, Lifecycle!Init
<1>2. Consistent /\ [Next]_vars => [Lifecycle!Next]_Phase
  <2> SUFFICES ASSUME Consistent, [Next]_vars
               PROVE  Phase' = Phase \/ Lifecycle!Next
    OBVIOUS
  <2>1. ASSUME NEW s \in Slot, NEW from, NEW to, PhaseMove(s, from, to)
        PROVE  Lifecycle!Move(s, from, to)
    BY <2>1 DEF PhaseMove, Lifecycle!Move
  <2>2. CASE \A s \in Slot : SlotPhase(s)' = SlotPhase(s)
    BY <2>2
  <2> QED
    BY <2>1, <2>2, PhaseSteps
       DEF Lifecycle!Next, Lifecycle!Offer, Lifecycle!Take, Lifecycle!Release, Lifecycle!Remove
<1> QED
  BY <1>1, <1>2, ConsistentAlways, PTL DEF Spec, SlotLivesOnce, Lifecycle!Spec

-----------------------------------------------------------------------------
(* Theorems of module Payment *)

LEMMA PaymentInitTyped == PaymentInit => PaymentTypeOK
<1>1. 0 \in 0..MaxRetries - 1
  BY PaymentAssumption
<1>2. [pc : {"idle"}, lesson : Lesson, receipt : {NoReceipt}, tries : {0}]
        \subseteq PayerState
  BY <1>1 DEF PayerState
<1> QED
  BY <1>2 DEF PaymentInit, PaymentTypeOK

LEMMA PaymentStepTyped == PaymentTypeOK /\ [PaymentNext]_payVars => PaymentTypeOK'
<1> SUFFICES ASSUME PaymentTypeOK, [PaymentNext]_payVars PROVE PaymentTypeOK'
  OBVIOUS
<1> USE PaymentAssumption DEF PaymentTypeOK
<1>1. ASSUME NEW p \in Payer, NEW l \in Lesson, SubmitPaymentReceipt(p, l)
      PROVE  PaymentTypeOK'
  BY <1>1 DEF SubmitPaymentReceipt, PayerState, InFlight
<1>2. ASSUME NEW p \in Payer, NEW pc \in InFlight \cup Code, Proceed(p, pc),
             UNCHANGED receipts
      PROVE  PaymentTypeOK'
  <2> DEFINE next == [payers[p] EXCEPT !.pc = pc, !.tries = 0]
  <2>1. next \in PayerState
    <3>1. payers[p] \in PayerState /\ 0 \in 0..MaxRetries - 1
      OBVIOUS
    <3> QED
      BY <3>1 DEF PayerState
  <2>2. payers' = [payers EXCEPT ![p] = next]
    BY <1>2 DEF Proceed, PayerState
  <2> QED
    BY <1>2, <2>1, <2>2
<1>3. ASSUME NEW p \in Payer, NEW pc \in InFlight, Retry(p, pc), UNCHANGED receipts
      PROVE  PaymentTypeOK'
  <2>1. CASE payers[p].tries + 1 < MaxRetries
    <3>1. /\ payers' = [payers EXCEPT ![p].pc = pc, ![p].tries = payers[p].tries + 1]
          /\ payers[p].tries + 1 \in 0..MaxRetries - 1
      BY <1>3, <2>1 DEF Retry, PayerState
    <3> QED
      BY <1>3, <3>1 DEF PayerState
  <2> QED
    BY <1>2, <1>3, <2>1 DEF Retry, Code
<1>4. ASSUME NEW p \in Payer, PayerStep(p)
      PROVE  PaymentTypeOK'
  <2>1. CASE LessonIsUnpaid(p) \/ LessonIsPaid(p) \/ Acknowledge(p) \/ Fail(p)
    BY <1>2, <2>1 DEF LessonIsUnpaid, LessonIsPaid, Acknowledge, Fail, InFlight, Code
  <2>2. CASE LessonIsMissing(p)
    BY <1>2, <2>2 DEF LessonIsMissing, InFlight, Code
  <2>3. ASSUME NEW r \in Receipt, CreateReceipt(p, r)
        PROVE  PaymentTypeOK'
    <3>1. payers[p].lesson \in Lesson
      BY DEF PayerState
    <3>2. receipts' \in [Receipt -> ReceiptRow \cup {NoReceipt}]
      BY <2>3, <3>1 DEF CreateReceipt, ReceiptRow
    <3>3. payers' \in [Payer -> PayerState]
      BY <2>3 DEF CreateReceipt, PayerState, InFlight, Code
    <3> QED
      BY <3>2, <3>3
  <2>4. CASE MarkPaid(p)
    BY <2>4 DEF MarkPaid, PayerState, InFlight
  <2>5. CASE LoseAnswer(p) \/ Unavailable(p)
    BY <1>3, <2>5 DEF LoseAnswer, Unavailable, InFlight
  <2> QED
    BY <1>4, <2>1, <2>2, <2>3, <2>4, <2>5 DEF PayerStep
<1>5. ASSUME NEW r \in Receipt, VerifyReceipt(r)
      PROVE  PaymentTypeOK'
  <2>1. receipts[r] \in ReceiptRow
    BY <1>5 DEF VerifyReceipt, ReceiptExists
  <2> QED
    BY <1>5, <2>1 DEF VerifyReceipt, ReceiptRow
<1>6. CASE Restart
  <2>1. 0 \in 0..MaxRetries - 1
    OBVIOUS
  <2>2. ASSUME NEW p \in Payer
        PROVE  [payers[p] EXCEPT !.pc = "idle", !.tries = 0] \in PayerState
    <3>1. payers[p] \in PayerState
      OBVIOUS
    <3> QED
      BY <2>1, <3>1 DEF PayerState
  <2> QED
    BY <1>6, <2>2 DEF Restart
<1> QED
  BY <1>1, <1>4, <1>5, <1>6 DEF PaymentNext, ScheduleStep, payVars

\* No submission or receipt ever holds a value out of its type; in particular
\* no call is attempted more than MaxRetries times.
THEOREM PaymentTypeCorrect == PaymentSpec => []PaymentTypeOK
<1>1. PaymentInit => PaymentTypeOK
  BY PaymentInitTyped
<1> QED
  BY <1>1, PaymentStepTyped, PTL DEF PaymentSpec

-----------------------------------------------------------------------------
(* Beside the payment service, the schedule service is itself. *)

LEMMA NextIsNext == PaymentTypeOK /\ [PaymentNext]_payVars => [Next]_vars
<1> SUFFICES ASSUME PaymentTypeOK, [PaymentNext]_payVars PROVE [Next]_vars
  OBVIOUS
<1>1. ASSUME NEW p \in Payer, PayerStep(p)
      PROVE  [Next]_vars
  <2>1. CASE MarkPaid(p)
    <3>1. PICK l \in Lesson : l = payers[p].lesson
      BY DEF PaymentTypeOK, PayerState
    <3>2. MarkAsPaid(l)
      BY <2>1, <3>1 DEF MarkPaid
    <3> QED
      BY <3>2 DEF Next
  <2>2. CASE UNCHANGED vars
    BY <2>2
  <2> QED
    BY <1>1, <2>1, <2>2 DEF PayerStep, LessonIsUnpaid, LessonIsPaid, LessonIsMissing,
       CreateReceipt, Acknowledge, LoseAnswer, Unavailable, Fail
<1>2. ASSUME ScheduleStep
      PROVE  Next
  BY <1>2 DEF ScheduleStep, Next
<1> QED
  BY <1>1, <1>2 DEF PaymentNext, SubmitPaymentReceipt, VerifyReceipt, Restart, payVars

-----------------------------------------------------------------------------
(* A receipt for every payment *)

PaymentConsistent == /\ Consistent
                     /\ PaymentTypeOK
                     /\ PaidLessonHasReceipt
                     /\ PaymentHasReceipt

LEMMA ReceiptsKept ==
  ASSUME PaymentTypeOK, [PaymentNext]_payVars, NEW r \in Receipt, ReceiptExists(r)
  PROVE  ReceiptExists(r)' /\ receipts'[r].lesson = receipts[r].lesson
<1> USE PaymentAssumption DEF ReceiptExists
<1>1. CASE UNCHANGED receipts
  BY <1>1
<1>2. ASSUME NEW p \in Payer, NEW q \in Receipt, CreateReceipt(p, q)
      PROVE  receipts'[r] = receipts[r]
  BY <1>2 DEF CreateReceipt, PaymentTypeOK
<1>3. ASSUME NEW q \in Receipt, VerifyReceipt(q)
      PROVE  ReceiptExists(r)' /\ receipts'[r].lesson = receipts[r].lesson
  <2>1. receipts[q] \in ReceiptRow /\ receipts[r] \in ReceiptRow
    BY <1>3 DEF VerifyReceipt, PaymentTypeOK
  <2>2. receipts'[r] \in ReceiptRow /\ receipts'[r].lesson = receipts[r].lesson
    BY <1>3, <2>1 DEF VerifyReceipt, PaymentTypeOK, ReceiptRow
  <2> QED
    BY <2>2
<1> QED
  BY <1>1, <1>2, <1>3 DEF PaymentNext, PayerStep, ScheduleStep, SubmitPaymentReceipt,
     LessonIsUnpaid, LessonIsPaid, LessonIsMissing, MarkPaid, Acknowledge, LoseAnswer,
     Unavailable, Fail, Restart, payVars

LEMMA HasReceiptKept ==
  ASSUME PaymentTypeOK, [PaymentNext]_payVars, NEW l \in Lesson, HasReceipt(l)
  PROVE  HasReceipt(l)'
BY ReceiptsKept DEF HasReceipt

\* How a request comes to be past CreateReceipt.
LEMMA ReachesPaying ==
  ASSUME PaymentTypeOK, [PaymentNext]_payVars, NEW p \in Payer, payers'[p].pc \in Paying
  PROVE  \/ /\ payers[p].pc \in Paying
            /\ payers'[p].receipt = payers[p].receipt
            /\ payers'[p].lesson = payers[p].lesson
         \/ \E r \in Receipt : CreateReceipt(p, r) /\ payers'[p].receipt = r
<1> DEFINE Stays == /\ payers[p].pc \in Paying
                    /\ payers'[p].receipt = payers[p].receipt
                    /\ payers'[p].lesson = payers[p].lesson
<1> USE DEF PaymentTypeOK, Paying
<1>1. CASE UNCHANGED payers
  BY <1>1
<1>2. ASSUME NEW q \in Payer, NEW l \in Lesson, SubmitPaymentReceipt(q, l)
      PROVE  Stays
  BY <1>2 DEF SubmitPaymentReceipt, PayerState
<1>3. ASSUME NEW q \in Payer, NEW r \in Receipt, CreateReceipt(q, r)
      PROVE  Stays \/ (CreateReceipt(p, r) /\ payers'[p].receipt = r)
  BY <1>3 DEF CreateReceipt, PayerState
<1>4. ASSUME NEW q \in Payer,
             \/ LessonIsUnpaid(q) \/ LessonIsPaid(q) \/ LessonIsMissing(q) \/ Fail(q)
             \/ MarkPaid(q) \/ Acknowledge(q)
      PROVE  Stays
  BY <1>4 DEF LessonIsUnpaid, LessonIsPaid, LessonIsMissing, Fail, MarkPaid, Acknowledge,
     Proceed, PayerAt, PayerState
<1>5. ASSUME NEW q \in Payer, LoseAnswer(q) \/ Unavailable(q)
      PROVE  Stays
  BY <1>5 DEF LoseAnswer, Unavailable, Retry, Proceed, PayerAt, PayerState
<1>6. CASE Restart
  BY <1>6 DEF Restart, PayerState
<1> QED
  BY <1>1, <1>2, <1>3, <1>4, <1>5, <1>6
     DEF PaymentNext, PayerStep, ScheduleStep, VerifyReceipt, payVars

LEMMA ReachesCreateReceipt ==
  ASSUME PaymentTypeOK, [PaymentNext]_payVars, NEW p \in Payer,
         payers'[p].pc = "create_receipt"
  PROVE  /\ payers'[p].lesson = payers[p].lesson
         /\ PayerAt(p, "create_receipt") \/ LessonExists(payers[p].lesson)
<1> USE DEF PaymentTypeOK, PayerAt
<1>1. CASE UNCHANGED payers
  BY <1>1
<1>2. ASSUME NEW q \in Payer, NEW l \in Lesson, SubmitPaymentReceipt(q, l)
      PROVE  payers'[p] = payers[p]
  BY <1>2 DEF SubmitPaymentReceipt, PayerState
<1>3. ASSUME NEW q \in Payer, NEW r \in Receipt, CreateReceipt(q, r)
      PROVE  payers'[p] = payers[p]
  BY <1>3 DEF CreateReceipt, PayerState
<1>4. ASSUME NEW q \in Payer, LessonIsUnpaid(q)
      PROVE  /\ payers'[p].lesson = payers[p].lesson
             /\ PayerAt(p, "create_receipt") \/ LessonExists(payers[p].lesson)
  BY <1>4 DEF LessonIsUnpaid, Proceed, PayerState
<1>5. ASSUME NEW q \in Payer,
             \/ LessonIsPaid(q) \/ LessonIsMissing(q) \/ Fail(q)
             \/ MarkPaid(q) \/ Acknowledge(q) \/ LoseAnswer(q) \/ Unavailable(q)
      PROVE  payers'[p] = payers[p]
  BY <1>5 DEF LessonIsPaid, LessonIsMissing, Fail, MarkPaid, Acknowledge, LoseAnswer,
     Unavailable, Retry, Proceed, PayerState
<1>6. CASE Restart
  BY <1>6 DEF Restart, PayerState
<1> QED
  BY <1>1, <1>2, <1>3, <1>4, <1>5, <1>6
     DEF PaymentNext, PayerStep, ScheduleStep, VerifyReceipt, payVars

LEMMA PaymentHasReceiptKept ==
  ASSUME PaymentConsistent, [PaymentNext]_payVars
  PROVE  PaymentHasReceipt'
<1> USE DEF PaymentConsistent
<1>0. [Next]_vars
  BY NextIsNext
<1>1. ASSUME NEW p \in Payer, payers'[p].pc \in Paying
      PROVE  \E r \in Receipt, l \in Lesson :
               /\ payers'[p].receipt = r /\ payers'[p].lesson = l /\ r # NoReceipt
               /\ LessonExists(l)' /\ ReceiptExists(r)' /\ receipts'[r].lesson = l
               /\ \/ payers[p].pc \in Paying /\ payers[p].receipt = r
                  \/ ~ReceiptExists(r) /\ CreateReceipt(p, r)
  <2>1. CASE /\ payers[p].pc \in Paying
             /\ payers'[p].receipt = payers[p].receipt
             /\ payers'[p].lesson = payers[p].lesson
    <3>1. PICK r \in Receipt, l \in Lesson : r = payers[p].receipt /\ l = payers[p].lesson
      BY <2>1 DEF PaymentHasReceipt, PaymentTypeOK, PayerState
    <3>2. LessonExists(l) /\ ReceiptExists(r) /\ receipts[r].lesson = l /\ r # NoReceipt
      BY <2>1, <3>1 DEF PaymentHasReceipt
    <3>3. LessonExists(l)'
      BY <1>0, <3>2, LessonsKept DEF Keeps
    <3>4. ReceiptExists(r)' /\ receipts'[r].lesson = l
      BY <3>2, ReceiptsKept
    <3> QED
      BY <2>1, <3>1, <3>2, <3>3, <3>4
  <2>2. ASSUME NEW r \in Receipt, CreateReceipt(p, r), payers'[p].receipt = r
        PROVE  \E l \in Lesson :
                 /\ payers'[p].lesson = l /\ r # NoReceipt
                 /\ LessonExists(l)' /\ ReceiptExists(r)' /\ receipts'[r].lesson = l
                 /\ ~ReceiptExists(r)
    <3>1. PICK l \in Lesson : l = payers[p].lesson
      BY DEF PaymentTypeOK, PayerState
    <3>2. payers'[p].lesson = l /\ ~ReceiptExists(r)
      BY <2>2, <3>1 DEF CreateReceipt, PaymentTypeOK, PayerState
    <3>3. receipts'[r] = [lesson |-> l, is_verified |-> FALSE]
      BY <2>2, <3>1 DEF CreateReceipt, PaymentTypeOK
    <3>4. ReceiptExists(r)' /\ receipts'[r].lesson = l
      <4>1. receipts'[r] \in ReceiptRow /\ receipts'[r].lesson = l
        BY <3>3 DEF ReceiptRow
      <4> QED
        BY <4>1, PaymentAssumption DEF ReceiptExists
    <3>5. LessonExists(l)
      BY <2>2, <3>1 DEF PaymentHasReceipt, CreateReceipt, PayerAt
    <3>6. LessonExists(l)'
      BY <1>0, <3>5, LessonsKept DEF Keeps
    <3> QED
      BY <3>2, <3>4, <3>6, PaymentAssumption
  <2> QED
    BY <1>1, <2>1, <2>2, ReachesPaying
<1>2. ASSUME NEW p \in Payer, payers'[p].pc = "create_receipt"
      PROVE  LessonExists(payers[p].lesson)'
  <2>1. PICK l \in Lesson : l = payers[p].lesson
    BY DEF PaymentTypeOK, PayerState
  <2>2. payers'[p].lesson = l /\ LessonExists(l)
    BY <1>2, <2>1, ReachesCreateReceipt DEF PaymentHasReceipt, PayerAt
  <2>3. LessonExists(l)'
    BY <1>0, <2>2, LessonsKept DEF Keeps
  <2> QED
    BY <2>2, <2>3 DEF LessonExists
<1>3. ASSUME NEW p \in Payer, NEW q \in Payer \ {p},
             payers'[p].pc \in Paying, payers'[q].pc \in Paying
      PROVE  payers'[q].receipt # payers'[p].receipt
  <2>1. PICK r \in Receipt :
          /\ payers'[p].receipt = r
          /\ \/ payers[p].pc \in Paying /\ payers[p].receipt = r
             \/ ~ReceiptExists(r) /\ CreateReceipt(p, r)
    BY <1>1, <1>3
  <2>2. PICK t \in Receipt :
          /\ payers'[q].receipt = t
          /\ \/ payers[q].pc \in Paying /\ payers[q].receipt = t
             \/ ~ReceiptExists(t) /\ CreateReceipt(q, t)
    BY <1>1, <1>3
  <2>3. ~(CreateReceipt(p, r) /\ CreateReceipt(q, t))
    <3> SUFFICES ASSUME CreateReceipt(p, r), CreateReceipt(q, t) PROVE FALSE
      OBVIOUS
    <3>1. payers'[q] = payers[q] /\ payers[q].pc = "create_receipt"
      BY <1>3 DEF CreateReceipt, PaymentTypeOK, PayerAt
    <3> QED
      BY <1>3, <3>1 DEF Paying
  <2> QED
    BY <2>1, <2>2, <2>3 DEF PaymentHasReceipt
<1> QED
  BY <1>1, <1>2, <1>3 DEF PaymentHasReceipt, LessonExists, ReceiptExists

\* Where a paid lesson, or an edit's snapshot of one, comes from.
LEMMA PaidBefore ==
  ASSUME PaymentConsistent, [PaymentNext]_payVars, NEW l \in Lesson,
         LessonExists(l)', lessons'[l].is_paid
  PROVE  HasReceipt(l)
<1> USE DEF PaymentConsistent, Consistent
<1>0. [Next]_vars
  BY NextIsNext
<1>1. ASSUME LessonExists(l), lessons'[l].is_paid = lessons[l].is_paid
      PROVE  HasReceipt(l)
  BY <1>1 DEF PaidLessonHasReceipt
<1>2. CASE ~LessonExists(l)
  <2>1. PICK w \in Worker, s \in Slot : Books(w, l, s)
    BY <1>0, <1>2, LessonsAdded, Booking
  <2> QED
    BY <2>1 DEF Books
<1>3. ASSUME LessonExists(l), NEW w \in Worker, NEW m \in Lesson, BookSlot(w, m)
      PROVE  HasReceipt(l)
  BY <1>1, <1>3 DEF BookSlot, LessonExists, TypeOK
<1>4. ASSUME LessonExists(l), NEW w \in Worker, WriteLesson(w)
      PROVE  HasReceipt(l)
  <2>1. PICK m \in Lesson : m = workers[w].lesson
    BY <1>4, UpdateLessonCall DEF WriteLesson
  <2>2. CASE m = l
    <3>1. lessons[l] \in LessonRow
      BY <1>4, LessonTypes
    <3>2. lessons'[l].is_paid = workers[w].is_paid
      BY <1>4, <2>1, <2>2, <3>1 DEF WriteLesson, LessonRow, TypeOK
    <3> QED
      BY <1>4, <2>1, <2>2, <3>2 DEF WriteLesson, PaidLessonHasReceipt
  <2>3. CASE m # l
    BY <1>1, <1>4, <2>1, <2>3 DEF WriteLesson, TypeOK
  <2> QED
    BY <2>2, <2>3
<1>5. ASSUME LessonExists(l), NEW m \in Lesson, CancelLesson(m)
      PROVE  HasReceipt(l)
  <2>1. lessons[l] \in LessonRow
    BY <1>5, LessonTypes
  <2> QED
    BY <1>1, <1>5, <2>1 DEF CancelLesson, LessonRow, TypeOK
<1>6. ASSUME LessonExists(l), UpdateCompletedLessons
      PROVE  HasReceipt(l)
  <2>1. lessons[l] \in LessonRow
    BY <1>6, LessonTypes
  <2> QED
    BY <1>1, <1>6, <2>1 DEF UpdateCompletedLessons, LessonRow
<1>7. ASSUME LessonExists(l), NEW p \in Payer, MarkPaid(p)
      PROVE  HasReceipt(l)
  <2>1. HasReceipt(payers[p].lesson) /\ payers[p].lesson \in Lesson
    BY <1>7 DEF MarkPaid, PayerAt, Paying, PaymentHasReceipt, HasReceipt, PaymentTypeOK, PayerState
  <2>2. CASE payers[p].lesson = l
    BY <2>1, <2>2
  <2>3. CASE payers[p].lesson # l
    BY <1>1, <1>7, <2>1, <2>3 DEF MarkPaid, MarkAsPaid, TypeOK
  <2> QED
    BY <2>2, <2>3
<1>8. CASE LessonExists(l) /\ UNCHANGED lessons
  BY <1>1, <1>8
<1> QED
  BY <1>2, <1>3, <1>4, <1>5, <1>6, <1>7, <1>8
     DEF PaymentNext, PayerStep, ScheduleStep, SubmitPaymentReceipt, VerifyReceipt, Restart,
         LessonIsUnpaid, LessonIsPaid, LessonIsMissing, CreateReceipt, Acknowledge, LoseAnswer,
         Unavailable, Fail, SlotStep, LessonStep, CreateSlot, InsertSlot, UpdateSlot, WriteSlot,
         DeleteSlot, RemoveSlot, CreateLesson, ValidatePair, BookingRefused, SendReminderEvent,
         UpdateLesson, Abandon, Tick, vars, payVars

LEMMA PaidLessonHasReceiptKept ==
  ASSUME PaymentConsistent, [PaymentNext]_payVars
  PROVE  PaidLessonHasReceipt'
<1> USE DEF PaymentConsistent
<1>1. ASSUME NEW l \in Lesson, LessonExists(l)', lessons'[l].is_paid
      PROVE  HasReceipt(l)'
  BY <1>1, PaidBefore, HasReceiptKept
<1>2. ASSUME NEW w \in Worker, At(w, "update_lesson")', workers'[w].is_paid
      PROVE  HasReceipt(workers[w].lesson)'
  <2>1. CASE At(w, "update_lesson") /\ workers'[w] = workers[w]
    <3>1. PICK l \in Lesson : l = workers[w].lesson
      BY <2>1, UpdateLessonCall DEF Consistent
    <3>2. HasReceipt(l)'
      BY <1>2, <2>1, <3>1, HasReceiptKept DEF PaidLessonHasReceipt
    <3> QED
      BY <2>1, <3>1, <3>2 DEF HasReceipt
  <2>2. ASSUME NEW l \in Lesson, NEW d \in SUBSET Detail, UpdateLesson(w, l, d)
        PROVE  HasReceipt(workers[w].lesson)'
    <3>1. workers'[w].lesson = l /\ workers'[w].is_paid = lessons[l].is_paid
      BY <2>2 DEF UpdateLesson, Goto, Consistent, TypeOK
    <3>2. HasReceipt(l)'
      BY <1>2, <2>2, <3>1, HasReceiptKept DEF PaidLessonHasReceipt, UpdateLesson
    <3> QED
      BY <3>1, <3>2 DEF HasReceipt
  <2>3. [Next]_vars
    BY NextIsNext
  <2> QED
    BY <1>2, <2>1, <2>2, <2>3, ReachesUpdateLesson
<1> QED
  BY <1>1, <1>2 DEF PaidLessonHasReceipt, LessonExists, At, HasReceipt

-----------------------------------------------------------------------------
(* The invariants *)

\* The inductive invariant of the two services together.
THEOREM PaymentConsistentAlways == PaymentSpec => []PaymentConsistent
<1>1. PaymentInit => PaymentConsistent
  <2> SUFFICES ASSUME PaymentInit PROVE PaymentConsistent
    OBVIOUS
  <2>1. Consistent
    BY InitConsistent DEF PaymentInit
  <2>2. PaymentTypeOK
    BY PaymentInitTyped
  <2>3. PaidLessonHasReceipt
    BY DEF PaymentInit, Init, PaidLessonHasReceipt, LessonExists, At
  <2>4. PaymentHasReceipt
    BY DEF PaymentInit, PaymentHasReceipt, Paying
  <2> QED
    BY <2>1, <2>2, <2>3, <2>4 DEF PaymentConsistent
<1>2. PaymentConsistent /\ [PaymentNext]_payVars => PaymentConsistent'
  <2> SUFFICES ASSUME PaymentConsistent, [PaymentNext]_payVars PROVE PaymentConsistent'
    OBVIOUS
  <2>1. [Next]_vars
    BY NextIsNext DEF PaymentConsistent
  <2>2. Consistent'
    BY <2>1, ConsistentStep DEF PaymentConsistent
  <2> QED
    BY <2>2, PaymentStepTyped, PaymentHasReceiptKept, PaidLessonHasReceiptKept
       DEF PaymentConsistent
<1> QED
  BY <1>1, <1>2, PTL DEF PaymentSpec

\* No lesson is ever paid without a receipt in the payment database, for any
\* number of requests, retries, lost answers and crashes.
THEOREM PaidMeansReceipt == PaymentSpec => []PaidLessonHasReceipt
BY PaymentConsistentAlways, PTL DEF PaymentConsistent

\* Every request that calls MarkAsPaid, or answers with success, has stored a
\* receipt of its own for its lesson.
THEOREM EveryPaymentHasItsReceipt == PaymentSpec => []PaymentHasReceipt
BY PaymentConsistentAlways, PTL DEF PaymentConsistent

-----------------------------------------------------------------------------
(* What a student who was told "paid" can rely on *)

\* Nobody is told that a lesson is paid which does not exist.
ToldOfALesson ==
  \A p \in Payer : IsToldPaid(p) => LessonExists(payers[p].lesson)

\* How a student comes to be told, or to be about to be told, "paid".
LEMMA ReachesToldPaid ==
  ASSUME PaymentTypeOK, [PaymentNext]_payVars, NEW p \in Payer, IsToldPaid(p)'
  PROVE  /\ payers'[p].lesson = payers[p].lesson
         /\ IsToldPaid(p) \/ LessonIsPaid(p) \/ MarkPaid(p)
<1> DEFINE Stays == IsToldPaid(p) /\ payers'[p].lesson = payers[p].lesson
<1> USE DEF PaymentTypeOK, IsToldPaid
<1>1. CASE UNCHANGED payers
  BY <1>1
<1>2. ASSUME NEW q \in Payer, NEW l \in Lesson, SubmitPaymentReceipt(q, l)
      PROVE  Stays
  BY <1>2 DEF SubmitPaymentReceipt, PayerState
<1>3. ASSUME NEW q \in Payer, NEW r \in Receipt, CreateReceipt(q, r)
      PROVE  Stays
  BY <1>3 DEF CreateReceipt, PayerState
<1>4. ASSUME NEW q \in Payer, LessonIsPaid(q)
      PROVE  Stays \/ (LessonIsPaid(p) /\ payers'[p].lesson = payers[p].lesson)
  BY <1>4 DEF LessonIsPaid, Proceed, PayerState
<1>5. ASSUME NEW q \in Payer, MarkPaid(q)
      PROVE  Stays \/ (MarkPaid(p) /\ payers'[p].lesson = payers[p].lesson)
  BY <1>5 DEF MarkPaid, PayerState
<1>6. ASSUME NEW q \in Payer,
             \/ LessonIsUnpaid(q) \/ LessonIsMissing(q) \/ Fail(q) \/ Acknowledge(q)
      PROVE  Stays
  BY <1>6 DEF LessonIsUnpaid, LessonIsMissing, Fail, Acknowledge, Proceed, PayerAt, PayerState
<1>7. ASSUME NEW q \in Payer, LoseAnswer(q) \/ Unavailable(q)
      PROVE  Stays
  BY <1>7 DEF LoseAnswer, Unavailable, Retry, Proceed, PayerAt, PayerState
<1>8. CASE Restart
  BY <1>8 DEF Restart, PayerState
<1> QED
  BY <1>1, <1>2, <1>3, <1>4, <1>5, <1>6, <1>7, <1>8
     DEF PaymentNext, PayerStep, ScheduleStep, VerifyReceipt, payVars

\* MarkAsPaid leaves the lesson it is called for paid.
LEMMA MarkPaidPays ==
  ASSUME TypeOK, NEW l \in Lesson, MarkAsPaid(l)
  PROVE  lessons'[l].is_paid
<1>1. lessons[l] \in LessonRow
  BY LessonTypes DEF MarkAsPaid
<1> QED
  BY <1>1 DEF MarkAsPaid, LessonRow, TypeOK

\* A paid lesson stays paid, but for the write of an edit that read it unpaid.
LEMMA PaidLessonKept ==
  ASSUME Consistent, [Next]_vars, NEW l \in Lesson, LessonExists(l), lessons[l].is_paid
  PROVE  lessons'[l].is_paid \/ EditLosesPayment(l)
<1> USE DEF Consistent
<1>1. CASE UNCHANGED lessons
  BY <1>1
<1>2. ASSUME NEW w \in Worker, NEW m \in Lesson, BookSlot(w, m)
      PROVE  lessons'[l].is_paid
  BY <1>2 DEF BookSlot, LessonExists, TypeOK
<1>3. ASSUME NEW w \in Worker, WriteLesson(w)
      PROVE  lessons'[l].is_paid \/ EditLosesPayment(l)
  <2>1. At(w, "update_lesson") /\ ~At(w, "update_lesson")'
    BY <1>3 DEF WriteLesson, At, Return, Goto, TypeOK
  <2>2. workers[w].lesson \in Lesson /\ lessons[l] \in LessonRow
    BY <2>1, UpdateLessonCall, LessonTypes
  <2>3. CASE workers[w].lesson = l /\ ~workers[w].is_paid
    BY <2>1, <2>3 DEF EditLosesPayment
  <2>4. CASE workers[w].lesson # l \/ workers[w].is_paid
    BY <1>3, <2>2, <2>4 DEF WriteLesson, LessonRow, TypeOK
  <2> QED
    BY <2>3, <2>4
<1>4. ASSUME NEW m \in Lesson, CancelLesson(m) \/ MarkAsPaid(m)
      PROVE  lessons'[l].is_paid
  <2>1. lessons[l] \in LessonRow
    BY LessonTypes
  <2> QED
    BY <1>4, <2>1 DEF CancelLesson, MarkAsPaid, LessonRow, TypeOK
<1>5. CASE UpdateCompletedLessons
  <2>1. lessons[l] \in LessonRow
    BY LessonTypes
  <2> QED
    BY <1>5, <2>1 DEF UpdateCompletedLessons, LessonRow
<1> QED
  BY <1>1, <1>2, <1>3, <1>4, <1>5, TableSteps

LEMMA ToldOfALessonKept ==
  ASSUME PaymentConsistent, ToldOfALesson, [PaymentNext]_payVars
  PROVE  ToldOfALesson'
<1> SUFFICES ASSUME NEW p \in Payer, IsToldPaid(p)'
             PROVE  LessonExists(payers[p].lesson)'
  BY DEF ToldOfALesson
<1>1. PICK l \in Lesson : l = payers[p].lesson
  BY DEF PaymentConsistent, PaymentTypeOK, PayerState
<1>2. /\ payers'[p].lesson = l
      /\ IsToldPaid(p) \/ LessonIsPaid(p) \/ MarkPaid(p)
  BY <1>1, ReachesToldPaid DEF PaymentConsistent
<1>3. LessonExists(l)
  BY <1>1, <1>2 DEF ToldOfALesson, LessonIsPaid, MarkPaid, MarkAsPaid
<1>4. LessonExists(l)'
  BY <1>3, NextIsNext, LessonsKept DEF Keeps, PaymentConsistent
<1> QED
  BY <1>2, <1>4 DEF LessonExists

\* Whoever is told that a lesson is paid was told the truth, and from then on
\* only the write of an edit that read the lesson before can make it false.
THEOREM ToldPaidIsPaid == PaymentSpec => SuccessMeansPaid
<1> DEFINE PaidOrLost(p, l) == \/ lessons'[l].is_paid
                               \/ IsToldPaid(p) /\ ~lessons[l].is_paid
                               \/ lessons[l].is_paid /\ EditLosesPayment(l)
           Step == \A p \in Payer : IsToldPaid(p)' => PaidOrLost(p, payers'[p].lesson)
<1>1. PaymentInit => ToldOfALesson
  BY DEF PaymentInit, ToldOfALesson, IsToldPaid
<1>2. PaymentConsistent /\ ToldOfALesson /\ [PaymentNext]_payVars => ToldOfALesson'
  BY ToldOfALessonKept
<1>3. PaymentConsistent /\ ToldOfALesson /\ [PaymentNext]_payVars => Step
  <2> SUFFICES ASSUME PaymentConsistent, ToldOfALesson, [PaymentNext]_payVars,
                      NEW p \in Payer, IsToldPaid(p)'
               PROVE  PaidOrLost(p, payers'[p].lesson)
    OBVIOUS
  <2> USE DEF PaymentConsistent
  <2>1. PICK l \in Lesson : l = payers[p].lesson
    BY DEF PaymentTypeOK, PayerState
  <2>2. /\ payers'[p].lesson = l
        /\ IsToldPaid(p) \/ LessonIsPaid(p) \/ MarkPaid(p)
    BY <2>1, ReachesToldPaid
  <2>3. CASE IsToldPaid(p) /\ lessons[l].is_paid
    <3>1. LessonExists(l)
      BY <2>1, <2>3 DEF ToldOfALesson
    <3>2. lessons'[l].is_paid \/ EditLosesPayment(l)
      BY <2>3, <3>1, NextIsNext, PaidLessonKept
    <3> QED
      BY <2>2, <2>3, <3>2
  <2>4. CASE LessonIsPaid(p)
    BY <2>1, <2>2, <2>4 DEF LessonIsPaid, vars
  <2>5. CASE MarkPaid(p)
    <3>1. lessons'[l].is_paid
      BY <2>1, <2>5, MarkPaidPays DEF MarkPaid, Consistent
    <3> QED
      BY <2>2, <3>1
  <2>6. CASE IsToldPaid(p) /\ ~lessons[l].is_paid
    BY <2>2, <2>6
  <2> QED
    BY <2>2, <2>3, <2>4, <2>5, <2>6
<1>4. PaymentConsistent /\ ToldOfALesson /\ [PaymentNext]_payVars => [Step]_payVars
  BY <1>3
<1> QED
  BY <1>1, <1>2, <1>4, PaymentConsistentAlways, PTL
     DEF PaymentSpec, SuccessMeansPaid
=============================================================================
