------------------------------ MODULE Schedule ------------------------------
(***************************************************************************)
(* The schedule service: tutors offer slots, lessons are booked into them, *)
(* edited, cancelled, paid.  Handlers run concurrently, one goroutine per  *)
(* request, and talk to PostgreSQL in separate round trips: a handler that *)
(* writes what an earlier read told it keeps that snapshot in workers[w]   *)
(* between the two, and everything else may happen in between.             *)
(*                                                                         *)
(* One action is one round trip that can be observed: a single statement,  *)
(* or a transaction at its commit.  Handlers whose reads return only what  *)
(* never changes (a lesson's slot, its student, a slot's tutor, the        *)
(* existence of a lesson) are one action, at their write.                  *)
(***************************************************************************)
EXTENDS Naturals, FiniteSets

CONSTANTS
  Slot, Lesson,      \* the UUIDs slots and lessons may get
  Tutor, Student,
  Worker,            \* goroutines that can be inside a request at once
  Detail,            \* a lesson's optional fields: link, price, payment info
  Horizon,           \* the clock stops here
  CompletionJob,     \* whether anything calls UpdateCompletedLessons
  NoRow,             \* an id no row has been inserted under
  Removed,           \* the id of a deleted row
  Idle               \* a goroutine serving no request

VARIABLES
  slots,             \* table slots
  lessons,           \* table lessons
  events,            \* reminder events Kafka has accepted
  workers,           \* what each goroutine holds between two round trips
  now                \* wall clock

vars == <<slots, lessons, events, workers, now>>

-----------------------------------------------------------------------------
(* Types *)

Time == 0..Horizon

\* The CHECK constraint of lessons.status.
Status == {"booked", "cancelled", "completed"}

\* What a request may ask for, and what a slot may hold.
Range == [starts : Time, ends : Time]
Interval == {r \in Range : r.starts < r.ends}

SlotRow == [tutor : Tutor, at : Interval, is_booked : BOOLEAN]

LessonRow == [slot : Slot, student : Student, status : Status,
              is_paid : BOOLEAN, details : SUBSET Detail]

Event == [lesson : Lesson, slot : Slot, tutor : Tutor, student : Student,
          at : Interval]

\* A request between two round trips: pc names the next one, the other
\* fields are the locals of the handler that it still needs.
Call ==
       [pc : {"insert_slot"}, tutor : Tutor, at : Interval]
  \cup [pc : {"update_slot"}, slot : Slot, at : Interval]
  \cup [pc : {"delete_slot"}, slot : Slot]
  \cup [pc : {"validate_pair", "book_slot"},
        slot : Slot, tutor : Tutor, student : Student, at : Interval]
  \cup [pc : {"send_event"}, event : Event]
  \cup [pc : {"update_lesson"}, lesson : Lesson, status : Status,
        is_paid : BOOLEAN, details : SUBSET Detail]

ASSUME ScheduleAssumption ==
  /\ Horizon \in Nat
  /\ CompletionJob \in BOOLEAN
  /\ NoRow \notin SlotRow /\ NoRow \notin LessonRow
  /\ Removed \notin SlotRow /\ Removed # NoRow
  /\ Idle \notin Call

TypeOK ==
  /\ slots \in [Slot -> SlotRow \cup {NoRow, Removed}]
  /\ lessons \in [Lesson -> LessonRow \cup {NoRow}]
  /\ events \subseteq Event
  /\ workers \in [Worker -> Call \cup {Idle}]
  /\ now \in Time

-----------------------------------------------------------------------------
(* Helpers *)

SlotExists(s)   == slots[s] \notin {NoRow, Removed}
LessonExists(l) == lessons[l] # NoRow

LessonsOf(s) == {l \in Lesson : LessonExists(l) /\ lessons[l].slot = s}

IsBooked(s) == SlotExists(s) /\ slots[s].is_booked

At(w, pc) == workers[w] # Idle /\ workers[w].pc = pc

Goto(w, call) == workers' = [workers EXCEPT ![w] = call]
Return(w)     == Goto(w, Idle)

\* validateTimeRange, and the check that the slot has not started.
Bookable(i) == i.starts < i.ends /\ now <= i.starts

\* The unique index on (tutor_id, starts_at, ends_at), seen by a write of
\* interval i for tutor t in row s.
IntervalFree(s, t, i) ==
  \A s2 \in Slot \ {s} :
    SlotExists(s2) => ~(slots[s2].tutor = t /\ slots[s2].at = i)

-----------------------------------------------------------------------------
(* Slots *)

\* CreateSlot up to its INSERT: the checks against the clock.
CreateSlot(w, t, i) ==
  /\ workers[w] = Idle
  /\ Bookable(i)
  /\ Goto(w, [pc |-> "insert_slot", tutor |-> t, at |-> i])
  /\ UNCHANGED <<slots, lessons, events, now>>

\* The INSERT, under a new id; a second slot for the same interval violates
\* the unique index and nothing is inserted.
InsertSlot(w, s) ==
  /\ At(w, "insert_slot")
  /\ slots[s] = NoRow
  /\ LET c == workers[w] IN
       IF IntervalFree(s, c.tutor, c.at)
         THEN slots' = [slots EXCEPT ![s] =
                          [tutor |-> c.tutor, at |-> c.at, is_booked |-> FALSE]]
         ELSE UNCHANGED slots
  /\ Return(w)
  /\ UNCHANGED <<lessons, events, now>>

\* The reading half of UpdateSlot: refused if the row read is booked.
UpdateSlot(w, s, i) ==
  /\ workers[w] = Idle
  /\ SlotExists(s)
  /\ ~slots[s].is_booked
  /\ Bookable(i)
  /\ Goto(w, [pc |-> "update_slot", slot |-> s, at |-> i])
  /\ UNCHANGED <<slots, lessons, events, now>>

\* The writing half: the UPDATE selects by id alone.
WriteSlot(w) ==
  /\ At(w, "update_slot")
  /\ LET c == workers[w] IN
       IF SlotExists(c.slot) /\ IntervalFree(c.slot, slots[c.slot].tutor, c.at)
         THEN slots' = [slots EXCEPT ![c.slot].at = c.at]
         ELSE UNCHANGED slots
  /\ Return(w)
  /\ UNCHANGED <<lessons, events, now>>

\* The reading half of DeleteSlot: refused if the row read is booked.
DeleteSlot(w, s) ==
  /\ workers[w] = Idle
  /\ SlotExists(s)
  /\ ~slots[s].is_booked
  /\ Goto(w, [pc |-> "delete_slot", slot |-> s])
  /\ UNCHANGED <<slots, lessons, events, now>>

DeletableIfFree(s) == SlotExists(s) /\ ~slots[s].is_booked

\* The foreign key lessons.slot_id has no ON DELETE: a slot any lesson row
\* refers to, cancelled ones included, cannot be deleted.
Deletable(s) == SlotExists(s) /\ LessonsOf(s) = {}

\* The writing half: the DELETE selects by id alone.
RemoveSlot(w) ==
  /\ At(w, "delete_slot")
  /\ LET s == workers[w].slot IN
       IF Deletable(s) THEN slots' = [slots EXCEPT ![s] = Removed]
                       ELSE UNCHANGED slots
  /\ Return(w)
  /\ UNCHANGED <<lessons, events, now>>

-----------------------------------------------------------------------------
(* Lessons *)

\* CreateLesson reads the slot; what the event will say of its times is
\* fixed here.  The caller is the slot's tutor or the student.
CreateLesson(w, s, st) ==
  /\ workers[w] = Idle
  /\ SlotExists(s)
  /\ ~slots[s].is_booked
  /\ Goto(w, [pc |-> "validate_pair", slot |-> s, tutor |-> slots[s].tutor,
              student |-> st, at |-> slots[s].at])
  /\ UNCHANGED <<slots, lessons, events, now>>

\* The user service says the pair is active.  Any other answer, and an
\* error after the retries, ends the request: Abandon.
ValidatePair(w) ==
  /\ At(w, "validate_pair")
  /\ Goto(w, [workers[w] EXCEPT !.pc = "book_slot"])
  /\ UNCHANGED <<slots, lessons, events, now>>

CanBookAgain(s) == SlotExists(s) /\ ~slots[s].is_booked

\* Whether CreateLessonAndBookSlot commits: the row locked FOR UPDATE is
\* there and not booked, and the INSERT meets no lesson under UNIQUE(slot_id).
CanBook(s) == SlotExists(s) /\ ~slots[s].is_booked /\ LessonsOf(s) = {}

\* The transaction CreateLessonAndBookSlot at its commit.  The row lock
\* makes it one step: no other writer of the slot runs between its check
\* and its commit.
BookSlot(w, l) ==
  /\ At(w, "book_slot")
  /\ lessons[l] = NoRow
  /\ LET c == workers[w]
         s == c.slot IN
     /\ CanBook(s)
     /\ slots' = [slots EXCEPT ![s].is_booked = TRUE]
     /\ lessons' = [lessons EXCEPT ![l] =
                      [slot |-> s, student |-> c.student, status |-> "booked",
                       is_paid |-> FALSE, details |-> {}]]
     /\ Goto(w, [pc |-> "send_event",
                 event |-> [lesson |-> l, slot |-> s, tutor |-> c.tutor,
                            student |-> c.student, at |-> c.at]])
  /\ UNCHANGED <<events, now>>

BookingRefusedButAnnounced(w) ==
  /\ At(w, "book_slot")
  /\ ~CanBook(workers[w].slot)
  /\ \E l \in Lesson :
       Goto(w, [pc |-> "send_event",
                event |-> [lesson |-> l, slot |-> workers[w].slot,
                           tutor |-> workers[w].tutor,
                           student |-> workers[w].student,
                           at |-> workers[w].at]])
  /\ UNCHANGED <<slots, lessons, events, now>>

\* The transaction rolls back: ErrSlotNotFound, ErrSlotBooked or the
\* unique violation.
BookingRefused(w) ==
  /\ At(w, "book_slot")
  /\ ~CanBook(workers[w].slot)
  /\ Return(w)
  /\ UNCHANGED <<slots, lessons, events, now>>

\* Kafka accepts the reminder event.  A failed send is only logged: Abandon.
SendReminderEvent(w) ==
  /\ At(w, "send_event")
  /\ events' = events \cup {workers[w].event}
  /\ Return(w)
  /\ UNCHANGED <<slots, lessons, now>>

\* UpdateLesson reads the lesson and lays the non-empty set d of requested
\* fields over it; status and is_paid are kept as read.
UpdateLesson(w, l, d) ==
  /\ workers[w] = Idle
  /\ LessonExists(l)
  /\ d # {}
  /\ Goto(w, [pc |-> "update_lesson", lesson |-> l,
              status |-> lessons[l].status, is_paid |-> lessons[l].is_paid,
              details |-> lessons[l].details \cup d])
  /\ UNCHANGED <<slots, lessons, events, now>>

\* Its UPDATE writes every column of the snapshot back.
WriteLesson(w) ==
  /\ At(w, "update_lesson")
  /\ LET c == workers[w] IN
       lessons' = [lessons EXCEPT ![c.lesson].status = c.status,
                                  ![c.lesson].is_paid = c.is_paid,
                                  ![c.lesson].details = c.details]
  /\ Return(w)
  /\ UNCHANGED <<slots, events, now>>

CancelLessonOnly(l) ==
  /\ LessonExists(l)
  /\ lessons' = [lessons EXCEPT ![l].status = "cancelled"]
  /\ UNCHANGED <<slots, events, workers, now>>

\* CancelLesson, whatever the lesson's status: one transaction cancels the
\* lesson and frees its slot.  No event is sent.
CancelLesson(l) ==
  /\ LessonExists(l)
  /\ lessons' = [lessons EXCEPT ![l].status = "cancelled"]
  /\ slots' = [slots EXCEPT ![lessons[l].slot].is_booked = FALSE]
  /\ UNCHANGED <<events, workers, now>>

\* MarkAsPaid, whatever the lesson's status.
MarkAsPaid(l) ==
  /\ LessonExists(l)
  /\ lessons' = [lessons EXCEPT ![l].is_paid = TRUE]
  /\ UNCHANGED <<slots, events, workers, now>>

Ended(l) == /\ LessonExists(l)
            /\ lessons[l].status = "booked"
            /\ slots[lessons[l].slot].at.ends < now

\* UpdateCompletedLessons: one UPDATE for all booked lessons that are over.
UpdateCompletedLessons ==
  /\ CompletionJob
  /\ lessons' = [l \in Lesson |->
       IF Ended(l) THEN [lessons[l] EXCEPT !.status = "completed"]
                   ELSE lessons[l]]
  /\ UNCHANGED <<slots, events, workers, now>>

-----------------------------------------------------------------------------
(* Failures and time *)

\* A request ends early: a database or RPC error, a cancelled context, a
\* send that failed, a crash of the service, or a commit whose answer was
\* lost (the row is there, the caller is told Internal, no event follows).
Abandon(w) ==
  /\ workers[w] # Idle
  /\ Return(w)
  /\ UNCHANGED <<slots, lessons, events, now>>

Tick ==
  /\ now < Horizon
  /\ now' = now + 1
  /\ UNCHANGED <<slots, lessons, events, workers>>

-----------------------------------------------------------------------------
Init ==
  /\ slots = [s \in Slot |-> NoRow]
  /\ lessons = [l \in Lesson |-> NoRow]
  /\ events = {}
  /\ workers = [w \in Worker |-> Idle]
  /\ now = 0

SlotStep(w) ==
  \/ \E t \in Tutor, i \in Range : CreateSlot(w, t, i)
  \/ \E s \in Slot : InsertSlot(w, s)
  \/ \E s \in Slot, i \in Range : UpdateSlot(w, s, i)
  \/ WriteSlot(w)
  \/ \E s \in Slot : DeleteSlot(w, s)
  \/ RemoveSlot(w)

LessonStep(w) ==
  \/ \E s \in Slot, st \in Student : CreateLesson(w, s, st)
  \/ ValidatePair(w)
  \/ \E l \in Lesson : BookSlot(w, l)
  \/ BookingRefused(w)
  \/ SendReminderEvent(w)
  \/ \E l \in Lesson, d \in SUBSET Detail : UpdateLesson(w, l, d)
  \/ WriteLesson(w)

Next ==
  \/ \E w \in Worker : SlotStep(w) \/ LessonStep(w) \/ Abandon(w)
  \/ \E l \in Lesson : CancelLesson(l) \/ MarkAsPaid(l)
  \/ UpdateCompletedLessons
  \/ Tick

Spec == Init /\ [][Next]_vars

-----------------------------------------------------------------------------
(* Safety *)

\* Two bookings of one slot never both succeed, however the requests
\* overlap, and a slot freed by a cancellation gets no second lesson
\* (CreateLessonAndBookSlot, UNIQUE(slot_id)).
OneLessonPerSlot ==
  \A l, m \in Lesson :
    LessonExists(l) /\ LessonExists(m) /\ lessons[l].slot = lessons[m].slot => l = m

\* No lesson loses its slot: a DeleteSlot that read the slot as free and
\* deletes it after a booking is stopped (the foreign key lessons.slot_id).
LessonHasSlot ==
  \A l \in Lesson : LessonExists(l) => SlotExists(lessons[l].slot)

\* A slot marked booked is held by a lesson that is not cancelled: no
\* sequence of bookings, cancellations, and edits that write back an old
\* status blocks a slot for nobody (is_booked mirrors the lessons table in
\* this direction).
BookedSlotHasLiveLesson ==
  \A s \in Slot :
    IsBooked(s) => \E l \in LessonsOf(s) : lessons[l].status # "cancelled"

\* An edit in flight that will write "cancelled" back belongs to a slot that
\* is not booked, so the write blocks no slot (UpdateLesson's snapshot).
StaleCancelIsHarmless ==
  \A w \in Worker :
    At(w, "update_lesson") =>
      /\ LessonExists(workers[w].lesson)
      /\ workers[w].status = "cancelled" => ~IsBooked(lessons[workers[w].lesson].slot)

\* A reminder, sent or about to be sent, is about a committed lesson, with
\* the slot, student and tutor of that lesson (CreateLesson sends after the
\* commit only).  A booking in flight knows its slot's tutor, or the slot is
\* gone by now.
Describes(e) ==
  /\ LessonExists(e.lesson)
  /\ lessons[e.lesson].slot = e.slot
  /\ lessons[e.lesson].student = e.student
  /\ SlotExists(e.slot) /\ slots[e.slot].tutor = e.tutor

KnowsTutor(c) == \/ slots[c.slot] = Removed
                 \/ SlotExists(c.slot) /\ slots[c.slot].tutor = c.tutor

EventsDescribeLessons ==
  /\ \A e \in events : Describes(e)
  /\ \A w \in Worker :
       /\ At(w, "send_event") => Describes(workers[w].event)
       /\ At(w, "validate_pair") \/ At(w, "book_slot") => KnowsTutor(workers[w])

-----------------------------------------------------------------------------
(* The life of a slot, and what it implements *)

SlotPhase(s) ==
  CASE slots[s] = NoRow                           -> "unborn"
    [] slots[s] = Removed                         -> "removed"
    [] SlotExists(s) /\ LessonsOf(s) = {}         -> "free"
    [] SlotExists(s) /\ LessonsOf(s) # {} /\ slots[s].is_booked  -> "taken"
    [] SlotExists(s) /\ LessonsOf(s) # {} /\ ~slots[s].is_booked -> "released"

Lifecycle == INSTANCE SlotLifecycle WITH phase <- [s \in Slot |-> SlotPhase(s)]

\* Every slot is offered, taken at most once, and neither taken again nor
\* removed after its release, whatever the handlers are doing.
SlotLivesOnce == Lifecycle!Spec
=============================================================================
