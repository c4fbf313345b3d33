---------------------------- MODULE ScheduleApi ----------------------------
(***************************************************************************)
(* The schedule service, call by call: repository and gRPC service.        *)
(* The slot named is T's, and the lesson named, when there is one, is the  *)
(* lesson of S in it.  Lessons are never deleted, nor are their slots.     *)
(***************************************************************************)
EXTENDS UserApi

-----------------------------------------------------------------------------
(* Repository *)

DbGetSlot == Select(LAMBDA w : w.slot # "none", "ErrSlotNotFound")

\* A tutor has one slot with the same times, which an index sees to.
DbCreateSlot(r) ==
  RoundTrip(LAMBDA w : {IF r.form = "clash" THEN Fails(w, "unique") ELSE Wrote(w, "slots")})

DbUpdateSlot(r) ==
  RoundTrip(LAMBDA w :
    {CASE w.slot = "none" -> Fails(w, "ErrSlotNotFound")
       [] w.slot # "none" /\ r.form = "clash" -> Fails(w, "unique")
       [] OTHER -> Wrote(w, "slots")})

\* Any lesson of the slot keeps it.
DbDeleteSlot ==
  RoundTrip(LAMBDA w :
    {CASE w.slot = "free" -> Wrote([w EXCEPT !.slot = "none"], "slots")
       [] w.slot = "none" -> Fails(w, "ErrSlotNotFound")
       [] OTHER -> Fails(w, "foreign_key")})

DbListSlotsByTutor == SelectAll

DbGetLesson ==
  RoundTrip(LAMBDA w :
    {IF w.lesson = "none" THEN Fails(w, "ErrLessonNotFound")
     ELSE Done([w EXCEPT !.held = w.lesson])})

\* One transaction, refused when the slot is gone, booked, or was ever used.
DbCreateLessonAndBookSlot ==
  RoundTrip(LAMBDA w :
    {IF w.slot = "free" THEN Wrote([w EXCEPT !.slot = "booked"], "lessons")
     ELSE Fails(w, "transaction")})

\* The whole row is written, is_paid as it was read.
DbUpdateLesson ==
  RoundTrip(LAMBDA w :
    {IF w.lesson = "none" THEN Fails(w, "ErrLessonNotFound")
     ELSE Wrote([w EXCEPT !.lesson = w.held], "lessons")})

DbCancelLessonAndFreeSlot ==
  RoundTrip(LAMBDA w :
    {IF w.lesson = "none" THEN Fails(w, "transaction")
     ELSE Wrote([w EXCEPT !.slot = "used"], "lessons")})

queryLessons == SelectAll

DbListLessonsByTutor == queryLessons

DbListLessonsByStudent == queryLessons

DbListLessonsByPair == queryLessons

DbMarkAsPaid ==
  RoundTrip(LAMBDA w :
    {IF w.lesson = "none" THEN Fails(w, "ErrLessonNotFound")
     ELSE Wrote([w EXCEPT !.lesson = "paid"], "lessons")})

-----------------------------------------------------------------------------
(* The user service's answer about a pair.  The attempts of a retried read   *)
(* are one read here, the last.                                              *)

GetTutorStudent(r) == Remote(RpcGetTutorStudent(r))

\* Mutant: an invitation is as good as a pair.
ValidateAnyPair(r) ==
  Through(GetTutorStudent(r), LAMBDA e : IF e = "NotFound" THEN "no_pair" ELSE "unverified")

\* False and an error are told apart by some of those who ask.
ValidateTutorStudentPair(r) ==
  Through(Tested(GetTutorStudent(r), LAMBDA w : PairOf(w, r) = "active", "no_pair"),
          LAMBDA e : IF e \in {"NotFound", "no_pair"} THEN "no_pair" ELSE "unverified")

IsTutor(r) == Role(r) = "tutor"

-----------------------------------------------------------------------------
(* Service *)

\* Mutant: every error of a read is the missing row.
NotFoundAlways(steps, missing) == Becomes(steps, "NotFound")

NotFoundOr(steps, missing) ==
  Through(steps, LAMBDA e : IF e = missing THEN "NotFound" ELSE "Internal")

SlotById(r) == Parsed(r, "bad_id") \o NotFoundOr(DbGetSlot, "ErrSlotNotFound")

OwnUnbookedSlot(r) ==
  Tested(Tested(SlotById(r), LAMBDA w : r.who = "tutor", "PermissionDenied"),
         LAMBDA w : w.slot # "booked", "FailedPrecondition")

RpcGetSlot(r) ==
  SlotById(r)
  \o IF r.who = "tutor" THEN <<>>
     ELSE Becomes(ValidateTutorStudentPair(r), "PermissionDenied")

RpcCreateSlot(r) ==
  Require(IsTutor(r), "PermissionDenied") \o Require(r.who = "tutor", "PermissionDenied")
  \o Parsed(r, "bad_value") \o Becomes(DbCreateSlot(r), "Internal")

RpcUpdateSlot(r) ==
  OwnUnbookedSlot(r) \o Parsed(r, "bad_value") \o Becomes(DbUpdateSlot(r), "Internal")

RpcDeleteSlot(r) == OwnUnbookedSlot(r) \o Becomes(DbDeleteSlot, "Internal")

RpcListSlotsByTutor(r) ==
  Parsed(r, "bad_id")
  \o (IF r.who = "tutor" THEN <<>>
      ELSE Becomes(ValidateTutorStudentPair(r), "PermissionDenied"))
  \o Becomes(DbListSlotsByTutor, "Internal")

LessonById(r) ==
  Parsed(r, "bad_id") \o NotFoundOr(DbGetLesson, "ErrLessonNotFound")

\* The lesson, then its slot, whose owner may deal with it.
LessonOf(r, callers) ==
  LessonById(r) \o Becomes(DbGetSlot, "Internal")
  \o Require(r.who \in callers, "PermissionDenied")

RpcGetLesson(r) == LessonOf(r, Participants)

\* Another student names himself, another tutor whomever he likes.
RpcCreateLesson(r) ==
  Tested(SlotById(r), LAMBDA w : w.slot # "booked", "AlreadyExists")
  \o Require(r.who # "other_tutor", "PermissionDenied")
  \o Through(ValidateTutorStudentPair(r),
             LAMBDA e : IF e = "no_pair" THEN "FailedPrecondition" ELSE "Internal")
  \o Becomes(DbCreateLessonAndBookSlot, "Internal")

\* Nothing is written when nothing is to be set.
RpcUpdateLesson(r) ==
  LessonOf(r, {"tutor"})
  \o IF r.form = "empty" THEN <<>> ELSE Becomes(DbUpdateLesson, "Internal")

RpcCancelLesson(r) ==
  LessonOf(r, Participants) \o Becomes(DbCancelLessonAndFreeSlot, "Internal")

RpcListLessonsByTutor(r) ==
  Parsed(r, "bad_id") \o Require(r.who = "tutor", "PermissionDenied")
  \o Becomes(DbListLessonsByTutor, "Internal")

\* The caller's id is compared before it is parsed.
RpcListLessonsByStudent(r) ==
  Require(r.who = "student" /\ r.form # "bad_id", "PermissionDenied")
  \o Becomes(DbListLessonsByStudent, "Internal")

\* And here the user service parses the ids first.
RpcListLessonsByPair(r) ==
  Require(r.who \in Participants, "PermissionDenied")
  \o Through(ValidateTutorStudentPair(r),
             LAMBDA e : IF e = "no_pair" THEN "PermissionDenied" ELSE "Internal")
  \o Parsed(r, "bad_id") \o Becomes(DbListLessonsByPair, "Internal")

RpcMarkAsPaid(r) == LessonById(r) \o Becomes(DbMarkAsPaid, "Internal")
=============================================================================
