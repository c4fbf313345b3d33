----------------------------- MODULE MCSchedule -----------------------------
(* Schedule on a small instance: the two tables small enough for every     *)
(* interleaving of two requests with the handlers of one step.             *)
EXTENDS Schedule, TLC

CONSTANTS s1, s2, l1, l2, w1, w2

MCSymmetry == Permutations(Slot) \cup Permutations(Lesson)
                \cup Permutations(Worker)

-----------------------------------------------------------------------------
(* What the documentation says of the service, and the code does not keep. *)

\* payment_service/README.md:56: submitting the receipt marks the lesson as
\* paid.  UpdateLesson writes back the is_paid it read before that.
PaidLessonStaysPaid ==
  [][\A l \in Lesson :
       LessonExists(l) /\ lessons[l].is_paid => lessons'[l].is_paid]_vars
=============================================================================
