------------------------------ MODULE Payment ------------------------------
(***************************************************************************)
(* The payment service beside the schedule service: a student submits a    *)
(* receipt for a lesson, the tutor verifies it.  Submitting reads the      *)
(* lesson over RPC, inserts the receipt into the payment database and then *)
(* marks the lesson as paid over RPC; no transaction spans the two         *)
(* databases, either RPC is repeated while it is answered Unavailable, and *)
(* the answer to a call that was carried out may be lost.                  *)
(*                                                                         *)
(* The schedule service is the one of module Schedule, all its handlers    *)
(* included; its MarkAsPaid is called from here and from nowhere else.     *)
(***************************************************************************)
EXTENDS Schedule

CONSTANTS
  Payer,             \* goroutines of the payment service
  Receipt,           \* the UUIDs receipts may get
  MaxRetries,        \* attempts of RetryWithBackoff at one call
  NoReceipt          \* an id no receipt has been inserted under

VARIABLES
  receipts,          \* table receipts
  payers             \* the SubmitPaymentReceipt each goroutine is running

payVars == <<vars, receipts, payers>>

ReceiptRow == [lesson : Lesson, is_verified : BOOLEAN]

InFlight == {"get_lesson", "create_receipt", "mark_paid", "marked"}

\* The status a finished request is answered with.
Code == {"ok", "already_exists", "internal"}

\* pc: the call the goroutine is at, "idle", or the code it answered last;
\* tries: attempts at this call that were answered Unavailable.
PayerState == [pc : InFlight \cup Code \cup {"idle"}, lesson : Lesson,
               receipt : Receipt \cup {NoReceipt},
               tries : 0..MaxRetries - 1]

ASSUME PaymentAssumption ==
  /\ MaxRetries \in Nat \ {0}
  /\ NoReceipt \notin ReceiptRow /\ NoReceipt \notin Receipt

PaymentTypeOK ==
  /\ receipts \in [Receipt -> ReceiptRow \cup {NoReceipt}]
  /\ payers \in [Payer -> PayerState]

-----------------------------------------------------------------------------
(* Helpers *)

PayerAt(p, pc) == payers[p].pc = pc

ReceiptExists(r) == receipts[r] # NoReceipt

\* The payer reaches its next call, or its answer.
Proceed(p, pc) == payers' = [payers EXCEPT ![p].pc = pc, ![p].tries = 0]

RetryForever(p, pc) == payers' = [payers EXCEPT ![p].pc = pc]

\* RetryWithBackoff after Unavailable: call pc once more, until MaxRetries
\* attempts have failed and the error, of no listed kind, becomes Internal.
Retry(p, pc) ==
  IF payers[p].tries + 1 < MaxRetries
    THEN payers' = [payers EXCEPT ![p].pc = pc, ![p].tries = @ + 1]
    ELSE Proceed(p, "internal")

-----------------------------------------------------------------------------
(* SubmitPaymentReceipt *)

SubmitPaymentReceipt(p, l) ==
  /\ payers[p].pc \notin InFlight
  /\ payers' = [payers EXCEPT ![p] =
                  [pc |-> "get_lesson", lesson |-> l, receipt |-> NoReceipt,
                   tries |-> 0]]
  /\ UNCHANGED <<vars, receipts>>

\* The schedule service reads the lesson and its answer arrives.
LessonIsUnpaid(p) ==
  /\ PayerAt(p, "get_lesson")
  /\ LessonExists(payers[p].lesson)
  /\ ~lessons[payers[p].lesson].is_paid
  /\ Proceed(p, "create_receipt")
  /\ UNCHANGED <<vars, receipts>>

LessonIsPaid(p) ==
  /\ PayerAt(p, "get_lesson")
  /\ LessonExists(payers[p].lesson)
  /\ lessons[payers[p].lesson].is_paid
  /\ Proceed(p, "already_exists")
  /\ UNCHANGED <<vars, receipts>>

\* The NotFound status is none of the errors mapError looks for.
LessonIsMissing(p) ==
  /\ PayerAt(p, "get_lesson")
  /\ ~LessonExists(payers[p].lesson)
  /\ Proceed(p, "internal")
  /\ UNCHANGED <<vars, receipts>>

PayWithoutReceipt(p, r) ==
  /\ PayerAt(p, "create_receipt")
  /\ ~ReceiptExists(r)
  /\ payers' = [payers EXCEPT ![p].pc = "mark_paid", ![p].receipt = r]
  /\ UNCHANGED <<vars, receipts>>

StoreUnderUsedId(p, r) ==
  /\ PayerAt(p, "create_receipt")
  /\ receipts' = [receipts EXCEPT ![r] =
                    [lesson |-> payers[p].lesson, is_verified |-> FALSE]]
  /\ payers' = [payers EXCEPT ![p].pc = "mark_paid", ![p].receipt = r]
  /\ UNCHANGED vars

\* CreateReceipt commits under a new id; the answer arrives, or it is lost
\* and the request ends with Internal (a repository error is not retried).
CreateReceipt(p, r) ==
  /\ PayerAt(p, "create_receipt")
  /\ ~ReceiptExists(r)
  /\ receipts' = [receipts EXCEPT ![r] =
                    [lesson |-> payers[p].lesson, is_verified |-> FALSE]]
  /\ payers' \in {[payers EXCEPT ![p].pc = "mark_paid", ![p].receipt = r],
                  [payers EXCEPT ![p].pc = "internal"]}
  /\ UNCHANGED vars

AcknowledgeUnmarked(p) ==
  /\ PayerAt(p, "mark_paid")
  /\ payers' = [payers EXCEPT ![p].pc = "marked"]
  /\ UNCHANGED <<vars, receipts>>

\* The schedule service carries MarkAsPaid out; its answer is on the way.
MarkPaid(p) ==
  /\ PayerAt(p, "mark_paid")
  /\ MarkAsPaid(payers[p].lesson)
  /\ payers' = [payers EXCEPT ![p].pc = "marked"]
  /\ UNCHANGED receipts

\* The answer arrives, and the student is answered.
Acknowledge(p) ==
  /\ PayerAt(p, "marked")
  /\ Proceed(p, "ok")
  /\ UNCHANGED <<vars, receipts>>

\* The answer is lost with the connection: the call is carried out again.
LoseAnswer(p) ==
  /\ PayerAt(p, "marked")
  /\ Retry(p, "mark_paid")
  /\ UNCHANGED <<vars, receipts>>

\* An RPC is answered Unavailable without having been carried out.
Unavailable(p) ==
  /\ payers[p].pc \in {"get_lesson", "mark_paid"}
  /\ Retry(p, payers[p].pc)
  /\ UNCHANGED <<vars, receipts>>

\* Any other error, a cancelled context included, is not retried.
Fail(p) ==
  /\ payers[p].pc \in InFlight
  /\ Proceed(p, "internal")
  /\ UNCHANGED <<vars, receipts>>

-----------------------------------------------------------------------------
\* VerifyReceipt, by any tutor: the UPDATE; the SELECT after it changes nothing.
VerifyReceipt(r) ==
  /\ ReceiptExists(r)
  /\ receipts' = [receipts EXCEPT ![r].is_verified = TRUE]
  /\ UNCHANGED <<vars, payers>>

\* The payment service crashes; the schedule service does not.
Restart ==
  /\ payers' = [p \in Payer |-> [payers[p] EXCEPT !.pc = "idle", !.tries = 0]]
  /\ UNCHANGED <<vars, receipts>>

\* What the schedule service does of its own accord.
ScheduleStep ==
  /\ \/ \E w \in Worker : SlotStep(w) \/ LessonStep(w) \/ Abandon(w)
     \/ \E l \in Lesson : CancelLesson(l)
     \/ UpdateCompletedLessons
     \/ Tick
  /\ UNCHANGED <<receipts, payers>>

PaymentInit ==
  /\ Init
  /\ receipts = [r \in Receipt |-> NoReceipt]
  /\ payers \in [Payer -> [pc : {"idle"}, lesson : Lesson, receipt : {NoReceipt},
                           tries : {0}]]

\* What a submission in flight does next.
PayerStep(p) ==
  \/ LessonIsUnpaid(p) \/ LessonIsPaid(p) \/ LessonIsMissing(p)
  \/ \E r \in Receipt : CreateReceipt(p, r)
  \/ MarkPaid(p) \/ Acknowledge(p) \/ LoseAnswer(p)
  \/ Unavailable(p)
  \/ Fail(p)

PaymentNext ==
  \/ \E p \in Payer : \/ \E l \in Lesson : SubmitPaymentReceipt(p, l)
                      \/ PayerStep(p)
  \/ \E r \in Receipt : VerifyReceipt(r)
  \/ Restart
  \/ ScheduleStep

PaymentSpec == PaymentInit /\ [][PaymentNext]_payVars

\* A goroutine keeps running: every call it makes is answered or fails.
FairPaymentSpec == PaymentSpec /\ \A p \in Payer : WF_payVars(PayerStep(p))

-----------------------------------------------------------------------------
(* Properties *)

HasReceipt(l) == \E r \in Receipt : ReceiptExists(r) /\ receipts[r].lesson = l

\* No lesson is marked paid, or about to be marked paid by an edit that read
\* it so, unless the payment database has a receipt for it: across two
\* databases, the crash of either service and lost answers (the receipt is
\* inserted before MarkAsPaid is called).
PaidLessonHasReceipt ==
  /\ \A l \in Lesson : LessonExists(l) /\ lessons[l].is_paid => HasReceipt(l)
  /\ \A w \in Worker :
       At(w, "update_lesson") /\ workers[w].is_paid => HasReceipt(workers[w].lesson)

\* A request that is past CreateReceipt, or answered with success, has stored
\* a receipt of its own for the lesson it is about, however often its calls
\* are repeated and whatever other requests for the lesson do.
Paying == {"mark_paid", "marked", "ok"}

PaymentHasReceipt ==
  \A p \in Payer :
    /\ payers[p].pc \in Paying \cup {"create_receipt"} => LessonExists(payers[p].lesson)
    /\ payers[p].pc \in Paying =>
      /\ payers[p].receipt # NoReceipt
      /\ ReceiptExists(payers[p].receipt)
      /\ receipts[payers[p].receipt].lesson = payers[p].lesson
      /\ \A q \in Payer \ {p} :
           payers[q].pc \in Paying => payers[q].receipt # payers[p].receipt

\* A student answered with success, or told that the lesson is paid already,
\* has a lesson that is paid, however answers were lost and calls repeated: of
\* all steps, only the write of an edit that read the lesson before it was
\* paid can leave it unpaid (see PaidLessonStaysPaid).
EditLosesPayment(l) ==
  \E w \in Worker :
    /\ At(w, "update_lesson") /\ workers[w].lesson = l /\ ~workers[w].is_paid
    /\ ~At(w, "update_lesson")'

IsToldPaid(p) == payers[p].pc \in {"marked", "ok", "already_exists"}

SuccessMeansPaid ==
  [][\A p \in Payer :
       LET l == payers'[p].lesson
       IN  IsToldPaid(p)' =>
             \/ lessons'[l].is_paid
             \/ IsToldPaid(p) /\ ~lessons[l].is_paid
             \/ lessons[l].is_paid /\ EditLosesPayment(l)]_payVars

\* Every submission is answered, whatever fails: retries are counted.
SubmissionEnds ==
  \A p \in Payer : payers[p].pc \in InFlight ~> payers[p].pc \notin InFlight
=============================================================================
