CONSTANTS
  Slot = {s1}
  Lesson = {l1}
  Tutor = {t1}
  Student = {st1}
  Worker = {w1}
  Detail = {price}
  Horizon = 1
  CompletionJob = FALSE
  NoRow = NoRow
  Removed = Removed
  Idle = Idle
  Payer = {p1, p2}
  Receipt = {r1, r2}
  MaxRetries = 2
  NoReceipt = NoReceipt
SPECIFICATION FairPaymentSpec
INVARIANT PaidLessonHasReceipt
INVARIANT PaymentHasReceipt
PROPERTY SuccessMeansPaid
PROPERTY SubmissionEnds
