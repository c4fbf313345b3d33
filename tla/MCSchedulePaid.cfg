CONSTANTS
  s1 = s1
  s2 = s2
  l1 = l1
  l2 = l2
  w1 = w1
  w2 = w2
  Lesson = {l1, l2}
  Student = {st1, st2}
  Worker = {w1, w2}
  Detail = {price}
  NoRow = NoRow
  Removed = Removed
  Idle = Idle
  Slot = {s1}
  Tutor = {t1}
  Horizon = 2
  CompletionJob = FALSE
SPECIFICATION Spec
PROPERTY PaidLessonStaysPaid
CHECK_DEADLOCK FALSE
