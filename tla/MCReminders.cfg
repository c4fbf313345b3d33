CONSTANTS
  Assignment = {a1, a2}
  Unsendable = {a2}
  Submission = {s1, s2}
  Feedback = {f1}
  Handler = {h1}
  Horizon = 1
  MaxStamp = 2
  Window = 1
  NoDue = NoDue
  NoRow = NoRow
  Removed = Removed
  Idle = Idle
SPECIFICATION FairRemindersSpec
PROPERTY DueSoonIsReminded
CHECK_DEADLOCK FALSE
