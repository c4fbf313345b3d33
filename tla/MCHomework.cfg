CONSTANTS
  s1 = s1
  s2 = s2
  f1 = f1
  f2 = f2
  h1 = h1
  h2 = h2
  Assignment = {a1, a2}
  Submission = {s1, s2}
  Feedback = {f1, f2}
  Handler = {h1, h2}
  Horizon = 1
  MaxStamp = 2
  NoDue = NoDue
  NoRow = NoRow
  Removed = Removed
  Idle = Idle
SPECIFICATION Spec
INVARIANT NoOrphans
PROPERTY DeletedForGood
PROPERTY SubmittedStaysSubmitted
PROPERTY ReviewStands
PROPERTY WorkMovesOn
SYMMETRY MCSymmetry
CHECK_DEADLOCK FALSE
