CONSTANTS
  User = {u1}
  Pair = {pair1}
  Request = {r1, r2}
  MaxWrites = 1
  NoRow = NoRow
  Absent = Absent
  Idle = Idle
SPECIFICATION FairSpec
INVARIANT StaleHasCause
PROPERTY CacheConverges
