CONSTANTS
  TelegramId = {t1, t2}
  User = {u1, u2, u3}
  Registrant = {r1, r2, r3}
  Authorizer = {x1}
  NoRow = NoRow
  Idle = Idle
SPECIFICATION FairSpec
INVARIANT OneUserPerTelegramId
INVARIANT UsersAreWhole
INVARIANT FoundAccountHasUser
PROPERTY RegistrationIsAtomic
PROPERTY RegistrationEnds
