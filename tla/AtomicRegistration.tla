------------------------- MODULE AtomicRegistration -------------------------
(***************************************************************************)
(* What registration promises to everyone who reads its tables: a user     *)
(* comes into being in one step, whole, with a Telegram account that       *)
(* nobody had before and a profile exactly if a tutor, and stays as is.    *)
(***************************************************************************)
CONSTANTS
  TelegramId, User,
  NoRow              \* an id no user has

VARIABLES
  users,             \* the role under each id
  accounts,          \* whose each Telegram id is
  profiles           \* the users that have one

tables == <<users, accounts, profiles>>

Role == {"tutor", "student"}

Init == users = [u \in User |-> NoRow] /\ accounts = {} /\ profiles = {}

Register(t, u, role) ==
  /\ users[u] = NoRow
  /\ \A a \in accounts : a.telegram_id # t
  /\ users' = [users EXCEPT ![u] = role]
  /\ accounts' = accounts \cup {[telegram_id |-> t, user_id |-> u]}
  /\ profiles' = IF role = "tutor" THEN profiles \cup {u} ELSE profiles

Next == \E t \in TelegramId, u \in User, role \in Role : Register(t, u, role)

Spec == Init /\ [][Next]_tables
=============================================================================
