---------------------------- MODULE Registration ----------------------------
(***************************************************************************)
(* The user service's registration and authorization: a transaction that   *)
(* fills up to three tables for one user, under UNIQUE(telegram_id), and   *)
(* the two reads by which a later request finds that user.                 *)
(*                                                                         *)
(* What a transaction has inserted is seen by others when it commits.  Its *)
(* entry in a unique index is not: who inserts the same key waits for the  *)
(* transaction to end.  So the tables here are the committed ones, and a   *)
(* goroutine's pc says which rows its open transaction has.                *)
(***************************************************************************)
EXTENDS Naturals, FiniteSets

CONSTANTS
  TelegramId,
  User,              \* the UUIDs users may get
  Registrant,        \* goroutines in RegisterViaTelegram
  Authorizer,        \* goroutines in AuthorizeByAuthHeader
  NoRow,             \* an id no user has
  Idle               \* a goroutine serving no request

VARIABLES
  users,             \* table users: the role under each id
  accounts,          \* table telegram_accounts
  profiles,          \* table tutor_profiles: the users that have one
  registrants,       \* the open transactions
  authorizers        \* what each goroutine in Authorize holds, or its answer

vars == <<users, accounts, profiles, registrants, authorizers>>

-----------------------------------------------------------------------------
Role == {"tutor", "student"}

Account == [telegram_id : TelegramId, user_id : User]

\* An open transaction, by its next statement, and whether it has a profile.
Transaction ==
  [pc : {"create_account", "create_profile", "commit"},
   telegram_id : TelegramId, user : User, role : Role, profile : {"none", "inserted"}]

Code == {"OK", "INVALID_ARGUMENT", "UNAUTHENTICATED", "INTERNAL"}

Authorization ==
       [pc : {"get_user"}, user : User]
  \cup [pc : {"done"}, code : Code]

ASSUME RegistrationAssumption ==
  NoRow \notin Role /\ Idle \notin Transaction /\ Idle \notin Authorization

TypeOK ==
  /\ users \in [User -> Role \cup {NoRow}]
  /\ accounts \subseteq Account
  /\ profiles \subseteq User
  /\ registrants \in [Registrant -> Transaction \cup {Idle}]
  /\ authorizers \in [Authorizer -> Authorization \cup {Idle}]

-----------------------------------------------------------------------------
(* Helpers *)

At(r, pc) == registrants[r] # Idle /\ registrants[r].pc = pc

Goto(r, pc)  == registrants' = [registrants EXCEPT ![r].pc = pc]
Return(r)    == registrants' = [registrants EXCEPT ![r] = Idle]

AccountsOf(t) == {a \in accounts : a.telegram_id = t}

\* Another transaction has the key in the unique index and has not ended.
IsTaken(r, t) ==
  \E r2 \in Registrant \ {r} :
    /\ registrants[r2] # Idle
    /\ registrants[r2].pc # "create_account"
    /\ registrants[r2].telegram_id = t

Fresh(u) ==
  /\ users[u] = NoRow
  /\ \A r \in Registrant : registrants[r] # Idle => registrants[r].user # u

-----------------------------------------------------------------------------
(* RegisterViaTelegram *)

CreateUserAtOnce(r, t, role, u) ==
  /\ registrants[r] = Idle
  /\ Fresh(u)
  /\ registrants' = [registrants EXCEPT ![r] =
       [pc |-> "create_account", telegram_id |-> t, user |-> u, role |-> role,
        profile |-> "none"]]
  /\ users' = [users EXCEPT ![u] = role]
  /\ UNCHANGED <<accounts, profiles, authorizers>>

\* BeginTx and CreateUser, under a new UUID nobody else can insert.
CreateUser(r, t, role, u) ==
  /\ registrants[r] = Idle
  /\ Fresh(u)
  /\ registrants' = [registrants EXCEPT ![r] =
       [pc |-> "create_account", telegram_id |-> t, user |-> u, role |-> role,
        profile |-> "none"]]
  /\ UNCHANGED <<users, accounts, profiles, authorizers>>

AfterAccount(r) == IF registrants[r].role = "tutor" THEN "create_profile" ELSE "commit"

CheckThenCreateAccount(r) ==
  /\ At(r, "create_account")
  /\ AccountsOf(registrants[r].telegram_id) = {}
  /\ Goto(r, AfterAccount(r))
  /\ UNCHANGED <<users, accounts, profiles, authorizers>>

CreateAccountAtOnce(r) ==
  /\ At(r, "create_account")
  /\ ~IsTaken(r, registrants[r].telegram_id)
  /\ AccountsOf(registrants[r].telegram_id) = {}
  /\ accounts' = accounts \cup
       {[telegram_id |-> registrants[r].telegram_id, user_id |-> registrants[r].user]}
  /\ Goto(r, AfterAccount(r))
  /\ UNCHANGED <<users, profiles, authorizers>>

\* The INSERT gets its entry in the index, once nobody else has it.
CreateTelegramAccount(r) ==
  /\ At(r, "create_account")
  /\ ~IsTaken(r, registrants[r].telegram_id)
  /\ AccountsOf(registrants[r].telegram_id) = {}
  /\ Goto(r, AfterAccount(r))
  /\ UNCHANGED <<users, accounts, profiles, authorizers>>

\* ErrAlreadyExists; the deferred Rollback takes the users row with it.
AlreadyExists(r) ==
  /\ At(r, "create_account")
  /\ AccountsOf(registrants[r].telegram_id) # {}
  /\ Return(r)
  /\ UNCHANGED <<users, accounts, profiles, authorizers>>

CreateProfileAtOnce(r) ==
  /\ At(r, "create_profile")
  /\ registrants' = [registrants EXCEPT ![r].pc = "commit", ![r].profile = "inserted"]
  /\ profiles' = profiles \cup {registrants[r].user}
  /\ UNCHANGED <<users, accounts, authorizers>>

CreateTutorProfile(r) ==
  /\ At(r, "create_profile")
  /\ registrants' = [registrants EXCEPT ![r].pc = "commit", ![r].profile = "inserted"]
  /\ UNCHANGED <<users, accounts, profiles, authorizers>>

\* All rows at once.  That the answer of the COMMIT is lost, and the deferred
\* Rollback finds nothing, makes no difference here.
Commit(r) ==
  /\ At(r, "commit")
  /\ LET tx == registrants[r]
     IN  /\ users' = [users EXCEPT ![tx.user] = tx.role]
         /\ accounts' = accounts \cup
              {[telegram_id |-> tx.telegram_id, user_id |-> tx.user]}
         /\ profiles' = IF tx.profile = "inserted" THEN profiles \cup {tx.user} ELSE profiles
  /\ Return(r)
  /\ UNCHANGED authorizers

FailWithoutRollback(r) ==
  /\ registrants[r] # Idle
  /\ IF registrants[r].pc = "create_account" THEN Return(r) ELSE Goto(r, "leaked")
  /\ UNCHANGED <<users, accounts, profiles, authorizers>>

\* A statement fails, the context ends or the process stops: the deferred
\* Rollback, or PostgreSQL when the connection is gone, undoes all of it.
Fail(r) ==
  /\ registrants[r] # Idle
  /\ Return(r)
  /\ UNCHANGED <<users, accounts, profiles, authorizers>>

-----------------------------------------------------------------------------
(* AuthorizeByAuthHeader *)

Answer(x, answer) == authorizers' = [authorizers EXCEPT ![x] = answer]

\* mapError translates the errors its handler lets it, here these two.
MapError(error) ==
  CASE error = "validation" -> "INVALID_ARGUMENT"
    [] error = "authentication" -> "UNAUTHENTICATED"
    [] OTHER -> "INTERNAL"

Refused(error) == [pc |-> "done", code |-> MapError(error)]

\* The header has no right signature.
GetTelegramIdFails(x) ==
  /\ authorizers[x] = Idle
  /\ Answer(x, Refused("authentication"))
  /\ UNCHANGED <<users, accounts, profiles, registrants>>

GetTelegramAccountByTelegramId(x, t) ==
  /\ authorizers[x] = Idle
  /\ \/ \E a \in AccountsOf(t) : Answer(x, [pc |-> "get_user", user |-> a.user_id])
     \/ AccountsOf(t) = {} /\ Answer(x, Refused("not_found"))
     \/ Answer(x, Refused("repository"))
  /\ UNCHANGED <<users, accounts, profiles, registrants>>

IsAt(x, pc) == authorizers[x] # Idle /\ authorizers[x].pc = pc

GetUser(x) ==
  /\ IsAt(x, "get_user")
  /\ \/ /\ users[authorizers[x].user] # NoRow
        /\ Answer(x, [pc |-> "done", code |-> "OK"])
     \/ users[authorizers[x].user] = NoRow /\ Answer(x, Refused("not_found"))
     \/ Answer(x, Refused("repository"))
  /\ UNCHANGED <<users, accounts, profiles, registrants>>

\* The answer is delivered; the goroutine serves another request.
Serve(x) ==
  /\ IsAt(x, "done")
  /\ Answer(x, Idle)
  /\ UNCHANGED <<users, accounts, profiles, registrants>>

-----------------------------------------------------------------------------
Init ==
  /\ users = [u \in User |-> NoRow]
  /\ accounts = {}
  /\ profiles = {}
  /\ registrants = [r \in Registrant |-> Idle]
  /\ authorizers = [x \in Authorizer |-> Idle]

Statement(r) ==
  \/ CreateTelegramAccount(r)
  \/ AlreadyExists(r)
  \/ CreateTutorProfile(r)
  \/ Commit(r)

Next ==
  \/ \E r \in Registrant :
       \/ \E t \in TelegramId, role \in Role, u \in User : CreateUser(r, t, role, u)
       \/ Statement(r)
       \/ Fail(r)
  \/ \E x \in Authorizer :
       \/ GetTelegramIdFails(x)
       \/ \E t \in TelegramId : GetTelegramAccountByTelegramId(x, t)
       \/ GetUser(x)
       \/ Serve(x)

Spec == Init /\ [][Next]_vars

\* The database answers, and who waits for a key is not overtaken for ever by
\* transactions that take the key and fail.
FairSpec == Spec /\ \A r \in Registrant : SF_vars(Statement(r))

-----------------------------------------------------------------------------
(* Properties *)

\* However registrations of one Telegram account overlap and fail, it has one
\* user at most.
OneUserPerTelegramId ==
  \A a, b \in accounts : a.telegram_id = b.telegram_id => a = b

\* Registration is all or nothing: a user others can see has its one Telegram
\* account, an account and a profile have their user, and the tutors are the
\* users with a profile.
UsersAreWhole ==
  /\ \A u \in User :
       users[u] # NoRow => Cardinality({a \in accounts : a.user_id = u}) = 1
  /\ \A a \in accounts : users[a.user_id] # NoRow
  /\ profiles = {u \in User : users[u] = "tutor"}

\* Between its two reads Authorize may count on the user of an account it
\* found: the second never answers that there is none.
FoundAccountHasUser ==
  \A x \in Authorizer : IsAt(x, "get_user") => users[authorizers[x].user] # NoRow

\* Every registration ends: one that waits for another with its Telegram id
\* waits for a transaction that ends, however that one ends.
RegistrationEnds ==
  \A r \in Registrant : registrants[r] # Idle ~> registrants[r] = Idle

\* Whoever reads the tables sees registrations that happen in one step each:
\* what overlaps, waits and fails on the way leaves no other trace.
Atomic == INSTANCE AtomicRegistration

RegistrationIsAtomic == Atomic!Spec
=============================================================================
