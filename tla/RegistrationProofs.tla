------------------------- MODULE RegistrationProofs -------------------------
(* Theorems of module Registration.  A key of the unique index belongs to   *)
(* one transaction at a time, from its INSERT until it ends, and to the     *)
(* committed row after that; every other fact about the tables follows      *)
(* what one transaction gathers until it commits all of it.                 *)
EXTENDS Registration, FiniteSetTheorems, TLAPS

HasAccount(r) == registrants[r] # Idle /\ registrants[r].pc # "create_account"

\* A transaction that has inserted its account is alone with its key.
KeyIsHeldOnce ==
  \A r \in Registrant : HasAccount(r) =>
    /\ \A a \in accounts : a.telegram_id # registrants[r].telegram_id
    /\ \A r2 \in Registrant \ {r} :
         HasAccount(r2) => registrants[r2].telegram_id # registrants[r].telegram_id

\* The user a transaction registers is seen by nobody, and is its own.
UserIsOwn ==
  \A r \in Registrant : registrants[r] # Idle =>
    /\ users[registrants[r].user] = NoRow
    /\ \A r2 \in Registrant \ {r} :
         registrants[r2] # Idle => registrants[r2].user # registrants[r].user

\* A transaction comes to its COMMIT with a profile if and only if for a tutor.
ProfileIsForTutor ==
  \A r \in Registrant : registrants[r] # Idle =>
    /\ registrants[r].pc = "create_account" => registrants[r].profile = "none"
    /\ registrants[r].pc = "create_profile" => registrants[r].role = "tutor"
    /\ registrants[r].pc = "commit" =>
         (registrants[r].profile = "inserted" <=> registrants[r].role = "tutor")

\* The accounts and profiles of committed users, without counting.
RowsFit ==
  /\ \A u \in User : users[u] # NoRow => \E a \in accounts : a.user_id = u
  /\ \A a, b \in accounts : a.user_id = b.user_id => a = b
  /\ \A a \in accounts : users[a.user_id] # NoRow
  /\ profiles = {u \in User : users[u] = "tutor"}

IInv ==
  /\ TypeOK /\ OneUserPerTelegramId /\ KeyIsHeldOnce /\ UserIsOwn /\ ProfileIsForTutor /\ RowsFit
  /\ FoundAccountHasUser

-----------------------------------------------------------------------------
LEMMA RowsFitAreWhole == TypeOK /\ RowsFit => UsersAreWhole
<1> SUFFICES ASSUME TypeOK, RowsFit, NEW u \in User, users[u] # NoRow
             PROVE  Cardinality({a \in accounts : a.user_id = u}) = 1
  BY DEF UsersAreWhole, RowsFit
<1>1. PICK a \in accounts : a.user_id = u
  BY DEF RowsFit
<1>2. {b \in accounts : b.user_id = u} = {a}
  BY <1>1 DEF RowsFit
<1> QED
  BY <1>2, FS_Singleton

LEMMA InitIInv == Init => IInv
<1> SUFFICES ASSUME Init PROVE IInv
  OBVIOUS
<1>1. TypeOK
  BY DEF Init, TypeOK
<1>2. profiles = {u \in User : users[u] = "tutor"}
  BY RegistrationAssumption DEF Init, Role
<1> QED
  BY <1>1, <1>2 DEF Init, IInv, OneUserPerTelegramId, KeyIsHeldOnce, HasAccount,
                    UserIsOwn, ProfileIsForTutor, RowsFit, FoundAccountHasUser, IsAt

LEMMA CreateUserKeeps ==
  ASSUME IInv, NEW r \in Registrant, NEW t \in TelegramId, NEW role \in Role,
         NEW u \in User, CreateUser(r, t, role, u)
  PROVE  IInv'
<1> DEFINE tx == [pc |-> "create_account", telegram_id |-> t, user |-> u, role |-> role,
                  profile |-> "none"]
<1> USE RegistrationAssumption
<1>1. tx \in Transaction /\ tx # Idle
  <2>1. tx \in Transaction
    BY Zenon DEF Transaction
  <2> QED
    BY <2>1
<1>2. /\ registrants'[r] = tx
      /\ \A r2 \in Registrant \ {r} : registrants'[r2] = registrants[r2]
      /\ registrants[r] = Idle
      /\ UNCHANGED <<users, accounts, profiles, authorizers>>
  BY DEF CreateUser, IInv, TypeOK
<1>3. TypeOK'
  BY <1>1 DEF IInv, TypeOK, CreateUser
<1>4. KeyIsHeldOnce'
  BY <1>1, <1>2 DEF IInv, KeyIsHeldOnce, HasAccount, IsTaken, AccountsOf
<1>5. UserIsOwn'
  BY <1>1, <1>2 DEF IInv, UserIsOwn, CreateUser, Fresh
<1>6. ProfileIsForTutor'
  BY <1>1, <1>2 DEF IInv, ProfileIsForTutor
<1> QED
  BY <1>2, <1>3, <1>4, <1>5, <1>6 DEF IInv, OneUserPerTelegramId, RowsFit,
     FoundAccountHasUser, IsAt

LEMMA AtTransaction ==
  ASSUME TypeOK, NEW r \in Registrant, NEW pc, At(r, pc)
  PROVE  /\ registrants[r] \in Transaction /\ registrants[r] # Idle
         /\ registrants[r].pc = pc
         /\ registrants[r].telegram_id \in TelegramId
         /\ registrants[r].user \in User
         /\ registrants[r].role \in Role
         /\ registrants[r].profile \in {"none", "inserted"}
  BY DEF At, TypeOK, Transaction

\* The key is free, and from here on this transaction's.
LEMMA CreateTelegramAccountKeeps ==
  ASSUME IInv, NEW r \in Registrant, CreateTelegramAccount(r)
  PROVE  IInv'
<1> USE RegistrationAssumption
<1> DEFINE tx == registrants[r]
           next == [tx EXCEPT !.pc = AfterAccount(r)]
<1>1. tx \in Transaction /\ tx # Idle /\ tx.pc = "create_account"
  BY AtTransaction DEF IInv, CreateTelegramAccount
<1>2. /\ next \in Transaction /\ next # Idle /\ next.pc = AfterAccount(r)
      /\ next.telegram_id = tx.telegram_id /\ next.user = tx.user
      /\ next.role = tx.role /\ next.profile = tx.profile
  BY <1>1 DEF Transaction, AfterAccount
<1>3. /\ registrants'[r] = next
      /\ \A r2 \in Registrant \ {r} : registrants'[r2] = registrants[r2]
      /\ UNCHANGED <<users, accounts, profiles, authorizers>>
  BY DEF CreateTelegramAccount, Goto, IInv, TypeOK
<1>4. TypeOK'
  BY <1>2, <1>3 DEF IInv, TypeOK, CreateTelegramAccount, Goto
<1> HIDE DEF next
<1>5. KeyIsHeldOnce'
  <2>1. /\ \A a \in accounts : a.telegram_id # tx.telegram_id
        /\ \A r2 \in Registrant \ {r} :
             HasAccount(r2) => registrants[r2].telegram_id # tx.telegram_id
    BY DEF CreateTelegramAccount, AccountsOf, IsTaken, HasAccount
  <2>2. \A q \in Registrant \ {r} : HasAccount(q)' <=> HasAccount(q)
    BY <1>3 DEF HasAccount
  <2>3. registrants'[r].telegram_id = tx.telegram_id
    BY <1>2, <1>3
  <2> HIDE DEF tx
  <2>4. ASSUME NEW q \in Registrant, HasAccount(q)'
        PROVE  /\ \A a \in accounts' : a.telegram_id # registrants'[q].telegram_id
               /\ \A r2 \in Registrant \ {q} :
                    HasAccount(r2)' => registrants'[r2].telegram_id # registrants'[q].telegram_id
    <3>1. CASE q = r
      BY <1>3, <2>1, <2>2, <2>3, <3>1
    <3>2. CASE q # r
      BY <1>3, <2>1, <2>2, <2>3, <2>4, <3>2 DEF IInv, KeyIsHeldOnce
    <3> QED
      BY <3>1, <3>2
  <2> QED
    BY <2>4 DEF KeyIsHeldOnce
<1>6. UserIsOwn'
  <2>1. \A q \in Registrant : /\ registrants'[q] # Idle => registrants[q] # Idle
                             /\ registrants'[q].user = registrants[q].user
    BY <1>1, <1>2, <1>3
  <2> QED
    BY <1>3, <2>1 DEF IInv, UserIsOwn
<1>7. ProfileIsForTutor'
  <2>1. tx.profile = "none"
    BY <1>1 DEF IInv, ProfileIsForTutor, Transaction
  <2> QED
    BY <1>1, <1>2, <1>3, <2>1 DEF IInv, ProfileIsForTutor, AfterAccount
<1> QED
  BY <1>3, <1>4, <1>5, <1>6, <1>7 DEF IInv, OneUserPerTelegramId, RowsFit,
     FoundAccountHasUser, IsAt

LEMMA CreateTutorProfileKeeps ==
  ASSUME IInv, NEW r \in Registrant, CreateTutorProfile(r)
  PROVE  IInv'
<1> USE RegistrationAssumption
<1> DEFINE tx == registrants[r]
           next == [tx EXCEPT !.pc = "commit", !.profile = "inserted"]
<1>1. tx \in Transaction /\ tx # Idle /\ tx.pc = "create_profile"
  BY AtTransaction DEF IInv, CreateTutorProfile
<1>2. /\ next \in Transaction /\ next # Idle
      /\ next.pc = "commit" /\ next.profile = "inserted"
      /\ next.telegram_id = tx.telegram_id /\ next.user = tx.user /\ next.role = tx.role
  BY <1>1 DEF Transaction
<1>3. registrants' = [registrants EXCEPT ![r] = next]
  BY <1>1 DEF CreateTutorProfile, IInv, TypeOK, Transaction
<1>4. /\ registrants'[r] = next
      /\ \A q \in Registrant \ {r} : registrants'[q] = registrants[q]
      /\ UNCHANGED <<users, accounts, profiles, authorizers>>
  BY <1>3 DEF CreateTutorProfile, IInv, TypeOK
<1> HIDE DEF next
<1>5. TypeOK'
  BY <1>2, <1>3, <1>4 DEF IInv, TypeOK
<1>6. \A q \in Registrant :
        /\ registrants'[q] # Idle <=> registrants[q] # Idle
        /\ HasAccount(q)' <=> HasAccount(q)
        /\ registrants'[q].telegram_id = registrants[q].telegram_id
        /\ registrants'[q].user = registrants[q].user
  BY <1>1, <1>2, <1>4 DEF HasAccount
<1>7. KeyIsHeldOnce'
  BY <1>4, <1>6 DEF IInv, KeyIsHeldOnce
<1>8. UserIsOwn'
  BY <1>4, <1>6 DEF IInv, UserIsOwn
<1>9. ProfileIsForTutor'
  BY <1>1, <1>2, <1>4 DEF IInv, ProfileIsForTutor
<1> QED
  BY <1>4, <1>5, <1>7, <1>8, <1>9 DEF IInv, OneUserPerTelegramId, RowsFit,
     FoundAccountHasUser, IsAt

\* A transaction that ends leaves its key and its user to others.
LEMMA EndKeeps ==
  ASSUME IInv, NEW r \in Registrant, Return(r),
         UNCHANGED <<users, accounts, profiles, authorizers>>
  PROVE  IInv'
<1>1. /\ registrants'[r] = Idle
      /\ \A q \in Registrant \ {r} : registrants'[q] = registrants[q]
  BY DEF Return, IInv, TypeOK
<1>2. TypeOK'
  BY DEF Return, IInv, TypeOK
<1>3. KeyIsHeldOnce'
  BY <1>1 DEF IInv, KeyIsHeldOnce, HasAccount
<1>4. UserIsOwn' /\ ProfileIsForTutor'
  BY <1>1 DEF IInv, UserIsOwn, ProfileIsForTutor
<1> QED
  BY <1>2, <1>3, <1>4 DEF IInv, OneUserPerTelegramId, RowsFit, FoundAccountHasUser, IsAt

\* The rows a transaction commits are those its user is to have, and no other
\* transaction has its key or its user.
LEMMA CommitKeeps ==
  ASSUME IInv, NEW r \in Registrant, Commit(r)
  PROVE  IInv'
<1> USE RegistrationAssumption
<1> DEFINE tx == registrants[r]
           account == [telegram_id |-> tx.telegram_id, user_id |-> tx.user]
<1>1. /\ tx \in Transaction /\ tx # Idle /\ tx.pc = "commit"
      /\ tx.user \in User /\ tx.role \in Role /\ account \in Account
      /\ tx.profile \in {"none", "inserted"}
  BY AtTransaction DEF IInv, Commit, Account
<1>2. /\ registrants'[r] = Idle
      /\ \A q \in Registrant \ {r} : registrants'[q] = registrants[q]
      /\ users'[tx.user] = tx.role
      /\ \A u \in User \ {tx.user} : users'[u] = users[u]
      /\ accounts' = accounts \cup {account}
      /\ profiles' = IF tx.profile = "inserted" THEN profiles \cup {tx.user} ELSE profiles
      /\ UNCHANGED authorizers
  BY <1>1 DEF Commit, Return, IInv, TypeOK
<1>3. /\ users[tx.user] = NoRow
      /\ \A a \in accounts : a.telegram_id # tx.telegram_id
      /\ tx.profile = "inserted" <=> tx.role = "tutor"
  BY <1>1 DEF IInv, UserIsOwn, KeyIsHeldOnce, HasAccount, ProfileIsForTutor
<1>4. \A q \in Registrant \ {r} : registrants[q] # Idle => registrants[q].user # tx.user
  BY <1>1 DEF IInv, UserIsOwn
<1>5. \A q \in Registrant \ {r} : HasAccount(q) => registrants[q].telegram_id # tx.telegram_id
  BY <1>1 DEF IInv, KeyIsHeldOnce, HasAccount
<1>6. TypeOK'
  BY <1>1, <1>2 DEF IInv, TypeOK, Commit, Return
<1>7. account.telegram_id = tx.telegram_id /\ account.user_id = tx.user
  OBVIOUS
<1> HIDE DEF account, tx
<1>8. OneUserPerTelegramId'
  BY <1>2, <1>3, <1>7 DEF IInv, OneUserPerTelegramId
<1>9. KeyIsHeldOnce'
  <2>1. \A q \in Registrant : HasAccount(q)' => q # r /\ HasAccount(q)
    BY <1>2 DEF HasAccount
  <2> QED
    BY <1>2, <1>5, <1>7, <2>1 DEF IInv, KeyIsHeldOnce
<1>10. UserIsOwn'
  <2>1. \A q \in Registrant : registrants'[q] # Idle =>
          q # r /\ registrants'[q] = registrants[q] /\ registrants[q].user \in User
    BY <1>2 DEF IInv, TypeOK, Transaction
  <2> QED
    BY <1>2, <1>4, <2>1 DEF IInv, UserIsOwn
<1>11. ProfileIsForTutor'
  BY <1>2 DEF IInv, ProfileIsForTutor
<1>12. RowsFit'
  <2>1. \A a \in accounts : a.user_id \in User /\ a.user_id # tx.user
    BY <1>3 DEF IInv, TypeOK, RowsFit, Account
  <2>2. \A u \in User : users'[u] # NoRow => \E a \in accounts' : a.user_id = u
    BY <1>2, <1>7 DEF IInv, RowsFit
  <2>3. \A a, b \in accounts' : a.user_id = b.user_id => a = b
    BY <1>2, <1>7, <2>1 DEF IInv, RowsFit
  <2>4. \A a \in accounts' : users'[a.user_id] # NoRow
    BY <1>1, <1>2, <1>7, <2>1 DEF IInv, RowsFit
  <2>5. profiles' = {u \in User : users'[u] = "tutor"}
    BY <1>1, <1>2, <1>3 DEF IInv, RowsFit, Role
  <2> QED
    BY <2>2, <2>3, <2>4, <2>5 DEF RowsFit
<1>13. FoundAccountHasUser'
  <2>1. \A u \in User : users[u] # NoRow => users'[u] # NoRow
    BY <1>2, <1>3
  <2>2. \A x \in Authorizer : IsAt(x, "get_user") => authorizers[x].user \in User
    BY DEF IInv, TypeOK, IsAt, Authorization
  <2> QED
    BY <1>2, <2>1, <2>2 DEF IInv, FoundAccountHasUser, IsAt
<1> QED
  BY <1>6, <1>8, <1>9, <1>10, <1>11, <1>12, <1>13 DEF IInv

\* What Authorize found has a user; users do not go away.
LEMMA AuthorizerKeeps ==
  ASSUME IInv, NEW x \in Authorizer,
         \/ GetTelegramIdFails(x)
         \/ \E t \in TelegramId : GetTelegramAccountByTelegramId(x, t)
         \/ GetUser(x)
         \/ Serve(x)
  PROVE  IInv'
<1>1. UNCHANGED <<users, accounts, profiles, registrants>>
  BY DEF GetTelegramIdFails, GetTelegramAccountByTelegramId, GetUser, Serve
<1>2. \A error : Refused(error) \in Authorization
  BY DEF Refused, MapError, Authorization, Code
<1>3. PICK answer \in Authorization \cup {Idle} :
        /\ Answer(x, answer)
        /\ answer # Idle /\ answer.pc = "get_user" => users[answer.user] # NoRow
  <2>1. ASSUME NEW error, Answer(x, Refused(error))
        PROVE  \E answer \in Authorization \cup {Idle} :
                 /\ Answer(x, answer)
                 /\ answer # Idle /\ answer.pc = "get_user" => users[answer.user] # NoRow
    BY <1>2, <2>1 DEF Refused
  <2>2. ASSUME NEW a \in accounts, Answer(x, [pc |-> "get_user", user |-> a.user_id])
        PROVE  \E answer \in Authorization \cup {Idle} :
                 /\ Answer(x, answer)
                 /\ answer # Idle /\ answer.pc = "get_user" => users[answer.user] # NoRow
    <3>1. a.user_id \in User /\ users[a.user_id] # NoRow
      BY DEF IInv, TypeOK, Account, RowsFit
    <3>2. [pc |-> "get_user", user |-> a.user_id] \in Authorization
      BY <3>1 DEF Authorization
    <3> QED
      BY <2>2, <3>1, <3>2
  <2>3. ASSUME Answer(x, [pc |-> "done", code |-> "OK"])
        PROVE  \E answer \in Authorization \cup {Idle} :
                 /\ Answer(x, answer)
                 /\ answer # Idle /\ answer.pc = "get_user" => users[answer.user] # NoRow
    <3>1. [pc |-> "done", code |-> "OK"] \in Authorization
      BY Zenon DEF Authorization, Code
    <3> QED
      BY <2>3, <3>1
  <2> QED
    BY <2>1, <2>2, <2>3
       DEF GetTelegramIdFails, GetTelegramAccountByTelegramId, AccountsOf, GetUser, Serve
<1>4. TypeOK'
  BY <1>1, <1>3 DEF IInv, TypeOK, Answer
<1>5. FoundAccountHasUser'
  BY <1>1, <1>3 DEF IInv, TypeOK, FoundAccountHasUser, IsAt, Answer
<1> QED
  BY <1>1, <1>4, <1>5 DEF IInv, OneUserPerTelegramId, KeyIsHeldOnce, HasAccount,
                          UserIsOwn, ProfileIsForTutor, RowsFit

LEMMA StepIInv == IInv /\ [Next]_vars => IInv'
<1> SUFFICES ASSUME IInv, [Next]_vars PROVE IInv'
  OBVIOUS
<1>1. ASSUME NEW r \in Registrant, AlreadyExists(r) \/ Fail(r)
      PROVE  IInv'
  BY <1>1, EndKeeps DEF AlreadyExists, Fail
<1>2. CASE UNCHANGED vars
  BY <1>2 DEF vars, IInv, TypeOK, OneUserPerTelegramId, KeyIsHeldOnce, HasAccount,
              UserIsOwn, ProfileIsForTutor, RowsFit, FoundAccountHasUser, IsAt
<1> QED
  BY <1>1, <1>2, CreateUserKeeps, CreateTelegramAccountKeeps, CreateTutorProfileKeeps,
     CommitKeeps, AuthorizerKeeps DEF Next, Statement

-----------------------------------------------------------------------------
\* Tables, transactions and answers are of their types, for any number of each.
THEOREM Typed == Spec => []TypeOK
  BY InitIInv, StepIInv, PTL DEF Spec, IInv

\* However many registrations of one Telegram account overlap and fail, one
\* user at most comes of them.
THEOREM OneUserEach == Spec => []OneUserPerTelegramId
  BY InitIInv, StepIInv, PTL DEF Spec, IInv

\* No registration is ever half done: a user has one account, and a profile
\* exactly if a tutor.
THEOREM NoHalfRegistration == Spec => []UsersAreWhole
<1>1. IInv => UsersAreWhole
  BY RowsFitAreWhole DEF IInv
<1> QED
  BY <1>1, InitIInv, StepIInv, PTL DEF Spec

\* The two reads of Authorize agree, though nothing makes them one.
THEOREM AuthorizeFindsItsUser == Spec => []FoundAccountHasUser
  BY InitIInv, StepIInv, PTL DEF Spec, IInv

-----------------------------------------------------------------------------
(* Refinement: a COMMIT is a registration, and every other step is none. *)

LEMMA CommitRegisters ==
  ASSUME IInv, NEW r \in Registrant, Commit(r)
  PROVE  Atomic!Next
<1> DEFINE tx == registrants[r]
<1>1. /\ tx # Idle /\ tx.pc = "commit"
      /\ tx.telegram_id \in TelegramId /\ tx.user \in User /\ tx.role \in Role
  BY AtTransaction DEF IInv, Commit
<1>2. /\ users[tx.user] = NoRow
      /\ \A a \in accounts : a.telegram_id # tx.telegram_id
      /\ tx.profile = "inserted" <=> tx.role = "tutor"
  BY <1>1 DEF IInv, UserIsOwn, KeyIsHeldOnce, HasAccount, ProfileIsForTutor
<1>3. /\ users' = [users EXCEPT ![tx.user] = tx.role]
      /\ accounts' = accounts \cup {[telegram_id |-> tx.telegram_id, user_id |-> tx.user]}
      /\ profiles' = IF tx.profile = "inserted" THEN profiles \cup {tx.user} ELSE profiles
  BY DEF Commit
<1> HIDE DEF tx
<1>4. Atomic!Register(tx.telegram_id, tx.user, tx.role)
  BY <1>2, <1>3 DEF Atomic!Register
<1> QED
  BY <1>1, <1>4 DEF Atomic!Next, Atomic!Role, Role

\* The transactions implement registration in one step: the tables change by
\* whole registrations of new Telegram ids, and by nothing else.
THEOREM ImplementsAtomic == Spec => RegistrationIsAtomic
<1>1. Init => Atomic!Init
  BY DEF Init, Atomic!Init
<1>2. IInv /\ [Next]_vars => [Atomic!Next]_(Atomic!tables)
  <2> SUFFICES ASSUME IInv, [Next]_vars
               PROVE  Atomic!Next \/ UNCHANGED Atomic!tables
    OBVIOUS
  <2>1. ASSUME NEW r \in Registrant, Commit(r)
        PROVE  Atomic!Next
    BY <2>1, CommitRegisters
  <2>2. ASSUME NEW r \in Registrant, ~Commit(r),
               \/ \E t \in TelegramId, role \in Role, u \in User : CreateUser(r, t, role, u)
               \/ Statement(r)
               \/ Fail(r)
        PROVE  UNCHANGED Atomic!tables
    BY <2>2 DEF Statement, CreateUser, CreateTelegramAccount, AlreadyExists,
       CreateTutorProfile, Fail, Atomic!tables
  <2>3. ASSUME NEW x \in Authorizer,
               \/ GetTelegramIdFails(x)
               \/ \E t \in TelegramId : GetTelegramAccountByTelegramId(x, t)
               \/ GetUser(x)
               \/ Serve(x)
        PROVE  UNCHANGED Atomic!tables
    BY <2>3 DEF GetTelegramIdFails, GetTelegramAccountByTelegramId, GetUser, Serve,
       Atomic!tables
  <2> QED
    BY <2>1, <2>2, <2>3 DEF Next, Statement, vars, Atomic!tables
<1> QED
  BY <1>1, <1>2, InitIInv, StepIInv, PTL DEF Spec, RegistrationIsAtomic, Atomic!Spec
=============================================================================
