------------------------------ MODULE UserApi ------------------------------
(***************************************************************************)
(* The user service, call by call: repository, service, gRPC handler.      *)
(* A caller who is T or S names himself where a call is about a user, the  *)
(* others name T or S.  A route about a pair names T and S, and so can be  *)
(* asked by somebody else; where the other services ask for a pair, and in *)
(* an acceptance, the caller is one of the two.  Users are never deleted,  *)
(* so that a caller's own row is there; a profile comes with a tutor and   *)
(* with nobody else.                                                       *)
(***************************************************************************)
EXTENDS Steps

Role(r) == IF r.who \in {"tutor", "other_tutor"} THEN "tutor" ELSE "student"

-----------------------------------------------------------------------------
(* Repository *)

handleError(e) ==
  CASE e = "unique" -> "ErrAlreadyExists"
    [] e = "no_rows" -> "ErrNotFound"
    [] OTHER -> "repository error"

Statement(Outcomes(_)) == Through(RoundTrip(Outcomes), handleError)

\* Of the caller, or of S.
DbGetUser(own) ==
  Statement(LAMBDA w :
    {IF own \/ w.person = "present" THEN Done(w) ELSE Fails(w, "no_rows")})

\* The rows of T and of nobody else have a profile.
DbGetTutorProfile(r) ==
  Statement(LAMBDA w : {IF Role(r) = "tutor" THEN Done(w) ELSE Fails(w, "no_rows")})

SetsSomething(r) == Require(r.form # "empty", "ErrNoFieldsToUpdate")

DbUpdateUser(r) ==
  SetsSomething(r) \o Statement(LAMBDA w : {Wrote(w, "users")})

DbUpdateTutorProfile(r) ==
  SetsSomething(r) \o Statement(LAMBDA w :
    {IF Role(r) = "tutor" THEN Wrote(w, "tutor_profiles") ELSE Fails(w, "no_rows")})

\* RegisterViaTelegram's transaction, refused at the second row of a telegram_id.
DbRegister ==
  Statement(LAMBDA w :
    {IF w.person = "none"
       THEN Wrote([w EXCEPT !.person = "present"], "users") ELSE Fails(w, "unique")})

DbCreateTutorStudent ==
  Statement(LAMBDA w :
    {CASE w.person = "none" -> Fails(w, "foreign_key")
       [] w.person # "none" /\ w.pair # "none" -> Fails(w, "unique")
       [] OTHER -> Wrote([w EXCEPT !.pair = "invited"], "tutor_students")})

\* The pair is that of T and S.
NamesPair(r) ==
  \/ r.who \in Participants
  \/ r.op \in {"GetTutorStudent", "UpdateTutorStudent", "DeleteTutorStudent"}

\* T and S have the only row in question; nobody else is paired with either.
PairOf(w, r) == IF NamesPair(r) THEN w.pair ELSE "none"

DbGetTutorStudent(r) ==
  Statement(LAMBDA w :
    {IF PairOf(w, r) # "none" THEN Done(w) ELSE Fails(w, "no_rows")})

DbUpdateTutorStudent(r, statuses) ==
  SetsSomething(r) \o Statement(LAMBDA w :
    IF PairOf(w, r) = "none" THEN {Fails(w, "no_rows")}
    ELSE {Wrote([w EXCEPT !.pair = s], "tutor_students") : s \in statuses})

\* Mutant: the number of rows affected is not looked at.
DbDeleteTutorStudentUncounted(r) ==
  RoundTrip(LAMBDA w :
    {IF PairOf(w, r) # "none"
       THEN Wrote([w EXCEPT !.pair = "none"], "tutor_students") ELSE Done(w)})

DbDeleteTutorStudent(r) ==
  RoundTrip(LAMBDA w :
    {IF PairOf(w, r) # "none"
       THEN Wrote([w EXCEPT !.pair = "none"], "tutor_students")
       ELSE Fails(w, "ErrNotFound")})

DbListTutorStudents == Through(SelectAll, handleError)

-----------------------------------------------------------------------------
(* Service *)

getUserId(r) == Require(r.who \notin {"nobody", "unknown"}, "ErrAuthentication")

getRole(r) == Require(Role(r) \in {"tutor", "student"}, "ErrAuthentication")

ensureCurrentUserIs(r, ids) == getUserId(r) \o Require(r.who \in ids, "ErrPermissionDenied")

ensureCurrentUserRole(r, role) ==
  getRole(r) \o Require(Role(r) = role, "ErrPermissionDenied")

\* GetTelegramId checks the signature; both rows were written by one sign-up.
SvcAuthorize(r) ==
  Require(r.who # "unknown", "ErrAuthentication")
  \o DbGetUser(TRUE) \o DbGetUser(TRUE)

SvcGetMe(r) ==
  Require(r.who # "nobody", "ErrNotFound") \o DbGetUser(TRUE)

SvcGetUserPublic(r) == DbGetUser(FALSE)

SvcUpdateUser(r) == ensureCurrentUserIs(r, Participants) \o DbUpdateUser(r)

SvcGetTutorProfile(r) == ensureCurrentUserIs(r, Participants) \o DbGetTutorProfile(r)

SvcUpdateTutorProfile(r) ==
  ensureCurrentUserIs(r, Participants) \o DbUpdateTutorProfile(r)

SvcRegisterViaTelegram(r) == Require(r.form # "bad_value", "ErrValidation") \o DbRegister

SvcCreateTutorStudent(r) ==
  ensureCurrentUserIs(r, {"tutor"}) \o ensureCurrentUserRole(r, "tutor")
  \o DbCreateTutorStudent

\* Mutant: whoever asks is told.
SvcGetTutorStudentUnchecked(r) == DbGetTutorStudent(r)

SvcGetTutorStudent(r) ==
  ensureCurrentUserIs(r, IF NamesPair(r) THEN Participants ELSE {r.who})
  \o DbGetTutorStudent(r)

SvcUpdateTutorStudent(r) ==
  ensureCurrentUserIs(r, {"tutor"}) \o DbUpdateTutorStudent(r, {"invited", "active"})

SvcDeleteTutorStudent(r) == ensureCurrentUserIs(r, {"tutor"}) \o DbDeleteTutorStudent(r)

SvcListTutorStudents(r) == ensureCurrentUserIs(r, {"tutor"}) \o DbListTutorStudents

SvcListTutorStudentsForStudent(r) ==
  ensureCurrentUserIs(r, {"student"}) \o DbListTutorStudents

SvcAcceptInvitationFromTutor(r) ==
  getUserId(r) \o ensureCurrentUserRole(r, "student")
  \o DbUpdateTutorStudent(r, {"active"})

-----------------------------------------------------------------------------
(* Handler *)

StatusOf(e) ==
  CASE e = "ErrAlreadyExists" -> "AlreadyExists"
    [] e = "ErrValidation" -> "InvalidArgument"
    [] e = "ErrAuthentication" -> "Unauthenticated"
    [] e = "ErrNotFound" -> "NotFound"
    [] e = "ErrPermissionDenied" -> "PermissionDenied"

\* Errors a handler does not list are internal ones.
mapError(steps, possible) ==
  Through(steps, LAMBDA e : IF e \in possible THEN StatusOf(e) ELSE "Internal")

RpcRegisterViaTelegram(r) ==
  mapError(SvcRegisterViaTelegram(r), {"ErrAlreadyExists", "ErrValidation"})

RpcAuthorizeByAuthHeader(r) == mapError(SvcAuthorize(r), {"ErrValidation", "ErrAuthentication"})

RpcGetMe(r) == mapError(SvcGetMe(r), {"ErrNotFound"})

RpcGetUser(r) == Parsed(r, "bad_id") \o mapError(SvcGetUserPublic(r), {"ErrNotFound"})

\* Mutant: the fields of the request are not passed on.
RpcUpdateUserUnset(r) ==
  Parsed(r, "bad_id")
  \o mapError(SvcUpdateUser([r EXCEPT !.form = "empty"]),
              {"ErrNotFound", "ErrValidation", "ErrPermissionDenied"})

RpcUpdateUser(r) ==
  Parsed(r, "bad_id")
  \o mapError(SvcUpdateUser(r), {"ErrNotFound", "ErrValidation", "ErrPermissionDenied"})

RpcGetTutorProfileByUserId(r) ==
  Parsed(r, "bad_id") \o mapError(SvcGetTutorProfile(r), {"ErrNotFound", "ErrPermissionDenied"})

RpcUpdateTutorProfile(r) ==
  Parsed(r, "bad_id") \o mapError(SvcUpdateTutorProfile(r),
                          {"ErrNotFound", "ErrValidation", "ErrPermissionDenied"})

RpcCreateTutorStudent(r) ==
  Parsed(r, "bad_id") \o mapError(SvcCreateTutorStudent(r),
                          {"ErrAlreadyExists", "ErrValidation", "ErrPermissionDenied"})

RpcGetTutorStudent(r) ==
  Parsed(r, "bad_id") \o mapError(SvcGetTutorStudent(r),
                          {"ErrNotFound", "ErrPermissionDenied", "ErrAuthentication"})

RpcUpdateTutorStudent(r) ==
  Parsed(r, "bad_id") \o Parsed(r, "bad_value")
  \o mapError(SvcUpdateTutorStudent(r), {"ErrNotFound", "ErrPermissionDenied"})

RpcDeleteTutorStudent(r) ==
  Parsed(r, "bad_id") \o mapError(SvcDeleteTutorStudent(r), {"ErrNotFound", "ErrPermissionDenied"})

RpcListTutorStudents(r) ==
  Parsed(r, "bad_id") \o mapError(SvcListTutorStudents(r), {"ErrNotFound", "ErrPermissionDenied"})

RpcListTutorsForStudent(r) ==
  Parsed(r, "bad_id")
  \o mapError(SvcListTutorStudentsForStudent(r), {"ErrNotFound", "ErrPermissionDenied"})

RpcAcceptInvitationFromTutor(r) ==
  Parsed(r, "bad_id") \o mapError(SvcAcceptInvitationFromTutor(r), {"ErrPermissionDenied", "ErrNotFound"})
=============================================================================
