----------------------------- MODULE Requests -----------------------------
(***************************************************************************)
(* The API gateway in front of the five services: a request comes in by    *)
(* one of the routes, is authorized, is parsed, becomes a call of a        *)
(* service, and leaves with the HTTP status the call's error is mapped to. *)
(* Between two of its steps other requests commit theirs.                  *)
(*                                                                         *)
(* A behaviour is about one route.  The rows its requests name vary, those *)
(* they do not name stay as they are.  Of an answer in the gateway's cache *)
(* it is known here who got it first; how old it may be is modelled in     *)
(* GatewayCache.                                                           *)
(***************************************************************************)
EXTENDS HomeworkApi, PaymentApi

CONSTANT Routes   \* the routes whose requests are looked at

-----------------------------------------------------------------------------
(* The routes *)

SignUpRoutes == {"SignUp"}

UserRoutes ==
  {"GetMe", "GetUser", "UpdateUser", "GetTutorProfile", "UpdateTutorProfile",
   "ListTutorStudentByTutor", "ListTutorStudentByStudent", "GetTutorStudent",
   "UpdateTutorStudent", "DeleteTutorStudent", "CreateTutorStudent", "AcceptInvitation"}

\* What the query of a list names: a tutor, a student, or both.
ScheduleRoutes ==
  {"CreateSlot", "GetSlot", "UpdateSlot", "DeleteSlot", "ListSlotsByTutor",
   "ListLessonsByTutor", "ListLessonsByStudent", "ListLessonsByPair",
   "CreateLesson", "GetLesson", "UpdateLesson", "CancelLesson"}

HomeworkRoutes ==
  {"CreateAssignment", "ListAssignmentsByTutor", "ListAssignmentsByStudent",
   "ListAssignmentsByPair", "UpdateAssignment", "DeleteAssignment", "GetAssignmentFile",
   "ListSubmissions", "ListFeedbacks", "CreateSubmission", "GetSubmissionFile",
   "CreateFeedback", "UpdateFeedback", "GetFeedbackFile"}

PaymentRoutes ==
  {"GetPaymentInfo", "SubmitReceipt", "GetReceipt", "VerifyReceipt", "GetReceiptFile"}

FileRoutes == {"InitUpload", "GetFileMeta"}

ProxyRoutes == {"Upload", "Download"}

Route == SignUpRoutes \cup UserRoutes \cup ScheduleRoutes \cup HomeworkRoutes
         \cup PaymentRoutes \cup FileRoutes \cup ProxyRoutes

OpenRoutes == SignUpRoutes \cup ProxyRoutes

CachedRoutes == {"GetMe", "GetUser", "GetTutorProfile", "GetTutorStudent"}

ASSUME RoutesAssumption == Routes \subseteq Route

-----------------------------------------------------------------------------
(* What a request can look like *)

WithBody ==
  {"SignUp", "UpdateUser", "UpdateTutorStudent", "CreateTutorStudent", "CreateSlot",
   "UpdateSlot", "CreateLesson", "UpdateLesson", "CreateAssignment", "UpdateAssignment",
   "CreateSubmission", "CreateFeedback", "UpdateFeedback", "SubmitReceipt", "InitUpload"}

userPathIds == UserRoutes \ {"GetMe", "CreateTutorStudent"}

schedulePathIds ==
  {"GetSlot", "UpdateSlot", "DeleteSlot", "ListSlotsByTutor", "GetLesson",
   "UpdateLesson", "CancelLesson"}

scheduleQueryIds == {"ListLessonsByTutor", "ListLessonsByStudent", "ListLessonsByPair"}

homeworkQueryIds ==
  {"ListAssignmentsByTutor", "ListAssignmentsByStudent", "ListAssignmentsByPair"}

homeworkPathIds ==
  {"UpdateAssignment", "DeleteAssignment", "GetAssignmentFile", "ListSubmissions",
   "ListFeedbacks", "GetSubmissionFile", "UpdateFeedback", "GetFeedbackFile"}

paymentPathIds == PaymentRoutes \ {"SubmitReceipt"}

BodyIds == {"CreateTutorStudent", "CreateLesson", "CreateAssignment", "CreateSubmission",
            "CreateFeedback", "SubmitReceipt", "InitUpload"}

WithId == userPathIds \cup schedulePathIds \cup scheduleQueryIds \cup homeworkQueryIds
          \cup homeworkPathIds \cup paymentPathIds \cup BodyIds \cup {"GetFileMeta"}

WithFileId == {"CreateAssignment", "UpdateAssignment", "CreateSubmission",
               "CreateFeedback", "UpdateFeedback", "SubmitReceipt"}

WithValue == {"SignUp", "UpdateTutorStudent", "CreateSlot", "UpdateSlot", "InitUpload",
              "Upload", "Download"}

\* Bodies that set nothing, and queries that name nobody.
MayBeEmpty == {"UpdateUser", "UpdateTutorStudent", "UpdateLesson", "SubmitReceipt",
               "ListLessonsByPair", "ListAssignmentsByPair"}

FormsOf(op) ==
  {f \in Form : CASE f = "good"      -> TRUE
                  [] f = "no_json"   -> op \in WithBody
                  [] f = "bad_id"    -> op \in WithId
                  [] f = "nil_id"    -> op \in PaymentRoutes
                  [] f = "bad_file"  -> op \in WithFileId
                  [] f = "bad_value" -> op \in WithValue
                  [] f = "clash"     -> op \in {"CreateSlot", "UpdateSlot"}
                  [] f = "empty"     -> op \in MayBeEmpty}

CallersOf(op) == IF op \in OpenRoutes THEN {"nobody"} ELSE Caller

\* The rows a request names or asks about.
NamedBy(op) ==
  CASE op \in {"SignUp", "GetUser"} -> {"person"}
    [] op = "CreateTutorStudent" -> {"person", "pair"}
    [] op \in {"GetTutorStudent", "UpdateTutorStudent", "DeleteTutorStudent",
               "AcceptInvitation", "ListSlotsByTutor", "ListLessonsByPair",
               "CreateAssignment"} -> {"pair"}
    [] op \in {"GetSlot", "CreateLesson"} -> {"slot", "pair"}
    [] op \in {"UpdateSlot", "DeleteSlot"} -> {"slot"}
    [] op \in {"GetLesson", "UpdateLesson", "CancelLesson", "GetPaymentInfo",
               "SubmitReceipt"} -> {"lesson", "slot"}
    [] op \in {"GetReceipt", "VerifyReceipt"} -> {"receipt"}
    [] op = "GetReceiptFile" -> {"receipt", "file"}
    [] op = "GetFileMeta" -> {"file"}
    [] op \in {"UpdateAssignment", "DeleteAssignment", "CreateSubmission",
               "ListSubmissions", "ListFeedbacks"} -> {"assignment"}
    [] op = "GetAssignmentFile" -> {"assignment", "file"}
    [] op = "CreateFeedback" -> {"assignment", "submission"}
    [] op = "GetSubmissionFile" -> {"assignment", "submission", "file"}
    [] op = "UpdateFeedback" -> {"assignment", "submission", "feedback"}
    [] op = "GetFeedbackFile" -> {"assignment", "submission", "feedback", "file"}
    [] OTHER -> {}

-----------------------------------------------------------------------------
(* The gateway *)

\* Everything but a refusal of permission is an internal error.
authMiddleware(r) ==
  Require(r.who # "nobody", "401")
  \o Through(Remote(RpcAuthorizeByAuthHeader(r)),
             LAMBDA e : IF e = "PermissionDenied" THEN "401" ELSE "500")

\* Mutant: a status that is not listed is passed on.
mapErrUnlisted(steps) ==
  Through(steps, LAMBDA e :
    CASE e = "InvalidArgument"  -> "400"
      [] e = "AlreadyExists"    -> "409"
      [] e = "PermissionDenied" -> "403"
      [] e = "NotFound"         -> "404"
      [] e = "Unauthenticated"  -> "401"
      [] OTHER                  -> e)

mapErr(steps) ==
  Through(steps, LAMBDA e :
    CASE e = "InvalidArgument"  -> "400"
      [] e = "AlreadyExists"    -> "409"
      [] e = "PermissionDenied" -> "403"
      [] e = "NotFound"         -> "404"
      [] e = "Unauthenticated"  -> "401"
      [] OTHER                  -> "500")

\* A body that does not parse is no bad request, but an error like any other.
Handle(r, rpc) ==
  Require(r.form # "no_json", "500") \o mapErr(Remote(rpc))

\* The callers whose request has the same key: it is made of the ids in the
\* path, for GetMe of the caller's own.  S asks for his own profile.
SameKey(r) ==
  CASE r.op = "GetMe" -> {r.who}
    [] r.op = "GetTutorProfile" /\ r.who = "student" -> {"student"}
    [] r.op = "GetTutorProfile" /\ r.who # "student" -> Caller \ {"student"}
    [] OTHER -> Caller

\* A hit is the end of the request, and no service is asked.  There is none
\* for a garbled id, and none when Redis fails or has dropped the entry.
CacheGet(r) ==
  <<[w \in World |-> {Done(w)} \cup
       IF r.form = "good" /\ w.cached \in SameKey(r) \ {"nobody"}
         THEN {Fails(w, "200")} ELSE {}]>>

HandleWithCache(r, rpc) == CacheGet(r) \o mapErr(Remote(rpc))

SignUpHandler(r) == Handle(r, RpcRegisterViaTelegram(r))

\* The body of UpdateTutorProfile is not parsed, so that it sets nothing.
UserHandler(r) ==
  CASE r.op = "GetMe" -> HandleWithCache(r, RpcGetMe(r))
    [] r.op = "GetUser" -> HandleWithCache(r, RpcGetUser(r))
    [] r.op = "UpdateUser" -> Handle(r, RpcUpdateUser(r))
    [] r.op = "GetTutorProfile" -> HandleWithCache(r, RpcGetTutorProfileByUserId(r))
    [] r.op = "UpdateTutorProfile" ->
         Handle(r, RpcUpdateTutorProfile([r EXCEPT !.form = IF @ = "good" THEN "empty" ELSE @]))
    [] r.op = "ListTutorStudentByTutor" -> Handle(r, RpcListTutorStudents(r))
    [] r.op = "ListTutorStudentByStudent" -> Handle(r, RpcListTutorsForStudent(r))
    [] r.op = "GetTutorStudent" -> HandleWithCache(r, RpcGetTutorStudent(r))
    [] r.op = "UpdateTutorStudent" -> Handle(r, RpcUpdateTutorStudent(r))
    [] r.op = "DeleteTutorStudent" -> Handle(r, RpcDeleteTutorStudent(r))
    [] r.op = "CreateTutorStudent" -> Handle(r, RpcCreateTutorStudent(r))
    [] r.op = "AcceptInvitation" -> Handle(r, RpcAcceptInvitationFromTutor(r))

\* A query that names neither a tutor nor a student.
parseListLessons(r) == Require(r.form # "empty", "400")

ListLessons(r) ==
  parseListLessons(r)
  \o CASE r.op = "ListLessonsByTutor" -> Handle(r, RpcListLessonsByTutor(r))
       [] r.op = "ListLessonsByStudent" -> Handle(r, RpcListLessonsByStudent(r))
       [] r.op = "ListLessonsByPair" -> Handle(r, RpcListLessonsByPair(r))

ScheduleHandler(r) ==
  CASE r.op = "CreateSlot" -> Handle(r, RpcCreateSlot(r))
    [] r.op = "GetSlot" -> Handle(r, RpcGetSlot(r))
    [] r.op = "UpdateSlot" -> Handle(r, RpcUpdateSlot(r))
    [] r.op = "DeleteSlot" -> Handle(r, RpcDeleteSlot(r))
    [] r.op = "ListSlotsByTutor" -> Handle(r, RpcListSlotsByTutor(r))
    [] r.op = "CreateLesson" -> Handle(r, RpcCreateLesson(r))
    [] r.op = "GetLesson" -> Handle(r, RpcGetLesson(r))
    [] r.op = "UpdateLesson" -> Handle(r, RpcUpdateLesson(r))
    [] r.op = "CancelLesson" -> Handle(r, RpcCancelLesson(r))
    [] OTHER -> ListLessons(r)

parseAssignmentQuery(r) == Require(r.form # "empty", "400")

\* What the query names is put into the context, not into the call.
ListAssignments(r) ==
  LET nameless == [r EXCEPT !.form = "bad_id"]
  IN  parseAssignmentQuery(r)
      \o CASE r.op = "ListAssignmentsByTutor" -> Handle(r, RpcListAssignmentsByTutor(nameless))
           [] r.op = "ListAssignmentsByStudent" ->
                Handle(r, RpcListAssignmentsByStudent(nameless))
           [] r.op = "ListAssignmentsByPair" -> Handle(r, RpcListAssignmentsByPair(nameless))

HomeworkHandler(r) ==
  CASE r.op = "CreateAssignment" -> Handle(r, RpcCreateAssignment(r))
    [] r.op = "UpdateAssignment" -> Handle(r, RpcUpdateAssignment(r))
    [] r.op = "DeleteAssignment" -> Handle(r, RpcDeleteAssignment(r))
    [] r.op = "GetAssignmentFile" -> Handle(r, RpcGetAssignmentFile(r))
    [] r.op = "ListSubmissions" -> Handle(r, RpcListSubmissionsByAssignment(r))
    [] r.op = "ListFeedbacks" -> Handle(r, RpcListFeedbacksByAssignment(r))
    [] r.op = "CreateSubmission" -> Handle(r, RpcCreateSubmission(r))
    [] r.op = "GetSubmissionFile" -> Handle(r, RpcGetSubmissionFile(r))
    [] r.op = "CreateFeedback" -> Handle(r, RpcCreateFeedback(r))
    [] r.op = "UpdateFeedback" -> Handle(r, RpcUpdateFeedback(r))
    [] r.op = "GetFeedbackFile" -> Handle(r, RpcGetFeedbackFile(r))
    [] OTHER -> ListAssignments(r)

PaymentHandler(r) ==
  CASE r.op = "GetPaymentInfo" -> Handle(r, RpcGetPaymentInfo(r))
    [] r.op = "SubmitReceipt" -> Handle(r, RpcSubmitPaymentReceipt(r))
    [] r.op = "GetReceipt" -> Handle(r, RpcGetReceipt(r))
    [] r.op = "VerifyReceipt" -> Handle(r, RpcVerifyReceipt(r))
    [] r.op = "GetReceiptFile" -> Handle(r, RpcGetReceiptFile(r))

FileHandler(r) ==
  CASE r.op = "InitUpload" -> Handle(r, RpcInitUpload(r))
    [] r.op = "GetFileMeta" -> Handle(r, RpcGetFileMeta(r))

\* The object store: it serves a presigned URL, refuses one that has expired
\* or was altered, has no object, or fails.
Minio(r) ==
  RoundTrip(LAMBDA w :
    {IF r.op = "Upload" THEN Wrote(w, "objects") ELSE Done(w)}
    \cup {Fails(w, e) : e \in {"403", "404"}})

\* Whatever the store answers is passed on.
proxyToMinio(r) ==
  Require(r.form # "bad_value", "400")
  \o Through(Minio(r), LAMBDA e : IF e = "down" THEN "502" ELSE e)

Program(r) ==
  CASE r.op \in SignUpRoutes   -> SignUpHandler(r)
    [] r.op \in UserRoutes     -> authMiddleware(r) \o UserHandler(r)
    [] r.op \in ScheduleRoutes -> authMiddleware(r) \o ScheduleHandler(r)
    [] r.op \in HomeworkRoutes -> authMiddleware(r) \o HomeworkHandler(r)
    [] r.op \in PaymentRoutes  -> authMiddleware(r) \o PaymentHandler(r)
    [] r.op \in FileRoutes     -> authMiddleware(r) \o FileHandler(r)
    [] r.op \in ProxyRoutes    -> proxyToMinio(r)

-----------------------------------------------------------------------------
(* Serving requests *)

VARIABLES
  op,        \* the route
  world,     \* the rows that requests of the route name
  request,   \* the request being served
  pc,        \* its next step, 0 when there is none
  answer,    \* its HTTP status, or "none"
  did,       \* the tables it has written
  seen,      \* the states each row has been in since the request came
  failed     \* whether a round trip of it failed

vars == <<op, world, request, pc, answer, did, seen, failed>>

Request == [op : Route, who : Caller, form : Form]

NoRequest == [op |-> op, who |-> "nobody", form |-> "good"]

\* The rows a route names are in any states they can be in together.  A lesson
\* has its slot, work has what it was handed in for, a pair has its users.
Varying(t, row, states, otherwise) == IF row \in t THEN states ELSE {otherwise}

Worlds(t) ==
  {w \in [person     : Varying(t, "person", RowState, "present"),
          pair       : Varying(t, "pair", PairState, "none"),
          slot       : Varying(t, "slot", SlotState, "none"),
          lesson     : Varying(t, "lesson", LessonState, "none"),
          receipt    : Varying(t, "receipt", RowState, "none"),
          file       : Varying(t, "file", RowState, "none"),
          assignment : Varying(t, "assignment", WorkState, "none"),
          submission : Varying(t, "submission", WorkState, "none"),
          feedback   : Varying(t, "feedback", WorkState, "none"),
          held       : {"none"},
          cached     : {"nobody"}] :
     /\ w.pair # "none" => w.person = "present"
     /\ w.lesson # "none" => w.slot \in {"booked", "used"}
     /\ w.submission # "none" => w.assignment # "none"
     /\ w.feedback # "none" => w.submission # "none"}

Init ==
  /\ op \in Routes
  /\ world \in Worlds(NamedBy(op))
  /\ request = NoRequest
  /\ pc = 0
  /\ answer = "none"
  /\ did = {}
  /\ seen = [t \in Table |-> {}]
  /\ failed = FALSE

\* S has a row; who comes with no credentials may have none yet.
Arrive ==
  /\ pc = 0
  /\ \E who \in CallersOf(op), form \in FormsOf(op) :
       /\ who = "student" => world.person = "present"
       /\ request' = [op |-> op, who |-> who, form |-> form]
  /\ pc' = 1
  /\ seen' = [t \in Table |-> {world[t]}]
  /\ UNCHANGED <<op, world, answer, did, failed>>

Watched(w) == [t \in Table |-> seen[t] \cup {w[t]}]

\* The next step is made, and its error, if any, is the answer; that of a hit
\* in the cache is no error.
Step ==
  /\ pc > 0
  /\ answer = "none"
  /\ LET program == Program(request)
     IN  \E o \in program[pc][world] :
           /\ world' = o.world
           /\ did' = did \cup o.did
           /\ failed' = (failed \/ o.down)
           /\ seen' = Watched(o.world)
           /\ \/ /\ o.err # "ok"
                 /\ answer' = o.err
                 /\ pc' = pc
              \/ /\ o.err = "ok"
                 /\ pc = Len(program)
                 /\ answer' = "200"
                 /\ pc' = pc
              \/ /\ o.err = "ok"
                 /\ pc < Len(program)
                 /\ answer' = answer
                 /\ pc' = pc + 1
  /\ UNCHANGED <<op, request>>

\* What the statements of other requests write, of these rows.
OtherWrites ==
  LET r == [op |-> op, who |-> "tutor", form |-> "good"]
  IN  DbRegister \o DbCreateTutorStudent \o DbUpdateTutorStudent(r, {"invited", "active"})
      \o DbDeleteTutorStudent(r) \o DbDeleteSlot \o DbCreateLessonAndBookSlot
      \o DbUpdateLesson \o DbCancelLessonAndFreeSlot \o DbMarkAsPaid
      \o DbUpdateAssignment \o DbDeleteAssignment \o DbUpdateFeedback

Others ==
  /\ pc > 0
  /\ answer = "none"
  /\ \E i \in DOMAIN OtherWrites, held \in {"unpaid", "paid"} :
       \E o \in OtherWrites[i][[world EXCEPT !.held = held]] :
         /\ o.err = "ok"
         /\ \A t \in Table \ NamedBy(op) : o.world[t] = world[t]
         /\ world' = [o.world EXCEPT !.held = world.held]
         /\ world' # world
         /\ seen' = Watched(o.world)
  /\ UNCHANGED <<op, request, pc, answer, did, failed>>

\* The answer is on its way when it is stored, if it is.
CacheSet ==
  /\ op \in CachedRoutes
  /\ answer = "200"
  /\ pc = Len(Program(request))
  /\ world' = [world EXCEPT !.cached = request.who]
  /\ UNCHANGED <<op, request, pc, answer, did, seen, failed>>

Leave ==
  /\ answer # "none"
  /\ world' = [world EXCEPT !.held = "none"]
  /\ request' = NoRequest
  /\ pc' = 0
  /\ answer' = "none"
  /\ did' = {}
  /\ seen' = [t \in Table |-> {}]
  /\ failed' = FALSE
  /\ UNCHANGED op

Next == Arrive \/ Step \/ Others \/ CacheSet \/ Leave

Spec == Init /\ [][Next]_vars

-----------------------------------------------------------------------------
(* Properties *)

Refusals == {"400", "401", "403", "404", "409"}

\* Statuses, steps and rows are what they are meant to be.
TypeOK ==
  /\ op \in Routes
  /\ world \in World
  /\ request \in Request
  /\ pc \in 0 .. Len(Program(request))
  /\ answer \in Refusals \cup {"none", "200", "500", "502"}
  /\ did \subseteq {"users", "tutor_profiles", "tutor_students", "slots", "lessons",
                    "receipts", "files", "assignments", "submissions", "feedbacks",
                    "objects"}
  /\ seen \in [Table -> SUBSET (RowState \cup PairState \cup SlotState \cup LessonState
                                \cup WorkState)]
  /\ failed \in BOOLEAN

\* Who may ask, as the services document it.  Anyone with an account may see
\* users and what is known of a file.
Account == Caller \ {"nobody", "unknown"}

Entitled(o) ==
  CASE o \in OpenRoutes -> {"nobody"}
    [] o \in {"GetMe", "GetUser", "InitUpload", "GetFileMeta"} -> Account
    [] o \in {"GetTutorProfile", "UpdateTutorProfile", "ListTutorStudentByTutor",
              "UpdateTutorStudent", "DeleteTutorStudent", "CreateTutorStudent",
              "CreateSlot", "UpdateSlot", "DeleteSlot", "ListLessonsByTutor",
              "UpdateLesson", "CreateAssignment", "UpdateAssignment", "DeleteAssignment",
              "CreateFeedback", "UpdateFeedback", "ListAssignmentsByTutor",
              "VerifyReceipt"} -> {"tutor"}
    [] o \in {"ListTutorStudentByStudent", "AcceptInvitation", "ListLessonsByStudent",
              "CreateSubmission", "SubmitReceipt", "ListAssignmentsByStudent",
              "GetPaymentInfo"} -> {"student"}
    [] OTHER -> Participants

\* Whom the services let by: on five routes they ask for less.
Admitted(o) ==
  CASE o \in {"GetReceipt", "GetReceiptFile", "GetAssignmentFile"} -> Account
    [] o = "VerifyReceipt" -> {"tutor", "other_tutor"}
    [] o = "GetPaymentInfo" -> Participants
    [] OTHER -> Entitled(o)

\* The request ended at a hit in the cache.
FromCache == answer = "200" /\ pc < Len(Program(request))

\* The states of a row it names in which the request can be served.
Needed(r, t) ==
  CASE t = "person" -> IF r.op = "SignUp" THEN {"none"} ELSE {"present"}
    [] t = "pair" ->
         CASE r.op = "CreateTutorStudent" -> {"none"}
           [] r.op \in UserRoutes \ {"CreateTutorStudent"} -> {"invited", "active"}
           [] r.op \in {"GetSlot", "ListSlotsByTutor"} /\ r.who = "tutor" -> PairState
           [] OTHER -> {"active"}
    [] t = "slot" ->
         CASE r.op \in {"CreateLesson", "DeleteSlot"} -> {"free"}
           [] r.op = "UpdateSlot" -> {"free", "used"}
           [] r.op = "GetSlot" -> SlotState \ {"none"}
           [] OTHER -> SlotState
    [] t = "lesson" -> IF r.op = "SubmitReceipt" THEN {"unpaid"} ELSE {"unpaid", "paid"}
    [] t \in {"receipt", "file"} -> {"present"}
    [] <<t, r.op>> \in {<<"assignment", "GetAssignmentFile">>,
                        <<"submission", "GetSubmissionFile">>,
                        <<"feedback", "GetFeedbackFile">>} -> {"filed"}
    [] OTHER -> {"bare", "filed"}

\* The states a named row was in, while the request ran, that it cannot use.
Hindered(t) == IF t \in NamedBy(op) THEN seen[t] \ Needed(request, t) ELSE {}

\* The tables a request that is served has written.
Promised(r) ==
  CASE r.op \in {"SignUp", "UpdateUser"} -> {"users"}
    [] r.op = "UpdateTutorProfile" -> {"tutor_profiles"}
    [] r.op \in {"CreateTutorStudent", "UpdateTutorStudent", "DeleteTutorStudent",
                 "AcceptInvitation"} -> {"tutor_students"}
    [] r.op \in {"CreateSlot", "UpdateSlot", "DeleteSlot"} -> {"slots"}
    [] r.op \in {"CreateLesson", "CancelLesson"} -> {"lessons"}
    [] r.op = "UpdateLesson" -> IF r.form = "empty" THEN {} ELSE {"lessons"}
    [] r.op = "SubmitReceipt" -> {"receipts", "lessons"}
    [] r.op = "VerifyReceipt" -> {"receipts"}
    [] r.op \in {"CreateAssignment", "UpdateAssignment", "DeleteAssignment"} -> {"assignments"}
    [] r.op = "CreateSubmission" -> {"submissions"}
    [] r.op \in {"CreateFeedback", "UpdateFeedback"} -> {"feedbacks"}
    [] r.op = "InitUpload" -> {"files"}
    [] r.op = "Upload" -> {"objects"}
    [] OTHER -> {}

\* A request that is refused has changed nothing in any service, however many
\* of them it went through before the refusal.
RefusedHasNoEffect == answer \in Refusals => did = {}

\* A request that is served has written what it was for, in every service it
\* takes: no layer loses an error of the layer below it.
SuccessTookEffect == answer = "200" => did = Promised(request)

\* A service answers those it lets by and nobody else, and only when each row
\* the request relies on was, at some moment since it came, as it has to be: a
\* pair active, a slot not booked, a lesson not paid.
SuccessHadItsRows ==
  answer = "200" /\ ~FromCache =>
    /\ request.who \in Admitted(op)
    /\ \A t \in NamedBy(op) : seen[t] \cap Needed(request, t) # {}

\* What the cache answers a service has answered before, to somebody who may
\* have it; who asks now has an account, which is all that is looked at, except
\* that nobody gets the GetMe of another.
CachedAnswerWasGranted ==
  FromCache =>
    /\ world.cached \in Entitled(op)
    /\ request.who \in Account
    /\ op = "GetMe" => request.who = world.cached

\* The status says truly why a request was refused, through three layers of
\* translation: 400 for what the client wrote, 401 for no credentials, 403 and
\* 404 and 409 for who he is or for a row that stood in the way meanwhile.
RefusalHasCause ==
  op \notin ProxyRoutes \cup homeworkQueryIds =>
    /\ answer = "400" => request.form # "good"
    /\ answer = "401" => request.who \in {"nobody", "unknown"}
    /\ answer = "403" => \/ request.who \notin Admitted(op)
                         \/ Hindered("pair") # {}
                         \/ failed
                         \/ request.form = "bad_id"
    /\ answer = "404" => \/ request.who \notin Admitted(op)
                         \/ \E t \in Table : "none" \in Hindered(t)
    /\ answer = "409" => \E t \in Table : Hindered(t) \ {"none"} # {}

\* A well-formed request of somebody entitled, whose rows were all the time as
\* they have to be, is served unless something fails, whatever others do.
GoodRequestSucceeds ==
  (/\ answer # "none"
   /\ request.form = "good"
   /\ request.who \in Entitled(op)
   /\ \A t \in Table : Hindered(t) = {}
   /\ ~failed
   /\ op \notin ProxyRoutes \cup homeworkQueryIds \cup {"UpdateTutorProfile"})
  => answer = "200"

\* The description of the API has a 200 for the list of assignments by tutor,
\* by student and by pair (OpenAPI.yml), which no request gets.
AssignmentsCanBeListed ==
  (/\ op \in homeworkQueryIds
   /\ request.who \in Entitled(op)
   /\ request.form = "good"
   /\ ~failed)
  => answer \in {"none", "200"}
=============================================================================
