---------------------------- MODULE HomeworkApi ----------------------------
(***************************************************************************)
(* The homework service, call by call: repositories, services, clients,    *)
(* gRPC handler.  The assignment named is T's for S; the submission and    *)
(* the feedback named are of that assignment and go with it.  Errors a     *)
(* layer makes up with errors.New are written as their text.               *)
(***************************************************************************)
EXTENDS UserApi, FileApi

-----------------------------------------------------------------------------
(* Repositories *)

DbCreateAssignment == RoundTrip(LAMBDA w : {Wrote(w, "assignments")})

DbGetAssignment == Select(LAMBDA w : w.assignment # "none", "ErrNotFound")

\* The whole row is written; its file is the one it had or another.
DbUpdateAssignment ==
  RoundTrip(LAMBDA w :
    IF w.assignment = "none" THEN {Fails(w, "assignment not found")}
    ELSE {Wrote([w EXCEPT !.assignment = s], "assignments") : s \in {"bare", "filed"}})

DbDeleteAssignment ==
  RoundTrip(LAMBDA w :
    {IF w.assignment = "none" THEN Fails(w, "ErrNotFound")
     ELSE Wrote([w EXCEPT !.assignment = "none", !.submission = "none",
                          !.feedback = "none"], "assignments")})

DbListAssignments == SelectAll

\* A foreign key refuses a row whose parent went away meanwhile.
DbCreateSubmission ==
  RoundTrip(LAMBDA w :
    {IF w.assignment = "none" THEN Fails(w, "foreign_key") ELSE Wrote(w, "submissions")})

DbGetSubmission == Select(LAMBDA w : w.submission # "none", "ErrNotFound")

DbListSubmissions == SelectAll

DbCreateFeedback ==
  RoundTrip(LAMBDA w :
    {IF w.submission = "none" THEN Fails(w, "foreign_key") ELSE Wrote(w, "feedbacks")})

DbGetFeedback == Select(LAMBDA w : w.feedback # "none", "ErrNotFound")

DbUpdateFeedback ==
  RoundTrip(LAMBDA w :
    IF w.feedback = "none" THEN {Fails(w, "ErrNotFound")}
    ELSE {Wrote([w EXCEPT !.feedback = s], "feedbacks") : s \in {"bare", "filed"}})

DbListFeedbacks == SelectAll

-----------------------------------------------------------------------------
(* Clients; a retried read is its last attempt. *)

IsPair(r) ==
  Through(Tested(Remote(RpcGetTutorStudent(r)), LAMBDA w : PairOf(w, r) = "active",
                 "not a tutor-student pair"),
          LAMBDA e : IF e = "NotFound" THEN "not a tutor-student pair" ELSE e)

\* The id of a file kept in a row is a well-formed one.
GetFileURL(r) == Remote(RpcGenerateDownloadURL(r))

-----------------------------------------------------------------------------
(* Services *)

Belongs(steps, r, callers) ==
  Tested(steps, LAMBDA w : r.who \in callers, "ErrPermissionDenied")

Renamed(steps, from, to) == Through(steps, LAMBDA e : IF e = from THEN to ELSE e)

SvcCreateAssignment(r) ==
  Require(Role(r) = "tutor", "permission denied") \o IsPair(r) \o DbCreateAssignment

SvcGetAssignment(r) == Belongs(DbGetAssignment, r, Participants)

SvcUpdateAssignment(r) == Require(r.who = "tutor", "ErrPermissionDenied") \o DbUpdateAssignment

SvcDeleteAssignment(r) == Belongs(DbGetAssignment, r, {"tutor"}) \o DbDeleteAssignment

SvcListAssignmentsByTutor(r) == Require(r.who = "tutor", "ErrPermissionDenied") \o DbListAssignments

SvcListAssignmentsByStudent(r) ==
  Require(r.who = "student", "ErrPermissionDenied") \o DbListAssignments

SvcListAssignmentsByPair(r) ==
  Require(r.who \in Participants, "ErrPermissionDenied") \o DbListAssignments

SvcGetAssignmentFileURL(r) ==
  Tested(DbGetAssignment, LAMBDA w : w.assignment = "filed", "ErrFileNotFound") \o GetFileURL(r)

SvcCreateSubmission(r) == Belongs(DbGetAssignment, r, {"student"}) \o DbCreateSubmission

SvcListSubmissionsByAssignment(r) ==
  Belongs(DbGetAssignment, r, Participants) \o DbListSubmissions

\* A submission stays as it was read for as long as its assignment is there.
SvcGetSubmissionFileURL(r) ==
  DbGetSubmission
  \o Tested(Belongs(DbGetAssignment, r, Participants),
            LAMBDA w : w.submission = "filed", "ErrFileNotFound")
  \o GetFileURL(r)

SvcCreateFeedback(r) ==
  Require(Role(r) = "tutor", "ErrPermissionDenied")
  \o Renamed(DbGetSubmission, "ErrNotFound", "ErrSubmissionNotFound")
  \o Belongs(Renamed(DbGetAssignment, "ErrNotFound", "ErrAssignmentNotFound"), r, {"tutor"})
  \o DbCreateFeedback

\* A tutor who is not T, a student who is not S.
SvcGetFeedback(r) ==
  DbGetFeedback \o DbGetSubmission \o Belongs(DbGetAssignment, r, Participants)

SvcUpdateFeedback(r) ==
  Require(Role(r) = "tutor", "ErrPermissionDenied")
  \o Renamed(DbGetFeedback, "ErrNotFound", "ErrFeedbackNotFound")
  \o DbGetSubmission \o Belongs(DbGetAssignment, r, {"tutor"}) \o DbUpdateFeedback

SvcListFeedbacksByAssignment(r) ==
  Belongs(DbGetAssignment, r, Participants) \o DbListFeedbacks

SvcGetFeedbackFileURL(r) ==
  Tested(DbGetFeedback, LAMBDA w : w.feedback = "filed", "ErrFileNotFound")
  \o DbGetSubmission \o Belongs(DbGetAssignment, r, Participants) \o GetFileURL(r)

-----------------------------------------------------------------------------
(* Handler *)

toGRPCError(steps) ==
  Through(steps, LAMBDA e :
    CASE e = "ErrNotFound"         -> "NotFound"
      [] e = "ErrPermissionDenied" -> "PermissionDenied"
      [] e = "ErrInvalidArgument"  -> "InvalidArgument"
      [] OTHER                     -> "Internal")

RpcCreateAssignment(r) ==
  Parsed(r, "bad_id") \o Parsed(r, "bad_file") \o toGRPCError(SvcCreateAssignment(r))

\* The file's id is parsed after the first read, the row written as it was read.
RpcUpdateAssignment(r) ==
  Parsed(r, "bad_id") \o toGRPCError(SvcGetAssignment(r)) \o Parsed(r, "bad_file")
  \o toGRPCError(SvcUpdateAssignment(r))

RpcDeleteAssignment(r) == Parsed(r, "bad_id") \o toGRPCError(SvcDeleteAssignment(r))

RpcListAssignmentsByTutor(r) == Parsed(r, "bad_id") \o toGRPCError(SvcListAssignmentsByTutor(r))

RpcListAssignmentsByStudent(r) ==
  Parsed(r, "bad_id") \o toGRPCError(SvcListAssignmentsByStudent(r))

RpcListAssignmentsByPair(r) == Parsed(r, "bad_id") \o toGRPCError(SvcListAssignmentsByPair(r))

RpcCreateSubmission(r) ==
  Parsed(r, "bad_id") \o Parsed(r, "bad_file") \o toGRPCError(SvcCreateSubmission(r))

RpcListSubmissionsByAssignment(r) ==
  Parsed(r, "bad_id") \o toGRPCError(SvcListSubmissionsByAssignment(r))

RpcCreateFeedback(r) ==
  Parsed(r, "bad_id") \o Parsed(r, "bad_file") \o toGRPCError(SvcCreateFeedback(r))

RpcUpdateFeedback(r) ==
  Parsed(r, "bad_id") \o toGRPCError(SvcGetFeedback(r)) \o Parsed(r, "bad_file")
  \o toGRPCError(SvcUpdateFeedback(r))

RpcListFeedbacksByAssignment(r) ==
  Parsed(r, "bad_id") \o toGRPCError(SvcListFeedbacksByAssignment(r))

RpcGetAssignmentFile(r) == Parsed(r, "bad_id") \o toGRPCError(SvcGetAssignmentFileURL(r))

RpcGetSubmissionFile(r) == Parsed(r, "bad_id") \o toGRPCError(SvcGetSubmissionFileURL(r))

RpcGetFeedbackFile(r) == Parsed(r, "bad_id") \o toGRPCError(SvcGetFeedbackFileURL(r))
=============================================================================
