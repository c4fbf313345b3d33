---------------------------- MODULE PaymentApi ----------------------------
(***************************************************************************)
(* The payment service, call by call: repository, service, gRPC handler.   *)
(* The receipt named is one of the lesson named.  The attempts of a        *)
(* retried call are one call here: it reads, or marks what it has marked;  *)
(* the errors of the receipts' database are not retried.                   *)
(***************************************************************************)
EXTENDS ScheduleApi, FileApi

DbCreateReceipt == Statement(LAMBDA w : {Wrote(w, "receipts")})

DbGetReceiptByID == Statement(LAMBDA w :
  {IF w.receipt = "present" THEN Done(w) ELSE Fails(w, "no_rows")})

\* Two statements: the UPDATE of no row is no error, the SELECT finds none.
DbUpdateReceipt ==
  Statement(LAMBDA w : {IF w.receipt = "present" THEN Wrote(w, "receipts") ELSE Done(w)})
  \o DbGetReceiptByID

-----------------------------------------------------------------------------
(* Service.  The statuses of the services it calls are errors like others.   *)

requireRole(r, role) == Require(Role(r) = role, "ErrPermissionDenied")

NotNil(r) == Require(r.form # "nil_id", "ErrInvalidArgument")

\* Mutant: the receipt is stored before the lesson is looked at.
SvcStoreReceiptFirst(r) ==
  requireRole(r, "student") \o NotNil(r) \o DbCreateReceipt
  \o Tested(Remote(RpcGetLesson(r)), LAMBDA w : w.held # "paid", "ErrAlreadyExists")
  \o Remote(RpcMarkAsPaid(r))

\* Nothing undoes the receipt when the lesson cannot be marked.
SvcSubmitPaymentReceipt(r) ==
  requireRole(r, "student") \o NotNil(r)
  \o Tested(Remote(RpcGetLesson(r)), LAMBDA w : w.held # "paid", "ErrAlreadyExists")
  \o DbCreateReceipt \o Remote(RpcMarkAsPaid(r))

SvcGetPaymentInfo(r) == NotNil(r) \o Remote(RpcGetLesson(r))

SvcGetReceipt(r) == NotNil(r) \o DbGetReceiptByID

SvcVerifyReceipt(r) == requireRole(r, "tutor") \o NotNil(r) \o DbUpdateReceipt

SvcGetReceiptFile(r) ==
  NotNil(r) \o DbGetReceiptByID \o Remote(RpcGenerateDownloadURL(r))

-----------------------------------------------------------------------------
(* Handler *)

PaymentStatusOf(e) ==
  CASE e = "ErrNotFound"         -> "NotFound"
    [] e = "ErrPermissionDenied" -> "PermissionDenied"
    [] e = "ErrInvalidArgument"  -> "InvalidArgument"
    [] e = "ErrAlreadyExists"    -> "AlreadyExists"

paymentMapError(steps, possible) ==
  Through(steps, LAMBDA e : IF e \in possible THEN PaymentStatusOf(e) ELSE "Internal")

RpcGetPaymentInfo(r) ==
  Parsed(r, "bad_id") \o paymentMapError(SvcGetPaymentInfo(r), {"ErrNotFound"})

\* A body without the ids is dereferenced all the same: the call panics.
RpcSubmitPaymentReceipt(r) ==
  Require(r.form # "empty", "Unavailable") \o Parsed(r, "bad_id") \o Parsed(r, "bad_file")
  \o paymentMapError(SvcSubmitPaymentReceipt(r),
                     {"ErrNotFound", "ErrPermissionDenied", "ErrInvalidArgument",
                      "ErrAlreadyExists"})

RpcGetReceipt(r) ==
  Parsed(r, "bad_id")
  \o paymentMapError(SvcGetReceipt(r), {"ErrNotFound", "ErrPermissionDenied"})

RpcVerifyReceipt(r) ==
  Parsed(r, "bad_id")
  \o paymentMapError(SvcVerifyReceipt(r), {"ErrNotFound", "ErrPermissionDenied"})

RpcGetReceiptFile(r) ==
  Parsed(r, "bad_id")
  \o paymentMapError(SvcGetReceiptFile(r),
                     {"ErrNotFound", "ErrInvalidArgument", "ErrPermissionDenied"})
=============================================================================
