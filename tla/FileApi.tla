------------------------------ MODULE FileApi ------------------------------
(***************************************************************************)
(* The file service, call by call: repository, service, gRPC handler.      *)
(* Presigning is arithmetic on the store's keys and makes no round trip,   *)
(* but it may fail, after InitUpload has written the file's row.           *)
(***************************************************************************)
EXTENDS Steps

DbCreateFile == RoundTrip(LAMBDA w : {Wrote(w, "files")})

DbGetFile == Select(LAMBDA w : w.file = "present", "no_rows")

-----------------------------------------------------------------------------
(* Service *)

Presign == <<[w \in World |-> {Done(w), [Fails(w, "presign") EXCEPT !.down = TRUE]}]>>

generateUploadURL == Presign

generateDownloadURL == Presign

AllowedExtension(r) == r.form # "bad_value"

SvcInitUpload(r) ==
  Require(AllowedExtension(r), "ErrValidation") \o DbCreateFile \o generateUploadURL

FileNotFound(steps) ==
  Through(steps, LAMBDA e : IF e = "no_rows" THEN "ErrNotFound" ELSE e)

SvcGenerateDownloadURL == FileNotFound(DbGetFile) \o generateDownloadURL

SvcGetFileMeta == FileNotFound(DbGetFile)

-----------------------------------------------------------------------------
(* Handler *)

FileStatusOf(e) ==
  CASE e = "ErrValidation" -> "InvalidArgument"
    [] e = "ErrNotFound"   -> "NotFound"

fileMapError(steps, possible) ==
  Through(steps, LAMBDA e : IF e \in possible THEN FileStatusOf(e) ELSE "Internal")

RpcInitUpload(r) == Parsed(r, "bad_id") \o fileMapError(SvcInitUpload(r), {"ErrValidation"})

RpcGenerateDownloadURL(r) ==
  Parsed(r, "bad_file")
  \o fileMapError(SvcGenerateDownloadURL, {"ErrNotFound"})

RpcGetFileMeta(r) ==
  Parsed(r, "bad_id")
  \o fileMapError(SvcGetFileMeta, {"ErrNotFound"})
=============================================================================
