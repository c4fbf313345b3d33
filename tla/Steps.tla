------------------------------- MODULE Steps -------------------------------
(***************************************************************************)
(* How the code that serves a request is written down: as a sequence of    *)
(* steps, one per round trip to a database or a service, made by the same  *)
(* layers as the code.  A step maps the state of the rows the request      *)
(* names to the outcomes the round trip can have there.                    *)
(*                                                                         *)
(* The request names one row of each table it concerns.  T is the tutor,   *)
(* S the student those rows belong to; a call of another service is the    *)
(* callee's steps, with its error seen through the caller's translation.   *)
(***************************************************************************)
EXTENDS Naturals, Sequences

\* T, S, a tutor and a student who have nothing to do with them, a request
\* without credentials, and one whose credentials name no user.
Caller == {"tutor", "student", "other_tutor", "other_student", "nobody", "unknown"}

Participants == {"tutor", "student"}

\* What can become of a row somebody has the id of.
PairState   == {"none", "invited", "active"}
SlotState   == {"none", "free", "booked", "used"}
LessonState == {"none", "unpaid", "paid"}
WorkState   == {"none", "bare", "filed"}
RowState    == {"none", "present"}

\* person is S; a used slot is free again but has its cancelled lesson; work
\* is filed when its row has the id of a file.  A row with an id of its own is
\* named by those who were told the id, so that none comes into being under it.
\* held is what the request has read of the lesson, cached who got the answer
\* that the gateway's cache has for the rows, "nobody" when it has none.
World == [person : RowState, pair : PairState, slot : SlotState,
          lesson : LessonState, receipt : RowState, file : RowState,
          assignment : WorkState, submission : WorkState, feedback : WorkState,
          held : LessonState, cached : Caller]

Table == {"person", "pair", "slot", "lesson", "receipt", "file",
          "assignment", "submission", "feedback"}

\* What is wrong with a request: its body is no JSON, it lacks or garbles an
\* id, an id is the nil UUID, the id of a file is garbled, a value is refused
\* (times, status, extension, role), the times are taken, or it sets nothing.
Form == {"good", "no_json", "bad_id", "nil_id", "bad_file", "bad_value",
         "clash", "empty"}

-----------------------------------------------------------------------------
\* One outcome: the rows, the error, the tables written, and whether the
\* round trip failed instead of being refused.
Done(w) == [world |-> w, err |-> "ok", did |-> {}, down |-> FALSE]

Fails(w, e) == [Done(w) EXCEPT !.err = e]

Wrote(w, t) == [Done(w) EXCEPT !.did = {t}]

\* A round trip is not made, or is made and its answer lost, or is answered.
Lost(outcomes, e) == {[o EXCEPT !.err = e, !.down = TRUE] : o \in outcomes}

RoundTrip(Outcomes(_)) ==
  <<[w \in World |-> Outcomes(w) \cup Lost(Outcomes(w) \cup {Done(w)}, "down")]>>

\* A SELECT for a row, and one for a list.
Select(IsThere(_), e) ==
  RoundTrip(LAMBDA w : {IF IsThere(w) THEN Done(w) ELSE Fails(w, e)})

SelectAll == RoundTrip(LAMBDA w : {Done(w)})

\* An if on what the request holds.
Require(holds, e) == IF holds THEN <<>> ELSE <<[w \in World |-> {Fails(w, e)}]>>

\* An if on what the last of the steps read, which is as old as that.
Tested(steps, Holds(_), e) ==
  [i \in DOMAIN steps |-> [w \in World |->
     {IF i = Len(steps) /\ o.err = "ok" /\ ~Holds(o.world) THEN Fails(o.world, e) ELSE o :
        o \in steps[i][w]}]]

\* What a layer makes of the errors of the one below it.
Through(steps, Translate(_)) ==
  [i \in DOMAIN steps |-> [w \in World |->
     {[o EXCEPT !.err = IF @ = "ok" THEN @ ELSE Translate(@)] : o \in steps[i][w]}]]

\* A layer that has one error for all of them.
Becomes(steps, e) == Through(steps, LAMBDA any : e)

\* An id or a value that a handler parses.
Parsed(r, wrong) == Require(r.form # wrong, "InvalidArgument")

\* A remote call: it does not get through, or the callee's steps follow.  Its
\* answer is lost where the callee's own last answer is.
Remote(steps) ==
  <<[w \in World |-> {Done(w)} \cup Lost({Done(w)}, "Unavailable")]>> \o steps
=============================================================================
