--------------------------- MODULE RefusalsProofs ---------------------------
(***************************************************************************)
(* Proofs about the answers of Requests, for any set of routes: a refusal  *)
(* tells the truth, and a request that may be served is not refused.       *)
(*                                                                         *)
(* To what RequestsProofs says of the steps of a request one judgement is  *)
(* added, that an error comes only for the reason it says (Honest).  It is *)
(* carried through the same layers, from the statements over the handlers  *)
(* of the services to the routes (EveryRequestTells).  A translation that  *)
(* gives an error another meaning needs that of the steps below it which   *)
(* the new meaning takes (Barring).                                        *)
(***************************************************************************)
EXTENDS RequestsProofs

-----------------------------------------------------------------------------
(* What an error says *)

\* The errors of all layers that mean the same to whoever sees them; the other
\* errors only say that there is a reason.
WrongForm     == {"400", "InvalidArgument", "ErrValidation", "ErrInvalidArgument"}
NoCredentials == {"401", "Unauthenticated", "ErrAuthentication"}
NotAllowed    == {"403", "PermissionDenied", "ErrPermissionDenied"}
Absent        == {"404", "NotFound", "ErrNotFound", "no_rows", "ErrSlotNotFound",
                  "ErrLessonNotFound"}
Occupied      == {"409", "AlreadyExists", "ErrAlreadyExists", "unique"}

\* Any other error.
Plain(e) == e \notin WrongForm \cup NoCredentials \cup NotAllowed \cup Absent \cup Occupied

\* The states of its row of t that a step from w to o has met or has read.
Met(w, o, t) ==
  {w[t], o.world[t]} \cup IF t = "lesson" THEN {w.held, o.world.held} \ {"none"} ELSE {}

\* Those of them the request cannot use.
Hurdles(r, w, o, t) == IF t \in NamedBy(r.op) THEN Met(w, o, t) \ Needed(r, t) ELSE {}

Outsider(r) == r.who \notin Admitted(r.op)

\* Its form is refused.  The form of UpdateTutorProfile is emptied on the way.
Garbled(r) == r.form # "good" /\ (r.op = "UpdateTutorProfile" => r.form # "empty")

\* Some reason not to serve the request.
Excuse(r, w, o) ==
  \/ Outsider(r)
  \/ r.form # "good"
  \/ r.op = "UpdateTutorProfile"
  \/ Down(o)
  \/ \E t \in Table : Hurdles(r, w, o, t) # {}

\* A reason to forbid it.
Bar(r, w, o) ==
  \/ Outsider(r)
  \/ Hurdles(r, w, o, "pair") # {}
  \/ Down(o)
  \/ r.form = "bad_id"

\* What the error e of a step from w to o says about the request.
Says(r, e, w, o) ==
  /\ Excuse(r, w, o)
  /\ e \in WrongForm => Garbled(r)
  /\ e \in NoCredentials => r.who \in {"nobody", "unknown"}
  /\ e \in NotAllowed => Bar(r, w, o)
  /\ e \in Absent => Outsider(r) \/ \E t \in Table : "none" \in Hurdles(r, w, o, t)
  /\ e \in Occupied => \E t \in Table : Hurdles(r, w, o, t) \ {"none"} # {}

\* Steps that end with an error only for a reason,
Excused(r, p) ==
  /\ p \in Code
  /\ \A w, o : Yields(p, w, o) /\ o.err # "ok" /\ Sound(w) => Excuse(r, w, o)

\* only for a reason to forbid what is asked,
Barring(r, p) ==
  /\ p \in Code
  /\ \A w, o : Yields(p, w, o) /\ o.err # "ok" /\ Sound(w) => Bar(r, w, o)

\* only for the reason the error says.
Honest(r, p) ==
  /\ p \in Code
  /\ \A w, o : Yields(p, w, o) /\ o.err # "ok" /\ Sound(w) => Says(r, o.err, w, o)

\* A translation that invents no meaning.
Faithful(G) ==
  /\ G \in Translation
  /\ \A e \in Error :
       /\ G[e] \in WrongForm => e \in WrongForm
       /\ G[e] \in NoCredentials => e \in NoCredentials
       /\ G[e] \in NotAllowed => e \in NotAllowed
       /\ G[e] \in Absent => e \in Absent
       /\ G[e] \in Occupied => e \in Occupied

\* No error means two things, and these mean nothing in particular.
LEMMA Meanings ==
  /\ \A e \in WrongForm : e \notin NoCredentials \cup NotAllowed \cup Absent \cup Occupied
  /\ \A e \in NoCredentials : e \notin NotAllowed \cup Absent \cup Occupied
  /\ \A e \in NotAllowed : e \notin Absent \cup Occupied
  /\ \A e \in Absent : e \notin Occupied
  /\ \A e \in Fatal : Plain(e)
  /\ \A e \in {"Unavailable", "FailedPrecondition", "ErrNoFieldsToUpdate", "ErrFileNotFound",
               "ErrSubmissionNotFound", "ErrAssignmentNotFound", "ErrFeedbackNotFound",
               "assignment not found", "permission denied", "no_pair", "unverified",
               "not a tutor-student pair", "foreign_key", "transaction"} : Plain(e)
  BY DEF WrongForm, NoCredentials, NotAllowed, Absent, Occupied, Plain, Fatal

\* A translated outcome meets what the outcome met.
LEMMA SameReasons ==
  ASSUME NEW r, NEW w, NEW o, NEW o2, o.world = o2.world, Down(o2) => Down(o)
  PROVE  /\ \A t : Hurdles(r, w, o, t) = Hurdles(r, w, o2, t)
         /\ Excuse(r, w, o2) => Excuse(r, w, o)
         /\ Bar(r, w, o2) => Bar(r, w, o)
         /\ \A e : Says(r, e, w, o2) => Says(r, e, w, o)
<1>1. \A t : Hurdles(r, w, o, t) = Hurdles(r, w, o2, t)
  BY DEF Hurdles, Met
<1>2. Excuse(r, w, o2) => Excuse(r, w, o)
  BY <1>1 DEF Excuse
<1>3. Bar(r, w, o2) => Bar(r, w, o)
  BY <1>1 DEF Bar
<1>4. \A e : Says(r, e, w, o2) => Says(r, e, w, o)
  BY <1>1, <1>2, <1>3 DEF Says
<1> QED
  BY <1>1, <1>2, <1>3, <1>4

LEMMA HonestJoined ==
  ASSUME NEW r, NEW p, NEW q, Honest(r, p), Honest(r, q)
  PROVE  Honest(r, p \o q)
<1>1. p \in Code /\ q \in Code
  BY DEF Honest
<1> QED
  BY <1>1, Joined DEF Honest

LEMMA HonestTranslated ==
  ASSUME NEW r, NEW p, Honest(r, p), NEW G, Faithful(G)
  PROVE  Honest(r, Translated(p, G))
<1>1. p \in Code /\ G \in Translation
  BY DEF Honest, Faithful
<1>2. ASSUME NEW w, NEW o, Yields(Translated(p, G), w, o), o.err # "ok", Sound(w)
      PROVE  Says(r, o.err, w, o)
  <2>1. PICK o2 : Yields(p, w, o2) /\ Renames(G, o2, o)
    BY <1>1, <1>2, Translates
  <2>2. o2.err \in Error /\ o.err = G[o2.err] /\ o2.err # "ok"
    BY <1>2, <2>1, Errors DEF Renames
  <2>3. Says(r, o2.err, w, o2)
    BY <1>2, <2>1, <2>2 DEF Honest
  <2>4. Says(r, o2.err, w, o)
    BY <2>1, <2>3, SameReasons DEF Renames
  <2> QED
    BY <2>2, <2>4 DEF Says, Faithful
<1> QED
  BY <1>1, <1>2, Translates DEF Honest

\* A test adds its error to those of the steps.
LEMMA HonestTested ==
  ASSUME NEW r, NEW p, Honest(r, p), NEW H, NEW e \in Error,
         \A w \in World, o \in Outcome : o.world \notin H /\ Sound(w) => Says(r, e, w, o)
  PROVE  Honest(r, TestedBy(p, H, e))
<1>1. p \in Code
  BY DEF Honest
<1>2. ASSUME NEW w, NEW o, Yields(TestedBy(p, H, e), w, o), o.err # "ok", Sound(w)
      PROVE  Says(r, o.err, w, o)
  <2>1. PICK o2 : Yields(p, w, o2) /\ Survives(H, e, o2, o)
    BY <1>1, <1>2, Tests
  <2>2. CASE o = o2
    BY <1>2, <2>1, <2>2 DEF Honest
  <2>3. CASE o2.world \notin H /\ Is(o, o2.world, e, {})
    <3>1. o \in Outcome /\ o.world \notin H /\ o.err = e
      BY <2>3 DEF Is
    <3>2. w \in World
      BY <1>1, <2>1, Yielded
    <3> QED
      BY <1>2, <3>1, <3>2
  <2> QED
    BY <2>1, <2>2, <2>3 DEF Survives
<1> QED
  BY <1>1, <1>2, Tests DEF Honest

LEMMA HonestExcused ==
  ASSUME NEW r, NEW p, Honest(r, p)
  PROVE  Excused(r, p)
  BY DEF Honest, Excused, Says

\* A plain error has any reason for its meaning, and so has a bar its own.
LEMMA HonestBecomes ==
  ASSUME NEW r, NEW p
  PROVE  /\ \A e \in Error : Plain(e) /\ Excused(r, p) => Honest(r, Translated(p, Always(e)))
         /\ \A e \in NotAllowed : Barring(r, p) => Honest(r, Translated(p, Always(e)))
<1>1. ASSUME NEW e \in Error, Plain(e), Excused(r, p)
      PROVE  Honest(r, Translated(p, Always(e)))
  <2>1. p \in Code /\ Always(e) \in Translation
    BY <1>1, Translations DEF Excused
  <2>2. ASSUME NEW w, NEW o, Yields(Translated(p, Always(e)), w, o), o.err # "ok", Sound(w)
        PROVE  Says(r, o.err, w, o)
    <3>1. PICK o2 : Yields(p, w, o2) /\ Renames(Always(e), o2, o)
      BY <2>1, <2>2, Translates
    <3>2. o2.err # "ok" /\ o.err = e
      BY <2>2, <3>1, Errors DEF Renames, Always
    <3>3. Excuse(r, w, o)
      BY <1>1, <2>2, <3>1, <3>2, SameReasons DEF Renames, Excused
    <3> QED
      BY <1>1, <3>2, <3>3 DEF Says, Plain
  <2> QED
    BY <2>1, <2>2, Translates DEF Honest
<1>2. ASSUME NEW e \in NotAllowed, Barring(r, p)
      PROVE  Honest(r, Translated(p, Always(e)))
  <2>0. e \in Error
    BY Listed DEF NotAllowed
  <2>1. p \in Code /\ Always(e) \in Translation
    BY <1>2, <2>0, Translations DEF Barring
  <2>2. ASSUME NEW w, NEW o, Yields(Translated(p, Always(e)), w, o), o.err # "ok", Sound(w)
        PROVE  Says(r, o.err, w, o)
    <3>1. PICK o2 : Yields(p, w, o2) /\ Renames(Always(e), o2, o)
      BY <2>1, <2>2, Translates
    <3>2. o2.err # "ok" /\ o.err = e
      BY <2>0, <2>2, <3>1, Errors DEF Renames, Always
    <3>3. Bar(r, w, o)
      BY <1>2, <2>2, <3>1, <3>2, SameReasons DEF Renames, Barring
    <3>4. Excuse(r, w, o)
      BY <3>3 DEF Bar, Excuse, Table
    <3> QED
      BY <1>2, <3>2, <3>3, <3>4, Meanings DEF Says
  <2> QED
    BY <2>1, <2>2, Translates DEF Honest
<1> QED
  BY <1>1, <1>2
\* The layers invent no meanings.
LEMMA FaithfulLayers ==
  /\ Faithful(Handled)
  /\ Faithful(HomeworkStatus)
  /\ Faithful(Status)
  /\ Faithful(PairAnswer)
  /\ \A P \in SUBSET UserErrors : Faithful(UserStatus(P))
  /\ \A P \in SUBSET {"ErrValidation", "ErrNotFound"} : Faithful(FileStatus(P))
  /\ \A P \in SUBSET PaymentErrors : Faithful(PaymentStatus(P))
  /\ \A a \in {"ErrSlotNotFound", "ErrLessonNotFound"} :
       Faithful(Either(a, "NotFound", "Internal"))
  /\ \A a, b \in Error : Plain(b) => Faithful(Only(a, b))
  /\ \A a, b \in Error : Plain(a) /\ Plain(b) => \A c : Faithful(Either(c, a, b))
  /\ Faithful(Only("no_rows", "ErrNotFound"))
<1>1. Faithful(Handled)
  BY Translations
  DEF Faithful, Handled, WrongForm, NoCredentials, NotAllowed, Absent, Occupied
<1>2. Faithful(HomeworkStatus)
  BY Translations
  DEF Faithful, HomeworkStatus, WrongForm, NoCredentials, NotAllowed, Absent, Occupied
<1>3. Faithful(Status)
  BY Translations
  DEF Faithful, Status, WrongForm, NoCredentials, NotAllowed, Absent, Occupied
<1>4. Faithful(PairAnswer)
  BY Translations
  DEF Faithful, PairAnswer, WrongForm, NoCredentials, NotAllowed, Absent, Occupied
<1>5. ASSUME NEW P \in SUBSET UserErrors
      PROVE  Faithful(UserStatus(P))
  BY Translations
  DEF Faithful, UserStatus, StatusOf, UserErrors, WrongForm, NoCredentials, NotAllowed,
      Absent, Occupied
<1>6. ASSUME NEW P \in SUBSET {"ErrValidation", "ErrNotFound"}
      PROVE  Faithful(FileStatus(P))
  BY Translations
  DEF Faithful, FileStatus, FileStatusOf, WrongForm, NoCredentials, NotAllowed, Absent,
      Occupied
<1>7. ASSUME NEW P \in SUBSET PaymentErrors
      PROVE  Faithful(PaymentStatus(P))
  BY Translations
  DEF Faithful, PaymentStatus, PaymentStatusOf, PaymentErrors, WrongForm, NoCredentials,
      NotAllowed, Absent, Occupied
<1>8. ASSUME NEW a \in {"ErrSlotNotFound", "ErrLessonNotFound"}
      PROVE  Faithful(Either(a, "NotFound", "Internal"))
  <2>1. Either(a, "NotFound", "Internal") \in Translation
    BY Translations, Listed
  <2> QED
    BY <2>1 DEF Faithful, Either, WrongForm, NoCredentials, NotAllowed, Absent, Occupied
<1>9. ASSUME NEW a \in Error, NEW b \in Error, Plain(b)
      PROVE  Faithful(Only(a, b))
  <2>1. Only(a, b) \in Translation
    BY Translations
  <2> QED
    BY <1>9, <2>1 DEF Faithful, Only, Plain
<1>10. ASSUME NEW a \in Error, NEW b \in Error, Plain(a), Plain(b), NEW c
       PROVE  Faithful(Either(c, a, b))
  <2>1. Either(c, a, b) \in Translation
    BY Translations
  <2> QED
    BY <1>10, <2>1 DEF Faithful, Either, Plain
<1>11. Faithful(Only("no_rows", "ErrNotFound"))
  <2>1. Only("no_rows", "ErrNotFound") \in Translation
    BY Translations, Listed
  <2> QED
    BY <2>1 DEF Faithful, Only, WrongForm, NoCredentials, NotAllowed, Absent, Occupied
<1> QED
  BY <1>1, <1>2, <1>3, <1>4, <1>5, <1>6, <1>7, <1>8, <1>9, <1>10, <1>11

LEMMA HonestLayers ==
  ASSUME NEW r, NEW p, Honest(r, p)
  PROVE  /\ Honest(r, Through(p, handleError))
         /\ Honest(r, toGRPCError(p))
         /\ Honest(r, mapErr(p))
         /\ \A P \in SUBSET UserErrors : Honest(r, mapError(p, P))
         /\ \A P \in SUBSET {"ErrValidation", "ErrNotFound"} : Honest(r, fileMapError(p, P))
         /\ \A P \in SUBSET PaymentErrors : Honest(r, paymentMapError(p, P))
         /\ \A a \in {"ErrSlotNotFound", "ErrLessonNotFound"} : Honest(r, NotFoundOr(p, a))
         /\ \A a, b \in Error : Plain(b) => Honest(r, Renamed(p, a, b))
         /\ Honest(r, FileNotFound(p))
         /\ Honest(r, Becomes(p, "Internal"))
<1>1. p \in Code
  BY DEF Honest
<1>2. Honest(r, Through(p, handleError))
  BY <1>1, Layers, FaithfulLayers, HonestTranslated
<1>3. Honest(r, toGRPCError(p)) /\ Honest(r, mapErr(p))
  BY <1>1, Layers, FaithfulLayers, HonestTranslated
<1>4. \A P \in SUBSET UserErrors : Honest(r, mapError(p, P))
  BY <1>1, Layers, FaithfulLayers, HonestTranslated
<1>5. \A P \in SUBSET {"ErrValidation", "ErrNotFound"} : Honest(r, fileMapError(p, P))
  BY <1>1, Layers, FaithfulLayers, HonestTranslated
<1>6. \A P \in SUBSET PaymentErrors : Honest(r, paymentMapError(p, P))
  BY <1>1, Layers, FaithfulLayers, HonestTranslated
<1>7. \A a \in {"ErrSlotNotFound", "ErrLessonNotFound"} : Honest(r, NotFoundOr(p, a))
  BY <1>1, Layers, FaithfulLayers, HonestTranslated
<1>8. \A a, b \in Error : Plain(b) => Honest(r, Renamed(p, a, b))
  BY <1>1, Layers, FaithfulLayers, HonestTranslated
<1>9. Honest(r, FileNotFound(p))
  BY <1>1, Layers, FaithfulLayers, HonestTranslated
<1>10. Honest(r, Becomes(p, "Internal"))
  <2>1. Plain("Internal") /\ "Internal" \in Error
    BY Meanings, Listed DEF Fatal
  <2> QED
    BY <1>1, <2>1, Layers, HonestExcused, HonestBecomes
<1> QED
  BY <1>2, <1>3, <1>4, <1>5, <1>6, <1>7, <1>8, <1>9, <1>10

\* Whoever is not excused by his form, by who he is, or by the rows, is by the
\* round trip that failed.
LEMMA Reasons ==
  ASSUME NEW r, NEW w, NEW o
  PROVE  /\ \A e : Down(o) /\ Plain(e) => Says(r, e, w, o)
         /\ \A e : Outsider(r) /\ (Plain(e) \/ e \in NotAllowed \cup Absent) => Says(r, e, w, o)
         /\ \A e : r.form # "good" /\ Plain(e) => Says(r, e, w, o)
         /\ \A e : Garbled(r) /\ e \in WrongForm => Says(r, e, w, o)
         /\ \A e, t : /\ t \in Table /\ Hurdles(r, w, o, t) # {}
                      /\ Plain(e)
                      => Says(r, e, w, o)
         /\ \A e, t : /\ t \in Table /\ "none" \in Hurdles(r, w, o, t)
                      /\ Plain(e) \/ e \in Absent
                      => Says(r, e, w, o)
         /\ \A e, t : /\ t \in Table /\ Hurdles(r, w, o, t) \ {"none"} # {}
                      /\ Plain(e) \/ e \in Occupied
                      => Says(r, e, w, o)
<1>1. ASSUME NEW e, Plain(e), Excuse(r, w, o)
      PROVE  Says(r, e, w, o)
  BY <1>1 DEF Says, Plain
<1>2. \A e : Down(o) /\ Plain(e) => Says(r, e, w, o)
  BY <1>1 DEF Excuse
<1>3. ASSUME NEW e, Outsider(r), Plain(e) \/ e \in NotAllowed \cup Absent
      PROVE  Says(r, e, w, o)
  BY <1>1, <1>3, Meanings DEF Says, Excuse, Bar
<1>4. \A e : r.form # "good" /\ Plain(e) => Says(r, e, w, o)
  BY <1>1 DEF Excuse
<1>5. ASSUME NEW e, Garbled(r), e \in WrongForm
      PROVE  Says(r, e, w, o)
  BY <1>5, Meanings DEF Says, Excuse, Garbled
<1>6. ASSUME NEW e, NEW t \in Table, Hurdles(r, w, o, t) # {}, Plain(e)
      PROVE  Says(r, e, w, o)
  BY <1>1, <1>6 DEF Excuse
<1>7. ASSUME NEW e, NEW t \in Table, "none" \in Hurdles(r, w, o, t), Plain(e) \/ e \in Absent
      PROVE  Says(r, e, w, o)
  BY <1>1, <1>7, Meanings DEF Says, Excuse
<1>8. ASSUME NEW e, NEW t \in Table, Hurdles(r, w, o, t) \ {"none"} # {},
             Plain(e) \/ e \in Occupied
      PROVE  Says(r, e, w, o)
  BY <1>1, <1>8, Meanings DEF Says, Excuse
<1> QED
  BY <1>2, <1>3, <1>4, <1>5, <1>6, <1>7, <1>8

LEMMA HonestNothing == ASSUME NEW r PROVE Honest(r, <<>>)
  BY Nothing, Zenon DEF Honest

LEMMA HonestRequire ==
  ASSUME NEW r, NEW h, NEW e \in Error, \A w, o : ~h => Says(r, e, w, o)
  PROVE  Honest(r, Require(h, e))
<1>1. Require(h, e) \in Code
  BY Required
<1>2. \A w, o : Yields(Require(h, e), w, o) => ~h /\ Is(o, w, e, {})
  BY Required
<1> QED
  BY <1>1, <1>2 DEF Honest, Is

LEMMA HonestRemote ==
  ASSUME NEW r, NEW p, Honest(r, p)
  PROVE  Honest(r, Remote(p))
<1>1. Plain("Unavailable")
  BY Meanings
<1>2. ASSUME NEW w, NEW o, Yields(Call, w, o), o.err # "ok"
      PROVE  Says(r, o.err, w, o)
  <2>1. o.err = "Unavailable" /\ Down(o)
    BY <1>2, Called DEF Is
  <2> QED
    BY <1>1, <2>1, Reasons
<1>3. Honest(r, Call)
  BY <1>2, Called DEF Honest
<1> QED
  BY <1>3, Called, HonestJoined

\* A statement says the truth if it refuses for a reason.
LEMMA HonestAnswers ==
  ASSUME NEW r, NEW p, NEW H, NEW E, NEW T, NEW e, Plain(e), Answers(p, H, E, T, e),
         \A w \in World : \A o : w \notin H /\ Sound(w) => Says(r, E[w], w, o)
  PROVE  Honest(r, p)
<1>1. ASSUME NEW w, NEW o, Yields(p, w, o), o.err # "ok", Sound(w)
      PROVE  Says(r, o.err, w, o)
  <2>1. /\ w \in World
        /\ (o.err = E[w] /\ w \notin H) \/ (o.err = e /\ Down(o))
    BY <1>1 DEF Answers
  <2> QED
    BY <1>1, <2>1, Reasons
<1> QED
  BY <1>1 DEF Answers, Honest
\* The request relies on its row of t to be there.
Needs(r, t) == t \in Table /\ t \in NamedBy(r.op) /\ "none" \notin Needed(r, t)

\* It is not for everybody.
Closed(r) == \A who \in {"nobody", "unknown"} : who \notin Admitted(r.op)

\* A row that is met and not needed stands in the way.
LEMMA Stands ==
  ASSUME NEW r, NEW w, NEW o, NEW t \in Table, t \in NamedBy(r.op)
  PROVE  /\ w[t] \notin Needed(r, t) => w[t] \in Hurdles(r, w, o, t)
         /\ o.world[t] \notin Needed(r, t) => o.world[t] \in Hurdles(r, w, o, t)
  BY DEF Hurdles, Met

\* The statements that have one error for a row that is not there.
LEMMA MissingRow ==
  ASSUME NEW r, NEW t, Needs(r, t),
         NEW p, NEW H, NEW e, NEW T, NEW e2, Answers(p, H, Same(e), T, e2), Plain(e2),
         Plain(e) \/ e \in Absent,
         \A w \in World : w \notin H => w[t] = "none" \/ Outsider(r)
  PROVE  Honest(r, p)
<1>1. ASSUME NEW w \in World, NEW o, w \notin H
      PROVE  Says(r, Same(e)[w], w, o)
  <2>1. Same(e)[w] = e
    BY DEF Same
  <2>2. CASE Outsider(r)
    BY <2>1, <2>2, Reasons
  <2>3. CASE w[t] = "none"
    <3>1. "none" \in Hurdles(r, w, o, t) /\ t \in Table
      BY <2>3, Stands DEF Needs
    <3> QED
      BY <2>1, <3>1, Reasons
  <2> QED
    BY <1>1, <2>2, <2>3
<1> QED
  BY <1>1, HonestAnswers

\* Those that have none.
LEMMA NeverRefuses ==
  ASSUME NEW r, NEW p, NEW E, NEW T, NEW e, Answers(p, World, E, T, e), Plain(e)
  PROVE  Honest(r, p)
  BY HonestAnswers

\* Those whose error says nothing.
LEMMA ExcusedAnswers ==
  ASSUME NEW r, NEW p, NEW H, NEW E, NEW T, NEW e, Answers(p, H, E, T, e),
         \A w \in World : \A o : w \notin H /\ Sound(w) => Excuse(r, w, o)
  PROVE  Excused(r, p)
<1>1. ASSUME NEW w, NEW o, Yields(p, w, o), o.err # "ok", Sound(w)
      PROVE  Excuse(r, w, o)
  BY <1>1 DEF Answers, Excuse
<1> QED
  BY <1>1 DEF Answers, Excused

LEMMA RowsByName ==
  /\ "person" \in Table /\ "pair" \in Table /\ "slot" \in Table /\ "lesson" \in Table
  /\ "receipt" \in Table /\ "file" \in Table /\ "assignment" \in Table
  /\ "submission" \in Table /\ "feedback" \in Table
  BY DEF Table

LEMMA PlainErrors ==
  /\ Plain("down") /\ Plain("presign") /\ Plain("repository error") /\ Plain("Internal")
  /\ Plain("500") /\ Plain("502")
  BY Meanings DEF Fatal

LEMMA HonestUserStatements ==
  ASSUME NEW r
  PROVE  /\ Honest(r, DbGetUser(TRUE))
         /\ Honest(r, DbListTutorStudents)
         /\ Honest(r, UpdatesUser)
         /\ Needs(r, "person") => Honest(r, DbGetUser(FALSE))
         /\ (Role(r) # "tutor" => Outsider(r)) =>
              Honest(r, DbGetTutorProfile(r)) /\ Honest(r, UpdatesTutorProfile(r))
         /\ Needs(r, "pair") /\ (r.who \notin Participants => Outsider(r)) =>
              /\ Honest(r, DbGetTutorStudent(r))
              /\ Honest(r, DbDeleteTutorStudent(r))
              /\ \A s \in SUBSET PairState : Honest(r, UpdatesTutorStudent(r, s))
         /\ "person" \in NamedBy(r.op) /\ "present" \notin Needed(r, "person") =>
              Honest(r, DbRegister)
         /\ /\ Needs(r, "person")
            /\ "pair" \in NamedBy(r.op) /\ Needed(r, "pair") = {"none"}
            => Honest(r, DbCreateTutorStudent)
<1>0. \A w \in World : /\ w.person \in RowState /\ w.pair \in PairState
  BY DEF World
<1>1. Honest(r, DbGetUser(TRUE)) /\ Honest(r, DbListTutorStudents) /\ Honest(r, UpdatesUser)
  BY DbGetOwnUserDoes, DbListTutorStudentsDoes, UpdatesUserDoes, NeverRefuses, PlainErrors
<1>2. ASSUME Needs(r, "person")
      PROVE  Honest(r, DbGetUser(FALSE))
  <2> DEFINE H == {w \in World : w.person = "present"}
  <2>1. Answers(DbGetUser(FALSE), H, Same("ErrNotFound"), {}, "repository error")
    BY DbGetOtherUserDoes
  <2>2. \A w \in World : w \notin H => w["person"] = "none"
    BY <1>0 DEF RowState
  <2>3. "ErrNotFound" \in Absent
    BY DEF Absent
  <2> HIDE DEF H
  <2> QED
    BY <1>2, <2>1, <2>2, <2>3, MissingRow, PlainErrors
<1>3. ASSUME Role(r) # "tutor" => Outsider(r)
      PROVE  Honest(r, DbGetTutorProfile(r)) /\ Honest(r, UpdatesTutorProfile(r))
  <2> DEFINE H == {w \in World : Role(r) = "tutor"}
  <2>1. /\ Answers(DbGetTutorProfile(r), H, Same("ErrNotFound"), {}, "repository error")
        /\ Answers(UpdatesTutorProfile(r), H, Same("ErrNotFound"), {"tutor_profiles"},
                   "repository error")
    BY DbGetTutorProfileDoes, UpdatesTutorProfileDoes
  <2>2. ASSUME NEW w \in World, NEW o, w \notin H
        PROVE  Says(r, Same("ErrNotFound")[w], w, o)
    <3>1. Outsider(r) /\ "ErrNotFound" \in Absent
      BY <1>3, <2>2 DEF Absent
    <3>2. Same("ErrNotFound")[w] = "ErrNotFound"
      BY DEF Same
    <3> QED
      BY <3>1, <3>2, Reasons
  <2> HIDE DEF H
  <2> QED
    BY <2>1, <2>2, HonestAnswers, PlainErrors
<1>4. ASSUME Needs(r, "pair"), r.who \notin Participants => Outsider(r)
      PROVE  /\ Honest(r, DbGetTutorStudent(r))
             /\ Honest(r, DbDeleteTutorStudent(r))
             /\ \A s \in SUBSET PairState : Honest(r, UpdatesTutorStudent(r, s))
  <2> DEFINE H == {w \in World : PairOf(w, r) # "none"}
  <2>1. /\ Answers(DbGetTutorStudent(r), H, Same("ErrNotFound"), {}, "repository error")
        /\ Answers(DbDeleteTutorStudent(r), H, Same("ErrNotFound"), {"tutor_students"}, "down")
        /\ \A s \in SUBSET PairState :
             Answers(UpdatesTutorStudent(r, s), H, Same("ErrNotFound"), {"tutor_students"},
                     "repository error")
    BY DbGetTutorStudentDoes, DbDeleteTutorStudentDoes, UpdatesTutorStudentDoes
  <2>2. \A w \in World : w \notin H => w["pair"] = "none" \/ Outsider(r)
    BY <1>4 DEF PairOf, NamesPair
  <2>3. "ErrNotFound" \in Absent
    BY DEF Absent
  <2> HIDE DEF H
  <2>4. Honest(r, DbGetTutorStudent(r)) /\ Honest(r, DbDeleteTutorStudent(r))
    BY <1>4, <2>1, <2>2, <2>3, MissingRow, PlainErrors
  <2>5. \A s \in SUBSET PairState : Honest(r, UpdatesTutorStudent(r, s))
    BY <1>4, <2>1, <2>2, <2>3, MissingRow, PlainErrors
  <2> QED
    BY <2>4, <2>5
<1>5. ASSUME "person" \in NamedBy(r.op), "present" \notin Needed(r, "person")
      PROVE  Honest(r, DbRegister)
  <2> DEFINE H == {w \in World : w.person = "none"}
  <2>1. Answers(DbRegister, H, Same("ErrAlreadyExists"), {"users"}, "repository error")
    BY DbRegisterDoes
  <2>2. ASSUME NEW w \in World, NEW o, w \notin H
        PROVE  Says(r, Same("ErrAlreadyExists")[w], w, o)
    <3>1. w["person"] = "present"
      BY <1>0, <2>2 DEF RowState
    <3>2. "present" \in Hurdles(r, w, o, "person")
      BY <1>5, <3>1, Stands, RowsByName
    <3>3. Hurdles(r, w, o, "person") \ {"none"} # {}
      BY <3>2
    <3>4. Same("ErrAlreadyExists")[w] = "ErrAlreadyExists" /\ "ErrAlreadyExists" \in Occupied
      BY DEF Same, Occupied
    <3> QED
      BY <3>3, <3>4, Reasons, RowsByName
  <2> HIDE DEF H
  <2> QED
    BY <2>1, <2>2, HonestAnswers, PlainErrors
<1>6. ASSUME Needs(r, "person"), "pair" \in NamedBy(r.op), Needed(r, "pair") = {"none"}
      PROVE  Honest(r, DbCreateTutorStudent)
  <2> DEFINE H == {w \in World : w.pair = "none" /\ w.person # "none"}
             E == Nobody("repository error", "ErrAlreadyExists")
  <2>1. Answers(DbCreateTutorStudent, H, E, {"tutor_students"}, "repository error")
    BY DbCreateTutorStudentDoes
  <2>2. ASSUME NEW w \in World, NEW o, w \notin H
        PROVE  Says(r, E[w], w, o)
    <3>1. CASE w.person = "none"
      <4>1. "none" \in Hurdles(r, w, o, "person")
        BY <1>6, <3>1, Stands DEF Needs
      <4>2. E[w] = "repository error"
        BY <3>1 DEF Nobody
      <4> QED
        BY <4>1, <4>2, Reasons, RowsByName, PlainErrors
    <3>2. CASE w.person # "none"
      <4>1. w["pair"] # "none"
        BY <2>2, <3>2
      <4>2. w["pair"] \in Hurdles(r, w, o, "pair")
        BY <1>6, <4>1, Stands, RowsByName
      <4>3. Hurdles(r, w, o, "pair") \ {"none"} # {}
        BY <4>1, <4>2
      <4>4. E[w] = "ErrAlreadyExists" /\ "ErrAlreadyExists" \in Occupied
        BY <3>2 DEF Nobody, Occupied
      <4> QED
        BY <4>3, <4>4, Reasons, RowsByName
    <3> QED
      BY <3>1, <3>2
  <2> HIDE DEF H, E
  <2> QED
    BY <2>1, <2>2, HonestAnswers, PlainErrors
<1> QED
  BY <1>1, <1>2, <1>3, <1>4, <1>5, <1>6
LEMMA HonestScheduleStatements ==
  ASSUME NEW r
  PROVE  /\ Honest(r, DbListSlotsByTutor)
         /\ Honest(r, queryLessons)
         /\ Needs(r, "slot") => Honest(r, DbGetSlot)
         /\ Needs(r, "lesson") => 
              /\ Honest(r, DbGetLesson)
              /\ Honest(r, DbUpdateLesson)
              /\ Honest(r, DbCancelLessonAndFreeSlot)
              /\ Honest(r, DbMarkAsPaid)
         /\ Needs(r, "lesson") => Excused(r, DbGetSlot)
         /\ Excused(r, DbCreateSlot(r))
         /\ Needs(r, "slot") => Excused(r, DbUpdateSlot(r))
         /\ "slot" \in NamedBy(r.op) /\ Needed(r, "slot") = {"free"} =>
              /\ Excused(r, DbDeleteSlot)
              /\ Honest(r, DbCreateLessonAndBookSlot)
<1>1. /\ Honest(r, DbListSlotsByTutor)
      /\ Honest(r, queryLessons)
  BY SelectAllDoes, NeverRefuses, PlainErrors DEF DbListSlotsByTutor, queryLessons
<1>2. ASSUME Needs(r, "slot")
      PROVE  Honest(r, DbGetSlot)
  <2> DEFINE H == {w \in World : w.slot # "none"}
  <2>1. Answers(DbGetSlot, H, Same("ErrSlotNotFound"), {}, "down")
    BY DbGetSlotDoes
  <2>2. \A w \in World : w \notin H => w["slot"] = "none"
    OBVIOUS
  <2>3. "ErrSlotNotFound" \in Absent
    BY DEF Absent
  <2> HIDE DEF H
  <2> QED
    BY <1>2, <2>1, <2>2, <2>3, MissingRow, PlainErrors
<1>3. ASSUME Needs(r, "lesson")
      PROVE  /\ Honest(r, DbGetLesson)
             /\ Honest(r, DbUpdateLesson)
             /\ Honest(r, DbCancelLessonAndFreeSlot)
             /\ Honest(r, DbMarkAsPaid)
  <2> DEFINE H == {w \in World : w.lesson # "none"}
  <2>1. /\ Answers(DbGetLesson, H, Same("ErrLessonNotFound"), {}, "down")
        /\ Answers(DbUpdateLesson, H, Same("ErrLessonNotFound"), {"lessons"}, "down")
        /\ Answers(DbCancelLessonAndFreeSlot, H, Same("transaction"), {"lessons"}, "down")
        /\ Answers(DbMarkAsPaid, H, Same("ErrLessonNotFound"), {"lessons"}, "down")
    BY DbGetLessonDoes, DbUpdateLessonDoes, DbCancelLessonAndFreeSlotDoes, DbMarkAsPaidDoes
  <2>2. \A w \in World : w \notin H => w["lesson"] = "none"
    OBVIOUS
  <2>3. "ErrLessonNotFound" \in Absent /\ Plain("transaction")
    BY Meanings DEF Absent
  <2> HIDE DEF H
  <2>4. Honest(r, DbGetLesson)
    BY <1>3, <2>1, <2>2, <2>3, MissingRow, PlainErrors
  <2>5. Honest(r, DbUpdateLesson)
    BY <1>3, <2>1, <2>2, <2>3, MissingRow, PlainErrors
  <2>6. Honest(r, DbCancelLessonAndFreeSlot)
    BY <1>3, <2>1, <2>2, <2>3, MissingRow, PlainErrors
  <2>7. Honest(r, DbMarkAsPaid)
    BY <1>3, <2>1, <2>2, <2>3, MissingRow, PlainErrors
  <2> QED
    BY <2>4, <2>5, <2>6, <2>7
<1>4. ASSUME Needs(r, "lesson")
      PROVE  Excused(r, DbGetSlot)
  <2> DEFINE H == {w \in World : w.slot # "none"}
  <2>1. Answers(DbGetSlot, H, Same("ErrSlotNotFound"), {}, "down")
    BY DbGetSlotDoes
  <2>2. ASSUME NEW w \in World, NEW o, w \notin H, Sound(w)
        PROVE  Excuse(r, w, o)
    <3>1. w["lesson"] = "none"
      BY <2>2 DEF Sound
    <3>2. "none" \in Hurdles(r, w, o, "lesson")
      BY <1>4, <3>1, Stands DEF Needs
    <3> QED
      BY <3>2, RowsByName DEF Excuse
  <2> HIDE DEF H
  <2> QED
    BY <2>1, <2>2, ExcusedAnswers
<1>5. Excused(r, DbCreateSlot(r))
  <2> DEFINE H == {w \in World : r.form # "clash"}
  <2>1. Answers(DbCreateSlot(r), H, Same("unique"), {"slots"}, "down")
    BY DbCreateSlotDoes
  <2>2. \A w \in World : \A o : w \notin H => Excuse(r, w, o)
    BY DEF Excuse
  <2> HIDE DEF H
  <2> QED
    BY <2>1, <2>2, ExcusedAnswers
<1>6. ASSUME Needs(r, "slot")
      PROVE  Excused(r, DbUpdateSlot(r))
  <2> DEFINE H == {w \in World : w.slot # "none" /\ r.form # "clash"}
             E == Slotless("ErrSlotNotFound", "unique")
  <2>1. Answers(DbUpdateSlot(r), H, E, {"slots"}, "down")
    BY DbUpdateSlotDoes
  <2>2. ASSUME NEW w \in World, NEW o, w \notin H
        PROVE  Excuse(r, w, o)
    <3>1. CASE r.form # "good"
      BY <3>1 DEF Excuse
    <3>2. CASE w["slot"] = "none"
      <4>1. "none" \in Hurdles(r, w, o, "slot")
        BY <1>6, <3>2, Stands DEF Needs
      <4> QED
        BY <4>1, RowsByName DEF Excuse
    <3> QED
      BY <2>2, <3>1, <3>2
  <2> HIDE DEF H, E
  <2> QED
    BY <2>1, <2>2, ExcusedAnswers
<1>7. ASSUME "slot" \in NamedBy(r.op), Needed(r, "slot") = {"free"}
      PROVE  Excused(r, DbDeleteSlot) /\ Honest(r, DbCreateLessonAndBookSlot)
  <2> DEFINE H == {w \in World : w.slot = "free"}
             E == Slotless("ErrSlotNotFound", "foreign_key")
  <2>1. /\ Answers(DbDeleteSlot, H, E, {"slots"}, "down")
        /\ Answers(DbCreateLessonAndBookSlot, H, Same("transaction"), {"lessons"}, "down")
    BY DbDeleteSlotDoes, DbCreateLessonAndBookSlotDoes
  <2>2. ASSUME NEW w \in World, NEW o, w \notin H
        PROVE  Hurdles(r, w, o, "slot") # {}
    <3>1. w["slot"] \notin Needed(r, "slot")
      BY <1>7, <2>2
    <3>2. w["slot"] \in Hurdles(r, w, o, "slot")
      BY <1>7, <3>1, Stands, RowsByName
    <3> QED
      BY <3>2
  <2>3. \A w \in World : Same("transaction")[w] = "transaction"
    BY DEF Same
  <2>4. Plain("transaction")
    BY Meanings
  <2> HIDE DEF H, E
  <2>5. Excused(r, DbDeleteSlot)
    <3>1. \A w \in World : \A o : w \notin H => Excuse(r, w, o)
      BY <2>2, RowsByName DEF Excuse
    <3> QED
      BY <2>1, <3>1, ExcusedAnswers
  <2>6. Honest(r, DbCreateLessonAndBookSlot)
    <3>1. \A w \in World : \A o : w \notin H => Says(r, Same("transaction")[w], w, o)
      BY <2>2, <2>3, <2>4, Reasons, RowsByName
    <3> QED
      BY <2>1, <3>1, HonestAnswers, PlainErrors
  <2> QED
    BY <2>5, <2>6
<1> QED
  BY <1>1, <1>2, <1>3, <1>4, <1>5, <1>6, <1>7

LEMMA HonestOtherStatements ==
  ASSUME NEW r
  PROVE  /\ Honest(r, DbCreateFile)
         /\ Honest(r, DbCreateReceipt)
         /\ Honest(r, DbCreateAssignment)
         /\ Honest(r, DbListAssignments)
         /\ Honest(r, DbListSubmissions)
         /\ Honest(r, DbListFeedbacks)
         /\ Needs(r, "file") => Honest(r, DbGetFile)
         /\ Needs(r, "receipt") => Honest(r, DbGetReceiptByID)
         /\ Needs(r, "assignment") => 
              /\ Honest(r, DbGetAssignment)
              /\ Honest(r, DbUpdateAssignment)
              /\ Honest(r, DbDeleteAssignment)
              /\ Honest(r, DbCreateSubmission)
         /\ Needs(r, "submission") => 
              /\ Honest(r, DbGetSubmission)
              /\ Honest(r, DbCreateFeedback)
         /\ Needs(r, "feedback") => 
              /\ Honest(r, DbGetFeedback)
              /\ Honest(r, DbUpdateFeedback)
         /\ Honest(r, Presign)
         /\ Honest(r, UpdatesReceipt)
<1>1. /\ Honest(r, DbCreateFile)
      /\ Honest(r, DbCreateReceipt)
      /\ Honest(r, DbCreateAssignment)
  BY DbCreateFileDoes, DbCreateReceiptDoes, DbCreateAssignmentDoes, NeverRefuses, PlainErrors
<1>2. /\ Honest(r, DbListAssignments)
      /\ Honest(r, DbListSubmissions)
      /\ Honest(r, DbListFeedbacks)
  BY SelectAllDoes, NeverRefuses, PlainErrors DEF DbListAssignments, DbListSubmissions,
     DbListFeedbacks
<1>3. ASSUME Needs(r, "file")
      PROVE  Honest(r, DbGetFile)
  <2> DEFINE H == {w \in World : w.file = "present"}
  <2>1. Answers(DbGetFile, H, Same("no_rows"), {}, "down")
    BY DbGetFileDoes
  <2>2. \A w \in World : w \notin H => w["file"] = "none"
    BY DEF World, RowState
  <2>3. "no_rows" \in Absent
    BY DEF Absent
  <2> HIDE DEF H
  <2> QED
    BY <1>3, <2>1, <2>2, <2>3, MissingRow, PlainErrors
<1>4. ASSUME Needs(r, "receipt")
      PROVE  Honest(r, DbGetReceiptByID)
  <2> DEFINE H == {w \in World : w.receipt = "present"}
  <2>1. Answers(DbGetReceiptByID, H, Same("ErrNotFound"), {}, "repository error")
    BY DbGetReceiptByIDDoes
  <2>2. \A w \in World : w \notin H => w["receipt"] = "none"
    BY DEF World, RowState
  <2>3. "ErrNotFound" \in Absent
    BY DEF Absent
  <2> HIDE DEF H
  <2> QED
    BY <1>4, <2>1, <2>2, <2>3, MissingRow, PlainErrors
<1>5. ASSUME Needs(r, "assignment")
      PROVE  /\ Honest(r, DbGetAssignment)
             /\ Honest(r, DbUpdateAssignment)
             /\ Honest(r, DbDeleteAssignment)
             /\ Honest(r, DbCreateSubmission)
  <2> DEFINE H == {w \in World : w.assignment # "none"}
  <2>1. /\ Answers(DbGetAssignment, H, Same("ErrNotFound"), {}, "down")
        /\ Answers(DbUpdateAssignment, H, Same("assignment not found"), {"assignments"}, "down")
        /\ Answers(DbDeleteAssignment, H, Same("ErrNotFound"), {"assignments"}, "down")
        /\ Answers(DbCreateSubmission, H, Same("foreign_key"), {"submissions"}, "down")
    BY DbGetAssignmentDoes, DbUpdateAssignmentDoes, DbDeleteAssignmentDoes, DbCreateSubmissionDoes
  <2>2. \A w \in World : w \notin H => w["assignment"] = "none"
    OBVIOUS
  <2>3. "ErrNotFound" \in Absent /\ Plain("assignment not found") /\ Plain("foreign_key")
    BY Meanings DEF Absent
  <2> HIDE DEF H
  <2>4. Honest(r, DbGetAssignment)
    BY <1>5, <2>1, <2>2, <2>3, MissingRow, PlainErrors
  <2>5. Honest(r, DbUpdateAssignment)
    BY <1>5, <2>1, <2>2, <2>3, MissingRow, PlainErrors
  <2>6. Honest(r, DbDeleteAssignment)
    BY <1>5, <2>1, <2>2, <2>3, MissingRow, PlainErrors
  <2>7. Honest(r, DbCreateSubmission)
    BY <1>5, <2>1, <2>2, <2>3, MissingRow, PlainErrors
  <2> QED
    BY <2>4, <2>5, <2>6, <2>7
<1>6. ASSUME Needs(r, "submission")
      PROVE  /\ Honest(r, DbGetSubmission)
             /\ Honest(r, DbCreateFeedback)
  <2> DEFINE H == {w \in World : w.submission # "none"}
  <2>1. /\ Answers(DbGetSubmission, H, Same("ErrNotFound"), {}, "down")
        /\ Answers(DbCreateFeedback, H, Same("foreign_key"), {"feedbacks"}, "down")
    BY DbGetSubmissionDoes, DbCreateFeedbackDoes
  <2>2. \A w \in World : w \notin H => w["submission"] = "none"
    OBVIOUS
  <2>3. "ErrNotFound" \in Absent /\ Plain("foreign_key")
    BY Meanings DEF Absent
  <2> HIDE DEF H
  <2>4. Honest(r, DbGetSubmission)
    BY <1>6, <2>1, <2>2, <2>3, MissingRow, PlainErrors
  <2>5. Honest(r, DbCreateFeedback)
    BY <1>6, <2>1, <2>2, <2>3, MissingRow, PlainErrors
  <2> QED
    BY <2>4, <2>5
<1>7. ASSUME Needs(r, "feedback")
      PROVE  /\ Honest(r, DbGetFeedback)
             /\ Honest(r, DbUpdateFeedback)
  <2> DEFINE H == {w \in World : w.feedback # "none"}
  <2>1. /\ Answers(DbGetFeedback, H, Same("ErrNotFound"), {}, "down")
        /\ Answers(DbUpdateFeedback, H, Same("ErrNotFound"), {"feedbacks"}, "down")
    BY DbGetFeedbackDoes, DbUpdateFeedbackDoes
  <2>2. \A w \in World : w \notin H => w["feedback"] = "none"
    OBVIOUS
  <2>3. "ErrNotFound" \in Absent
    BY DEF Absent
  <2> HIDE DEF H
  <2>4. Honest(r, DbGetFeedback)
    BY <1>7, <2>1, <2>2, <2>3, MissingRow, PlainErrors
  <2>5. Honest(r, DbUpdateFeedback)
    BY <1>7, <2>1, <2>2, <2>3, MissingRow, PlainErrors
  <2> QED
    BY <2>4, <2>5
<1>8. Honest(r, Presign)
  <2>1. Presign \in Code
    BY PresignDoes, AreCode
  <2>2. ASSUME NEW w, NEW o, Yields(Presign, w, o), o.err # "ok"
        PROVE  Says(r, o.err, w, o)
    <3>1. o.err = "presign" /\ Down(o)
      BY <2>2, PresignDoes
    <3> QED
      BY <3>1, Reasons, PlainErrors
  <2> QED
    BY <2>1, <2>2 DEF Honest
<1>9. Honest(r, UpdatesReceipt)
  <2>1. ASSUME NEW w, NEW o, Yields(UpdatesReceipt, w, o), o.err # "ok"
        PROVE  Says(r, o.err, w, o)
    <3>1. o.err = "repository error" /\ Down(o)
      BY <2>1, UpdatesReceiptDoes
    <3> QED
      BY <3>1, Reasons, PlainErrors
  <2> QED
    BY <2>1, UpdatesReceiptDoes DEF Honest
<1> QED
  BY <1>1, <1>2, <1>3, <1>4, <1>5, <1>6, <1>7, <1>8, <1>9

\* The checks of what a request holds.
LEMMA HonestChecks ==
  ASSUME NEW r
  PROVE  /\ \A f \in {"bad_id", "bad_value", "bad_file"} : Honest(r, Parsed(r, f))
         /\ Honest(r, SetsSomething(r))
         /\ Honest(r, NotNil(r))
         /\ Honest(r, getRole(r))
         /\ Closed(r) => Honest(r, getUserId(r))
         /\ \A ids : Closed(r) /\ (r.who \notin ids => Outsider(r)) =>
              Honest(r, ensureCurrentUserIs(r, ids))
         /\ \A role : (Role(r) # role => Outsider(r)) =>
              Honest(r, ensureCurrentUserRole(r, role)) /\ Honest(r, requireRole(r, role))
         /\ \A h : \A e \in Error :
              /\ (~h => Outsider(r)) /\ (Plain(e) \/ e \in NotAllowed \cup Absent)
              => Honest(r, Require(h, e))
         /\ \A h : \A e \in Error : (~h => r.form # "good") /\ Plain(e) =>
              Honest(r, Require(h, e))
         /\ \A h : \A e \in Error : (~h => Garbled(r)) /\ e \in WrongForm =>
              Honest(r, Require(h, e))
<1>1. ASSUME NEW h, NEW e \in Error, ~h => Outsider(r), Plain(e) \/ e \in NotAllowed \cup Absent
      PROVE  Honest(r, Require(h, e))
  <2>1. \A w, o : ~h => Says(r, e, w, o)
    BY <1>1, Reasons
  <2> QED
    BY <2>1, HonestRequire
<1>2. ASSUME NEW h, NEW e \in Error, ~h => r.form # "good", Plain(e)
      PROVE  Honest(r, Require(h, e))
  <2>1. \A w, o : ~h => Says(r, e, w, o)
    BY <1>2, Reasons
  <2> QED
    BY <2>1, HonestRequire
<1>3. ASSUME NEW h, NEW e \in Error, ~h => Garbled(r), e \in WrongForm
      PROVE  Honest(r, Require(h, e))
  <2>1. \A w, o : ~h => Says(r, e, w, o)
    BY <1>3, Reasons
  <2> QED
    BY <2>1, HonestRequire
<1>4. \A f \in {"bad_id", "bad_value", "bad_file"} : Honest(r, Parsed(r, f))
  <2>1. "InvalidArgument" \in WrongForm /\ "InvalidArgument" \in Error
    BY Listed DEF WrongForm
  <2>2. ASSUME NEW f \in {"bad_id", "bad_value", "bad_file"}
        PROVE  ~(r.form # f) => Garbled(r)
    BY DEF Garbled
  <2>3. ASSUME NEW f \in {"bad_id", "bad_value", "bad_file"}
        PROVE  Honest(r, Require(r.form # f, "InvalidArgument"))
    <3> DEFINE h == r.form # f
    <3>1. ~h => Garbled(r)
      BY <2>2
    <3> HIDE DEF h
    <3>2. Honest(r, Require(h, "InvalidArgument"))
      BY <1>3, <2>1, <3>1
    <3> QED
      BY <3>2 DEF h
  <2> QED
    BY <2>3 DEF Parsed
<1>5. Honest(r, SetsSomething(r))
  <2> DEFINE h == r.form # "empty"
  <2>1. /\ "ErrNoFieldsToUpdate" \in Error /\ Plain("ErrNoFieldsToUpdate")
        /\ ~h => r.form # "good"
    BY Listed, Meanings
  <2> HIDE DEF h
  <2>2. Honest(r, Require(h, "ErrNoFieldsToUpdate"))
    BY <1>2, <2>1
  <2> QED
    BY <2>2 DEF h, SetsSomething
<1>6. Honest(r, NotNil(r))
  <2> DEFINE h == r.form # "nil_id"
  <2>1. /\ "ErrInvalidArgument" \in Error /\ "ErrInvalidArgument" \in WrongForm
        /\ ~h => Garbled(r)
    BY Listed DEF WrongForm, Garbled
  <2> HIDE DEF h
  <2>2. Honest(r, Require(h, "ErrInvalidArgument"))
    BY <1>3, <2>1
  <2> QED
    BY <2>2 DEF h, NotNil
<1>7. Honest(r, getRole(r))
  <2> DEFINE h == Role(r) \in {"tutor", "student"}
  <2>1. "ErrAuthentication" \in Error /\ h
    BY Listed DEF Role
  <2> HIDE DEF h
  <2>2. Honest(r, Require(h, "ErrAuthentication"))
    BY <2>1, HonestRequire
  <2> QED
    BY <2>2 DEF h, getRole
<1>8. ASSUME Closed(r)
      PROVE  Honest(r, getUserId(r))
  <2> DEFINE h == r.who \notin {"nobody", "unknown"}
             e == "ErrAuthentication"
  <2>1. e \in Error
    BY Listed
  <2>2. ASSUME NEW w, NEW o, ~h
        PROVE  Says(r, e, w, o)
    <3>1. r.who \in {"nobody", "unknown"} /\ Excuse(r, w, o)
      BY <1>8, <2>2 DEF Closed, Excuse, Outsider
    <3>2. e \in NoCredentials
      BY DEF NoCredentials
    <3>3. e \notin WrongForm \cup NotAllowed \cup Absent \cup Occupied
      BY DEF WrongForm, NotAllowed, Absent, Occupied
    <3> QED
      BY <3>1, <3>2, <3>3 DEF Says
  <2> HIDE DEF h, e
  <2>3. Honest(r, Require(h, e))
    BY <2>1, <2>2, HonestRequire
  <2> QED
    BY <2>3 DEF h, e, getUserId
<1>9. "ErrPermissionDenied" \in Error /\ "ErrPermissionDenied" \in NotAllowed
  BY Listed DEF NotAllowed
<1>10. ASSUME NEW ids, Closed(r), r.who \notin ids => Outsider(r)
       PROVE  Honest(r, ensureCurrentUserIs(r, ids))
  <2> DEFINE h == r.who \in ids
  <2>1. ~h => Outsider(r)
    BY <1>10
  <2> HIDE DEF h
  <2>2. Honest(r, Require(h, "ErrPermissionDenied"))
    BY <1>1, <1>9, <2>1
  <2>3. Honest(r, getUserId(r) \o Require(h, "ErrPermissionDenied"))
    BY <1>8, <1>10, <2>2, HonestJoined
  <2> QED
    BY <2>3 DEF h, ensureCurrentUserIs
<1>11. ASSUME NEW role, Role(r) # role => Outsider(r)
       PROVE  Honest(r, ensureCurrentUserRole(r, role)) /\ Honest(r, requireRole(r, role))
  <2> DEFINE h == Role(r) = role
  <2>1. ~h => Outsider(r)
    BY <1>11
  <2> HIDE DEF h
  <2>2. Honest(r, Require(h, "ErrPermissionDenied"))
    BY <1>1, <1>9, <2>1
  <2>3. Honest(r, getRole(r) \o Require(h, "ErrPermissionDenied"))
    BY <1>7, <2>2, HonestJoined
  <2> QED
    BY <2>2, <2>3 DEF h, ensureCurrentUserRole, requireRole
<1> QED
  BY <1>1, <1>2, <1>3, <1>4, <1>5, <1>6, <1>7, <1>8, <1>10, <1>11

-----------------------------------------------------------------------------
(* What the calls say *)

LEMMA RpcRegisterViaTelegramTells ==
  ASSUME NEW r,
         "person" \in NamedBy(r.op),
         "present" \notin Needed(r, "person")
  PROVE  Honest(r, RpcRegisterViaTelegram(r))
<1>1. Honest(r, Require(r.form # "bad_value", "ErrValidation"))
  <2> DEFINE h == r.form # "bad_value"
  <2>1. /\ "ErrValidation" \in Error /\ "ErrValidation" \in WrongForm
        /\ ~h => Garbled(r)
    BY Listed DEF WrongForm, Garbled
  <2> HIDE DEF h
  <2>2. Honest(r, Require(h, "ErrValidation"))
    BY <2>1, HonestChecks
  <2> QED
    BY <2>2 DEF h
<1>2. Honest(r, DbRegister)
  BY HonestUserStatements
<1>3. Honest(r, SvcRegisterViaTelegram(r))
  BY <1>1, <1>2, HonestJoined DEF SvcRegisterViaTelegram
<1>4. Honest(r, RpcRegisterViaTelegram(r))
  BY <1>3, HonestLayers DEF UserErrors, RpcRegisterViaTelegram
<1> QED
  BY <1>4

LEMMA RpcGetUserTells ==
  ASSUME NEW r,
         Needs(r, "person")
  PROVE  Honest(r, RpcGetUser(r))
<1>1. Honest(r, DbGetUser(FALSE))
  BY HonestUserStatements
<1>2. Honest(r, SvcGetUserPublic(r))
  BY <1>1 DEF SvcGetUserPublic
<1>3. Honest(r, mapError(SvcGetUserPublic(r), {"ErrNotFound"}))
  BY <1>2, HonestLayers DEF UserErrors
<1>4. Honest(r, RpcGetUser(r))
  BY <1>3, HonestChecks, HonestJoined DEF RpcGetUser
<1> QED
  BY <1>4

LEMMA RpcGetMeTells ==
  ASSUME NEW r,
         Closed(r)
  PROVE  Honest(r, RpcGetMe(r))
<1>1. Honest(r, Require(r.who # "nobody", "ErrNotFound"))
  <2> DEFINE h == r.who # "nobody"
  <2>1. /\ "ErrNotFound" \in Error /\ "ErrNotFound" \in Absent
        /\ ~h => Outsider(r)
    BY Listed DEF Absent, Closed, Outsider
  <2> HIDE DEF h
  <2>2. Honest(r, Require(h, "ErrNotFound"))
    BY <2>1, HonestChecks
  <2> QED
    BY <2>2 DEF h
<1>2. Honest(r, DbGetUser(TRUE))
  BY HonestUserStatements
<1>3. Honest(r, SvcGetMe(r))
  BY <1>1, <1>2, HonestJoined DEF SvcGetMe
<1>4. Honest(r, RpcGetMe(r))
  BY <1>3, HonestLayers DEF UserErrors, RpcGetMe
<1> QED
  BY <1>4

LEMMA RpcUpdateUserTells ==
  ASSUME NEW r,
         Closed(r),
         r.who \notin Participants => Outsider(r)
  PROVE  Honest(r, RpcUpdateUser(r))
<1>1. Honest(r, ensureCurrentUserIs(r, Participants))
  BY HonestChecks
<1>2. Honest(r, UpdatesUser)
  BY HonestUserStatements
<1>3. Honest(r, DbUpdateUser(r))
  BY <1>2, HonestChecks, HonestJoined DEF DbUpdateUser, UpdatesUser
<1>4. Honest(r, SvcUpdateUser(r))
  BY <1>1, <1>3, HonestJoined DEF SvcUpdateUser
<1>5. Honest(r, mapError(SvcUpdateUser(r), {"ErrNotFound", "ErrValidation",
        "ErrPermissionDenied"}))
  BY <1>4, HonestLayers DEF UserErrors
<1>6. Honest(r, RpcUpdateUser(r))
  BY <1>5, HonestChecks, HonestJoined DEF RpcUpdateUser
<1> QED
  BY <1>6

LEMMA RpcGetTutorProfileByUserIdTells ==
  ASSUME NEW r,
         Closed(r),
         r.who \notin Participants => Outsider(r),
         Role(r) # "tutor" => Outsider(r)
  PROVE  Honest(r, RpcGetTutorProfileByUserId(r))
<1>1. Honest(r, ensureCurrentUserIs(r, Participants))
  BY HonestChecks
<1>2. Honest(r, DbGetTutorProfile(r))
  BY HonestUserStatements
<1>3. Honest(r, SvcGetTutorProfile(r))
  BY <1>1, <1>2, HonestJoined DEF SvcGetTutorProfile
<1>4. Honest(r, mapError(SvcGetTutorProfile(r), {"ErrNotFound", "ErrPermissionDenied"}))
  BY <1>3, HonestLayers DEF UserErrors
<1>5. Honest(r, RpcGetTutorProfileByUserId(r))
  BY <1>4, HonestChecks, HonestJoined DEF RpcGetTutorProfileByUserId
<1> QED
  BY <1>5

LEMMA RpcUpdateTutorProfileTells ==
  ASSUME NEW r,
         Closed(r),
         r.who \notin Participants => Outsider(r),
         Role(r) # "tutor" => Outsider(r)
  PROVE  Honest(r, RpcUpdateTutorProfile(r))
<1>1. Honest(r, ensureCurrentUserIs(r, Participants))
  BY HonestChecks
<1>2. Honest(r, UpdatesTutorProfile(r))
  BY HonestUserStatements
<1>3. Honest(r, DbUpdateTutorProfile(r))
  BY <1>2, HonestChecks, HonestJoined DEF DbUpdateTutorProfile, UpdatesTutorProfile
<1>4. Honest(r, SvcUpdateTutorProfile(r))
  BY <1>1, <1>3, HonestJoined DEF SvcUpdateTutorProfile
<1>5. Honest(r, mapError(SvcUpdateTutorProfile(r), {"ErrNotFound", "ErrValidation",
        "ErrPermissionDenied"}))
  BY <1>4, HonestLayers DEF UserErrors
<1>6. Honest(r, RpcUpdateTutorProfile(r))
  BY <1>5, HonestChecks, HonestJoined DEF RpcUpdateTutorProfile
<1> QED
  BY <1>6

LEMMA RpcCreateTutorStudentTells ==
  ASSUME NEW r,
         Closed(r),
         r.who \notin {"tutor"} => Outsider(r),
         Role(r) # "tutor" => Outsider(r),
         Needs(r, "person"),
         "pair" \in NamedBy(r.op),
         Needed(r, "pair") = {"none"}
  PROVE  Honest(r, RpcCreateTutorStudent(r))
<1>1. Honest(r, ensureCurrentUserIs(r, {"tutor"}))
  BY HonestChecks
<1>2. Honest(r, ensureCurrentUserRole(r, "tutor"))
  BY HonestChecks
<1>3. Honest(r, DbCreateTutorStudent)
  BY HonestUserStatements
<1>4. Honest(r, ensureCurrentUserIs(r, {"tutor"}) \o ensureCurrentUserRole(r, "tutor"))
  BY <1>1, <1>2, HonestJoined
<1>5. Honest(r, SvcCreateTutorStudent(r))
  BY <1>3, <1>4, HonestJoined DEF SvcCreateTutorStudent
<1>6. Honest(r, mapError(SvcCreateTutorStudent(r), {"ErrAlreadyExists", "ErrValidation",
        "ErrPermissionDenied"}))
  BY <1>5, HonestLayers DEF UserErrors
<1>7. Honest(r, RpcCreateTutorStudent(r))
  BY <1>6, HonestChecks, HonestJoined DEF RpcCreateTutorStudent
<1> QED
  BY <1>7

LEMMA RpcGetTutorStudentTells ==
  ASSUME NEW r,
         Closed(r),
         r.who \notin Participants => Outsider(r),
         Needs(r, "pair")
  PROVE  Honest(r, RpcGetTutorStudent(r))
<1> DEFINE ids == IF NamesPair(r) THEN Participants ELSE {r.who}
<1>1. Honest(r, ensureCurrentUserIs(r, ids))
  <2>1. r.who \notin ids => Outsider(r)
    OBVIOUS
  <2> HIDE DEF ids
  <2> QED
    BY <2>1, HonestChecks
<1>2. Honest(r, DbGetTutorStudent(r))
  BY HonestUserStatements
<1>3. Honest(r, SvcGetTutorStudent(r))
  BY <1>1, <1>2, HonestJoined DEF SvcGetTutorStudent
<1>4. Honest(r, mapError(SvcGetTutorStudent(r), {"ErrNotFound", "ErrPermissionDenied",
        "ErrAuthentication"}))
  BY <1>3, HonestLayers DEF UserErrors
<1>5. Honest(r, RpcGetTutorStudent(r))
  BY <1>4, HonestChecks, HonestJoined DEF RpcGetTutorStudent
<1> QED
  BY <1>5

LEMMA RpcUpdateTutorStudentTells ==
  ASSUME NEW r,
         Closed(r),
         r.who \notin {"tutor"} => Outsider(r),
         r.who \notin Participants => Outsider(r),
         Needs(r, "pair")
  PROVE  Honest(r, RpcUpdateTutorStudent(r))
<1>1. Honest(r, ensureCurrentUserIs(r, {"tutor"}))
  BY HonestChecks
<1>2. Honest(r, UpdatesTutorStudent(r, {"invited", "active"}))
  BY HonestUserStatements DEF PairState
<1>3. Honest(r, DbUpdateTutorStudent(r, {"invited", "active"}))
  BY <1>2, HonestChecks, HonestJoined DEF DbUpdateTutorStudent, UpdatesTutorStudent
<1>4. Honest(r, SvcUpdateTutorStudent(r))
  BY <1>1, <1>3, HonestJoined DEF SvcUpdateTutorStudent
<1>5. Honest(r, mapError(SvcUpdateTutorStudent(r), {"ErrNotFound", "ErrPermissionDenied"}))
  BY <1>4, HonestLayers DEF UserErrors
<1>6. Honest(r, Parsed(r, "bad_id") \o Parsed(r, "bad_value"))
  BY HonestChecks, HonestJoined
<1>7. Honest(r, RpcUpdateTutorStudent(r))
  BY <1>5, <1>6, HonestJoined DEF RpcUpdateTutorStudent
<1> QED
  BY <1>7

LEMMA RpcDeleteTutorStudentTells ==
  ASSUME NEW r,
         Closed(r),
         r.who \notin {"tutor"} => Outsider(r),
         r.who \notin Participants => Outsider(r),
         Needs(r, "pair")
  PROVE  Honest(r, RpcDeleteTutorStudent(r))
<1>1. Honest(r, ensureCurrentUserIs(r, {"tutor"}))
  BY HonestChecks
<1>2. Honest(r, DbDeleteTutorStudent(r))
  BY HonestUserStatements
<1>3. Honest(r, SvcDeleteTutorStudent(r))
  BY <1>1, <1>2, HonestJoined DEF SvcDeleteTutorStudent
<1>4. Honest(r, mapError(SvcDeleteTutorStudent(r), {"ErrNotFound", "ErrPermissionDenied"}))
  BY <1>3, HonestLayers DEF UserErrors
<1>5. Honest(r, RpcDeleteTutorStudent(r))
  BY <1>4, HonestChecks, HonestJoined DEF RpcDeleteTutorStudent
<1> QED
  BY <1>5

LEMMA RpcListTutorStudentsTells ==
  ASSUME NEW r,
         Closed(r),
         r.who \notin {"tutor"} => Outsider(r)
  PROVE  Honest(r, RpcListTutorStudents(r))
<1>1. Honest(r, ensureCurrentUserIs(r, {"tutor"}))
  BY HonestChecks
<1>2. Honest(r, DbListTutorStudents)
  BY HonestUserStatements
<1>3. Honest(r, SvcListTutorStudents(r))
  BY <1>1, <1>2, HonestJoined DEF SvcListTutorStudents
<1>4. Honest(r, mapError(SvcListTutorStudents(r), {"ErrNotFound", "ErrPermissionDenied"}))
  BY <1>3, HonestLayers DEF UserErrors
<1>5. Honest(r, RpcListTutorStudents(r))
  BY <1>4, HonestChecks, HonestJoined DEF RpcListTutorStudents
<1> QED
  BY <1>5

LEMMA RpcListTutorsForStudentTells ==
  ASSUME NEW r,
         Closed(r),
         r.who \notin {"student"} => Outsider(r)
  PROVE  Honest(r, RpcListTutorsForStudent(r))
<1>1. Honest(r, ensureCurrentUserIs(r, {"student"}))
  BY HonestChecks
<1>2. Honest(r, DbListTutorStudents)
  BY HonestUserStatements
<1>3. Honest(r, SvcListTutorStudentsForStudent(r))
  BY <1>1, <1>2, HonestJoined DEF SvcListTutorStudentsForStudent
<1>4. Honest(r, mapError(SvcListTutorStudentsForStudent(r), {"ErrNotFound",
        "ErrPermissionDenied"}))
  BY <1>3, HonestLayers DEF UserErrors
<1>5. Honest(r, RpcListTutorsForStudent(r))
  BY <1>4, HonestChecks, HonestJoined DEF RpcListTutorsForStudent
<1> QED
  BY <1>5

LEMMA RpcAcceptInvitationFromTutorTells ==
  ASSUME NEW r,
         Closed(r),
         r.who \notin Participants => Outsider(r),
         Role(r) # "student" => Outsider(r),
         Needs(r, "pair")
  PROVE  Honest(r, RpcAcceptInvitationFromTutor(r))
<1>1. Honest(r, getUserId(r))
  BY HonestChecks
<1>2. Honest(r, ensureCurrentUserRole(r, "student"))
  BY HonestChecks
<1>3. Honest(r, UpdatesTutorStudent(r, {"active"}))
  BY HonestUserStatements DEF PairState
<1>4. Honest(r, DbUpdateTutorStudent(r, {"active"}))
  BY <1>3, HonestChecks, HonestJoined DEF DbUpdateTutorStudent, UpdatesTutorStudent
<1>5. Honest(r, getUserId(r) \o ensureCurrentUserRole(r, "student"))
  BY <1>1, <1>2, HonestJoined
<1>6. Honest(r, SvcAcceptInvitationFromTutor(r))
  BY <1>4, <1>5, HonestJoined DEF SvcAcceptInvitationFromTutor
<1>7. Honest(r, mapError(SvcAcceptInvitationFromTutor(r), {"ErrPermissionDenied", "ErrNotFound"}))
  BY <1>6, HonestLayers DEF UserErrors
<1>8. Honest(r, RpcAcceptInvitationFromTutor(r))
  BY <1>7, HonestChecks, HonestJoined DEF RpcAcceptInvitationFromTutor
<1> QED
  BY <1>8


-----------------------------------------------------------------------------
(* What forbids *)

LEMMA BarringJoined ==
  ASSUME NEW r, NEW p, NEW q, Barring(r, p), Barring(r, q)
  PROVE  Barring(r, p \o q)
<1>1. p \in Code /\ q \in Code
  BY DEF Barring
<1> QED
  BY <1>1, Joined DEF Barring

LEMMA BarringTranslated ==
  ASSUME NEW r, NEW p, Barring(r, p), NEW G \in Translation
  PROVE  Barring(r, Translated(p, G))
<1>1. p \in Code
  BY DEF Barring
<1>2. ASSUME NEW w, NEW o, Yields(Translated(p, G), w, o), o.err # "ok", Sound(w)
      PROVE  Bar(r, w, o)
  <2>1. PICK o2 : Yields(p, w, o2) /\ Renames(G, o2, o)
    BY <1>1, <1>2, Translates
  <2>2. o2.err # "ok"
    BY <1>2, <2>1, Errors DEF Renames
  <2> QED
    BY <1>2, <2>1, <2>2, SameReasons DEF Renames, Barring
<1> QED
  BY <1>1, <1>2, Translates DEF Barring

LEMMA BarringTested ==
  ASSUME NEW r, NEW p, Barring(r, p), NEW H, NEW e \in Error,
         \A w \in World, o \in Outcome : o.world \notin H => Bar(r, w, o)
  PROVE  Barring(r, TestedBy(p, H, e))
<1>1. p \in Code
  BY DEF Barring
<1>2. ASSUME NEW w, NEW o, Yields(TestedBy(p, H, e), w, o), o.err # "ok", Sound(w)
      PROVE  Bar(r, w, o)
  <2>1. PICK o2 : Yields(p, w, o2) /\ Survives(H, e, o2, o)
    BY <1>1, <1>2, Tests
  <2>2. CASE o = o2
    BY <1>2, <2>1, <2>2 DEF Barring
  <2>3. CASE o2.world \notin H /\ Is(o, o2.world, e, {})
    <3>1. o \in Outcome /\ o.world \notin H
      BY <2>3 DEF Is
    <3>2. w \in World
      BY <1>1, <2>1, Yielded
    <3> QED
      BY <3>1, <3>2
  <2> QED
    BY <2>1, <2>2, <2>3 DEF Survives
<1> QED
  BY <1>1, <1>2, Tests DEF Barring

LEMMA BarringRequire ==
  ASSUME NEW r, NEW h, NEW e \in Error, ~h => Outsider(r) \/ r.form = "bad_id"
  PROVE  Barring(r, Require(h, e))
<1>1. Require(h, e) \in Code
  BY Required
<1>2. \A w, o : Yields(Require(h, e), w, o) => ~h /\ Is(o, w, e, {})
  BY Required
<1> QED
  BY <1>1, <1>2 DEF Barring, Bar

LEMMA BarringRemote ==
  ASSUME NEW r, NEW p, Barring(r, p)
  PROVE  Barring(r, Remote(p))
<1>1. ASSUME NEW w, NEW o, Yields(Call, w, o), o.err # "ok"
      PROVE  Bar(r, w, o)
  <2>1. Down(o)
    BY <1>1, Called DEF Is
  <2> QED
    BY <2>1 DEF Bar
<1>2. Barring(r, Call)
  BY <1>1, Called DEF Barring
<1> QED
  BY <1>2, Called, BarringJoined

LEMMA BarringAnswers ==
  ASSUME NEW r, NEW p, NEW H, NEW E, NEW T, NEW e, Answers(p, H, E, T, e),
         \A w \in World : \A o : w \notin H => Bar(r, w, o)
  PROVE  Barring(r, p)
<1>1. ASSUME NEW w, NEW o, Yields(p, w, o), o.err # "ok"
      PROVE  Bar(r, w, o)
  <2>1. /\ w \in World
        /\ w \notin H \/ Down(o)
    BY <1>1 DEF Answers
  <2> QED
    BY <2>1 DEF Bar
<1> QED
  BY <1>1 DEF Answers, Barring

\* What a bar is translated to may forbid, or say nothing.
LEMMA HonestBarring ==
  ASSUME NEW r, NEW p, Barring(r, p), NEW G \in Translation,
         \A e \in Error : G[e] \in NotAllowed \/ Plain(G[e])
  PROVE  Honest(r, Translated(p, G))
<1>1. p \in Code
  BY DEF Barring
<1>2. ASSUME NEW w, NEW o, Yields(Translated(p, G), w, o), o.err # "ok", Sound(w)
      PROVE  Says(r, o.err, w, o)
  <2>1. PICK o2 : Yields(p, w, o2) /\ Renames(G, o2, o)
    BY <1>1, <1>2, Translates
  <2>2. o2.err # "ok" /\ o2.err \in Error /\ o.err = G[o2.err]
    BY <1>2, <2>1, Errors DEF Renames
  <2>3. Bar(r, w, o)
    BY <1>2, <2>1, <2>2, SameReasons DEF Renames, Barring
  <2>4. Excuse(r, w, o)
    BY <2>3, RowsByName DEF Bar, Excuse
  <2>5. o.err \in NotAllowed \/ Plain(o.err)
    BY <2>2
  <2> QED
    BY <2>3, <2>4, <2>5, Meanings DEF Says, Plain
<1> QED
  BY <1>1, <1>2, Translates DEF Honest

\* The answer about the pair is no for a reason to forbid what is asked.
LEMMA ValidateTutorStudentPairBars ==
  ASSUME NEW r, Closed(r), r.who \notin Participants => Outsider(r),
         "pair" \in NamedBy(r.op), Needed(r, "pair") = {"active"}
  PROVE  Barring(r, ValidateTutorStudentPair(r))
<1> DEFINE H == {w \in World : PairOf(w, r) # "none"}
           ids == IF NamesPair(r) THEN Participants ELSE {r.who}
           e == {"ErrNotFound", "ErrPermissionDenied", "ErrAuthentication"}
<1>1. ASSUME NEW w \in World, NEW o, w \notin ActivePair(r) \/ w \notin H
      PROVE  Outsider(r) \/ w["pair"] \notin Needed(r, "pair")
  BY <1>1 DEF ActivePair, PairOf, NamesPair
<1>2. Barring(r, DbGetTutorStudent(r))
  <2>1. Answers(DbGetTutorStudent(r), H, Same("ErrNotFound"), {}, "repository error")
    BY DbGetTutorStudentDoes
  <2>2. ASSUME NEW w \in World, NEW o, w \notin H
        PROVE  Bar(r, w, o)
    <3>1. w["pair"] \notin Needed(r, "pair") => w["pair"] \in Hurdles(r, w, o, "pair")
      BY Stands, RowsByName
    <3> QED
      BY <1>1, <2>2, <3>1 DEF Bar
  <2> HIDE DEF H
  <2> QED
    BY <2>1, <2>2, BarringAnswers
<1> HIDE DEF H
<1>3. Barring(r, getUserId(r))
  <2> DEFINE h == r.who \notin {"nobody", "unknown"}
  <2>1. "ErrAuthentication" \in Error /\ (~h => Outsider(r))
    BY Listed DEF Closed, Outsider
  <2> HIDE DEF h
  <2>2. Barring(r, Require(h, "ErrAuthentication"))
    BY <2>1, BarringRequire
  <2> QED
    BY <2>2 DEF h, getUserId
<1>4. Barring(r, ensureCurrentUserIs(r, ids))
  <2> DEFINE h == r.who \in ids
  <2>1. "ErrPermissionDenied" \in Error /\ (~h => Outsider(r))
    BY Listed
  <2> HIDE DEF h
  <2>2. Barring(r, Require(h, "ErrPermissionDenied"))
    BY <2>1, BarringRequire
  <2>3. Barring(r, getUserId(r) \o Require(h, "ErrPermissionDenied"))
    BY <1>3, <2>2, BarringJoined
  <2> HIDE DEF ids
  <2> QED
    BY <2>3 DEF h, ensureCurrentUserIs
<1>5. Barring(r, SvcGetTutorStudent(r))
  BY <1>2, <1>4, BarringJoined DEF SvcGetTutorStudent
<1>6. Barring(r, Parsed(r, "bad_id"))
  <2> DEFINE h == r.form # "bad_id"
  <2>1. "InvalidArgument" \in Error /\ (~h => r.form = "bad_id")
    BY Listed
  <2> HIDE DEF h
  <2>2. Barring(r, Require(h, "InvalidArgument"))
    BY <2>1, BarringRequire
  <2> QED
    BY <2>2 DEF h, Parsed
<1>7. Barring(r, mapError(SvcGetTutorStudent(r), e))
  <2>1. e \in SUBSET UserErrors /\ SvcGetTutorStudent(r) \in Code
    BY <1>5 DEF UserErrors, Barring
  <2>2. /\ mapError(SvcGetTutorStudent(r), e) = Translated(SvcGetTutorStudent(r), UserStatus(e))
        /\ UserStatus(e) \in Translation
    BY <2>1, Layers, Translations
  <2> QED
    BY <1>5, <2>2, BarringTranslated
<1>8. Barring(r, RpcGetTutorStudent(r))
  BY <1>6, <1>7, BarringJoined DEF RpcGetTutorStudent
<1>9. Barring(r, GetTutorStudent(r))
  BY <1>8, BarringRemote DEF GetTutorStudent
<1>10. Barring(r, TestedBy(GetTutorStudent(r), ActivePair(r), "no_pair"))
  <2>1. ASSUME NEW w \in World, NEW o \in Outcome, o.world \notin ActivePair(r)
        PROVE  Bar(r, w, o)
    <3>1. o.world \in World
      BY DEF Outcome
    <3>2. o.world["pair"] \notin Needed(r, "pair") => o.world["pair"] \in Hurdles(r, w, o, "pair")
      BY Stands, RowsByName
    <3> QED
      BY <1>1, <2>1, <3>1, <3>2 DEF Bar
  <2> QED
    BY <1>9, <2>1, BarringTested, Listed
<1>11. Barring(r, Translated(TestedBy(GetTutorStudent(r), ActivePair(r), "no_pair"), PairAnswer))
  BY <1>10, BarringTranslated, Translations
<1> QED
  BY <1>11, ValidateTutorStudentPairDoes

-----------------------------------------------------------------------------
(* The schedule service *)

\* The request is about the pair, which has to be active.
Paired(r) ==
  /\ Closed(r)
  /\ r.who \notin Participants => Outsider(r)
  /\ "pair" \in NamedBy(r.op) /\ Needed(r, "pair") = {"active"}

LEMMA HonestInternal ==
  ASSUME NEW r, NEW p, Excused(r, p)
  PROVE  Honest(r, Becomes(p, "Internal"))
<1>1. p \in Code
  BY DEF Excused
<1>2. Becomes(p, "Internal") = Translated(p, Always("Internal"))
  BY <1>1, Layers
<1>3. Plain("Internal") /\ "Internal" \in Error
  BY PlainErrors, Listed
<1>4. Honest(r, Translated(p, Always("Internal")))
  BY <1>3, HonestBecomes
<1> QED
  BY <1>2, <1>4

LEMMA HonestAboutPairs ==
  ASSUME NEW r, Paired(r)
  PROVE  /\ Honest(r, Becomes(ValidateTutorStudentPair(r), "PermissionDenied"))
         /\ Honest(r, Through(ValidateTutorStudentPair(r), LAMBDA e :
                        IF e = "no_pair" THEN "FailedPrecondition" ELSE "Internal"))
         /\ Honest(r, Through(ValidateTutorStudentPair(r), LAMBDA e :
                        IF e = "no_pair" THEN "PermissionDenied" ELSE "Internal"))
<1> DEFINE q == ValidateTutorStudentPair(r)
           G == Either("no_pair", "FailedPrecondition", "Internal")
           F == Either("no_pair", "PermissionDenied", "Internal")
<1>1. Barring(r, q)
  BY ValidateTutorStudentPairBars DEF Paired
<1> HIDE DEF q
<1>2. q \in Code
  BY <1>1 DEF Barring
<1>3. \A i \in DOMAIN q, w \in World : \A o \in q[i][w] : o.err \in Error \cup {"ok"}
  BY <1>2, Made DEF Makes, Outcome
<1>4. Through(q, LAMBDA e : IF e = "no_pair" THEN "FailedPrecondition" ELSE "Internal")
        = Translated(q, G)
  BY <1>3 DEF Through, Translated, Either
<1>5. Through(q, LAMBDA e : IF e = "no_pair" THEN "PermissionDenied" ELSE "Internal")
        = Translated(q, F)
  BY <1>3 DEF Through, Translated, Either
<1>6. G \in Translation /\ F \in Translation
  BY Translations, Listed
<1>7. \A e \in Error : Plain(G[e])
  BY PlainErrors, Meanings DEF Either
<1>8. \A e \in Error : F[e] \in NotAllowed \/ Plain(F[e])
  BY PlainErrors DEF Either, NotAllowed
<1> HIDE DEF G, F
<1>9. Honest(r, Translated(q, G))
  BY <1>1, <1>6, <1>7, HonestBarring
<1>10. Honest(r, Translated(q, F))
  BY <1>1, <1>6, <1>8, HonestBarring
<1>11. Honest(r, Becomes(q, "PermissionDenied"))
  <2>1. "PermissionDenied" \in NotAllowed
    BY DEF NotAllowed
  <2>2. Becomes(q, "PermissionDenied") = Translated(q, Always("PermissionDenied"))
    BY <1>2, Layers
  <2>3. Honest(r, Translated(q, Always("PermissionDenied")))
    BY <1>1, <2>1, HonestBecomes
  <2> QED
    BY <2>2, <2>3
<1> QED
  BY <1>4, <1>5, <1>9, <1>10, <1>11 DEF q

LEMMA SlotByIdTells ==
  ASSUME NEW r,
         Needs(r, "slot")
  PROVE  Honest(r, SlotById(r))
<1>1. Honest(r, DbGetSlot)
  BY HonestScheduleStatements
<1>2. Honest(r, NotFoundOr(DbGetSlot, "ErrSlotNotFound"))
  BY <1>1, HonestLayers
<1>3. Honest(r, SlotById(r))
  BY <1>2, HonestChecks, HonestJoined DEF SlotById
<1> QED
  BY <1>3

LEMMA OwnUnbookedSlotTells ==
  ASSUME NEW r,
         Needs(r, "slot"),
         r.who \notin {"tutor"} => Outsider(r),
         "booked" \notin Needed(r, "slot")
  PROVE  Honest(r, OwnUnbookedSlot(r))
<1>1. Honest(r, SlotById(r))
  BY SlotByIdTells
<1>2. Tested(SlotById(r), LAMBDA w : r.who = "tutor", "PermissionDenied") = TestedBy(SlotById(r),
        Owned(r), "PermissionDenied")
  <2> DEFINE q == SlotById(r)
             e == "PermissionDenied"
  <2>1. q \in Code
    BY <1>1 DEF Honest
  <2> HIDE DEF q, e
  <2>2. Tested(q, LAMBDA w : r.who = "tutor", e) = TestedBy(q, Owned(r), e)
    BY <2>1, Made DEF Tested, TestedBy, Makes, Outcome, Owned
  <2> QED
    BY <2>2 DEF q, e
<1>3. ASSUME NEW w \in World, NEW o \in Outcome, o.world \notin Owned(r)
      PROVE  Says(r, "PermissionDenied", w, o)
  <2>1. Outsider(r)
    BY <1>3 DEF Owned, Outcome
  <2>2. "PermissionDenied" \in NotAllowed
    BY DEF NotAllowed
  <2> QED
    BY <2>1, <2>2, Reasons
<1>4. Honest(r, TestedBy(SlotById(r), Owned(r), "PermissionDenied"))
  BY <1>1, <1>3, HonestTested, Listed
<1>5. Honest(r, Tested(SlotById(r), LAMBDA w : r.who = "tutor", "PermissionDenied"))
  BY <1>2, <1>4
<1>6. Tested(Tested(SlotById(r), LAMBDA w : r.who = "tutor", "PermissionDenied"),
        LAMBDA w : w.slot # "booked", "FailedPrecondition") = TestedBy(Tested(SlotById(r),
        LAMBDA w : r.who = "tutor", "PermissionDenied"), Unbooked, "FailedPrecondition")
  <2> DEFINE q == Tested(SlotById(r), LAMBDA w : r.who = "tutor", "PermissionDenied")
             e == "FailedPrecondition"
  <2>1. q \in Code
    BY <1>5 DEF Honest
  <2> HIDE DEF q, e
  <2>2. Tested(q, LAMBDA w : w.slot # "booked", e) = TestedBy(q, Unbooked, e)
    BY <2>1, Made DEF Tested, TestedBy, Makes, Outcome, Unbooked
  <2> QED
    BY <2>2 DEF q, e
<1>7. ASSUME NEW w \in World, NEW o \in Outcome, o.world \notin Unbooked
      PROVE  Says(r, "FailedPrecondition", w, o)
  <2>1. o.world["slot"] = "booked"
    BY <1>7 DEF Unbooked, Outcome
  <2>2. "booked" \in Hurdles(r, w, o, "slot")
    BY <2>1, Stands, RowsByName DEF Needs
  <2>3. Hurdles(r, w, o, "slot") \ {"none"} # {}
    BY <2>2
  <2> QED
    BY <2>3, Reasons, Meanings, RowsByName
<1>8. Honest(r, TestedBy(Tested(SlotById(r), LAMBDA w : r.who = "tutor", "PermissionDenied"),
        Unbooked, "FailedPrecondition"))
  BY <1>5, <1>7, HonestTested, Listed
<1>9. Honest(r, Tested(Tested(SlotById(r), LAMBDA w : r.who = "tutor", "PermissionDenied"),
        LAMBDA w : w.slot # "booked", "FailedPrecondition"))
  BY <1>6, <1>8
<1>10. Honest(r, OwnUnbookedSlot(r))
  BY <1>9 DEF OwnUnbookedSlot
<1> QED
  BY <1>10

LEMMA RpcGetSlotTells ==
  ASSUME NEW r,
         Needs(r, "slot"),
         r.who # "tutor" => Paired(r)
  PROVE  Honest(r, RpcGetSlot(r))
<1>1. Honest(r, SlotById(r))
  BY SlotByIdTells
<1>2. Honest(r, (IF r.who = "tutor" THEN <<>> ELSE Becomes(ValidateTutorStudentPair(r),
        "PermissionDenied")))
  BY HonestAboutPairs, HonestNothing, Zenon
<1>3. Honest(r, RpcGetSlot(r))
  BY <1>1, <1>2, HonestJoined DEF RpcGetSlot
<1> QED
  BY <1>3

LEMMA RpcCreateSlotTells ==
  ASSUME NEW r,
         r.who \notin {"tutor"} => Outsider(r),
         Role(r) # "tutor" => Outsider(r)
  PROVE  Honest(r, RpcCreateSlot(r))
<1>1. Honest(r, Require(IsTutor(r), "PermissionDenied"))
  <2> DEFINE h == IsTutor(r)
  <2>1. /\ "PermissionDenied" \in Error /\ "PermissionDenied" \in NotAllowed
        /\ ~h => Outsider(r)
    BY Listed DEF NotAllowed, IsTutor
  <2> HIDE DEF h
  <2>2. Honest(r, Require(h, "PermissionDenied"))
    BY <2>1, HonestChecks
  <2> QED
    BY <2>2 DEF h
<1>2. Honest(r, Require(r.who = "tutor", "PermissionDenied"))
  <2> DEFINE h == r.who = "tutor"
  <2>1. /\ "PermissionDenied" \in Error /\ "PermissionDenied" \in NotAllowed
        /\ ~h => Outsider(r)
    BY Listed DEF NotAllowed
  <2> HIDE DEF h
  <2>2. Honest(r, Require(h, "PermissionDenied"))
    BY <2>1, HonestChecks
  <2> QED
    BY <2>2 DEF h
<1>3. Honest(r, Becomes(DbCreateSlot(r), "Internal"))
  BY HonestScheduleStatements, HonestInternal
<1>4. Honest(r, Require(IsTutor(r), "PermissionDenied") \o Require(r.who = "tutor",
        "PermissionDenied"))
  BY <1>1, <1>2, HonestJoined
<1>5. Honest(r, Require(IsTutor(r), "PermissionDenied") \o Require(r.who = "tutor",
        "PermissionDenied") \o Parsed(r, "bad_value"))
  BY <1>4, HonestChecks, HonestJoined
<1>6. Honest(r, RpcCreateSlot(r))
  BY <1>3, <1>5, HonestJoined DEF RpcCreateSlot
<1> QED
  BY <1>6

LEMMA RpcUpdateSlotTells ==
  ASSUME NEW r,
         Needs(r, "slot"),
         r.who \notin {"tutor"} => Outsider(r),
         "booked" \notin Needed(r, "slot")
  PROVE  Honest(r, RpcUpdateSlot(r))
<1>1. Honest(r, OwnUnbookedSlot(r))
  BY OwnUnbookedSlotTells
<1>2. Honest(r, Becomes(DbUpdateSlot(r), "Internal"))
  BY HonestScheduleStatements, HonestInternal
<1>3. Honest(r, OwnUnbookedSlot(r) \o Parsed(r, "bad_value"))
  BY <1>1, HonestChecks, HonestJoined
<1>4. Honest(r, RpcUpdateSlot(r))
  BY <1>2, <1>3, HonestJoined DEF RpcUpdateSlot
<1> QED
  BY <1>4

LEMMA RpcDeleteSlotTells ==
  ASSUME NEW r,
         Needs(r, "slot"),
         r.who \notin {"tutor"} => Outsider(r),
         Needed(r, "slot") = {"free"}
  PROVE  Honest(r, RpcDeleteSlot(r))
<1>1. "booked" \notin Needed(r, "slot") /\ "slot" \in NamedBy(r.op)
  BY DEF Needs
<1>2. Honest(r, OwnUnbookedSlot(r))
  BY <1>1, OwnUnbookedSlotTells
<1>3. Honest(r, Becomes(DbDeleteSlot, "Internal"))
  BY <1>1, HonestScheduleStatements, HonestInternal
<1>4. Honest(r, RpcDeleteSlot(r))
  BY <1>2, <1>3, HonestJoined DEF RpcDeleteSlot
<1> QED
  BY <1>4

LEMMA RpcListSlotsByTutorTells ==
  ASSUME NEW r,
         r.who # "tutor" => Paired(r)
  PROVE  Honest(r, RpcListSlotsByTutor(r))
<1>1. Honest(r, (IF r.who = "tutor" THEN <<>> ELSE Becomes(ValidateTutorStudentPair(r),
        "PermissionDenied")))
  BY HonestAboutPairs, HonestNothing, Zenon
<1>2. Honest(r, Becomes(DbListSlotsByTutor, "Internal"))
  BY HonestScheduleStatements, HonestLayers
<1>3. Honest(r, Parsed(r,
        "bad_id") \o (IF r.who = "tutor" THEN <<>> ELSE Becomes(ValidateTutorStudentPair(r),
        "PermissionDenied")))
  BY HonestChecks, <1>1, HonestJoined
<1>4. Honest(r, RpcListSlotsByTutor(r))
  BY <1>2, <1>3, HonestJoined DEF RpcListSlotsByTutor
<1> QED
  BY <1>4

LEMMA LessonByIdTells ==
  ASSUME NEW r,
         Needs(r, "lesson")
  PROVE  Honest(r, LessonById(r))
<1>1. Honest(r, DbGetLesson)
  BY HonestScheduleStatements
<1>2. Honest(r, NotFoundOr(DbGetLesson, "ErrLessonNotFound"))
  BY <1>1, HonestLayers
<1>3. Honest(r, LessonById(r))
  BY <1>2, HonestChecks, HonestJoined DEF LessonById
<1> QED
  BY <1>3

LEMMA LessonOfTells ==
  ASSUME NEW r,
         Needs(r, "lesson"),
         NEW callers,
         r.who \notin callers => Outsider(r)
  PROVE  Honest(r, LessonOf(r, callers))
<1>1. Honest(r, LessonById(r))
  BY LessonByIdTells
<1>2. Honest(r, Becomes(DbGetSlot, "Internal"))
  BY HonestScheduleStatements, HonestInternal
<1>3. Honest(r, Require(r.who \in callers, "PermissionDenied"))
  <2> DEFINE h == r.who \in callers
  <2>1. /\ "PermissionDenied" \in Error /\ "PermissionDenied" \in NotAllowed
        /\ ~h => Outsider(r)
    BY Listed DEF NotAllowed
  <2> HIDE DEF h
  <2>2. Honest(r, Require(h, "PermissionDenied"))
    BY <2>1, HonestChecks
  <2> QED
    BY <2>2 DEF h
<1>4. Honest(r, LessonById(r) \o Becomes(DbGetSlot, "Internal"))
  BY <1>1, <1>2, HonestJoined
<1>5. Honest(r, LessonOf(r, callers))
  BY <1>3, <1>4, HonestJoined DEF LessonOf
<1> QED
  BY <1>5

LEMMA RpcGetLessonTells ==
  ASSUME NEW r,
         Needs(r, "lesson"),
         r.who \notin Participants => Outsider(r)
  PROVE  Honest(r, RpcGetLesson(r))
<1>1. Honest(r, RpcGetLesson(r))
  BY LessonOfTells DEF RpcGetLesson
<1> QED
  BY <1>1

LEMMA RpcCreateLessonTells ==
  ASSUME NEW r,
         Paired(r),
         "slot" \in NamedBy(r.op),
         Needed(r, "slot") = {"free"}
  PROVE  Honest(r, RpcCreateLesson(r))
<1>1. Needs(r, "slot") /\ "booked" \notin Needed(r, "slot")
  BY RowsByName DEF Needs
<1>2. Honest(r, SlotById(r))
  BY <1>1, SlotByIdTells
<1>3. Tested(SlotById(r), LAMBDA w : w.slot # "booked", "AlreadyExists") = TestedBy(SlotById(r),
        Unbooked, "AlreadyExists")
  <2> DEFINE q == SlotById(r)
             e == "AlreadyExists"
  <2>1. q \in Code
    BY <1>2 DEF Honest
  <2> HIDE DEF q, e
  <2>2. Tested(q, LAMBDA w : w.slot # "booked", e) = TestedBy(q, Unbooked, e)
    BY <2>1, Made DEF Tested, TestedBy, Makes, Outcome, Unbooked
  <2> QED
    BY <2>2 DEF q, e
<1>4. ASSUME NEW w \in World, NEW o \in Outcome, o.world \notin Unbooked
      PROVE  Says(r, "AlreadyExists", w, o)
  <2>1. o.world["slot"] = "booked"
    BY <1>4 DEF Unbooked, Outcome
  <2>2. "booked" \in Hurdles(r, w, o, "slot")
    BY <1>1, <2>1, Stands, RowsByName
  <2>3. Hurdles(r, w, o, "slot") \ {"none"} # {}
    BY <2>2
  <2>4. "AlreadyExists" \in Occupied
    BY DEF Occupied
  <2> QED
    BY <2>3, <2>4, Reasons, RowsByName
<1>5. Honest(r, TestedBy(SlotById(r), Unbooked, "AlreadyExists"))
  BY <1>2, <1>4, HonestTested, Listed
<1>6. Honest(r, Tested(SlotById(r), LAMBDA w : w.slot # "booked", "AlreadyExists"))
  BY <1>3, <1>5
<1>7. Honest(r, Require(r.who # "other_tutor", "PermissionDenied"))
  <2> DEFINE h == r.who # "other_tutor"
  <2>1. /\ "PermissionDenied" \in Error /\ "PermissionDenied" \in NotAllowed
        /\ ~h => Outsider(r)
    BY Listed DEF NotAllowed, Paired, Participants
  <2> HIDE DEF h
  <2>2. Honest(r, Require(h, "PermissionDenied"))
    BY <2>1, HonestChecks
  <2> QED
    BY <2>2 DEF h
<1>8. Honest(r, Through(ValidateTutorStudentPair(r),
        LAMBDA e : IF e = "no_pair" THEN "FailedPrecondition" ELSE "Internal"))
  BY HonestAboutPairs
<1>9. Honest(r, DbCreateLessonAndBookSlot)
  BY HonestScheduleStatements
<1>10. Honest(r, Becomes(DbCreateLessonAndBookSlot, "Internal"))
  BY <1>9, HonestLayers
<1>11. Honest(r, Tested(SlotById(r), LAMBDA w : w.slot # "booked",
         "AlreadyExists") \o Require(r.who # "other_tutor", "PermissionDenied"))
  BY <1>6, <1>7, HonestJoined
<1>12. Honest(r, Tested(SlotById(r), LAMBDA w : w.slot # "booked",
         "AlreadyExists") \o Require(r.who # "other_tutor",
         "PermissionDenied") \o Through(ValidateTutorStudentPair(r),
         LAMBDA e : IF e = "no_pair" THEN "FailedPrecondition" ELSE "Internal"))
  BY <1>11, <1>8, HonestJoined
<1>13. Honest(r, RpcCreateLesson(r))
  BY <1>10, <1>12, HonestJoined DEF RpcCreateLesson
<1> QED
  BY <1>13

LEMMA RpcUpdateLessonTells ==
  ASSUME NEW r,
         Needs(r, "lesson"),
         r.who \notin {"tutor"} => Outsider(r)
  PROVE  Honest(r, RpcUpdateLesson(r))
<1>1. Honest(r, LessonOf(r, {"tutor"}))
  BY LessonOfTells
<1>2. Honest(r, Becomes(DbUpdateLesson, "Internal"))
  BY HonestScheduleStatements, HonestLayers
<1>3. Honest(r, (IF r.form = "empty" THEN <<>> ELSE Becomes(DbUpdateLesson, "Internal")))
  BY <1>2, HonestNothing, Zenon
<1>4. Honest(r, RpcUpdateLesson(r))
  BY <1>1, <1>3, HonestJoined DEF RpcUpdateLesson
<1> QED
  BY <1>4

LEMMA RpcCancelLessonTells ==
  ASSUME NEW r,
         Needs(r, "lesson"),
         r.who \notin Participants => Outsider(r)
  PROVE  Honest(r, RpcCancelLesson(r))
<1>1. Honest(r, LessonOf(r, Participants))
  BY LessonOfTells
<1>2. Honest(r, Becomes(DbCancelLessonAndFreeSlot, "Internal"))
  BY HonestScheduleStatements, HonestLayers
<1>3. Honest(r, RpcCancelLesson(r))
  BY <1>1, <1>2, HonestJoined DEF RpcCancelLesson
<1> QED
  BY <1>3

LEMMA RpcListLessonsByTutorTells ==
  ASSUME NEW r,
         r.who \notin {"tutor"} => Outsider(r)
  PROVE  Honest(r, RpcListLessonsByTutor(r))
<1>1. Honest(r, Require(r.who = "tutor", "PermissionDenied"))
  <2> DEFINE h == r.who = "tutor"
  <2>1. /\ "PermissionDenied" \in Error /\ "PermissionDenied" \in NotAllowed
        /\ ~h => Outsider(r)
    BY Listed DEF NotAllowed
  <2> HIDE DEF h
  <2>2. Honest(r, Require(h, "PermissionDenied"))
    BY <2>1, HonestChecks
  <2> QED
    BY <2>2 DEF h
<1>2. Honest(r, Becomes(DbListLessonsByTutor, "Internal"))
  BY HonestScheduleStatements, HonestLayers DEF DbListLessonsByTutor
<1>3. Honest(r, Parsed(r, "bad_id") \o Require(r.who = "tutor", "PermissionDenied"))
  BY HonestChecks, <1>1, HonestJoined
<1>4. Honest(r, RpcListLessonsByTutor(r))
  BY <1>2, <1>3, HonestJoined DEF RpcListLessonsByTutor
<1> QED
  BY <1>4

LEMMA RpcListLessonsByStudentTells ==
  ASSUME NEW r,
         r.who \notin {"student"} => Outsider(r)
  PROVE  Honest(r, RpcListLessonsByStudent(r))
<1>1. Honest(r, Require(r.who = "student" /\ r.form # "bad_id", "PermissionDenied"))
  <2> DEFINE h == r.who = "student" /\ r.form # "bad_id"
  <2>1. /\ "PermissionDenied" \in Error /\ "PermissionDenied" \in NotAllowed
        /\ ~h => Outsider(r) \/ r.form = "bad_id"
    BY Listed DEF NotAllowed
  <2> HIDE DEF h
  <2>2. ASSUME NEW w, NEW o, ~h
        PROVE  Says(r, "PermissionDenied", w, o)
    BY <2>1, <2>2, Meanings DEF Says, Bar, Excuse
  <2>3. Honest(r, Require(h, "PermissionDenied"))
    BY <2>1, <2>2, HonestRequire
  <2> QED
    BY <2>3 DEF h
<1>2. Honest(r, Becomes(DbListLessonsByStudent, "Internal"))
  BY HonestScheduleStatements, HonestLayers DEF DbListLessonsByStudent
<1>3. Honest(r, RpcListLessonsByStudent(r))
  BY <1>1, <1>2, HonestJoined DEF RpcListLessonsByStudent
<1> QED
  BY <1>3

LEMMA RpcListLessonsByPairTells ==
  ASSUME NEW r,
         Paired(r)
  PROVE  Honest(r, RpcListLessonsByPair(r))
<1>1. Honest(r, Require(r.who \in Participants, "PermissionDenied"))
  <2> DEFINE h == r.who \in Participants
  <2>1. /\ "PermissionDenied" \in Error /\ "PermissionDenied" \in NotAllowed
        /\ ~h => Outsider(r)
    BY Listed DEF NotAllowed, Paired
  <2> HIDE DEF h
  <2>2. Honest(r, Require(h, "PermissionDenied"))
    BY <2>1, HonestChecks
  <2> QED
    BY <2>2 DEF h
<1>2. Honest(r, Through(ValidateTutorStudentPair(r),
        LAMBDA e : IF e = "no_pair" THEN "PermissionDenied" ELSE "Internal"))
  BY HonestAboutPairs
<1>3. Honest(r, Becomes(DbListLessonsByPair, "Internal"))
  BY HonestScheduleStatements, HonestLayers DEF DbListLessonsByPair
<1>4. Honest(r, Require(r.who \in Participants,
        "PermissionDenied") \o Through(ValidateTutorStudentPair(r),
        LAMBDA e : IF e = "no_pair" THEN "PermissionDenied" ELSE "Internal"))
  BY <1>1, <1>2, HonestJoined
<1>5. Honest(r, Require(r.who \in Participants,
        "PermissionDenied") \o Through(ValidateTutorStudentPair(r),
        LAMBDA e : IF e = "no_pair" THEN "PermissionDenied" ELSE "Internal") \o Parsed(r,
        "bad_id"))
  BY <1>4, HonestChecks, HonestJoined
<1>6. Honest(r, RpcListLessonsByPair(r))
  BY <1>3, <1>5, HonestJoined DEF RpcListLessonsByPair
<1> QED
  BY <1>6

LEMMA RpcMarkAsPaidTells ==
  ASSUME NEW r,
         Needs(r, "lesson")
  PROVE  Honest(r, RpcMarkAsPaid(r))
<1>1. Honest(r, LessonById(r))
  BY LessonByIdTells
<1>2. Honest(r, Becomes(DbMarkAsPaid, "Internal"))
  BY HonestScheduleStatements, HonestLayers
<1>3. Honest(r, RpcMarkAsPaid(r))
  BY <1>1, <1>2, HonestJoined DEF RpcMarkAsPaid
<1> QED
  BY <1>3

-----------------------------------------------------------------------------
(* The file service and the payment service *)

LEMMA RpcInitUploadTells ==
  ASSUME NEW r
  PROVE  Honest(r, RpcInitUpload(r))
<1>1. Honest(r, Require(AllowedExtension(r), "ErrValidation"))
  <2> DEFINE h == AllowedExtension(r)
  <2>1. /\ "ErrValidation" \in Error /\ "ErrValidation" \in WrongForm
        /\ ~h => Garbled(r)
    BY Listed DEF WrongForm, AllowedExtension, Garbled
  <2> HIDE DEF h
  <2>2. Honest(r, Require(h, "ErrValidation"))
    BY <2>1, HonestChecks
  <2> QED
    BY <2>2 DEF h
<1>2. Honest(r, DbCreateFile)
  BY HonestOtherStatements
<1>3. Honest(r, generateUploadURL)
  BY HonestOtherStatements DEF generateUploadURL
<1>4. Honest(r, Require(AllowedExtension(r), "ErrValidation") \o DbCreateFile)
  BY <1>1, <1>2, HonestJoined
<1>5. Honest(r, SvcInitUpload(r))
  BY <1>3, <1>4, HonestJoined DEF SvcInitUpload
<1>6. Honest(r, fileMapError(SvcInitUpload(r), {"ErrValidation"}))
  BY <1>5, HonestLayers
<1>7. Honest(r, RpcInitUpload(r))
  BY <1>6, HonestChecks, HonestJoined DEF RpcInitUpload
<1> QED
  BY <1>7

LEMMA RpcGenerateDownloadURLTells ==
  ASSUME NEW r,
         Needs(r, "file")
  PROVE  Honest(r, RpcGenerateDownloadURL(r))
<1>1. Honest(r, DbGetFile)
  BY HonestOtherStatements
<1>2. Honest(r, FileNotFound(DbGetFile))
  BY <1>1, HonestLayers
<1>3. Honest(r, generateDownloadURL)
  BY HonestOtherStatements DEF generateDownloadURL
<1>4. Honest(r, SvcGenerateDownloadURL)
  BY <1>2, <1>3, HonestJoined DEF SvcGenerateDownloadURL
<1>5. Honest(r, fileMapError(SvcGenerateDownloadURL, {"ErrNotFound"}))
  BY <1>4, HonestLayers
<1>6. Honest(r, RpcGenerateDownloadURL(r))
  BY <1>5, HonestChecks, HonestJoined DEF RpcGenerateDownloadURL
<1> QED
  BY <1>6

LEMMA RpcGetFileMetaTells ==
  ASSUME NEW r,
         Needs(r, "file")
  PROVE  Honest(r, RpcGetFileMeta(r))
<1>1. Honest(r, DbGetFile)
  BY HonestOtherStatements
<1>2. Honest(r, FileNotFound(DbGetFile))
  BY <1>1, HonestLayers
<1>3. Honest(r, SvcGetFileMeta)
  BY <1>2 DEF SvcGetFileMeta
<1>4. Honest(r, fileMapError(SvcGetFileMeta, {"ErrNotFound"}))
  BY <1>3, HonestLayers
<1>5. Honest(r, RpcGetFileMeta(r))
  BY <1>4, HonestChecks, HonestJoined DEF RpcGetFileMeta
<1> QED
  BY <1>5

LEMMA RpcGetPaymentInfoTells ==
  ASSUME NEW r,
         Needs(r, "lesson"),
         r.who \notin Participants => Outsider(r)
  PROVE  Honest(r, RpcGetPaymentInfo(r))
<1>1. Honest(r, RpcGetLesson(r))
  BY RpcGetLessonTells
<1>2. Honest(r, Remote(RpcGetLesson(r)))
  BY <1>1, HonestRemote
<1>3. Honest(r, SvcGetPaymentInfo(r))
  BY <1>2, HonestChecks, HonestJoined DEF SvcGetPaymentInfo
<1>4. Honest(r, paymentMapError(SvcGetPaymentInfo(r), {"ErrNotFound"}))
  BY <1>3, HonestLayers DEF PaymentErrors
<1>5. Honest(r, RpcGetPaymentInfo(r))
  BY <1>4, HonestChecks, HonestJoined DEF RpcGetPaymentInfo
<1> QED
  BY <1>5

LEMMA RpcSubmitPaymentReceiptTells ==
  ASSUME NEW r,
         "lesson" \in NamedBy(r.op),
         Needed(r, "lesson") = {"unpaid"},
         r.who \notin Participants => Outsider(r),
         Role(r) # "student" => Outsider(r)
  PROVE  Honest(r, RpcSubmitPaymentReceipt(r))
<1>1. Needs(r, "lesson")
  BY RowsByName DEF Needs
<1>2. Honest(r, requireRole(r, "student"))
  BY HonestChecks
<1>3. Honest(r, RpcGetLesson(r))
  BY <1>1, RpcGetLessonTells
<1>4. Honest(r, Remote(RpcGetLesson(r)))
  BY <1>3, HonestRemote
<1>5. Tested(Remote(RpcGetLesson(r)), LAMBDA w : w.held # "paid",
        "ErrAlreadyExists") = TestedBy(Remote(RpcGetLesson(r)), Unpaid, "ErrAlreadyExists")
  <2> DEFINE q == Remote(RpcGetLesson(r))
             e == "ErrAlreadyExists"
  <2>1. q \in Code
    BY <1>4 DEF Honest
  <2> HIDE DEF q, e
  <2>2. Tested(q, LAMBDA w : w.held # "paid", e) = TestedBy(q, Unpaid, e)
    BY <2>1, Made DEF Tested, TestedBy, Makes, Outcome, Unpaid
  <2> QED
    BY <2>2 DEF q, e
<1>6. ASSUME NEW w \in World, NEW o \in Outcome, o.world \notin Unpaid
      PROVE  Says(r, "ErrAlreadyExists", w, o)
  <2>1. o.world.held = "paid"
    BY <1>6 DEF Unpaid, Outcome
  <2>2. "paid" \in Hurdles(r, w, o, "lesson")
    BY <2>1 DEF Hurdles, Met
  <2>3. Hurdles(r, w, o, "lesson") \ {"none"} # {}
    BY <2>2
  <2>4. "ErrAlreadyExists" \in Occupied
    BY DEF Occupied
  <2> QED
    BY <2>3, <2>4, Reasons, RowsByName
<1>7. Honest(r, TestedBy(Remote(RpcGetLesson(r)), Unpaid, "ErrAlreadyExists"))
  BY <1>4, <1>6, HonestTested, Listed
<1>8. Honest(r, Tested(Remote(RpcGetLesson(r)), LAMBDA w : w.held # "paid", "ErrAlreadyExists"))
  BY <1>5, <1>7
<1>9. Honest(r, DbCreateReceipt)
  BY HonestOtherStatements
<1>10. Honest(r, RpcMarkAsPaid(r))
  BY <1>1, RpcMarkAsPaidTells
<1>11. Honest(r, Remote(RpcMarkAsPaid(r)))
  BY <1>10, HonestRemote
<1>12. Honest(r, requireRole(r, "student") \o NotNil(r))
  BY <1>2, HonestChecks, HonestJoined
<1>13. Honest(r, requireRole(r, "student") \o NotNil(r) \o Tested(Remote(RpcGetLesson(r)),
         LAMBDA w : w.held # "paid", "ErrAlreadyExists"))
  BY <1>12, <1>8, HonestJoined
<1>14. Honest(r, requireRole(r, "student") \o NotNil(r) \o Tested(Remote(RpcGetLesson(r)),
         LAMBDA w : w.held # "paid", "ErrAlreadyExists") \o DbCreateReceipt)
  BY <1>13, <1>9, HonestJoined
<1>15. Honest(r, SvcSubmitPaymentReceipt(r))
  BY <1>11, <1>14, HonestJoined DEF SvcSubmitPaymentReceipt
<1>16. Honest(r, paymentMapError(SvcSubmitPaymentReceipt(r), {"ErrNotFound",
         "ErrPermissionDenied", "ErrInvalidArgument", "ErrAlreadyExists"}))
  BY <1>15, HonestLayers DEF PaymentErrors
<1>17. Honest(r, Require(r.form # "empty", "Unavailable"))
  <2> DEFINE h == r.form # "empty"
  <2>1. /\ "Unavailable" \in Error /\ Plain("Unavailable")
        /\ ~h => r.form # "good"
    BY Listed, Meanings, PlainErrors
  <2> HIDE DEF h
  <2>2. Honest(r, Require(h, "Unavailable"))
    BY <2>1, HonestChecks
  <2> QED
    BY <2>2 DEF h
<1>18. Honest(r, Require(r.form # "empty", "Unavailable") \o Parsed(r, "bad_id"))
  BY <1>17, HonestChecks, HonestJoined
<1>19. Honest(r, Require(r.form # "empty", "Unavailable") \o Parsed(r, "bad_id") \o Parsed(r,
         "bad_file"))
  BY <1>18, HonestChecks, HonestJoined
<1>20. Honest(r, RpcSubmitPaymentReceipt(r))
  BY <1>16, <1>19, HonestJoined DEF RpcSubmitPaymentReceipt
<1> QED
  BY <1>20

LEMMA RpcGetReceiptTells ==
  ASSUME NEW r,
         Needs(r, "receipt")
  PROVE  Honest(r, RpcGetReceipt(r))
<1>1. Honest(r, DbGetReceiptByID)
  BY HonestOtherStatements
<1>2. Honest(r, SvcGetReceipt(r))
  BY <1>1, HonestChecks, HonestJoined DEF SvcGetReceipt
<1>3. Honest(r, paymentMapError(SvcGetReceipt(r), {"ErrNotFound", "ErrPermissionDenied"}))
  BY <1>2, HonestLayers DEF PaymentErrors
<1>4. Honest(r, RpcGetReceipt(r))
  BY <1>3, HonestChecks, HonestJoined DEF RpcGetReceipt
<1> QED
  BY <1>4

LEMMA RpcVerifyReceiptTells ==
  ASSUME NEW r,
         Needs(r, "receipt"),
         Role(r) # "tutor" => Outsider(r)
  PROVE  Honest(r, RpcVerifyReceipt(r))
<1>1. Honest(r, requireRole(r, "tutor"))
  BY HonestChecks
<1>2. Honest(r, UpdatesReceipt)
  BY HonestOtherStatements
<1>3. Honest(r, DbGetReceiptByID)
  BY HonestOtherStatements
<1>4. Honest(r, DbUpdateReceipt)
  BY <1>2, <1>3, HonestJoined DEF DbUpdateReceipt, UpdatesReceipt
<1>5. Honest(r, requireRole(r, "tutor") \o NotNil(r))
  BY <1>1, HonestChecks, HonestJoined
<1>6. Honest(r, SvcVerifyReceipt(r))
  BY <1>4, <1>5, HonestJoined DEF SvcVerifyReceipt
<1>7. Honest(r, paymentMapError(SvcVerifyReceipt(r), {"ErrNotFound", "ErrPermissionDenied"}))
  BY <1>6, HonestLayers DEF PaymentErrors
<1>8. Honest(r, RpcVerifyReceipt(r))
  BY <1>7, HonestChecks, HonestJoined DEF RpcVerifyReceipt
<1> QED
  BY <1>8

LEMMA RpcGetReceiptFileTells ==
  ASSUME NEW r,
         Needs(r, "receipt"),
         Needs(r, "file")
  PROVE  Honest(r, RpcGetReceiptFile(r))
<1>1. Honest(r, DbGetReceiptByID)
  BY HonestOtherStatements
<1>2. Honest(r, RpcGenerateDownloadURL(r))
  BY RpcGenerateDownloadURLTells
<1>3. Honest(r, Remote(RpcGenerateDownloadURL(r)))
  BY <1>2, HonestRemote
<1>4. Honest(r, NotNil(r) \o DbGetReceiptByID)
  BY HonestChecks, <1>1, HonestJoined
<1>5. Honest(r, SvcGetReceiptFile(r))
  BY <1>3, <1>4, HonestJoined DEF SvcGetReceiptFile
<1>6. Honest(r, paymentMapError(SvcGetReceiptFile(r), {"ErrNotFound", "ErrInvalidArgument",
        "ErrPermissionDenied"}))
  BY <1>5, HonestLayers DEF PaymentErrors
<1>7. Honest(r, RpcGetReceiptFile(r))
  BY <1>6, HonestChecks, HonestJoined DEF RpcGetReceiptFile
<1> QED
  BY <1>7

-----------------------------------------------------------------------------
(* The homework service *)

\* Who it belongs to is who may deal with it.
LEMMA HonestBelongs ==
  ASSUME NEW r, NEW p, Honest(r, p), NEW callers, r.who \notin callers => Outsider(r)
  PROVE  Honest(r, Belongs(p, r, callers))
<1>1. p \in Code
  BY DEF Honest
<1>2. Belongs(p, r, callers) = TestedBy(p, CallerIs(r, callers), "ErrPermissionDenied")
  BY <1>1, Made DEF Belongs, Tested, TestedBy, Makes, Outcome, CallerIs
<1>3. "ErrPermissionDenied" \in Error /\ "ErrPermissionDenied" \in NotAllowed
  BY Listed DEF NotAllowed
<1>4. ASSUME NEW w \in World, NEW o \in Outcome, o.world \notin CallerIs(r, callers)
      PROVE  Says(r, "ErrPermissionDenied", w, o)
  <2>1. Outsider(r)
    BY <1>4 DEF CallerIs, Outcome
  <2> QED
    BY <1>3, <2>1, Reasons
<1>5. Honest(r, TestedBy(p, CallerIs(r, callers), "ErrPermissionDenied"))
  BY <1>3, <1>4, HonestTested
<1> QED
  BY <1>2, <1>5

\* Work without a file is not what was asked for.
LEMMA HonestFiled ==
  ASSUME NEW r, NEW p, Honest(r, p), NEW t \in Table, t \in NamedBy(r.op),
         Needed(r, t) = {"filed"}
  PROVE  Honest(r, TestedBy(p, Filed(t), "ErrFileNotFound"))
<1>1. ASSUME NEW w \in World, NEW o \in Outcome, o.world \notin Filed(t)
      PROVE  Says(r, "ErrFileNotFound", w, o)
  <2>1. o.world[t] \notin Needed(r, t)
    BY <1>1 DEF Filed, Outcome
  <2>2. Hurdles(r, w, o, t) # {}
    BY <2>1, Stands
  <2> QED
    BY <2>2, Reasons, Meanings
<1> QED
  BY <1>1, HonestTested, Listed

LEMMA IsPairTells ==
  ASSUME NEW r, Paired(r)
  PROVE  Honest(r, IsPair(r))
<1> DEFINE q == Remote(RpcGetTutorStudent(r))
           e == "not a tutor-student pair"
           p == TestedBy(q, ActivePair(r), e)
           G == Only("NotFound", e)
<1>1. Honest(r, q)
  <2>1. Closed(r) /\ Needs(r, "pair") /\ (r.who \notin Participants => Outsider(r))
    BY RowsByName DEF Paired, Needs
  <2>2. Honest(r, RpcGetTutorStudent(r))
    BY <2>1, RpcGetTutorStudentTells
  <2> QED
    BY <2>2, HonestRemote
<1>2. IsPair(r) = Translated(p, G)
  BY IsPairDoes
<1>3. e \in Error /\ "NotFound" \in Error /\ Plain(e)
  BY Listed, Meanings
<1> HIDE DEF q, e
<1>4. ASSUME NEW w \in World, NEW o \in Outcome, o.world \notin ActivePair(r)
      PROVE  Says(r, e, w, o)
  <2>1. Outsider(r) \/ o.world["pair"] \notin Needed(r, "pair")
    BY <1>4 DEF ActivePair, PairOf, NamesPair, Paired, Outcome
  <2>2. Outsider(r) \/ o.world["pair"] \in Hurdles(r, w, o, "pair")
    BY <2>1, Stands, RowsByName DEF Paired
  <2> QED
    BY <1>3, <2>2, Reasons, RowsByName
<1>5. Honest(r, p)
  BY <1>1, <1>3, <1>4, HonestTested
<1>6. Faithful(G)
  BY <1>3, FaithfulLayers
<1> HIDE DEF p, G
<1> QED
  BY <1>2, <1>5, <1>6, HonestTranslated

LEMMA GetFileURLTells ==
  ASSUME NEW r, Needs(r, "file")
  PROVE  Honest(r, GetFileURL(r))
<1>1. Honest(r, RpcGenerateDownloadURL(r))
  BY RpcGenerateDownloadURLTells
<1> QED
  BY <1>1, HonestRemote DEF GetFileURL

LEMMA RpcCreateAssignmentTells ==
  ASSUME NEW r,
         Paired(r),
         Role(r) # "tutor" => Outsider(r)
  PROVE  Honest(r, RpcCreateAssignment(r))
<1>1. Honest(r, Require(Role(r) = "tutor", "permission denied"))
  <2> DEFINE h == Role(r) = "tutor"
  <2>1. /\ "permission denied" \in Error /\ Plain("permission denied")
        /\ ~h => Outsider(r)
    BY Listed, Meanings, PlainErrors
  <2> HIDE DEF h
  <2>2. Honest(r, Require(h, "permission denied"))
    BY <2>1, HonestChecks
  <2> QED
    BY <2>2 DEF h
<1>2. Honest(r, IsPair(r))
  BY IsPairTells
<1>3. Honest(r, DbCreateAssignment)
  BY HonestOtherStatements
<1>4. Honest(r, Require(Role(r) = "tutor", "permission denied") \o IsPair(r))
  BY <1>1, <1>2, HonestJoined
<1>5. Honest(r, SvcCreateAssignment(r))
  BY <1>3, <1>4, HonestJoined DEF SvcCreateAssignment
<1>6. Honest(r, toGRPCError(SvcCreateAssignment(r)))
  BY <1>5, HonestLayers
<1>7. Honest(r, Parsed(r, "bad_id") \o Parsed(r, "bad_file"))
  BY HonestChecks, HonestJoined
<1>8. Honest(r, RpcCreateAssignment(r))
  BY <1>6, <1>7, HonestJoined DEF RpcCreateAssignment
<1> QED
  BY <1>8

LEMMA RpcUpdateAssignmentTells ==
  ASSUME NEW r,
         Needs(r, "assignment"),
         r.who \notin {"tutor"} => Outsider(r)
  PROVE  Honest(r, RpcUpdateAssignment(r))
<1>1. r.who \notin Participants => Outsider(r)
  BY DEF Participants
<1>2. Honest(r, DbGetAssignment)
  BY HonestOtherStatements
<1>3. Honest(r, SvcGetAssignment(r))
  BY <1>1, <1>2, HonestBelongs DEF SvcGetAssignment
<1>4. Honest(r, toGRPCError(SvcGetAssignment(r)))
  BY <1>3, HonestLayers
<1>5. Honest(r, Require(r.who = "tutor", "ErrPermissionDenied"))
  <2> DEFINE h == r.who = "tutor"
  <2>1. /\ "ErrPermissionDenied" \in Error /\ "ErrPermissionDenied" \in NotAllowed
        /\ ~h => Outsider(r)
    BY Listed DEF NotAllowed
  <2> HIDE DEF h
  <2>2. Honest(r, Require(h, "ErrPermissionDenied"))
    BY <2>1, HonestChecks
  <2> QED
    BY <2>2 DEF h
<1>6. Honest(r, DbUpdateAssignment)
  BY HonestOtherStatements
<1>7. Honest(r, SvcUpdateAssignment(r))
  BY <1>5, <1>6, HonestJoined DEF SvcUpdateAssignment
<1>8. Honest(r, toGRPCError(SvcUpdateAssignment(r)))
  BY <1>7, HonestLayers
<1>9. Honest(r, Parsed(r, "bad_id") \o toGRPCError(SvcGetAssignment(r)))
  BY HonestChecks, <1>4, HonestJoined
<1>10. Honest(r, Parsed(r, "bad_id") \o toGRPCError(SvcGetAssignment(r)) \o Parsed(r, "bad_file"))
  BY <1>9, HonestChecks, HonestJoined
<1>11. Honest(r, RpcUpdateAssignment(r))
  BY <1>10, <1>8, HonestJoined DEF RpcUpdateAssignment
<1> QED
  BY <1>11

LEMMA RpcDeleteAssignmentTells ==
  ASSUME NEW r,
         Needs(r, "assignment"),
         r.who \notin {"tutor"} => Outsider(r)
  PROVE  Honest(r, RpcDeleteAssignment(r))
<1>1. Honest(r, DbGetAssignment)
  BY HonestOtherStatements
<1>2. Honest(r, Belongs(DbGetAssignment, r, {"tutor"}))
  BY <1>1, HonestBelongs
<1>3. Honest(r, DbDeleteAssignment)
  BY HonestOtherStatements
<1>4. Honest(r, SvcDeleteAssignment(r))
  BY <1>2, <1>3, HonestJoined DEF SvcDeleteAssignment
<1>5. Honest(r, toGRPCError(SvcDeleteAssignment(r)))
  BY <1>4, HonestLayers
<1>6. Honest(r, RpcDeleteAssignment(r))
  BY <1>5, HonestChecks, HonestJoined DEF RpcDeleteAssignment
<1> QED
  BY <1>6

LEMMA RpcCreateSubmissionTells ==
  ASSUME NEW r,
         Needs(r, "assignment"),
         r.who \notin {"student"} => Outsider(r)
  PROVE  Honest(r, RpcCreateSubmission(r))
<1>1. Honest(r, DbGetAssignment)
  BY HonestOtherStatements
<1>2. Honest(r, Belongs(DbGetAssignment, r, {"student"}))
  BY <1>1, HonestBelongs
<1>3. Honest(r, DbCreateSubmission)
  BY HonestOtherStatements
<1>4. Honest(r, SvcCreateSubmission(r))
  BY <1>2, <1>3, HonestJoined DEF SvcCreateSubmission
<1>5. Honest(r, toGRPCError(SvcCreateSubmission(r)))
  BY <1>4, HonestLayers
<1>6. Honest(r, Parsed(r, "bad_id") \o Parsed(r, "bad_file"))
  BY HonestChecks, HonestJoined
<1>7. Honest(r, RpcCreateSubmission(r))
  BY <1>5, <1>6, HonestJoined DEF RpcCreateSubmission
<1> QED
  BY <1>7

LEMMA RpcListSubmissionsByAssignmentTells ==
  ASSUME NEW r,
         Needs(r, "assignment"),
         r.who \notin Participants => Outsider(r)
  PROVE  Honest(r, RpcListSubmissionsByAssignment(r))
<1>1. Honest(r, DbGetAssignment)
  BY HonestOtherStatements
<1>2. Honest(r, Belongs(DbGetAssignment, r, Participants))
  BY <1>1, HonestBelongs
<1>3. Honest(r, DbListSubmissions)
  BY HonestOtherStatements
<1>4. Honest(r, SvcListSubmissionsByAssignment(r))
  BY <1>2, <1>3, HonestJoined DEF SvcListSubmissionsByAssignment
<1>5. Honest(r, toGRPCError(SvcListSubmissionsByAssignment(r)))
  BY <1>4, HonestLayers
<1>6. Honest(r, RpcListSubmissionsByAssignment(r))
  BY <1>5, HonestChecks, HonestJoined DEF RpcListSubmissionsByAssignment
<1> QED
  BY <1>6

LEMMA RpcListFeedbacksByAssignmentTells ==
  ASSUME NEW r,
         Needs(r, "assignment"),
         r.who \notin Participants => Outsider(r)
  PROVE  Honest(r, RpcListFeedbacksByAssignment(r))
<1>1. Honest(r, DbGetAssignment)
  BY HonestOtherStatements
<1>2. Honest(r, Belongs(DbGetAssignment, r, Participants))
  BY <1>1, HonestBelongs
<1>3. Honest(r, DbListFeedbacks)
  BY HonestOtherStatements
<1>4. Honest(r, SvcListFeedbacksByAssignment(r))
  BY <1>2, <1>3, HonestJoined DEF SvcListFeedbacksByAssignment
<1>5. Honest(r, toGRPCError(SvcListFeedbacksByAssignment(r)))
  BY <1>4, HonestLayers
<1>6. Honest(r, RpcListFeedbacksByAssignment(r))
  BY <1>5, HonestChecks, HonestJoined DEF RpcListFeedbacksByAssignment
<1> QED
  BY <1>6

LEMMA RpcGetAssignmentFileTells ==
  ASSUME NEW r,
         Needs(r, "assignment"),
         Needed(r, "assignment") = {"filed"},
         Needs(r, "file")
  PROVE  Honest(r, RpcGetAssignmentFile(r))
<1>1. "assignment" \in NamedBy(r.op)
  BY DEF Needs
<1>2. Honest(r, DbGetAssignment)
  BY HonestOtherStatements
<1>3. Tested(DbGetAssignment, LAMBDA w : w.assignment = "filed",
        "ErrFileNotFound") = TestedBy(DbGetAssignment, Filed("assignment"), "ErrFileNotFound")
  <2> DEFINE q == DbGetAssignment
             e == "ErrFileNotFound"
  <2>1. q \in Code
    BY <1>2 DEF Honest
  <2> HIDE DEF q, e
  <2>2. Tested(q, LAMBDA w : w.assignment = "filed", e) = TestedBy(q, Filed("assignment"), e)
    BY <2>1, Made DEF Tested, TestedBy, Makes, Outcome, Filed
  <2> QED
    BY <2>2 DEF q, e
<1>4. Honest(r, TestedBy(DbGetAssignment, Filed("assignment"), "ErrFileNotFound"))
  BY <1>1, <1>2, HonestFiled, RowsByName
<1>5. Honest(r, Tested(DbGetAssignment, LAMBDA w : w.assignment = "filed", "ErrFileNotFound"))
  BY <1>3, <1>4
<1>6. Honest(r, GetFileURL(r))
  BY GetFileURLTells
<1>7. Honest(r, SvcGetAssignmentFileURL(r))
  BY <1>5, <1>6, HonestJoined DEF SvcGetAssignmentFileURL
<1>8. Honest(r, toGRPCError(SvcGetAssignmentFileURL(r)))
  BY <1>7, HonestLayers
<1>9. Honest(r, RpcGetAssignmentFile(r))
  BY <1>8, HonestChecks, HonestJoined DEF RpcGetAssignmentFile
<1> QED
  BY <1>9

LEMMA RpcGetSubmissionFileTells ==
  ASSUME NEW r,
         Needs(r, "assignment"),
         Needs(r, "submission"),
         Needed(r, "submission") = {"filed"},
         Needs(r, "file"),
         r.who \notin Participants => Outsider(r)
  PROVE  Honest(r, RpcGetSubmissionFile(r))
<1>1. "submission" \in NamedBy(r.op)
  BY DEF Needs
<1>2. Honest(r, DbGetSubmission)
  BY HonestOtherStatements
<1>3. Honest(r, DbGetAssignment)
  BY HonestOtherStatements
<1>4. Honest(r, Belongs(DbGetAssignment, r, Participants))
  BY <1>3, HonestBelongs
<1>5. Tested(Belongs(DbGetAssignment, r, Participants), LAMBDA w : w.submission = "filed",
        "ErrFileNotFound") = TestedBy(Belongs(DbGetAssignment, r, Participants),
        Filed("submission"), "ErrFileNotFound")
  <2> DEFINE q == Belongs(DbGetAssignment, r, Participants)
             e == "ErrFileNotFound"
  <2>1. q \in Code
    BY <1>4 DEF Honest
  <2> HIDE DEF q, e
  <2>2. Tested(q, LAMBDA w : w.submission = "filed", e) = TestedBy(q, Filed("submission"), e)
    BY <2>1, Made DEF Tested, TestedBy, Makes, Outcome, Filed
  <2> QED
    BY <2>2 DEF q, e
<1>6. Honest(r, TestedBy(Belongs(DbGetAssignment, r, Participants), Filed("submission"),
        "ErrFileNotFound"))
  BY <1>1, <1>4, HonestFiled, RowsByName
<1>7. Honest(r, Tested(Belongs(DbGetAssignment, r, Participants),
        LAMBDA w : w.submission = "filed", "ErrFileNotFound"))
  BY <1>5, <1>6
<1>8. Honest(r, GetFileURL(r))
  BY GetFileURLTells
<1>9. Honest(r, DbGetSubmission \o Tested(Belongs(DbGetAssignment, r, Participants),
        LAMBDA w : w.submission = "filed", "ErrFileNotFound"))
  BY <1>2, <1>7, HonestJoined
<1>10. Honest(r, SvcGetSubmissionFileURL(r))
  BY <1>8, <1>9, HonestJoined DEF SvcGetSubmissionFileURL
<1>11. Honest(r, toGRPCError(SvcGetSubmissionFileURL(r)))
  BY <1>10, HonestLayers
<1>12. Honest(r, RpcGetSubmissionFile(r))
  BY <1>11, HonestChecks, HonestJoined DEF RpcGetSubmissionFile
<1> QED
  BY <1>12

LEMMA RpcGetFeedbackFileTells ==
  ASSUME NEW r,
         Needs(r, "assignment"),
         Needs(r, "submission"),
         Needs(r, "feedback"),
         Needed(r, "feedback") = {"filed"},
         Needs(r, "file"),
         r.who \notin Participants => Outsider(r)
  PROVE  Honest(r, RpcGetFeedbackFile(r))
<1>1. "feedback" \in NamedBy(r.op)
  BY DEF Needs
<1>2. Honest(r, DbGetFeedback)
  BY HonestOtherStatements
<1>3. Tested(DbGetFeedback, LAMBDA w : w.feedback = "filed",
        "ErrFileNotFound") = TestedBy(DbGetFeedback, Filed("feedback"), "ErrFileNotFound")
  <2> DEFINE q == DbGetFeedback
             e == "ErrFileNotFound"
  <2>1. q \in Code
    BY <1>2 DEF Honest
  <2> HIDE DEF q, e
  <2>2. Tested(q, LAMBDA w : w.feedback = "filed", e) = TestedBy(q, Filed("feedback"), e)
    BY <2>1, Made DEF Tested, TestedBy, Makes, Outcome, Filed
  <2> QED
    BY <2>2 DEF q, e
<1>4. Honest(r, TestedBy(DbGetFeedback, Filed("feedback"), "ErrFileNotFound"))
  BY <1>1, <1>2, HonestFiled, RowsByName
<1>5. Honest(r, Tested(DbGetFeedback, LAMBDA w : w.feedback = "filed", "ErrFileNotFound"))
  BY <1>3, <1>4
<1>6. Honest(r, DbGetSubmission)
  BY HonestOtherStatements
<1>7. Honest(r, DbGetAssignment)
  BY HonestOtherStatements
<1>8. Honest(r, Belongs(DbGetAssignment, r, Participants))
  BY <1>7, HonestBelongs
<1>9. Honest(r, GetFileURL(r))
  BY GetFileURLTells
<1>10. Honest(r, Tested(DbGetFeedback, LAMBDA w : w.feedback = "filed",
         "ErrFileNotFound") \o DbGetSubmission)
  BY <1>5, <1>6, HonestJoined
<1>11. Honest(r, Tested(DbGetFeedback, LAMBDA w : w.feedback = "filed",
         "ErrFileNotFound") \o DbGetSubmission \o Belongs(DbGetAssignment, r, Participants))
  BY <1>10, <1>8, HonestJoined
<1>12. Honest(r, SvcGetFeedbackFileURL(r))
  BY <1>11, <1>9, HonestJoined DEF SvcGetFeedbackFileURL
<1>13. Honest(r, toGRPCError(SvcGetFeedbackFileURL(r)))
  BY <1>12, HonestLayers
<1>14. Honest(r, RpcGetFeedbackFile(r))
  BY <1>13, HonestChecks, HonestJoined DEF RpcGetFeedbackFile
<1> QED
  BY <1>14

LEMMA RpcCreateFeedbackTells ==
  ASSUME NEW r,
         Needs(r, "assignment"),
         Needs(r, "submission"),
         r.who \notin {"tutor"} => Outsider(r),
         Role(r) # "tutor" => Outsider(r)
  PROVE  Honest(r, RpcCreateFeedback(r))
<1>1. Honest(r, Require(Role(r) = "tutor", "ErrPermissionDenied"))
  <2> DEFINE h == Role(r) = "tutor"
  <2>1. /\ "ErrPermissionDenied" \in Error /\ "ErrPermissionDenied" \in NotAllowed
        /\ ~h => Outsider(r)
    BY Listed DEF NotAllowed
  <2> HIDE DEF h
  <2>2. Honest(r, Require(h, "ErrPermissionDenied"))
    BY <2>1, HonestChecks
  <2> QED
    BY <2>2 DEF h
<1>2. Honest(r, DbGetSubmission)
  BY HonestOtherStatements
<1>3. Honest(r, Renamed(DbGetSubmission, "ErrNotFound", "ErrSubmissionNotFound"))
  BY <1>2, HonestLayers, Meanings, Listed
<1>4. Honest(r, DbGetAssignment)
  BY HonestOtherStatements
<1>5. Honest(r, Renamed(DbGetAssignment, "ErrNotFound", "ErrAssignmentNotFound"))
  BY <1>4, HonestLayers, Meanings, Listed
<1>6. Honest(r, Belongs(Renamed(DbGetAssignment, "ErrNotFound", "ErrAssignmentNotFound"), r,
        {"tutor"}))
  BY <1>5, HonestBelongs
<1>7. Honest(r, DbCreateFeedback)
  BY HonestOtherStatements
<1>8. Honest(r, Require(Role(r) = "tutor", "ErrPermissionDenied") \o Renamed(DbGetSubmission,
        "ErrNotFound", "ErrSubmissionNotFound"))
  BY <1>1, <1>3, HonestJoined
<1>9. Honest(r, Require(Role(r) = "tutor", "ErrPermissionDenied") \o Renamed(DbGetSubmission,
        "ErrNotFound", "ErrSubmissionNotFound") \o Belongs(Renamed(DbGetAssignment,
        "ErrNotFound", "ErrAssignmentNotFound"), r, {"tutor"}))
  BY <1>8, <1>6, HonestJoined
<1>10. Honest(r, SvcCreateFeedback(r))
  BY <1>7, <1>9, HonestJoined DEF SvcCreateFeedback
<1>11. Honest(r, toGRPCError(SvcCreateFeedback(r)))
  BY <1>10, HonestLayers
<1>12. Honest(r, Parsed(r, "bad_id") \o Parsed(r, "bad_file"))
  BY HonestChecks, HonestJoined
<1>13. Honest(r, RpcCreateFeedback(r))
  BY <1>11, <1>12, HonestJoined DEF RpcCreateFeedback
<1> QED
  BY <1>13

LEMMA RpcUpdateFeedbackTells ==
  ASSUME NEW r,
         Needs(r, "assignment"),
         Needs(r, "submission"),
         Needs(r, "feedback"),
         r.who \notin {"tutor"} => Outsider(r),
         Role(r) # "tutor" => Outsider(r)
  PROVE  Honest(r, RpcUpdateFeedback(r))
<1>1. r.who \notin Participants => Outsider(r)
  BY DEF Participants
<1>2. Honest(r, DbGetFeedback)
  BY HonestOtherStatements
<1>3. Honest(r, DbGetSubmission)
  BY HonestOtherStatements
<1>4. Honest(r, DbGetAssignment)
  BY HonestOtherStatements
<1>5. Honest(r, Belongs(DbGetAssignment, r, Participants))
  BY <1>1, <1>4, HonestBelongs
<1>6. Honest(r, DbGetFeedback \o DbGetSubmission)
  BY <1>2, <1>3, HonestJoined
<1>7. Honest(r, SvcGetFeedback(r))
  BY <1>5, <1>6, HonestJoined DEF SvcGetFeedback
<1>8. Honest(r, toGRPCError(SvcGetFeedback(r)))
  BY <1>7, HonestLayers
<1>9. Honest(r, Require(Role(r) = "tutor", "ErrPermissionDenied"))
  <2> DEFINE h == Role(r) = "tutor"
  <2>1. /\ "ErrPermissionDenied" \in Error /\ "ErrPermissionDenied" \in NotAllowed
        /\ ~h => Outsider(r)
    BY Listed DEF NotAllowed
  <2> HIDE DEF h
  <2>2. Honest(r, Require(h, "ErrPermissionDenied"))
    BY <2>1, HonestChecks
  <2> QED
    BY <2>2 DEF h
<1>10. Honest(r, DbGetFeedback)
  BY HonestOtherStatements
<1>11. Honest(r, Renamed(DbGetFeedback, "ErrNotFound", "ErrFeedbackNotFound"))
  BY <1>10, HonestLayers, Meanings, Listed
<1>12. Honest(r, Belongs(DbGetAssignment, r, {"tutor"}))
  BY <1>4, HonestBelongs
<1>13. Honest(r, DbUpdateFeedback)
  BY HonestOtherStatements
<1>14. Honest(r, Require(Role(r) = "tutor", "ErrPermissionDenied") \o Renamed(DbGetFeedback,
         "ErrNotFound", "ErrFeedbackNotFound"))
  BY <1>9, <1>11, HonestJoined
<1>15. Honest(r, Require(Role(r) = "tutor", "ErrPermissionDenied") \o Renamed(DbGetFeedback,
         "ErrNotFound", "ErrFeedbackNotFound") \o DbGetSubmission)
  BY <1>14, <1>3, HonestJoined
<1>16. Honest(r, Require(Role(r) = "tutor", "ErrPermissionDenied") \o Renamed(DbGetFeedback,
         "ErrNotFound", "ErrFeedbackNotFound") \o DbGetSubmission \o Belongs(DbGetAssignment, r,
         {"tutor"}))
  BY <1>15, <1>12, HonestJoined
<1>17. Honest(r, SvcUpdateFeedback(r))
  BY <1>13, <1>16, HonestJoined DEF SvcUpdateFeedback
<1>18. Honest(r, toGRPCError(SvcUpdateFeedback(r)))
  BY <1>17, HonestLayers
<1>19. Honest(r, Parsed(r, "bad_id") \o toGRPCError(SvcGetFeedback(r)))
  BY HonestChecks, <1>8, HonestJoined
<1>20. Honest(r, Parsed(r, "bad_id") \o toGRPCError(SvcGetFeedback(r)) \o Parsed(r, "bad_file"))
  BY <1>19, HonestChecks, HonestJoined
<1>21. Honest(r, RpcUpdateFeedback(r))
  BY <1>18, <1>20, HonestJoined DEF RpcUpdateFeedback
<1> QED
  BY <1>21

-----------------------------------------------------------------------------
(* What the gateway says *)

\* Whoever has an account is refused by the middleware when something failed.
LEMMA authMiddlewareTells ==
  ASSUME NEW r, Closed(r)
  PROVE  Honest(r, authMiddleware(r))
<1> DEFINE a == Require(r.who # "unknown", "ErrAuthentication")
           b == DbGetUser(TRUE)
           s == SvcAuthorize(r)
           P == {"ErrValidation", "ErrAuthentication"}
           d == Remote(mapError(s, P))
           G == Either("PermissionDenied", "401", "500")
           f == Through(d, LAMBDA e : IF e = "PermissionDenied" THEN "401" ELSE "500")
           h == Require(r.who # "nobody", "401")
<1>1. Excused(r, a)
  <2> DEFINE g == r.who # "unknown"
  <2>1. \A w, o : ~g => Excuse(r, w, o)
    BY DEF Closed, Outsider, Excuse
  <2>2. "ErrAuthentication" \in Error
    BY Listed
  <2> HIDE DEF g
  <2>3. Require(g, "ErrAuthentication") \in Code
    BY <2>2, Required
  <2>4. \A w, o : Yields(Require(g, "ErrAuthentication"), w, o) => ~g
    BY <2>2, Required, Zenon
  <2>5. Excused(r, Require(g, "ErrAuthentication"))
    BY <2>1, <2>3, <2>4 DEF Excused
  <2> QED
    BY <2>5 DEF g
<1>2. Excused(r, b)
  BY HonestUserStatements, HonestExcused
<1>3. s = a \o b \o b
  BY DEF SvcAuthorize
<1> HIDE DEF a, b, s
<1>4. s \in Code /\ \A w, o : Yields(s, w, o) /\ o.err # "ok" /\ Sound(w) => Excuse(r, w, o)
  <2>1. a \in Code /\ b \in Code
    BY <1>1, <1>2 DEF Excused
  <2>2. a \o b \in Code
    BY <2>1, Joined
  <2>3. s \in Code /\ \A w, o : Yields(s, w, o) => Yields(a, w, o) \/ Yields(b, w, o)
    BY <1>3, <2>1, <2>2, Joined
  <2> QED
    BY <1>1, <1>2, <2>3 DEF Excused
<1>5. /\ mapError(s, P) = Translated(s, UserStatus(P))
      /\ UserStatus(P) \in Translation
      /\ Translated(s, UserStatus(P)) \in Code
  <2>1. P \in SUBSET UserErrors
    BY DEF UserErrors
  <2> QED
    BY <1>4, <2>1, Layers, Translations, Translates
<1>6. ASSUME NEW w, NEW o, Yields(mapError(s, P), w, o), o.err # "ok", Sound(w)
      PROVE  o.err # "PermissionDenied" /\ Excuse(r, w, o)
  <2>1. PICK o2 : Yields(s, w, o2) /\ Renames(UserStatus(P), o2, o)
    BY <1>4, <1>5, <1>6, Translates
  <2>2. o2.err # "ok" /\ o2.err \in Error /\ o.err = UserStatus(P)[o2.err]
    BY <1>6, <2>1, Errors DEF Renames
  <2>3. \A e \in Error : UserStatus(P)[e] # "PermissionDenied"
    BY DEF UserStatus, StatusOf
  <2>4. Excuse(r, w, o)
    BY <1>4, <1>6, <2>1, <2>2, SameReasons DEF Renames
  <2> QED
    BY <2>2, <2>3, <2>4
<1>7. /\ d \in Code
      /\ \A w, o : Yields(d, w, o) /\ o.err # "ok" /\ Sound(w) =>
           o.err # "PermissionDenied" /\ Excuse(r, w, o)
  <2> DEFINE m == mapError(s, P)
  <2>1. m \in Code /\ Call \in Code
    BY <1>5, Called
  <2>2. ASSUME NEW w, NEW o, Yields(Call, w, o), o.err # "ok"
        PROVE  o.err # "PermissionDenied" /\ Excuse(r, w, o)
    <3>1. o.err = "Unavailable" /\ Down(o)
      BY <2>2, Called DEF Is
    <3> QED
      BY <3>1 DEF Excuse
  <2>3. \A w, o : Yields(m, w, o) /\ o.err # "ok" /\ Sound(w) =>
          o.err # "PermissionDenied" /\ Excuse(r, w, o)
    BY <1>6
  <2> HIDE DEF m
  <2>4. Remote(m) = Call \o m
    BY Called
  <2>5. /\ Remote(m) \in Code
        /\ \A w, o : Yields(Remote(m), w, o) => Yields(Call, w, o) \/ Yields(m, w, o)
    BY <2>1, <2>4, Joined
  <2>6. \A w, o : Yields(Remote(m), w, o) /\ o.err # "ok" /\ Sound(w) =>
          o.err # "PermissionDenied" /\ Excuse(r, w, o)
    BY <2>2, <2>3, <2>5
  <2> QED
    BY <2>5, <2>6 DEF m
<1>8. authMiddleware(r) = h \o f
  BY DEF authMiddleware, RpcAuthorizeByAuthHeader, s
<1> HIDE DEF d
<1>9. G \in Translation /\ "500" \in Error /\ Plain("500")
  BY Translations, Listed, PlainErrors
<1>10. f = Translated(d, G)
  <2>1. \A i \in DOMAIN d, w \in World : \A o \in d[i][w] : o.err \in Error \cup {"ok"}
    BY <1>7, Made DEF Makes, Outcome
  <2> QED
    BY <2>1 DEF Through, Translated, Either
<1> HIDE DEF f
<1>11. Honest(r, f)
  <2>1. ASSUME NEW w, NEW o, Yields(f, w, o), o.err # "ok", Sound(w)
        PROVE  Says(r, o.err, w, o)
    <3>1. PICK o2 : Yields(d, w, o2) /\ Renames(G, o2, o)
      BY <1>7, <1>9, <1>10, <2>1, Translates
    <3>2. o2.err # "ok" /\ o2.err \in Error /\ o.err = G[o2.err]
      BY <2>1, <3>1, Errors DEF Renames
    <3>3. o2.err # "PermissionDenied" /\ Excuse(r, w, o2)
      BY <1>7, <2>1, <3>1, <3>2
    <3>4. o.err = "500"
      BY <3>2, <3>3 DEF Either
    <3>5. Excuse(r, w, o)
      BY <3>1, <3>3, SameReasons DEF Renames
    <3> QED
      BY <1>9, <3>4, <3>5 DEF Says, Plain
  <2> QED
    BY <1>7, <1>9, <1>10, <2>1, Translates DEF Honest
<1>12. Honest(r, h)
  <2> DEFINE g == r.who # "nobody"
  <2>1. "401" \in Error /\ "401" \in NoCredentials
    BY Listed DEF NoCredentials
  <2>2. ASSUME NEW w, NEW o, ~g
        PROVE  Says(r, "401", w, o)
    <3>1. r.who = "nobody" /\ Excuse(r, w, o)
      BY <2>2 DEF Closed, Outsider, Excuse
    <3> QED
      BY <2>1, <3>1, Meanings DEF Says
  <2> HIDE DEF g
  <2>3. Honest(r, Require(g, "401"))
    BY <2>1, <2>2, HonestRequire
  <2> QED
    BY <2>3 DEF g
<1> HIDE DEF h
<1> QED
  BY <1>8, <1>11, <1>12, HonestJoined

\* The errors are honest, and a hit in the cache is none.
HonestOrHit(r, p) ==
  /\ p \in Code
  /\ \A w, o : Yields(p, w, o) /\ o.err \notin {"ok", "200"} /\ Sound(w) =>
       Says(r, o.err, w, o)

LEMMA HonestIsEnough ==
  ASSUME NEW r, NEW p, Honest(r, p)
  PROVE  HonestOrHit(r, p)
  BY DEF Honest, HonestOrHit

LEMMA HonestBeforeHit ==
  ASSUME NEW r, NEW p, NEW q, Honest(r, p), HonestOrHit(r, q)
  PROVE  HonestOrHit(r, p \o q)
<1>1. p \in Code /\ q \in Code
  BY DEF Honest, HonestOrHit
<1> QED
  BY <1>1, Joined DEF Honest, HonestOrHit

LEMMA HandleTells ==
  ASSUME NEW r, NEW p, Honest(r, p)
  PROVE  Honest(r, Handle(r, p)) /\ HonestOrHit(r, HandleWithCache(r, p))
<1>1. Honest(r, mapErr(Remote(p)))
  BY HonestRemote, HonestLayers
<1>2. Honest(r, Require(r.form # "no_json", "500"))
  <2> DEFINE h == r.form # "no_json"
  <2>1. "500" \in Error /\ Plain("500") /\ (~h => r.form # "good")
    BY Listed, PlainErrors
  <2> HIDE DEF h
  <2>2. Honest(r, Require(h, "500"))
    BY <2>1, HonestChecks
  <2> QED
    BY <2>2 DEF h
<1>3. HonestOrHit(r, CacheGet(r) \o mapErr(Remote(p)))
  <2>1. \A w, o : Yields(CacheGet(r), w, o) => o.err \in {"ok", "200"}
    BY CacheGetDoes DEF Hits
  <2>2. CacheGet(r) \in Code
    BY CacheGetDoes DEF Reader
  <2> QED
    BY <1>1, <2>1, <2>2, Joined DEF Honest, HonestOrHit
<1> QED
  BY <1>1, <1>2, <1>3, HonestJoined DEF Handle, HandleWithCache

\* A list is asked for by a query that names somebody.
LEMMA HonestQuery ==
  ASSUME NEW r, r.op # "UpdateTutorProfile", NEW p, Honest(r, p)
  PROVE  Honest(r, Require(r.form # "empty", "400") \o Handle(r, p))
<1> DEFINE h == r.form # "empty"
<1>1. "400" \in Error /\ "400" \in WrongForm /\ (~h => Garbled(r))
  BY Listed DEF WrongForm, Garbled
<1> HIDE DEF h
<1>2. Honest(r, Require(h, "400"))
  BY <1>1, HonestChecks
<1>3. Honest(r, Require(h, "400") \o Handle(r, p))
  BY <1>2, HandleTells, HonestJoined
<1> QED
  BY <1>3 DEF h

\* What is said of a profile without fields is true of the profile as it came.
LEMMA HonestEmptied ==
  ASSUME NEW r \in Request, r.op = "UpdateTutorProfile",
         NEW p, Honest([r EXCEPT !.form = IF @ = "good" THEN "empty" ELSE @], p)
  PROVE  Honest(r, p)
<1> DEFINE s == [r EXCEPT !.form = IF @ = "good" THEN "empty" ELSE @]
<1>1. s.op = r.op /\ s.who = r.who /\ s.form = IF r.form = "good" THEN "empty" ELSE r.form
  BY DEF Request
<1>2. NamedBy(r.op) = {}
  BY DEF NamedBy
<1>3. Honest(s, p)
  OBVIOUS
<1> HIDE DEF s
<1>4. \A w, o, t : Hurdles(r, w, o, t) = {} /\ Hurdles(s, w, o, t) = {}
  BY <1>1, <1>2 DEF Hurdles
<1>5. Outsider(s) => Outsider(r)
  BY <1>1 DEF Outsider
<1>6. Garbled(s) => Garbled(r)
  BY <1>1 DEF Garbled
<1>7. \A w, o : Bar(s, w, o) => Bar(r, w, o)
  BY <1>1, <1>4, <1>5 DEF Bar
<1>8. ASSUME NEW e, NEW w, NEW o, Says(s, e, w, o)
      PROVE  Says(r, e, w, o)
  BY <1>1, <1>4, <1>5, <1>6, <1>7, <1>8 DEF Says, Excuse
<1> QED
  BY <1>3, <1>8 DEF Honest

LEMMA SignUpTells ==
  ASSUME NEW r \in Request, r.op = "SignUp"
  PROVE  Honest(r, Program(r))
<1> DEFINE p == RpcRegisterViaTelegram(r)
<1>1. Program(r) = Handle(r, p)
  BY DEF Program, SignUpRoutes, UserRoutes, ScheduleRoutes, HomeworkRoutes, PaymentRoutes,
         FileRoutes, ProxyRoutes, SignUpHandler
<1>2. NamedBy(r.op) = {"person"} /\ Needed(r, "person") = {"none"}
  BY DEF NamedBy, Needed
<1>3. Honest(r, p)
  BY <1>2, RpcRegisterViaTelegramTells
<1> HIDE DEF p
<1> QED
  BY <1>1, <1>3, HandleTells

LEMMA GetMeTells ==
  ASSUME NEW r \in Request, r.op = "GetMe"
  PROVE  HonestOrHit(r, Program(r))
<1> DEFINE p == RpcGetMe(r)
           q == authMiddleware(r) \o HandleWithCache(r, p)
<1>1. Program(r) = q
  BY DEF Program, SignUpRoutes, UserRoutes, ScheduleRoutes, HomeworkRoutes, PaymentRoutes,
         FileRoutes, ProxyRoutes, UserHandler
<1>2. /\ Admitted(r.op) = Caller \ {"nobody", "unknown"}
      /\ NamedBy(r.op) = {}
  BY DEF Admitted, Entitled, Account, NamedBy, OpenRoutes, SignUpRoutes, ProxyRoutes
<1>3. Closed(r)
  BY <1>2 DEF Closed, Outsider, Caller
<1>4. Honest(r, p)
  BY <1>3, RpcGetMeTells
<1> HIDE DEF p
<1> QED
  BY <1>1, <1>3, <1>4, authMiddlewareTells, HandleTells, HonestBeforeHit

LEMMA GetUserTells ==
  ASSUME NEW r \in Request, r.op = "GetUser"
  PROVE  HonestOrHit(r, Program(r))
<1> DEFINE p == RpcGetUser(r)
           q == authMiddleware(r) \o HandleWithCache(r, p)
<1>1. Program(r) = q
  BY DEF Program, SignUpRoutes, UserRoutes, ScheduleRoutes, HomeworkRoutes, PaymentRoutes,
         FileRoutes, ProxyRoutes, UserHandler
<1>2. /\ Admitted(r.op) = Caller \ {"nobody", "unknown"}
      /\ NamedBy(r.op) = {"person"}
  BY DEF Admitted, Entitled, Account, NamedBy, OpenRoutes, SignUpRoutes, ProxyRoutes
<1>3. Closed(r)
  BY <1>2 DEF Closed, Outsider, Caller
<1>4. Needed(r, "person") = {"present"}
  BY DEF Needed
<1>5. Needs(r, "person")
  BY <1>2, <1>4, RowsByName DEF Needs
<1>6. Honest(r, p)
  BY <1>2, <1>3, <1>4, <1>5, RpcGetUserTells
<1> HIDE DEF p
<1> QED
  BY <1>1, <1>3, <1>6, authMiddlewareTells, HandleTells, HonestBeforeHit

LEMMA UpdateUserTells ==
  ASSUME NEW r \in Request, r.op = "UpdateUser"
  PROVE  Honest(r, Program(r))
<1> DEFINE p == RpcUpdateUser(r)
           q == authMiddleware(r) \o Handle(r, p)
<1>1. Program(r) = q
  BY DEF Program, SignUpRoutes, UserRoutes, ScheduleRoutes, HomeworkRoutes, PaymentRoutes,
         FileRoutes, ProxyRoutes, UserHandler
<1>2. /\ Admitted(r.op) = Participants
      /\ NamedBy(r.op) = {}
  BY DEF Admitted, Entitled, Account, NamedBy, OpenRoutes, SignUpRoutes, ProxyRoutes
<1>3. /\ Closed(r)
      /\ (r.who \notin Participants => Outsider(r))
  BY <1>2 DEF Closed, Outsider, Participants
<1>4. Honest(r, p)
  BY <1>3, RpcUpdateUserTells
<1> HIDE DEF p
<1> QED
  BY <1>1, <1>3, <1>4, authMiddlewareTells, HandleTells, HonestJoined

LEMMA GetTutorProfileTells ==
  ASSUME NEW r \in Request, r.op = "GetTutorProfile"
  PROVE  HonestOrHit(r, Program(r))
<1> DEFINE p == RpcGetTutorProfileByUserId(r)
           q == authMiddleware(r) \o HandleWithCache(r, p)
<1>1. Program(r) = q
  BY DEF Program, SignUpRoutes, UserRoutes, ScheduleRoutes, HomeworkRoutes, PaymentRoutes,
         FileRoutes, ProxyRoutes, UserHandler
<1>2. /\ Admitted(r.op) = {"tutor"}
      /\ NamedBy(r.op) = {}
  BY DEF Admitted, Entitled, Account, NamedBy, OpenRoutes, SignUpRoutes, ProxyRoutes
<1>3. /\ Closed(r)
      /\ (r.who \notin Participants => Outsider(r))
      /\ (Role(r) # "tutor" => Outsider(r))
  BY <1>2 DEF Closed, Outsider, Participants, Role
<1>4. Honest(r, p)
  BY <1>3, RpcGetTutorProfileByUserIdTells
<1> HIDE DEF p
<1> QED
  BY <1>1, <1>3, <1>4, authMiddlewareTells, HandleTells, HonestBeforeHit

LEMMA UpdateTutorProfileTells ==
  ASSUME NEW r \in Request, r.op = "UpdateTutorProfile"
  PROVE  Honest(r, Program(r))
<1> DEFINE s == [r EXCEPT !.form = IF @ = "good" THEN "empty" ELSE @]
           p == RpcUpdateTutorProfile(s)
           q == authMiddleware(r) \o Handle(r, p)
<1>1. Program(r) = q
  BY DEF Program, SignUpRoutes, UserRoutes, ScheduleRoutes, HomeworkRoutes, PaymentRoutes,
         FileRoutes, ProxyRoutes, UserHandler
<1>2. /\ Admitted(r.op) = {"tutor"}
      /\ NamedBy(r.op) = {}
  BY DEF Admitted, Entitled, Account, NamedBy, OpenRoutes, SignUpRoutes, ProxyRoutes
<1>3. /\ Closed(r)
      /\ (r.who \notin Participants => Outsider(r))
      /\ (Role(r) # "tutor" => Outsider(r))
  BY <1>2 DEF Closed, Outsider, Participants, Role
<1>4. s.op = r.op /\ s.who = r.who
  BY DEF Request
<1>5. Closed(s) /\ (s.who \notin Participants => Outsider(s)) /\ (Role(s) # "tutor"
        => Outsider(s))
  BY <1>3, <1>4 DEF Closed, Outsider, Role
<1> HIDE DEF s
<1>6. Honest(s, p)
  BY <1>5, RpcUpdateTutorProfileTells
<1>7. Honest(r, p)
  BY <1>6, HonestEmptied DEF s
<1> HIDE DEF p
<1> QED
  BY <1>1, <1>3, <1>7, authMiddlewareTells, HandleTells, HonestJoined

LEMMA ListTutorStudentByTutorTells ==
  ASSUME NEW r \in Request, r.op = "ListTutorStudentByTutor"
  PROVE  Honest(r, Program(r))
<1> DEFINE p == RpcListTutorStudents(r)
           q == authMiddleware(r) \o Handle(r, p)
<1>1. Program(r) = q
  BY DEF Program, SignUpRoutes, UserRoutes, ScheduleRoutes, HomeworkRoutes, PaymentRoutes,
         FileRoutes, ProxyRoutes, UserHandler
<1>2. /\ Admitted(r.op) = {"tutor"}
      /\ NamedBy(r.op) = {}
  BY DEF Admitted, Entitled, Account, NamedBy, OpenRoutes, SignUpRoutes, ProxyRoutes
<1>3. /\ Closed(r)
      /\ (r.who \notin {"tutor"} => Outsider(r))
  BY <1>2 DEF Closed, Outsider
<1>4. Honest(r, p)
  BY <1>3, RpcListTutorStudentsTells
<1> HIDE DEF p
<1> QED
  BY <1>1, <1>3, <1>4, authMiddlewareTells, HandleTells, HonestJoined

LEMMA ListTutorStudentByStudentTells ==
  ASSUME NEW r \in Request, r.op = "ListTutorStudentByStudent"
  PROVE  Honest(r, Program(r))
<1> DEFINE p == RpcListTutorsForStudent(r)
           q == authMiddleware(r) \o Handle(r, p)
<1>1. Program(r) = q
  BY DEF Program, SignUpRoutes, UserRoutes, ScheduleRoutes, HomeworkRoutes, PaymentRoutes,
         FileRoutes, ProxyRoutes, UserHandler
<1>2. /\ Admitted(r.op) = {"student"}
      /\ NamedBy(r.op) = {}
  BY DEF Admitted, Entitled, Account, NamedBy, OpenRoutes, SignUpRoutes, ProxyRoutes
<1>3. /\ Closed(r)
      /\ (r.who \notin {"student"} => Outsider(r))
  BY <1>2 DEF Closed, Outsider
<1>4. Honest(r, p)
  BY <1>3, RpcListTutorsForStudentTells
<1> HIDE DEF p
<1> QED
  BY <1>1, <1>3, <1>4, authMiddlewareTells, HandleTells, HonestJoined

LEMMA GetTutorStudentTells ==
  ASSUME NEW r \in Request, r.op = "GetTutorStudent"
  PROVE  HonestOrHit(r, Program(r))
<1> DEFINE p == RpcGetTutorStudent(r)
           q == authMiddleware(r) \o HandleWithCache(r, p)
<1>1. Program(r) = q
  BY DEF Program, SignUpRoutes, UserRoutes, ScheduleRoutes, HomeworkRoutes, PaymentRoutes,
         FileRoutes, ProxyRoutes, UserHandler
<1>2. /\ Admitted(r.op) = Participants
      /\ NamedBy(r.op) = {"pair"}
  BY DEF Admitted, Entitled, Account, NamedBy, OpenRoutes, SignUpRoutes, ProxyRoutes
<1>3. /\ Closed(r)
      /\ (r.who \notin Participants => Outsider(r))
  BY <1>2 DEF Closed, Outsider, Participants
<1>4. Needed(r, "pair") = {"invited", "active"}
  BY DEF Needed, UserRoutes
<1>5. Needs(r, "pair")
  BY <1>2, <1>4, RowsByName DEF Needs
<1>6. Honest(r, p)
  BY <1>2, <1>3, <1>4, <1>5, RpcGetTutorStudentTells
<1> HIDE DEF p
<1> QED
  BY <1>1, <1>3, <1>6, authMiddlewareTells, HandleTells, HonestBeforeHit

LEMMA UpdateTutorStudentTells ==
  ASSUME NEW r \in Request, r.op = "UpdateTutorStudent"
  PROVE  Honest(r, Program(r))
<1> DEFINE p == RpcUpdateTutorStudent(r)
           q == authMiddleware(r) \o Handle(r, p)
<1>1. Program(r) = q
  BY DEF Program, SignUpRoutes, UserRoutes, ScheduleRoutes, HomeworkRoutes, PaymentRoutes,
         FileRoutes, ProxyRoutes, UserHandler
<1>2. /\ Admitted(r.op) = {"tutor"}
      /\ NamedBy(r.op) = {"pair"}
  BY DEF Admitted, Entitled, Account, NamedBy, OpenRoutes, SignUpRoutes, ProxyRoutes
<1>3. /\ Closed(r)
      /\ (r.who \notin {"tutor"} => Outsider(r))
      /\ (r.who \notin Participants => Outsider(r))
  BY <1>2 DEF Closed, Outsider, Participants
<1>4. Needed(r, "pair") = {"invited", "active"}
  BY DEF Needed, UserRoutes
<1>5. Needs(r, "pair")
  BY <1>2, <1>4, RowsByName DEF Needs
<1>6. Honest(r, p)
  BY <1>2, <1>3, <1>4, <1>5, RpcUpdateTutorStudentTells
<1> HIDE DEF p
<1> QED
  BY <1>1, <1>3, <1>6, authMiddlewareTells, HandleTells, HonestJoined

LEMMA DeleteTutorStudentTells ==
  ASSUME NEW r \in Request, r.op = "DeleteTutorStudent"
  PROVE  Honest(r, Program(r))
<1> DEFINE p == RpcDeleteTutorStudent(r)
           q == authMiddleware(r) \o Handle(r, p)
<1>1. Program(r) = q
  BY DEF Program, SignUpRoutes, UserRoutes, ScheduleRoutes, HomeworkRoutes, PaymentRoutes,
         FileRoutes, ProxyRoutes, UserHandler
<1>2. /\ Admitted(r.op) = {"tutor"}
      /\ NamedBy(r.op) = {"pair"}
  BY DEF Admitted, Entitled, Account, NamedBy, OpenRoutes, SignUpRoutes, ProxyRoutes
<1>3. /\ Closed(r)
      /\ (r.who \notin {"tutor"} => Outsider(r))
      /\ (r.who \notin Participants => Outsider(r))
  BY <1>2 DEF Closed, Outsider, Participants
<1>4. Needed(r, "pair") = {"invited", "active"}
  BY DEF Needed, UserRoutes
<1>5. Needs(r, "pair")
  BY <1>2, <1>4, RowsByName DEF Needs
<1>6. Honest(r, p)
  BY <1>2, <1>3, <1>4, <1>5, RpcDeleteTutorStudentTells
<1> HIDE DEF p
<1> QED
  BY <1>1, <1>3, <1>6, authMiddlewareTells, HandleTells, HonestJoined

LEMMA CreateTutorStudentTells ==
  ASSUME NEW r \in Request, r.op = "CreateTutorStudent"
  PROVE  Honest(r, Program(r))
<1> DEFINE p == RpcCreateTutorStudent(r)
           q == authMiddleware(r) \o Handle(r, p)
<1>1. Program(r) = q
  BY DEF Program, SignUpRoutes, UserRoutes, ScheduleRoutes, HomeworkRoutes, PaymentRoutes,
         FileRoutes, ProxyRoutes, UserHandler
<1>2. /\ Admitted(r.op) = {"tutor"}
      /\ NamedBy(r.op) = {"person", "pair"}
  BY DEF Admitted, Entitled, Account, NamedBy, OpenRoutes, SignUpRoutes, ProxyRoutes
<1>3. /\ Closed(r)
      /\ (r.who \notin {"tutor"} => Outsider(r))
      /\ (Role(r) # "tutor" => Outsider(r))
  BY <1>2 DEF Closed, Outsider, Role
<1>4. /\ Needed(r, "person") = {"present"}
      /\ Needed(r, "pair") = {"none"}
  BY DEF Needed, UserRoutes
<1>5. Needs(r, "person")
  BY <1>2, <1>4, RowsByName DEF Needs
<1>6. Honest(r, p)
  BY <1>2, <1>3, <1>4, <1>5, RpcCreateTutorStudentTells
<1> HIDE DEF p
<1> QED
  BY <1>1, <1>3, <1>6, authMiddlewareTells, HandleTells, HonestJoined

LEMMA AcceptInvitationTells ==
  ASSUME NEW r \in Request, r.op = "AcceptInvitation"
  PROVE  Honest(r, Program(r))
<1> DEFINE p == RpcAcceptInvitationFromTutor(r)
           q == authMiddleware(r) \o Handle(r, p)
<1>1. Program(r) = q
  BY DEF Program, SignUpRoutes, UserRoutes, ScheduleRoutes, HomeworkRoutes, PaymentRoutes,
         FileRoutes, ProxyRoutes, UserHandler
<1>2. /\ Admitted(r.op) = {"student"}
      /\ NamedBy(r.op) = {"pair"}
  BY DEF Admitted, Entitled, Account, NamedBy, OpenRoutes, SignUpRoutes, ProxyRoutes
<1>3. /\ Closed(r)
      /\ (r.who \notin Participants => Outsider(r))
      /\ (Role(r) # "student" => Outsider(r))
  BY <1>2 DEF Closed, Outsider, Participants, Role
<1>4. Needed(r, "pair") = {"invited", "active"}
  BY DEF Needed, UserRoutes
<1>5. Needs(r, "pair")
  BY <1>2, <1>4, RowsByName DEF Needs
<1>6. Honest(r, p)
  BY <1>2, <1>3, <1>4, <1>5, RpcAcceptInvitationFromTutorTells
<1> HIDE DEF p
<1> QED
  BY <1>1, <1>3, <1>6, authMiddlewareTells, HandleTells, HonestJoined

LEMMA CreateSlotTells ==
  ASSUME NEW r \in Request, r.op = "CreateSlot"
  PROVE  Honest(r, Program(r))
<1> DEFINE p == RpcCreateSlot(r)
           q == authMiddleware(r) \o Handle(r, p)
<1>1. Program(r) = q
  BY DEF Program, SignUpRoutes, UserRoutes, ScheduleRoutes, HomeworkRoutes, PaymentRoutes,
         FileRoutes, ProxyRoutes, ScheduleHandler
<1>2. /\ Admitted(r.op) = {"tutor"}
      /\ NamedBy(r.op) = {}
  BY DEF Admitted, Entitled, Account, NamedBy, OpenRoutes, SignUpRoutes, ProxyRoutes
<1>3. /\ Closed(r)
      /\ (r.who \notin {"tutor"} => Outsider(r))
      /\ (Role(r) # "tutor" => Outsider(r))
  BY <1>2 DEF Closed, Outsider, Role
<1>4. Honest(r, p)
  BY <1>3, RpcCreateSlotTells
<1> HIDE DEF p
<1> QED
  BY <1>1, <1>3, <1>4, authMiddlewareTells, HandleTells, HonestJoined

LEMMA GetSlotTells ==
  ASSUME NEW r \in Request, r.op = "GetSlot"
  PROVE  Honest(r, Program(r))
<1> DEFINE p == RpcGetSlot(r)
           q == authMiddleware(r) \o Handle(r, p)
<1>1. Program(r) = q
  BY DEF Program, SignUpRoutes, UserRoutes, ScheduleRoutes, HomeworkRoutes, PaymentRoutes,
         FileRoutes, ProxyRoutes, ScheduleHandler
<1>2. /\ Admitted(r.op) = Participants
      /\ NamedBy(r.op) = {"slot", "pair"}
  BY DEF Admitted, Entitled, Account, NamedBy, OpenRoutes, SignUpRoutes, ProxyRoutes
<1>3. /\ Closed(r)
      /\ (r.who \notin Participants => Outsider(r))
  BY <1>2 DEF Closed, Outsider, Participants
<1>4. Needed(r, "slot") = {"free", "booked", "used"}
  BY DEF Needed, SlotState
<1>5. r.who # "tutor" => Needed(r, "pair") = {"active"}
  BY DEF Needed, UserRoutes
<1>6. r.who # "tutor" => Paired(r)
  BY <1>2, <1>3, <1>5 DEF Paired
<1>7. Needs(r, "slot")
  BY <1>2, <1>4, RowsByName DEF Needs
<1>8. Honest(r, p)
  BY <1>2, <1>3, <1>4, <1>6, <1>7, RpcGetSlotTells
<1> HIDE DEF p
<1> QED
  BY <1>1, <1>3, <1>8, authMiddlewareTells, HandleTells, HonestJoined

LEMMA UpdateSlotTells ==
  ASSUME NEW r \in Request, r.op = "UpdateSlot"
  PROVE  Honest(r, Program(r))
<1> DEFINE p == RpcUpdateSlot(r)
           q == authMiddleware(r) \o Handle(r, p)
<1>1. Program(r) = q
  BY DEF Program, SignUpRoutes, UserRoutes, ScheduleRoutes, HomeworkRoutes, PaymentRoutes,
         FileRoutes, ProxyRoutes, ScheduleHandler
<1>2. /\ Admitted(r.op) = {"tutor"}
      /\ NamedBy(r.op) = {"slot"}
  BY DEF Admitted, Entitled, Account, NamedBy, OpenRoutes, SignUpRoutes, ProxyRoutes
<1>3. /\ Closed(r)
      /\ (r.who \notin {"tutor"} => Outsider(r))
  BY <1>2 DEF Closed, Outsider
<1>4. Needed(r, "slot") = {"free", "used"}
  BY DEF Needed, SlotState
<1>5. Needs(r, "slot")
  BY <1>2, <1>4, RowsByName DEF Needs
<1>6. Honest(r, p)
  BY <1>2, <1>3, <1>4, <1>5, RpcUpdateSlotTells
<1> HIDE DEF p
<1> QED
  BY <1>1, <1>3, <1>6, authMiddlewareTells, HandleTells, HonestJoined

LEMMA DeleteSlotTells ==
  ASSUME NEW r \in Request, r.op = "DeleteSlot"
  PROVE  Honest(r, Program(r))
<1> DEFINE p == RpcDeleteSlot(r)
           q == authMiddleware(r) \o Handle(r, p)
<1>1. Program(r) = q
  BY DEF Program, SignUpRoutes, UserRoutes, ScheduleRoutes, HomeworkRoutes, PaymentRoutes,
         FileRoutes, ProxyRoutes, ScheduleHandler
<1>2. /\ Admitted(r.op) = {"tutor"}
      /\ NamedBy(r.op) = {"slot"}
  BY DEF Admitted, Entitled, Account, NamedBy, OpenRoutes, SignUpRoutes, ProxyRoutes
<1>3. /\ Closed(r)
      /\ (r.who \notin {"tutor"} => Outsider(r))
  BY <1>2 DEF Closed, Outsider
<1>4. Needed(r, "slot") = {"free"}
  BY DEF Needed, SlotState
<1>5. Needs(r, "slot")
  BY <1>2, <1>4, RowsByName DEF Needs
<1>6. Honest(r, p)
  BY <1>2, <1>3, <1>4, <1>5, RpcDeleteSlotTells
<1> HIDE DEF p
<1> QED
  BY <1>1, <1>3, <1>6, authMiddlewareTells, HandleTells, HonestJoined

LEMMA ListSlotsByTutorTells ==
  ASSUME NEW r \in Request, r.op = "ListSlotsByTutor"
  PROVE  Honest(r, Program(r))
<1> DEFINE p == RpcListSlotsByTutor(r)
           q == authMiddleware(r) \o Handle(r, p)
<1>1. Program(r) = q
  BY DEF Program, SignUpRoutes, UserRoutes, ScheduleRoutes, HomeworkRoutes, PaymentRoutes,
         FileRoutes, ProxyRoutes, ScheduleHandler
<1>2. /\ Admitted(r.op) = Participants
      /\ NamedBy(r.op) = {"pair"}
  BY DEF Admitted, Entitled, Account, NamedBy, OpenRoutes, SignUpRoutes, ProxyRoutes
<1>3. /\ Closed(r)
      /\ (r.who \notin Participants => Outsider(r))
  BY <1>2 DEF Closed, Outsider, Participants
<1>4. r.who # "tutor" => Needed(r, "pair") = {"active"}
  BY DEF Needed, UserRoutes
<1>5. r.who # "tutor" => Paired(r)
  BY <1>2, <1>3, <1>4 DEF Paired
<1>6. Honest(r, p)
  BY <1>2, <1>3, <1>5, RpcListSlotsByTutorTells
<1> HIDE DEF p
<1> QED
  BY <1>1, <1>3, <1>6, authMiddlewareTells, HandleTells, HonestJoined

LEMMA ListLessonsByTutorTells ==
  ASSUME NEW r \in Request, r.op = "ListLessonsByTutor"
  PROVE  Honest(r, Program(r))
<1> DEFINE p == RpcListLessonsByTutor(r)
           q == authMiddleware(r) \o (Require(r.form # "empty", "400") \o Handle(r, p))
<1>1. Program(r) = q
  BY DEF Program, SignUpRoutes, UserRoutes, ScheduleRoutes, HomeworkRoutes, PaymentRoutes,
         FileRoutes, ProxyRoutes, ScheduleHandler, ListLessons, parseListLessons
<1>2. /\ Admitted(r.op) = {"tutor"}
      /\ NamedBy(r.op) = {}
  BY DEF Admitted, Entitled, Account, NamedBy, OpenRoutes, SignUpRoutes, ProxyRoutes
<1>3. /\ Closed(r)
      /\ (r.who \notin {"tutor"} => Outsider(r))
  BY <1>2 DEF Closed, Outsider
<1>4. Honest(r, p)
  BY <1>3, RpcListLessonsByTutorTells
<1> HIDE DEF p
<1> QED
  BY <1>1, <1>3, <1>4, authMiddlewareTells, HonestQuery, HonestJoined

LEMMA ListLessonsByStudentTells ==
  ASSUME NEW r \in Request, r.op = "ListLessonsByStudent"
  PROVE  Honest(r, Program(r))
<1> DEFINE p == RpcListLessonsByStudent(r)
           q == authMiddleware(r) \o (Require(r.form # "empty", "400") \o Handle(r, p))
<1>1. Program(r) = q
  BY DEF Program, SignUpRoutes, UserRoutes, ScheduleRoutes, HomeworkRoutes, PaymentRoutes,
         FileRoutes, ProxyRoutes, ScheduleHandler, ListLessons, parseListLessons
<1>2. /\ Admitted(r.op) = {"student"}
      /\ NamedBy(r.op) = {}
  BY DEF Admitted, Entitled, Account, NamedBy, OpenRoutes, SignUpRoutes, ProxyRoutes
<1>3. /\ Closed(r)
      /\ (r.who \notin {"student"} => Outsider(r))
  BY <1>2 DEF Closed, Outsider
<1>4. Honest(r, p)
  BY <1>3, RpcListLessonsByStudentTells
<1> HIDE DEF p
<1> QED
  BY <1>1, <1>3, <1>4, authMiddlewareTells, HonestQuery, HonestJoined

LEMMA ListLessonsByPairTells ==
  ASSUME NEW r \in Request, r.op = "ListLessonsByPair"
  PROVE  Honest(r, Program(r))
<1> DEFINE p == RpcListLessonsByPair(r)
           q == authMiddleware(r) \o (Require(r.form # "empty", "400") \o Handle(r, p))
<1>1. Program(r) = q
  BY DEF Program, SignUpRoutes, UserRoutes, ScheduleRoutes, HomeworkRoutes, PaymentRoutes,
         FileRoutes, ProxyRoutes, ScheduleHandler, ListLessons, parseListLessons
<1>2. /\ Admitted(r.op) = Participants
      /\ NamedBy(r.op) = {"pair"}
  BY DEF Admitted, Entitled, Account, NamedBy, OpenRoutes, SignUpRoutes, ProxyRoutes
<1>3. /\ Closed(r)
      /\ (r.who \notin Participants => Outsider(r))
  BY <1>2 DEF Closed, Outsider, Participants
<1>4. Needed(r, "pair") = {"active"}
  BY DEF Needed, UserRoutes
<1>5. Paired(r)
  BY <1>2, <1>3, <1>4 DEF Paired
<1>6. Honest(r, p)
  BY <1>2, <1>3, <1>4, <1>5, RpcListLessonsByPairTells
<1> HIDE DEF p
<1> QED
  BY <1>1, <1>3, <1>6, authMiddlewareTells, HonestQuery, HonestJoined

LEMMA CreateLessonTells ==
  ASSUME NEW r \in Request, r.op = "CreateLesson"
  PROVE  Honest(r, Program(r))
<1> DEFINE p == RpcCreateLesson(r)
           q == authMiddleware(r) \o Handle(r, p)
<1>1. Program(r) = q
  BY DEF Program, SignUpRoutes, UserRoutes, ScheduleRoutes, HomeworkRoutes, PaymentRoutes,
         FileRoutes, ProxyRoutes, ScheduleHandler
<1>2. /\ Admitted(r.op) = Participants
      /\ NamedBy(r.op) = {"slot", "pair"}
  BY DEF Admitted, Entitled, Account, NamedBy, OpenRoutes, SignUpRoutes, ProxyRoutes
<1>3. /\ Closed(r)
      /\ (r.who \notin Participants => Outsider(r))
  BY <1>2 DEF Closed, Outsider, Participants
<1>4. /\ Needed(r, "slot") = {"free"}
      /\ Needed(r, "pair") = {"active"}
  BY DEF Needed, UserRoutes, SlotState
<1>5. Paired(r)
  BY <1>2, <1>3, <1>4 DEF Paired
<1>6. Honest(r, p)
  BY <1>2, <1>3, <1>4, <1>5, RpcCreateLessonTells
<1> HIDE DEF p
<1> QED
  BY <1>1, <1>3, <1>6, authMiddlewareTells, HandleTells, HonestJoined

LEMMA GetLessonTells ==
  ASSUME NEW r \in Request, r.op = "GetLesson"
  PROVE  Honest(r, Program(r))
<1> DEFINE p == RpcGetLesson(r)
           q == authMiddleware(r) \o Handle(r, p)
<1>1. Program(r) = q
  BY DEF Program, SignUpRoutes, UserRoutes, ScheduleRoutes, HomeworkRoutes, PaymentRoutes,
         FileRoutes, ProxyRoutes, ScheduleHandler
<1>2. /\ Admitted(r.op) = Participants
      /\ NamedBy(r.op) = {"lesson", "slot"}
  BY DEF Admitted, Entitled, Account, NamedBy, OpenRoutes, SignUpRoutes, ProxyRoutes
<1>3. /\ Closed(r)
      /\ (r.who \notin Participants => Outsider(r))
  BY <1>2 DEF Closed, Outsider, Participants
<1>4. Needed(r, "lesson") = {"unpaid", "paid"}
  BY DEF Needed
<1>5. Needs(r, "lesson")
  BY <1>2, <1>4, RowsByName DEF Needs
<1>6. Honest(r, p)
  BY <1>2, <1>3, <1>4, <1>5, RpcGetLessonTells
<1> HIDE DEF p
<1> QED
  BY <1>1, <1>3, <1>6, authMiddlewareTells, HandleTells, HonestJoined

LEMMA UpdateLessonTells ==
  ASSUME NEW r \in Request, r.op = "UpdateLesson"
  PROVE  Honest(r, Program(r))
<1> DEFINE p == RpcUpdateLesson(r)
           q == authMiddleware(r) \o Handle(r, p)
<1>1. Program(r) = q
  BY DEF Program, SignUpRoutes, UserRoutes, ScheduleRoutes, HomeworkRoutes, PaymentRoutes,
         FileRoutes, ProxyRoutes, ScheduleHandler
<1>2. /\ Admitted(r.op) = {"tutor"}
      /\ NamedBy(r.op) = {"lesson", "slot"}
  BY DEF Admitted, Entitled, Account, NamedBy, OpenRoutes, SignUpRoutes, ProxyRoutes
<1>3. /\ Closed(r)
      /\ (r.who \notin {"tutor"} => Outsider(r))
  BY <1>2 DEF Closed, Outsider
<1>4. Needed(r, "lesson") = {"unpaid", "paid"}
  BY DEF Needed
<1>5. Needs(r, "lesson")
  BY <1>2, <1>4, RowsByName DEF Needs
<1>6. Honest(r, p)
  BY <1>2, <1>3, <1>4, <1>5, RpcUpdateLessonTells
<1> HIDE DEF p
<1> QED
  BY <1>1, <1>3, <1>6, authMiddlewareTells, HandleTells, HonestJoined

LEMMA CancelLessonTells ==
  ASSUME NEW r \in Request, r.op = "CancelLesson"
  PROVE  Honest(r, Program(r))
<1> DEFINE p == RpcCancelLesson(r)
           q == authMiddleware(r) \o Handle(r, p)
<1>1. Program(r) = q
  BY DEF Program, SignUpRoutes, UserRoutes, ScheduleRoutes, HomeworkRoutes, PaymentRoutes,
         FileRoutes, ProxyRoutes, ScheduleHandler
<1>2. /\ Admitted(r.op) = Participants
      /\ NamedBy(r.op) = {"lesson", "slot"}
  BY DEF Admitted, Entitled, Account, NamedBy, OpenRoutes, SignUpRoutes, ProxyRoutes
<1>3. /\ Closed(r)
      /\ (r.who \notin Participants => Outsider(r))
  BY <1>2 DEF Closed, Outsider, Participants
<1>4. Needed(r, "lesson") = {"unpaid", "paid"}
  BY DEF Needed
<1>5. Needs(r, "lesson")
  BY <1>2, <1>4, RowsByName DEF Needs
<1>6. Honest(r, p)
  BY <1>2, <1>3, <1>4, <1>5, RpcCancelLessonTells
<1> HIDE DEF p
<1> QED
  BY <1>1, <1>3, <1>6, authMiddlewareTells, HandleTells, HonestJoined

LEMMA CreateAssignmentTells ==
  ASSUME NEW r \in Request, r.op = "CreateAssignment"
  PROVE  Honest(r, Program(r))
<1> DEFINE p == RpcCreateAssignment(r)
           q == authMiddleware(r) \o Handle(r, p)
<1>1. Program(r) = q
  BY DEF Program, SignUpRoutes, UserRoutes, ScheduleRoutes, HomeworkRoutes, PaymentRoutes,
         FileRoutes, ProxyRoutes, HomeworkHandler
<1>2. /\ Admitted(r.op) = {"tutor"}
      /\ NamedBy(r.op) = {"pair"}
  BY DEF Admitted, Entitled, Account, NamedBy, OpenRoutes, SignUpRoutes, ProxyRoutes
<1>3. /\ Closed(r)
      /\ (Role(r) # "tutor" => Outsider(r))
      /\ (r.who \notin Participants => Outsider(r))
  BY <1>2 DEF Closed, Outsider, Participants, Role
<1>4. Needed(r, "pair") = {"active"}
  BY DEF Needed, UserRoutes
<1>5. Paired(r)
  BY <1>2, <1>3, <1>4 DEF Paired
<1>6. Honest(r, p)
  BY <1>2, <1>3, <1>4, <1>5, RpcCreateAssignmentTells
<1> HIDE DEF p
<1> QED
  BY <1>1, <1>3, <1>6, authMiddlewareTells, HandleTells, HonestJoined

LEMMA UpdateAssignmentTells ==
  ASSUME NEW r \in Request, r.op = "UpdateAssignment"
  PROVE  Honest(r, Program(r))
<1> DEFINE p == RpcUpdateAssignment(r)
           q == authMiddleware(r) \o Handle(r, p)
<1>1. Program(r) = q
  BY DEF Program, SignUpRoutes, UserRoutes, ScheduleRoutes, HomeworkRoutes, PaymentRoutes,
         FileRoutes, ProxyRoutes, HomeworkHandler
<1>2. /\ Admitted(r.op) = {"tutor"}
      /\ NamedBy(r.op) = {"assignment"}
  BY DEF Admitted, Entitled, Account, NamedBy, OpenRoutes, SignUpRoutes, ProxyRoutes
<1>3. /\ Closed(r)
      /\ (r.who \notin {"tutor"} => Outsider(r))
  BY <1>2 DEF Closed, Outsider
<1>4. Needed(r, "assignment") = {"bare", "filed"}
  BY DEF Needed
<1>5. Needs(r, "assignment")
  BY <1>2, <1>4, RowsByName DEF Needs
<1>6. Honest(r, p)
  BY <1>2, <1>3, <1>4, <1>5, RpcUpdateAssignmentTells
<1> HIDE DEF p
<1> QED
  BY <1>1, <1>3, <1>6, authMiddlewareTells, HandleTells, HonestJoined

LEMMA DeleteAssignmentTells ==
  ASSUME NEW r \in Request, r.op = "DeleteAssignment"
  PROVE  Honest(r, Program(r))
<1> DEFINE p == RpcDeleteAssignment(r)
           q == authMiddleware(r) \o Handle(r, p)
<1>1. Program(r) = q
  BY DEF Program, SignUpRoutes, UserRoutes, ScheduleRoutes, HomeworkRoutes, PaymentRoutes,
         FileRoutes, ProxyRoutes, HomeworkHandler
<1>2. /\ Admitted(r.op) = {"tutor"}
      /\ NamedBy(r.op) = {"assignment"}
  BY DEF Admitted, Entitled, Account, NamedBy, OpenRoutes, SignUpRoutes, ProxyRoutes
<1>3. /\ Closed(r)
      /\ (r.who \notin {"tutor"} => Outsider(r))
  BY <1>2 DEF Closed, Outsider
<1>4. Needed(r, "assignment") = {"bare", "filed"}
  BY DEF Needed
<1>5. Needs(r, "assignment")
  BY <1>2, <1>4, RowsByName DEF Needs
<1>6. Honest(r, p)
  BY <1>2, <1>3, <1>4, <1>5, RpcDeleteAssignmentTells
<1> HIDE DEF p
<1> QED
  BY <1>1, <1>3, <1>6, authMiddlewareTells, HandleTells, HonestJoined

LEMMA GetAssignmentFileTells ==
  ASSUME NEW r \in Request, r.op = "GetAssignmentFile"
  PROVE  Honest(r, Program(r))
<1> DEFINE p == RpcGetAssignmentFile(r)
           q == authMiddleware(r) \o Handle(r, p)
<1>1. Program(r) = q
  BY DEF Program, SignUpRoutes, UserRoutes, ScheduleRoutes, HomeworkRoutes, PaymentRoutes,
         FileRoutes, ProxyRoutes, HomeworkHandler
<1>2. /\ Admitted(r.op) = Caller \ {"nobody", "unknown"}
      /\ NamedBy(r.op) = {"assignment", "file"}
  BY DEF Admitted, Entitled, Account, NamedBy, OpenRoutes, SignUpRoutes, ProxyRoutes
<1>3. Closed(r)
  BY <1>2 DEF Closed, Outsider, Caller
<1>4. /\ Needed(r, "assignment") = {"filed"}
      /\ Needed(r, "file") = {"present"}
  BY DEF Needed
<1>5. Needs(r, "assignment") /\ Needs(r, "file")
  BY <1>2, <1>4, RowsByName DEF Needs
<1>6. Honest(r, p)
  BY <1>2, <1>3, <1>4, <1>5, RpcGetAssignmentFileTells
<1> HIDE DEF p
<1> QED
  BY <1>1, <1>3, <1>6, authMiddlewareTells, HandleTells, HonestJoined

LEMMA ListSubmissionsTells ==
  ASSUME NEW r \in Request, r.op = "ListSubmissions"
  PROVE  Honest(r, Program(r))
<1> DEFINE p == RpcListSubmissionsByAssignment(r)
           q == authMiddleware(r) \o Handle(r, p)
<1>1. Program(r) = q
  BY DEF Program, SignUpRoutes, UserRoutes, ScheduleRoutes, HomeworkRoutes, PaymentRoutes,
         FileRoutes, ProxyRoutes, HomeworkHandler
<1>2. /\ Admitted(r.op) = Participants
      /\ NamedBy(r.op) = {"assignment"}
  BY DEF Admitted, Entitled, Account, NamedBy, OpenRoutes, SignUpRoutes, ProxyRoutes
<1>3. /\ Closed(r)
      /\ (r.who \notin Participants => Outsider(r))
  BY <1>2 DEF Closed, Outsider, Participants
<1>4. Needed(r, "assignment") = {"bare", "filed"}
  BY DEF Needed
<1>5. Needs(r, "assignment")
  BY <1>2, <1>4, RowsByName DEF Needs
<1>6. Honest(r, p)
  BY <1>2, <1>3, <1>4, <1>5, RpcListSubmissionsByAssignmentTells
<1> HIDE DEF p
<1> QED
  BY <1>1, <1>3, <1>6, authMiddlewareTells, HandleTells, HonestJoined

LEMMA ListFeedbacksTells ==
  ASSUME NEW r \in Request, r.op = "ListFeedbacks"
  PROVE  Honest(r, Program(r))
<1> DEFINE p == RpcListFeedbacksByAssignment(r)
           q == authMiddleware(r) \o Handle(r, p)
<1>1. Program(r) = q
  BY DEF Program, SignUpRoutes, UserRoutes, ScheduleRoutes, HomeworkRoutes, PaymentRoutes,
         FileRoutes, ProxyRoutes, HomeworkHandler
<1>2. /\ Admitted(r.op) = Participants
      /\ NamedBy(r.op) = {"assignment"}
  BY DEF Admitted, Entitled, Account, NamedBy, OpenRoutes, SignUpRoutes, ProxyRoutes
<1>3. /\ Closed(r)
      /\ (r.who \notin Participants => Outsider(r))
  BY <1>2 DEF Closed, Outsider, Participants
<1>4. Needed(r, "assignment") = {"bare", "filed"}
  BY DEF Needed
<1>5. Needs(r, "assignment")
  BY <1>2, <1>4, RowsByName DEF Needs
<1>6. Honest(r, p)
  BY <1>2, <1>3, <1>4, <1>5, RpcListFeedbacksByAssignmentTells
<1> HIDE DEF p
<1> QED
  BY <1>1, <1>3, <1>6, authMiddlewareTells, HandleTells, HonestJoined

LEMMA CreateSubmissionTells ==
  ASSUME NEW r \in Request, r.op = "CreateSubmission"
  PROVE  Honest(r, Program(r))
<1> DEFINE p == RpcCreateSubmission(r)
           q == authMiddleware(r) \o Handle(r, p)
<1>1. Program(r) = q
  BY DEF Program, SignUpRoutes, UserRoutes, ScheduleRoutes, HomeworkRoutes, PaymentRoutes,
         FileRoutes, ProxyRoutes, HomeworkHandler
<1>2. /\ Admitted(r.op) = {"student"}
      /\ NamedBy(r.op) = {"assignment"}
  BY DEF Admitted, Entitled, Account, NamedBy, OpenRoutes, SignUpRoutes, ProxyRoutes
<1>3. /\ Closed(r)
      /\ (r.who \notin {"student"} => Outsider(r))
  BY <1>2 DEF Closed, Outsider
<1>4. Needed(r, "assignment") = {"bare", "filed"}
  BY DEF Needed
<1>5. Needs(r, "assignment")
  BY <1>2, <1>4, RowsByName DEF Needs
<1>6. Honest(r, p)
  BY <1>2, <1>3, <1>4, <1>5, RpcCreateSubmissionTells
<1> HIDE DEF p
<1> QED
  BY <1>1, <1>3, <1>6, authMiddlewareTells, HandleTells, HonestJoined

LEMMA GetSubmissionFileTells ==
  ASSUME NEW r \in Request, r.op = "GetSubmissionFile"
  PROVE  Honest(r, Program(r))
<1> DEFINE p == RpcGetSubmissionFile(r)
           q == authMiddleware(r) \o Handle(r, p)
<1>1. Program(r) = q
  BY DEF Program, SignUpRoutes, UserRoutes, ScheduleRoutes, HomeworkRoutes, PaymentRoutes,
         FileRoutes, ProxyRoutes, HomeworkHandler
<1>2. /\ Admitted(r.op) = Participants
      /\ NamedBy(r.op) = {"assignment", "submission", "file"}
  BY DEF Admitted, Entitled, Account, NamedBy, OpenRoutes, SignUpRoutes, ProxyRoutes
<1>3. /\ Closed(r)
      /\ (r.who \notin Participants => Outsider(r))
  BY <1>2 DEF Closed, Outsider, Participants
<1>4. /\ Needed(r, "assignment") = {"bare", "filed"}
      /\ Needed(r, "submission") = {"filed"}
      /\ Needed(r, "file") = {"present"}
  BY DEF Needed
<1>5. Needs(r, "assignment") /\ Needs(r, "submission") /\ Needs(r, "file")
  BY <1>2, <1>4, RowsByName DEF Needs
<1>6. Honest(r, p)
  BY <1>2, <1>3, <1>4, <1>5, RpcGetSubmissionFileTells
<1> HIDE DEF p
<1> QED
  BY <1>1, <1>3, <1>6, authMiddlewareTells, HandleTells, HonestJoined

LEMMA CreateFeedbackTells ==
  ASSUME NEW r \in Request, r.op = "CreateFeedback"
  PROVE  Honest(r, Program(r))
<1> DEFINE p == RpcCreateFeedback(r)
           q == authMiddleware(r) \o Handle(r, p)
<1>1. Program(r) = q
  BY DEF Program, SignUpRoutes, UserRoutes, ScheduleRoutes, HomeworkRoutes, PaymentRoutes,
         FileRoutes, ProxyRoutes, HomeworkHandler
<1>2. /\ Admitted(r.op) = {"tutor"}
      /\ NamedBy(r.op) = {"assignment", "submission"}
  BY DEF Admitted, Entitled, Account, NamedBy, OpenRoutes, SignUpRoutes, ProxyRoutes
<1>3. /\ Closed(r)
      /\ (r.who \notin {"tutor"} => Outsider(r))
      /\ (Role(r) # "tutor" => Outsider(r))
  BY <1>2 DEF Closed, Outsider, Role
<1>4. /\ Needed(r, "assignment") = {"bare", "filed"}
      /\ Needed(r, "submission") = {"bare", "filed"}
  BY DEF Needed
<1>5. Needs(r, "assignment") /\ Needs(r, "submission")
  BY <1>2, <1>4, RowsByName DEF Needs
<1>6. Honest(r, p)
  BY <1>2, <1>3, <1>4, <1>5, RpcCreateFeedbackTells
<1> HIDE DEF p
<1> QED
  BY <1>1, <1>3, <1>6, authMiddlewareTells, HandleTells, HonestJoined

LEMMA UpdateFeedbackTells ==
  ASSUME NEW r \in Request, r.op = "UpdateFeedback"
  PROVE  Honest(r, Program(r))
<1> DEFINE p == RpcUpdateFeedback(r)
           q == authMiddleware(r) \o Handle(r, p)
<1>1. Program(r) = q
  BY DEF Program, SignUpRoutes, UserRoutes, ScheduleRoutes, HomeworkRoutes, PaymentRoutes,
         FileRoutes, ProxyRoutes, HomeworkHandler
<1>2. /\ Admitted(r.op) = {"tutor"}
      /\ NamedBy(r.op) = {"assignment", "submission", "feedback"}
  BY DEF Admitted, Entitled, Account, NamedBy, OpenRoutes, SignUpRoutes, ProxyRoutes
<1>3. /\ Closed(r)
      /\ (r.who \notin {"tutor"} => Outsider(r))
      /\ (Role(r) # "tutor" => Outsider(r))
  BY <1>2 DEF Closed, Outsider, Role
<1>4. /\ Needed(r, "assignment") = {"bare", "filed"}
      /\ Needed(r, "submission") = {"bare", "filed"}
      /\ Needed(r, "feedback") = {"bare", "filed"}
  BY DEF Needed
<1>5. Needs(r, "assignment") /\ Needs(r, "submission") /\ Needs(r, "feedback")
  BY <1>2, <1>4, RowsByName DEF Needs
<1>6. Honest(r, p)
  BY <1>2, <1>3, <1>4, <1>5, RpcUpdateFeedbackTells
<1> HIDE DEF p
<1> QED
  BY <1>1, <1>3, <1>6, authMiddlewareTells, HandleTells, HonestJoined

LEMMA GetFeedbackFileTells ==
  ASSUME NEW r \in Request, r.op = "GetFeedbackFile"
  PROVE  Honest(r, Program(r))
<1> DEFINE p == RpcGetFeedbackFile(r)
           q == authMiddleware(r) \o Handle(r, p)
<1>1. Program(r) = q
  BY DEF Program, SignUpRoutes, UserRoutes, ScheduleRoutes, HomeworkRoutes, PaymentRoutes,
         FileRoutes, ProxyRoutes, HomeworkHandler
<1>2. /\ Admitted(r.op) = Participants
      /\ NamedBy(r.op) = {"assignment", "submission", "feedback", "file"}
  BY DEF Admitted, Entitled, Account, NamedBy, OpenRoutes, SignUpRoutes, ProxyRoutes
<1>3. /\ Closed(r)
      /\ (r.who \notin Participants => Outsider(r))
  BY <1>2 DEF Closed, Outsider, Participants
<1>4. /\ Needed(r, "assignment") = {"bare", "filed"}
      /\ Needed(r, "submission") = {"bare", "filed"}
      /\ Needed(r, "feedback") = {"filed"}
      /\ Needed(r, "file") = {"present"}
  BY DEF Needed
<1>5. Needs(r, "assignment") /\ Needs(r, "submission") /\ Needs(r, "feedback") /\ Needs(r, "file")
  BY <1>2, <1>4, RowsByName DEF Needs
<1>6. Honest(r, p)
  BY <1>2, <1>3, <1>4, <1>5, RpcGetFeedbackFileTells
<1> HIDE DEF p
<1> QED
  BY <1>1, <1>3, <1>6, authMiddlewareTells, HandleTells, HonestJoined

LEMMA GetPaymentInfoTells ==
  ASSUME NEW r \in Request, r.op = "GetPaymentInfo"
  PROVE  Honest(r, Program(r))
<1> DEFINE p == RpcGetPaymentInfo(r)
           q == authMiddleware(r) \o Handle(r, p)
<1>1. Program(r) = q
  BY DEF Program, SignUpRoutes, UserRoutes, ScheduleRoutes, HomeworkRoutes, PaymentRoutes,
         FileRoutes, ProxyRoutes, PaymentHandler
<1>2. /\ Admitted(r.op) = Participants
      /\ NamedBy(r.op) = {"lesson", "slot"}
  BY DEF Admitted, Entitled, Account, NamedBy, OpenRoutes, SignUpRoutes, ProxyRoutes
<1>3. /\ Closed(r)
      /\ (r.who \notin Participants => Outsider(r))
  BY <1>2 DEF Closed, Outsider, Participants
<1>4. Needed(r, "lesson") = {"unpaid", "paid"}
  BY DEF Needed
<1>5. Needs(r, "lesson")
  BY <1>2, <1>4, RowsByName DEF Needs
<1>6. Honest(r, p)
  BY <1>2, <1>3, <1>4, <1>5, RpcGetPaymentInfoTells
<1> HIDE DEF p
<1> QED
  BY <1>1, <1>3, <1>6, authMiddlewareTells, HandleTells, HonestJoined

LEMMA SubmitReceiptTells ==
  ASSUME NEW r \in Request, r.op = "SubmitReceipt"
  PROVE  Honest(r, Program(r))
<1> DEFINE p == RpcSubmitPaymentReceipt(r)
           q == authMiddleware(r) \o Handle(r, p)
<1>1. Program(r) = q
  BY DEF Program, SignUpRoutes, UserRoutes, ScheduleRoutes, HomeworkRoutes, PaymentRoutes,
         FileRoutes, ProxyRoutes, PaymentHandler
<1>2. /\ Admitted(r.op) = {"student"}
      /\ NamedBy(r.op) = {"lesson", "slot"}
  BY DEF Admitted, Entitled, Account, NamedBy, OpenRoutes, SignUpRoutes, ProxyRoutes
<1>3. /\ Closed(r)
      /\ (r.who \notin Participants => Outsider(r))
      /\ (Role(r) # "student" => Outsider(r))
  BY <1>2 DEF Closed, Outsider, Participants, Role
<1>4. Needed(r, "lesson") = {"unpaid"}
  BY DEF Needed
<1>5. Honest(r, p)
  BY <1>2, <1>3, <1>4, RpcSubmitPaymentReceiptTells
<1> HIDE DEF p
<1> QED
  BY <1>1, <1>3, <1>5, authMiddlewareTells, HandleTells, HonestJoined

LEMMA GetReceiptTells ==
  ASSUME NEW r \in Request, r.op = "GetReceipt"
  PROVE  Honest(r, Program(r))
<1> DEFINE p == RpcGetReceipt(r)
           q == authMiddleware(r) \o Handle(r, p)
<1>1. Program(r) = q
  BY DEF Program, SignUpRoutes, UserRoutes, ScheduleRoutes, HomeworkRoutes, PaymentRoutes,
         FileRoutes, ProxyRoutes, PaymentHandler
<1>2. /\ Admitted(r.op) = Caller \ {"nobody", "unknown"}
      /\ NamedBy(r.op) = {"receipt"}
  BY DEF Admitted, Entitled, Account, NamedBy, OpenRoutes, SignUpRoutes, ProxyRoutes
<1>3. Closed(r)
  BY <1>2 DEF Closed, Outsider, Caller
<1>4. Needed(r, "receipt") = {"present"}
  BY DEF Needed
<1>5. Needs(r, "receipt")
  BY <1>2, <1>4, RowsByName DEF Needs
<1>6. Honest(r, p)
  BY <1>2, <1>3, <1>4, <1>5, RpcGetReceiptTells
<1> HIDE DEF p
<1> QED
  BY <1>1, <1>3, <1>6, authMiddlewareTells, HandleTells, HonestJoined

LEMMA VerifyReceiptTells ==
  ASSUME NEW r \in Request, r.op = "VerifyReceipt"
  PROVE  Honest(r, Program(r))
<1> DEFINE p == RpcVerifyReceipt(r)
           q == authMiddleware(r) \o Handle(r, p)
<1>1. Program(r) = q
  BY DEF Program, SignUpRoutes, UserRoutes, ScheduleRoutes, HomeworkRoutes, PaymentRoutes,
         FileRoutes, ProxyRoutes, PaymentHandler
<1>2. /\ Admitted(r.op) = {"tutor", "other_tutor"}
      /\ NamedBy(r.op) = {"receipt"}
  BY DEF Admitted, Entitled, Account, NamedBy, OpenRoutes, SignUpRoutes, ProxyRoutes
<1>3. /\ Closed(r)
      /\ (Role(r) # "tutor" => Outsider(r))
  BY <1>2 DEF Closed, Outsider, Role
<1>4. Needed(r, "receipt") = {"present"}
  BY DEF Needed
<1>5. Needs(r, "receipt")
  BY <1>2, <1>4, RowsByName DEF Needs
<1>6. Honest(r, p)
  BY <1>2, <1>3, <1>4, <1>5, RpcVerifyReceiptTells
<1> HIDE DEF p
<1> QED
  BY <1>1, <1>3, <1>6, authMiddlewareTells, HandleTells, HonestJoined

LEMMA GetReceiptFileTells ==
  ASSUME NEW r \in Request, r.op = "GetReceiptFile"
  PROVE  Honest(r, Program(r))
<1> DEFINE p == RpcGetReceiptFile(r)
           q == authMiddleware(r) \o Handle(r, p)
<1>1. Program(r) = q
  BY DEF Program, SignUpRoutes, UserRoutes, ScheduleRoutes, HomeworkRoutes, PaymentRoutes,
         FileRoutes, ProxyRoutes, PaymentHandler
<1>2. /\ Admitted(r.op) = Caller \ {"nobody", "unknown"}
      /\ NamedBy(r.op) = {"receipt", "file"}
  BY DEF Admitted, Entitled, Account, NamedBy, OpenRoutes, SignUpRoutes, ProxyRoutes
<1>3. Closed(r)
  BY <1>2 DEF Closed, Outsider, Caller
<1>4. /\ Needed(r, "receipt") = {"present"}
      /\ Needed(r, "file") = {"present"}
  BY DEF Needed
<1>5. Needs(r, "receipt") /\ Needs(r, "file")
  BY <1>2, <1>4, RowsByName DEF Needs
<1>6. Honest(r, p)
  BY <1>2, <1>3, <1>4, <1>5, RpcGetReceiptFileTells
<1> HIDE DEF p
<1> QED
  BY <1>1, <1>3, <1>6, authMiddlewareTells, HandleTells, HonestJoined

LEMMA InitUploadTells ==
  ASSUME NEW r \in Request, r.op = "InitUpload"
  PROVE  Honest(r, Program(r))
<1> DEFINE p == RpcInitUpload(r)
           q == authMiddleware(r) \o Handle(r, p)
<1>1. Program(r) = q
  BY DEF Program, SignUpRoutes, UserRoutes, ScheduleRoutes, HomeworkRoutes, PaymentRoutes,
         FileRoutes, ProxyRoutes, FileHandler
<1>2. /\ Admitted(r.op) = Caller \ {"nobody", "unknown"}
      /\ NamedBy(r.op) = {}
  BY DEF Admitted, Entitled, Account, NamedBy, OpenRoutes, SignUpRoutes, ProxyRoutes
<1>3. Closed(r)
  BY <1>2 DEF Closed, Outsider, Caller
<1>4. Honest(r, p)
  BY <1>3, RpcInitUploadTells
<1> HIDE DEF p
<1> QED
  BY <1>1, <1>3, <1>4, authMiddlewareTells, HandleTells, HonestJoined

LEMMA GetFileMetaTells ==
  ASSUME NEW r \in Request, r.op = "GetFileMeta"
  PROVE  Honest(r, Program(r))
<1> DEFINE p == RpcGetFileMeta(r)
           q == authMiddleware(r) \o Handle(r, p)
<1>1. Program(r) = q
  BY DEF Program, SignUpRoutes, UserRoutes, ScheduleRoutes, HomeworkRoutes, PaymentRoutes,
         FileRoutes, ProxyRoutes, FileHandler
<1>2. /\ Admitted(r.op) = Caller \ {"nobody", "unknown"}
      /\ NamedBy(r.op) = {"file"}
  BY DEF Admitted, Entitled, Account, NamedBy, OpenRoutes, SignUpRoutes, ProxyRoutes
<1>3. Closed(r)
  BY <1>2 DEF Closed, Outsider, Caller
<1>4. Needed(r, "file") = {"present"}
  BY DEF Needed
<1>5. Needs(r, "file")
  BY <1>2, <1>4, RowsByName DEF Needs
<1>6. Honest(r, p)
  BY <1>2, <1>3, <1>4, <1>5, RpcGetFileMetaTells
<1> HIDE DEF p
<1> QED
  BY <1>1, <1>3, <1>6, authMiddlewareTells, HandleTells, HonestJoined

\* Every refusal, and every failure, of every request there can be has its
\* reason, but for the routes to the object store and the lists of assignments.
LEMMA EveryRequestTells ==
  ASSUME NEW r \in Request, r.op \notin ProxyRoutes \cup homeworkQueryIds
  PROVE  HonestOrHit(r, Program(r))
<1>1. ASSUME r.op \in UserRoutes
      PROVE  HonestOrHit(r, Program(r))
  BY <1>1, HonestIsEnough, GetMeTells, GetUserTells, UpdateUserTells, GetTutorProfileTells,
     UpdateTutorProfileTells, ListTutorStudentByTutorTells,
     ListTutorStudentByStudentTells, GetTutorStudentTells, UpdateTutorStudentTells,
     DeleteTutorStudentTells, CreateTutorStudentTells, AcceptInvitationTells DEF
     UserRoutes
<1>2. ASSUME r.op \in ScheduleRoutes
      PROVE  HonestOrHit(r, Program(r))
  BY <1>2, HonestIsEnough, CreateSlotTells, GetSlotTells, UpdateSlotTells, DeleteSlotTells,
     ListSlotsByTutorTells, ListLessonsByTutorTells, ListLessonsByStudentTells,
     ListLessonsByPairTells, CreateLessonTells, GetLessonTells, UpdateLessonTells,
     CancelLessonTells DEF ScheduleRoutes
<1>3. ASSUME r.op \in HomeworkRoutes
      PROVE  HonestOrHit(r, Program(r))
  BY <1>3, HonestIsEnough, CreateAssignmentTells, UpdateAssignmentTells, DeleteAssignmentTells,
     GetAssignmentFileTells, ListSubmissionsTells, ListFeedbacksTells,
     CreateSubmissionTells, GetSubmissionFileTells, CreateFeedbackTells,
     UpdateFeedbackTells, GetFeedbackFileTells DEF HomeworkRoutes, homeworkQueryIds
<1>4. ASSUME r.op \in PaymentRoutes
      PROVE  HonestOrHit(r, Program(r))
  BY <1>4, HonestIsEnough, GetPaymentInfoTells, SubmitReceiptTells, GetReceiptTells,
     VerifyReceiptTells,
     GetReceiptFileTells DEF PaymentRoutes
<1>5. ASSUME r.op \in FileRoutes
      PROVE  HonestOrHit(r, Program(r))
  BY <1>5, HonestIsEnough, InitUploadTells, GetFileMetaTells DEF FileRoutes
<1>6. r.op \in SignUpRoutes => HonestOrHit(r, Program(r))
  BY SignUpTells, HonestIsEnough DEF SignUpRoutes
<1> QED
  BY <1>1, <1>2, <1>3, <1>4, <1>5, <1>6 DEF Request, Route
-----------------------------------------------------------------------------
(* The answers tell why *)

Explained == RefusalHasCause /\ GoodRequestSucceeds

\* With lessons in taken slots, as the database keeps them.
Truthful == Inv /\ Sound(world) /\ Explained

\* There is nothing to explain before the answer.
LEMMA UnansweredIsExplained == ASSUME answer = "none" PROVE Explained
  BY DEF Explained, RefusalHasCause, GoodRequestSucceeds

LEMMA TruthfulAtFirst == ASSUME Init PROVE Truthful
<1>1. answer = "none" /\ world \in Worlds(NamedBy(op))
  BY DEF Init
<1>2. Sound(world)
  BY <1>1 DEF Worlds, Sound
<1> QED
  BY <1>1, <1>2, Initially, UnansweredIsExplained DEF Truthful

LEMMA StepKeepsSound == ASSUME Inv, Sound(world), Step PROVE Sound(world')
<1>1. TypeOK /\ Serving
  BY DEF Inv
<1>2. PICK o : world' = o.world /\ Follows(world, o)
  BY <1>1, StepMakes
<1> QED
  BY <1>2 DEF Follows

LEMMA OthersKeepSound == ASSUME Inv, Sound(world), Others PROVE Sound(world')
<1>1. TypeOK
  BY DEF Inv
<1>2. PICK i \in DOMAIN OtherWrites, held \in {"unpaid", "paid"} :
        \E o \in OtherWrites[i][[world EXCEPT !.held = held]] :
          world' = [o.world EXCEPT !.held = world.held]
  BY DEF Others
<1>3. PICK o \in OtherWrites[i][[world EXCEPT !.held = held]] :
        world' = [o.world EXCEPT !.held = world.held]
  BY <1>2
<1> DEFINE w == [world EXCEPT !.held = held]
<1>4. w \in World /\ w.lesson = world.lesson /\ w.slot = world.slot
  BY <1>1 DEF TypeOK, World, LessonState
<1> HIDE DEF w
<1>5. Makes(OtherWrites, i, w, o)
  BY <1>4 DEF Makes, w
<1>6. o \in Outcome /\ Follows(w, o)
  BY <1>5, OtherWritesAreCode, Made
<1>7. Sound(w) /\ o.world \in World
  BY <1>4, <1>6 DEF Sound, Outcome
<1>8. Sound(o.world)
  BY <1>6, <1>7 DEF Follows
<1>9. world'.lesson = o.world.lesson /\ world'.slot = o.world.slot
  BY <1>3, <1>7 DEF World
<1> QED
  BY <1>8, <1>9 DEF Sound

\* What a step has met has been seen since the request came.
LEMMA HurdlesAreSeen ==
  ASSUME Inv, Step, NEW o, world' = o.world, seen' = Watched(o.world)
  PROVE  \A t \in Table : Hurdles(request, world, o, t) \subseteq Hindered(t)'
<1>1. /\ request' = request /\ op' = op /\ request.op = op /\ pc > 0
      /\ \A t \in Table : world[t] \in seen[t]
      /\ world.held \in seen["lesson"] \cup {"none"}
  BY DEF Inv, Serving, Rows, Step
<1>2. \A t \in Table : seen'[t] = seen[t] \cup {o.world[t]}
  BY DEF Watched
<1>3. pc' > 0
  <2>1. pc \in Nat /\ (pc' = pc \/ pc' = pc + 1)
    <3>1. pc \in 0 .. Len(Program(request)) /\ Len(Program(request)) \in Nat
      BY OfTheRoute, Programs DEF Inv, TypeOK
    <3> QED
      BY <1>1, <3>1 DEF Step
  <2> QED
    BY <1>1, <2>1
<1>4. o.world.held \in seen'["lesson"] \cup {"none"}
  BY <1>3, StepKeepsRows DEF Rows
<1>5. "lesson" \in Table
  BY DEF Table
<1>6. \A t \in Table : Met(world, o, t) \subseteq seen'[t]
  BY <1>1, <1>2, <1>4, <1>5 DEF Met
<1>7. \A t : Hindered(t)' = IF t \in NamedBy(op) THEN seen'[t] \ Needed(request, t) ELSE {}
  BY <1>1 DEF Hindered
<1> QED
  BY <1>1, <1>6, <1>7 DEF Hurdles

\* The error of the step that ends a request becomes its answer.
LEMMA StepExplains == ASSUME Inv, Sound(world), Step PROVE Explained'
<1> DEFINE p == Program(request)
           Exempt == ProxyRoutes \cup homeworkQueryIds
<1>1. /\ TypeOK /\ Serving /\ answer = "none" /\ request' = request /\ op' = op
      /\ request.op = op /\ request \in Request
  BY DEF Inv, TypeOK, Serving, Step
<1>2. PICK o : /\ Makes(p, pc, world, o)
               /\ world' = o.world
               /\ failed' = (failed \/ o.down)
               /\ seen' = Watched(o.world)
               /\ \/ /\ o.err # "ok"
                     /\ answer' = o.err
                  \/ /\ o.err = "ok"
                     /\ answer' = "200"
                  \/ /\ o.err = "ok"
                     /\ answer' = answer
  BY <1>1, StepMakes
<1>3. CASE answer' \in {"none", "200"} \/ op \in Exempt
  BY <1>1, <1>3 DEF Explained, RefusalHasCause, GoodRequestSucceeds
<1>4. CASE answer' \notin {"none", "200"} /\ op \notin Exempt
  <2>1. answer' = o.err /\ o.err # "ok"
    BY <1>1, <1>2, <1>4
  <2>2. Yields(p, world, o)
    BY <1>2 DEF Yields
  <2>3. HonestOrHit(request, p)
    BY <1>1, <1>4, EveryRequestTells
  <2> HIDE DEF p
  <2>4. Says(request, answer', world, o)
    BY <1>4, <2>1, <2>2, <2>3 DEF HonestOrHit
  <2>5. \A t \in Table : Hurdles(request, world, o, t) \subseteq Hindered(t)'
    BY <1>2, HurdlesAreSeen
  <2>6. "pair" \in Table
    BY DEF Table
  <2>7. Down(o) => failed' = TRUE
    BY <1>2 DEF Down
  <2>8. Outsider(request) <=> request.who \notin Admitted(op)
    BY <1>1 DEF Outsider
  <2>9. answer' = "400" => request.form # "good"
    BY <2>4 DEF Says, WrongForm, Garbled
  <2>10. answer' = "401" => request.who \in {"nobody", "unknown"}
    BY <2>4 DEF Says, NoCredentials
  <2>11. answer' = "403" => \/ request.who \notin Admitted(op)
                            \/ Hindered("pair")' # {}
                            \/ failed' = TRUE
                            \/ request.form = "bad_id"
    BY <2>4, <2>5, <2>6, <2>7, <2>8 DEF Says, NotAllowed, Bar
  <2>12. answer' = "404" => \/ request.who \notin Admitted(op)
                            \/ \E t \in Table : "none" \in Hindered(t)'
    BY <2>4, <2>5, <2>8 DEF Says, Absent
  <2>13. answer' = "409" => \E t \in Table : Hindered(t)' \ {"none"} # {}
    <3>1. answer' = "409" => \E t \in Table : Hurdles(request, world, o, t) \ {"none"} # {}
      BY <2>4 DEF Says, Occupied
    <3> QED
      BY <2>5, <3>1
  <2>14. RefusalHasCause'
    BY <1>1, <2>9, <2>10, <2>11, <2>12, <2>13 DEF RefusalHasCause
  <2>15. \/ request.who \notin Admitted(op)
         \/ request.form # "good"
         \/ op = "UpdateTutorProfile"
         \/ failed' = TRUE
         \/ \E t \in Table : Hindered(t)' # {}
    BY <1>1, <2>4, <2>5, <2>7, <2>8 DEF Says, Excuse
  <2>16. Entitled(op) \subseteq Admitted(op)
    BY DEF Entitled, Admitted, OpenRoutes, SignUpRoutes, ProxyRoutes, Participants, Account,
           Caller
  <2>17. GoodRequestSucceeds'
    BY <1>1, <2>15, <2>16 DEF GoodRequestSucceeds
  <2> QED
    BY <2>14, <2>17 DEF Explained
<1> QED
  BY <1>3, <1>4

LEMMA TruthfulStep == ASSUME Truthful, [Next]_vars PROVE Truthful'
<1>1. Inv /\ Sound(world) /\ Explained /\ Inv'
  BY InvStep DEF Truthful
<1>2. CASE Arrive
  <2>1. answer' = "none" /\ world' = world
    BY <1>1, <1>2 DEF Arrive, Inv, Serving
  <2>2. Explained'
    BY <2>1 DEF Explained, RefusalHasCause, GoodRequestSucceeds
  <2> QED
    BY <1>1, <2>1, <2>2 DEF Truthful
<1>3. CASE Step
  BY <1>1, <1>3, StepKeepsSound, StepExplains DEF Truthful
<1>4. CASE Others
  <2>1. answer' = "none"
    BY <1>4 DEF Others
  <2>2. Explained'
    BY <2>1 DEF Explained, RefusalHasCause, GoodRequestSucceeds
  <2> QED
    BY <1>1, <1>4, <2>2, OthersKeepSound DEF Truthful
<1>5. CASE Leave
  <2>1. answer' = "none" /\ world' = [world EXCEPT !.held = "none"]
    BY <1>5 DEF Leave
  <2>2. Explained'
    BY <2>1 DEF Explained, RefusalHasCause, GoodRequestSucceeds
  <2>3. world'.lesson = world.lesson /\ world'.slot = world.slot
    BY <1>1, <2>1 DEF Inv, TypeOK, World
  <2> QED
    BY <1>1, <2>2, <2>3 DEF Truthful, Sound
<1>6. CASE CacheSet
  <2>1. answer' = "200" /\ world' = [world EXCEPT !.cached = request.who]
    BY <1>6 DEF CacheSet
  <2>2. Explained'
    BY <2>1 DEF Explained, RefusalHasCause, GoodRequestSucceeds
  <2>3. world'.lesson = world.lesson /\ world'.slot = world.slot
    BY <1>1, <2>1 DEF Inv, TypeOK, World
  <2> QED
    BY <1>1, <2>2, <2>3 DEF Truthful, Sound
<1>7. CASE UNCHANGED vars
  <2>1. /\ op' = op /\ world' = world /\ request' = request /\ answer' = answer
        /\ seen' = seen /\ failed' = failed
    BY <1>7 DEF vars
  <2>2. \A t : Hindered(t)' = Hindered(t)
    BY <2>1 DEF Hindered
  <2>3. RefusalHasCause'
    BY <1>1, <2>1, <2>2 DEF Explained, RefusalHasCause
  <2>4. GoodRequestSucceeds'
    BY <1>1, <2>1, <2>2 DEF Explained, GoodRequestSucceeds
  <2> QED
    BY <1>1, <2>1, <2>3, <2>4 DEF Truthful, Explained
<1> QED
  BY <1>2, <1>3, <1>4, <1>5, <1>6, <1>7 DEF Next

THEOREM TruthfulAlways == Spec => []Truthful
<1>1. Init => Truthful
  BY TruthfulAtFirst
<1>2. Truthful /\ [Next]_vars => Truthful'
  BY TruthfulStep
<1> QED
  BY <1>1, <1>2, PTL DEF Spec

\* A refusal names its cause: whatever rows other requests moved meanwhile, each
\* status is given only for what it means, in spite of three layers of errors
\* that are mapped to each other.
THEOREM RefusalsHaveCause == Spec => []RefusalHasCause
<1>1. Truthful => RefusalHasCause
  BY DEF Truthful, Explained
<1> QED
  BY <1>1, TruthfulAlways, PTL

\* A well-formed request of somebody entitled, whose rows were as they have to
\* be all the time, is answered with 200 unless a round trip fails.
THEOREM GoodRequestsSucceed == Spec => []GoodRequestSucceeds
<1>1. Truthful => GoodRequestSucceeds
  BY DEF Truthful, Explained
<1> QED
  BY <1>1, TruthfulAlways, PTL

=============================================================================
