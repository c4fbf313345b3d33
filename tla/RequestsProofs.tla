--------------------------- MODULE RequestsProofs ---------------------------
(***************************************************************************)
(* Proofs about Requests, for any set of routes.                           *)
(*                                                                         *)
(* The steps of a request are built from statements by joining, calling,   *)
(* testing and translating.  Three things are carried through the layers,  *)
(* each by a lemma for each way of building: which tables the steps write  *)
(* and that an error which is not fatal comes when nothing is written yet  *)
(* (Reader, Writer), which rows a step lets by (Gate), and that a step lets*)
(* nobody by (Bars).  They are shown of every statement, then of every     *)
(* handler of every service, then of every route (Guarded); the invariant  *)
(* of the state machine needs nothing else of the steps.                   *)
(***************************************************************************)
EXTENDS Requests, TLAPS

\* The tables a request can write.
Written == {"users", "tutor_profiles", "tutor_students", "slots", "lessons",
            "receipts", "files", "assignments", "submissions", "feedbacks", "objects"}

\* Errors that every layer passes on as errors of this kind.
Fatal == {"down", "presign", "repository error", "Internal", "500", "502"}

\* Every error a step can end with, of any layer.
Error ==
  Fatal \cup Refusals \cup
  {"200", "InvalidArgument", "Unauthenticated", "PermissionDenied", "NotFound", "AlreadyExists",
   "FailedPrecondition", "Unavailable", "ErrValidation", "ErrInvalidArgument",
   "ErrNoFieldsToUpdate", "ErrAuthentication", "ErrPermissionDenied", "ErrNotFound",
   "ErrAlreadyExists", "ErrSlotNotFound", "ErrLessonNotFound", "ErrFileNotFound",
   "ErrSubmissionNotFound", "ErrAssignmentNotFound", "ErrFeedbackNotFound",
   "assignment not found", "permission denied", "no_pair", "unverified",
   "not a tutor-student pair", "no_rows", "unique", "foreign_key", "transaction"}

\* What can come of a round trip.
Outcome == [world : World, err : Error \cup {"ok"}, did : SUBSET Written, down : BOOLEAN]

\* What every round trip keeps.
Sound(w) == w.lesson # "none" => w.slot \in {"booked", "used"}

\* What every outcome of a round trip has in common with the rows it began with.
Follows(w, o) ==
  /\ o \in Outcome
  /\ Sound(w) => Sound(o.world)
  /\ o.world.receipt = w.receipt
  /\ o.world.file = w.file
  /\ o.world.cached = w.cached
  /\ o.world.held = w.held \/ (w.lesson # "none" /\ o.world.held = w.lesson)

\* A step: a round trip, whatever the rows.
RoundTrips == {f \in [World -> SUBSET Outcome] : \A w \in World : \A o \in f[w] : Follows(w, o)}

\* What serves a request, or a part of it.
Code == Seq(RoundTrips)

\* Step i of p turns the rows w into the outcome o.
Makes(p, i, w, o) == i \in DOMAIN p /\ w \in World /\ o \in p[i][w]

\* Some step of p does.
Yields(p, w, o) == \E i : Makes(p, i, w, o)

\* The outcome has these rows, this error and these tables written.
Is(o, w, e, d) == o \in Outcome /\ o.world = w /\ o.err = e /\ o.did = d

\* The round trip of the outcome failed.
Down(o) == o.down = TRUE

\* No error is the absence of one.
LEMMA Errors ==
  /\ Fatal \subseteq Error
  /\ Refusals \subseteq Error
  /\ "ok" \notin Error
  BY DEF Error, Fatal, Refusals

\* The errors by name.
LEMMA Listed ==
  /\ "InvalidArgument" \in Error
  /\ "Unauthenticated" \in Error
  /\ "PermissionDenied" \in Error
  /\ "NotFound" \in Error
  /\ "AlreadyExists" \in Error
  /\ "FailedPrecondition" \in Error
  /\ "Unavailable" \in Error
  /\ "ErrValidation" \in Error
  /\ "ErrInvalidArgument" \in Error
  /\ "ErrNoFieldsToUpdate" \in Error
  /\ "ErrAuthentication" \in Error
  /\ "ErrPermissionDenied" \in Error
  /\ "ErrNotFound" \in Error
  /\ "ErrAlreadyExists" \in Error
  /\ "ErrSlotNotFound" \in Error
  /\ "ErrLessonNotFound" \in Error
  /\ "ErrFileNotFound" \in Error
  /\ "ErrSubmissionNotFound" \in Error
  /\ "ErrAssignmentNotFound" \in Error
  /\ "ErrFeedbackNotFound" \in Error
  /\ "assignment not found" \in Error
  /\ "permission denied" \in Error
  /\ "no_pair" \in Error
  /\ "unverified" \in Error
  /\ "not a tutor-student pair" \in Error
  /\ "no_rows" \in Error
  /\ "unique" \in Error
  /\ "foreign_key" \in Error
  /\ "transaction" \in Error
  /\ "down" \in Error
  /\ "presign" \in Error
  /\ "repository error" \in Error
  /\ "Internal" \in Error
  /\ "500" \in Error
  /\ "502" \in Error
  /\ "400" \in Error
  /\ "401" \in Error
  /\ "403" \in Error
  /\ "404" \in Error
  /\ "409" \in Error
  /\ "200" \in Error
  BY DEF Error, Fatal, Refusals

\* Of a step that is made, the type and what it keeps.
LEMMA Made ==
  ASSUME NEW p \in Code, NEW i, NEW w, NEW o, Makes(p, i, w, o)
  PROVE  w \in World /\ o \in Outcome /\ Follows(w, o)
  BY DEF Makes, Code, RoundTrips, Follows

LEMMA Yielded ==
  ASSUME NEW p \in Code, NEW w, NEW o, Yields(p, w, o)
  PROVE  w \in World /\ o \in Outcome /\ Follows(w, o)
  BY Made DEF Yields

LEMMA Single ==
  ASSUME NEW f \in RoundTrips
  PROVE  /\ <<f>> \in Code /\ Len(<<f>>) = 1
         /\ \A i, w, o : Makes(<<f>>, i, w, o) <=> i = 1 /\ w \in World /\ o \in f[w]
         /\ \A w, o : Yields(<<f>>, w, o) <=> w \in World /\ o \in f[w]
  BY DEF Code, Makes, Yields

LEMMA Nothing ==
  /\ <<>> \in Code /\ Len(<<>>) = 0
  /\ \A i, w, o : ~Makes(<<>>, i, w, o)
  /\ \A w, o : ~Yields(<<>>, w, o)
  BY DEF Code, Makes, Yields

\* What is joined makes the steps of both, the right ones later.
LEMMA Joined ==
  ASSUME NEW p \in Code, NEW q \in Code
  PROVE  /\ p \o q \in Code
         /\ Len(p \o q) = Len(p) + Len(q)
         /\ \A i, w, o : Makes(p \o q, i, w, o) <=>
              Makes(p, i, w, o) \/ (Makes(q, i - Len(p), w, o) /\ i \in Nat)
         /\ \A w, o : Yields(p \o q, w, o) <=> Yields(p, w, o) \/ Yields(q, w, o)
<1>1. /\ p \o q \in Code
      /\ Len(p \o q) = Len(p) + Len(q)
      /\ \A i, w, o : Makes(p \o q, i, w, o) <=>
              Makes(p, i, w, o) \/ (Makes(q, i - Len(p), w, o) /\ i \in Nat)
  BY DEF Code, Makes
<1>2. ASSUME NEW i, NEW w, NEW o, Makes(q, i, w, o)
      PROVE  Makes(p \o q, i + Len(p), w, o)
  <2>1. i \in Nat /\ Len(p) \in Nat /\ (i + Len(p)) - Len(p) = i
    BY <1>2 DEF Makes, Code
  <2> QED
    BY <1>1, <1>2, <2>1
<1>3. ASSUME NEW w, NEW o
      PROVE  Yields(p \o q, w, o) <=> Yields(p, w, o) \/ Yields(q, w, o)
  <2>1. ASSUME NEW i, Makes(p \o q, i, w, o)
        PROVE  Yields(p, w, o) \/ Yields(q, w, o)
    BY <1>1, <2>1 DEF Yields
  <2>2. ASSUME NEW i, Makes(p, i, w, o)
        PROVE  Yields(p \o q, w, o)
    <3>1. i \in Nat
      BY <2>2 DEF Makes, Code
    <3>2. Makes(p \o q, i, w, o)
      BY <1>1, <2>2, <3>1
    <3> QED
      BY <3>2 DEF Yields
  <2>3. ASSUME NEW i, Makes(q, i, w, o)
        PROVE  Yields(p \o q, w, o)
    BY <1>2, <2>3 DEF Yields
  <2> QED
    BY <2>1, <2>2, <2>3 DEF Yields
<1> QED
  BY <1>1, <1>3

LEMMA DoneIs ==
  ASSUME NEW w \in World
  PROVE  Is(Done(w), w, "ok", {})
  BY DEF Is, Outcome, Done

LEMMA FailsIs ==
  ASSUME NEW w \in World, NEW e \in Error
  PROVE  Is(Fails(w, e), w, e, {})
<1> DEFINE d == Done(w)
<1>1. Is(d, w, "ok", {})
  BY DoneIs
<1>2. Fails(w, e) = [d EXCEPT !.err = e]
  BY DEF Fails
<1> HIDE DEF d
<1> QED
  BY <1>1, <1>2 DEF Is, Outcome

LEMMA WroteIs ==
  ASSUME NEW w \in World, NEW t \in Written
  PROVE  Is(Wrote(w, t), w, "ok", {t})
<1> DEFINE d == Done(w)
<1>1. Is(d, w, "ok", {})
  BY DoneIs
<1>2. Wrote(w, t) = [d EXCEPT !.did = {t}]
  BY DEF Wrote
<1> HIDE DEF d
<1> QED
  BY <1>1, <1>2 DEF Is, Outcome

LEMMA LostIs ==
  ASSUME NEW S \in SUBSET Outcome, NEW e \in Error, NEW o \in Lost(S, e)
  PROVE  \E o2 \in S : Is(o, o2.world, e, o2.did) /\ Down(o)
<1>1. PICK o2 \in S : o = [o2 EXCEPT !.err = e, !.down = TRUE]
  BY DEF Lost
<1>2. o2 \in Outcome
  OBVIOUS
<1>3. o \in Outcome /\ o.world = o2.world /\ o.err = e /\ o.did = o2.did /\ o.down = TRUE
  BY <1>1, <1>2 DEF Outcome
<1>4. Is(o, o2.world, e, o2.did)
  BY <1>3 DEF Is
<1>5. Down(o)
  BY <1>3 DEF Down
<1> QED
  BY <1>4, <1>5

LEMMA DoneFollows ==
  ASSUME NEW w \in World, NEW o, NEW e, NEW d, Is(o, w, e, d)
  PROVE  Follows(w, o)
  BY DEF Is, Follows

\* An if ends with its error, and only when the condition fails.
LEMMA Required ==
  ASSUME NEW h, NEW e \in Error
  PROVE /\ Require(h, e) \in Code
        /\ Len(Require(h, e)) = IF h THEN 0 ELSE 1
        /\ \A w, o : Yields(Require(h, e), w, o) => ~h /\ Is(o, w, e, {})
<1> DEFINE f == [w \in World |-> {Fails(w, e)}]
<1>1. \A w \in World : Is(Fails(w, e), w, e, {}) /\ Follows(w, Fails(w, e))
  BY FailsIs, DoneFollows
<1>2. f \in RoundTrips /\ \A w \in World : \A o : o \in f[w] <=> o = Fails(w, e)
  BY <1>1 DEF RoundTrips, Follows
<1>3. ~h => Require(h, e) = <<f>>
  BY DEF Require
<1>4. h => Require(h, e) = <<>>
  BY DEF Require
<1> HIDE DEF f
<1>5. CASE h
  <2>1. Require(h, e) = <<>>
    BY <1>4, <1>5
  <2>2. Require(h, e) \in Code /\ Len(Require(h, e)) = 0
    BY <2>1, Nothing, Zenon
  <2>3. \A w, o : ~Yields(Require(h, e), w, o)
    BY <2>1, Nothing, Zenon
  <2> QED
    BY <1>5, <2>2, <2>3
<1>6. CASE ~h
  <2>1. /\ <<f>> \in Code /\ Len(<<f>>) = 1
        /\ \A w, o : Yields(<<f>>, w, o) <=> w \in World /\ o \in f[w]
    BY <1>2, Single
  <2> QED
    BY <1>1, <1>2, <1>3, <1>6, <2>1
<1> QED
  BY <1>5, <1>6

-----------------------------------------------------------------------------
\* RoundTrip, of a function: tlapm does not instantiate an operator.
Trip(F) == <<[w \in World |-> F[w] \cup Lost(F[w] \cup {Done(w)}, "down")]>>

\* A round trip fails before or after its effect, or answers.
LEMMA Tripped ==
  ASSUME NEW F \in RoundTrips
  PROVE  /\ Trip(F) \in Code /\ Len(Trip(F)) = 1
         /\ \A w, o : Yields(Trip(F), w, o) =>
              /\ w \in World
              /\ \/ o \in F[w]
                 \/ Is(o, w, "down", {}) /\ Down(o)
                 \/ \E o2 \in F[w] : Is(o, o2.world, "down", o2.did) /\ Down(o)
<1> DEFINE f == [w \in World |-> F[w] \cup Lost(F[w] \cup {Done(w)}, "down")]
<1>1. \A w \in World : Is(Done(w), w, "ok", {}) /\ Follows(w, Done(w))
  BY DoneIs, DoneFollows
<1>2. ASSUME NEW w \in World, NEW o \in f[w]
      PROVE  /\ \/ o \in F[w]
                \/ Is(o, w, "down", {}) /\ Down(o)
                \/ \E o2 \in F[w] : Is(o, o2.world, "down", o2.did) /\ Down(o)
             /\ Follows(w, o)
  <2>1. F[w] \cup {Done(w)} \in SUBSET Outcome /\ \A o2 \in F[w] \cup {Done(w)} : Follows(w, o2)
    BY <1>1 DEF RoundTrips, Follows
  <2>2. CASE o \in F[w]
    BY <2>1, <2>2
  <2>3. CASE o \in Lost(F[w] \cup {Done(w)}, "down")
    <3> DEFINE S == F[w] \cup {Done(w)}
    <3>1. S \in SUBSET Outcome /\ o \in Lost(S, "down")
      BY <2>1, <2>3
    <3> HIDE DEF S
    <3>2. PICK o2 \in S : Is(o, o2.world, "down", o2.did) /\ Down(o)
      BY <3>1, LostIs, Errors DEF Fatal
    <3>3. Follows(w, o2)
      BY <2>1, <3>2 DEF S
    <3>4. Follows(w, o)
      BY <3>2, <3>3 DEF Is, Follows
    <3>5. o2 = Done(w) => Is(o, w, "down", {}) /\ Down(o)
      BY <1>1, <3>2 DEF Is
    <3> QED
      BY <3>2, <3>4, <3>5 DEF S
  <2>4. f[w] = F[w] \cup Lost(F[w] \cup {Done(w)}, "down")
    OBVIOUS
  <2> QED
    BY <1>2, <2>2, <2>3, <2>4
<1>3. f \in RoundTrips
  <2>1. \A w \in World : f[w] \in SUBSET Outcome
    BY <1>2 DEF Follows
  <2>2. f \in [World -> SUBSET Outcome]
    BY <2>1
  <2> HIDE DEF f
  <2> QED
    BY <1>2, <2>2 DEF RoundTrips
<1>4. Trip(F) = <<f>>
  BY DEF Trip
<1> HIDE DEF f
<1> QED
  BY <1>2, <1>3, <1>4, Single

-----------------------------------------------------------------------------
\* Every error of a layer has one in the layer above it.
Translation == [Error -> Error]

\* Through, of a function.
Translated(p, G) ==
  [i \in DOMAIN p |-> [w \in World |->
     {[o EXCEPT !.err = IF @ = "ok" THEN @ ELSE G[@]] : o \in p[i][w]}]]

\* o2 is o with its error renamed.
Renames(G, o, o2) ==
  /\ o2 \in Outcome
  /\ o2.world = o.world
  /\ \/ o.err = "ok" /\ o2.err = "ok"
     \/ o.err \in Error /\ o2.err \in Error /\ o2.err = G[o.err]
  /\ o2.did = o.did
  /\ Down(o) => Down(o2)

LEMMA Renamed1 ==
  ASSUME NEW G \in Translation, NEW o \in Outcome
  PROVE  Renames(G, o, [o EXCEPT !.err = IF @ = "ok" THEN @ ELSE G[@]])
<1> DEFINE e == IF o.err = "ok" THEN o.err ELSE G[o.err]
           q == [o EXCEPT !.err = e]
<1>1. /\ e \in Error \cup {"ok"}
      /\ \/ o.err = "ok" /\ e = "ok"
         \/ o.err \in Error /\ e \in Error /\ e = G[o.err]
  BY DEF Translation, Outcome
<1>2. [o EXCEPT !.err = IF @ = "ok" THEN @ ELSE G[@]] = q
  OBVIOUS
<1> HIDE DEF e
<1>3. q \in Outcome /\ q.world = o.world /\ q.err = e /\ q.did = o.did /\ q.down = o.down
  BY <1>1 DEF Outcome
<1>4. Down(o) => Down(q)
  BY <1>3 DEF Down
<1> HIDE DEF q
<1> QED
  BY <1>1, <1>2, <1>3, <1>4 DEF Renames

\* A translation changes errors, and nothing else.
LEMMA Translates ==
  ASSUME NEW p \in Code, NEW G \in Translation
  PROVE  /\ Translated(p, G) \in Code
         /\ Len(Translated(p, G)) = Len(p)
         /\ \A i, w, o : Makes(Translated(p, G), i, w, o) =>
              \E o2 : Makes(p, i, w, o2) /\ Renames(G, o2, o)
         /\ \A w, o : Yields(Translated(p, G), w, o) =>
              \E o2 : Yields(p, w, o2) /\ Renames(G, o2, o)
<1> DEFINE q == Translated(p, G)
<1>1. /\ DOMAIN q = DOMAIN p
      /\ \A i \in DOMAIN p : \A w \in World :
           q[i][w] = {[o EXCEPT !.err = IF @ = "ok" THEN @ ELSE G[@]] : o \in p[i][w]}
      /\ \A i \in DOMAIN p : q[i] = [w \in World |-> q[i][w]]
  BY DEF Translated
<1>2. /\ DOMAIN p = 1 .. Len(p) /\ Len(p) \in Nat
      /\ \A i \in DOMAIN p : p[i] \in RoundTrips
  BY DEF Code
<1>3. ASSUME NEW i \in DOMAIN p, NEW w \in World, NEW o \in q[i][w]
      PROVE  \E o2 : Makes(p, i, w, o2) /\ Renames(G, o2, o)
  <2>1. PICK o2 \in p[i][w] : o = [o2 EXCEPT !.err = IF @ = "ok" THEN @ ELSE G[@]]
    BY <1>1, <1>3
  <2>2. Makes(p, i, w, o2)
    BY <2>1 DEF Makes
  <2>3. Renames(G, o2, o)
    BY <2>1, <2>2, Made, Renamed1
  <2> QED
    BY <2>2, <2>3
<1>4. ASSUME NEW i \in DOMAIN p, NEW w \in World, NEW o \in q[i][w]
      PROVE  Follows(w, o)
  <2>1. PICK o2 : Makes(p, i, w, o2) /\ Renames(G, o2, o)
    BY <1>3
  <2> QED
    BY <2>1, Made DEF Renames, Follows
<1> HIDE DEF q
<1>5. ASSUME NEW i \in DOMAIN p
      PROVE  q[i] \in RoundTrips
  <2>1. \A w \in World : q[i][w] \in SUBSET Outcome
    BY <1>4 DEF Follows
  <2>2. q[i] \in [World -> SUBSET Outcome]
    BY <1>1, <2>1
  <2> QED
    BY <1>4, <2>2 DEF RoundTrips
<1>6. q \in Seq(RoundTrips) /\ Len(q) = Len(p)
  <2>1. q = [i \in 1 .. Len(p) |-> q[i]]
    BY <1>2 DEF q, Translated
  <2> QED
    BY <1>2, <1>5, <2>1
<1>7. \A i, w, o : Makes(q, i, w, o) => \E o2 : Makes(p, i, w, o2) /\ Renames(G, o2, o)
  BY <1>1, <1>3 DEF Makes
<1>8. \A w, o : Yields(q, w, o) => \E o2 : Yields(p, w, o2) /\ Renames(G, o2, o)
  BY <1>7 DEF Yields
<1> QED
  BY <1>6, <1>7, <1>8 DEF q, Code

-----------------------------------------------------------------------------
\* Tested, of the set of the rows that pass the test.
TestedBy(p, H, e) ==
  [i \in DOMAIN p |-> [w \in World |->
     {IF i = Len(p) /\ o.err = "ok" /\ o.world \notin H THEN Fails(o.world, e) ELSE o :
        o \in p[i][w]}]]

\* o2 is o, or o was fine but for the test.
Survives(H, e, o, o2) ==
  \/ o2 = o
  \/ o.err = "ok" /\ o.world \notin H /\ Is(o2, o.world, e, {})

\* A test turns the last success into its error.
LEMMA Tests ==
  ASSUME NEW p \in Code, NEW H, NEW e \in Error
  PROVE  /\ TestedBy(p, H, e) \in Code
         /\ Len(TestedBy(p, H, e)) = Len(p)
         /\ \A i, w, o : Makes(TestedBy(p, H, e), i, w, o) =>
              /\ \E o2 : Makes(p, i, w, o2) /\ Survives(H, e, o2, o)
              /\ i = Len(p) /\ o.err = "ok" => o.world \in H
         /\ \A w, o : Yields(TestedBy(p, H, e), w, o) =>
              \E o2 : Yields(p, w, o2) /\ Survives(H, e, o2, o)
<1> DEFINE q == TestedBy(p, H, e)
<1>1. /\ DOMAIN q = DOMAIN p
      /\ \A i \in DOMAIN p : \A w \in World :
           q[i][w] = {IF i = Len(p) /\ o.err = "ok" /\ o.world \notin H
                        THEN Fails(o.world, e) ELSE o : o \in p[i][w]}
      /\ \A i \in DOMAIN p : q[i] = [w \in World |-> q[i][w]]
  BY DEF TestedBy
<1>2. /\ DOMAIN p = 1 .. Len(p) /\ Len(p) \in Nat
      /\ \A i \in DOMAIN p : p[i] \in RoundTrips
  BY DEF Code
<1>3. ASSUME NEW i \in DOMAIN p, NEW w \in World, NEW o \in q[i][w]
      PROVE  /\ \E o2 : Makes(p, i, w, o2) /\ Survives(H, e, o2, o)
             /\ i = Len(p) /\ o.err = "ok" => o.world \in H
  <2>1. PICK o2 \in p[i][w] :
          o = IF i = Len(p) /\ o2.err = "ok" /\ o2.world \notin H
                THEN Fails(o2.world, e) ELSE o2
    BY <1>1, <1>3
  <2>2. Makes(p, i, w, o2)
    BY <2>1 DEF Makes
  <2>3. o2.world \in World
    BY <2>2, Made DEF Outcome
  <2>4. Is(Fails(o2.world, e), o2.world, e, {}) /\ e # "ok"
    BY <2>3, FailsIs, Errors
  <2>5. CASE i = Len(p) /\ o2.err = "ok" /\ o2.world \notin H
    BY <2>1, <2>2, <2>4, <2>5 DEF Survives, Is
  <2>6. CASE ~(i = Len(p) /\ o2.err = "ok" /\ o2.world \notin H)
    BY <2>1, <2>2, <2>6 DEF Survives
  <2> QED
    BY <2>5, <2>6
<1>4. ASSUME NEW i \in DOMAIN p, NEW w \in World, NEW o \in q[i][w]
      PROVE  Follows(w, o)
  <2>1. PICK o2 : Makes(p, i, w, o2) /\ Survives(H, e, o2, o)
    BY <1>3
  <2> QED
    BY <2>1, Made DEF Survives, Is, Follows
<1> HIDE DEF q
<1>5. ASSUME NEW i \in DOMAIN p
      PROVE  q[i] \in RoundTrips
  <2>1. \A w \in World : q[i][w] \in SUBSET Outcome
    BY <1>4 DEF Follows
  <2>2. q[i] \in [World -> SUBSET Outcome]
    BY <1>1, <2>1
  <2> QED
    BY <1>4, <2>2 DEF RoundTrips
<1>6. q \in Seq(RoundTrips) /\ Len(q) = Len(p)
  <2>1. q = [i \in 1 .. Len(p) |-> q[i]]
    BY <1>2 DEF q, TestedBy
  <2> QED
    BY <1>2, <1>5, <2>1
<1>7. \A i, w, o : Makes(q, i, w, o) =>
        /\ \E o2 : Makes(p, i, w, o2) /\ Survives(H, e, o2, o)
        /\ i = Len(p) /\ o.err = "ok" => o.world \in H
  BY <1>1, <1>3 DEF Makes
<1>8. \A w, o : Yields(q, w, o) => \E o2 : Yields(p, w, o2) /\ Survives(H, e, o2, o)
  BY <1>7 DEF Yields
<1> QED
  BY <1>6, <1>7, <1>8 DEF q, Code

-----------------------------------------------------------------------------
\* The connection a remote call begins with.
Call == <<[w \in World |-> {Done(w)} \cup Lost({Done(w)}, "Unavailable")]>>

\* A call gets through, or the callee is not reached.
LEMMA Called ==
  /\ Call \in Code /\ Len(Call) = 1
  /\ \A p : Remote(p) = Call \o p
  /\ \A w, o : Yields(Call, w, o) =>
       Is(o, w, "ok", {}) \/ (Is(o, w, "Unavailable", {}) /\ Down(o))
<1> DEFINE f == [w \in World |-> {Done(w)} \cup Lost({Done(w)}, "Unavailable")]
<1>1. ASSUME NEW w \in World, NEW o \in f[w]
      PROVE  /\ Is(o, w, "ok", {}) \/ (Is(o, w, "Unavailable", {}) /\ Down(o))
             /\ Follows(w, o)
  <2>1. Is(Done(w), w, "ok", {}) /\ Follows(w, Done(w)) /\ "Unavailable" \in Error
    BY DoneIs, DoneFollows, Listed
  <2>2. CASE o = Done(w)
    BY <2>1, <2>2
  <2>3. CASE o \in Lost({Done(w)}, "Unavailable")
    <3> DEFINE S == {Done(w)}
    <3>1. S \in SUBSET Outcome /\ o \in Lost(S, "Unavailable")
      BY <2>1, <2>3 DEF Is
    <3> HIDE DEF S
    <3>2. PICK o2 \in S : Is(o, o2.world, "Unavailable", o2.did) /\ Down(o)
      BY <2>1, <3>1, LostIs
    <3>3. Is(o, w, "Unavailable", {}) /\ Down(o)
      BY <2>1, <3>2 DEF S, Is
    <3> QED
      BY <2>1, <3>3, DoneFollows
  <2> QED
    BY <1>1, <2>2, <2>3
<1>2. f \in RoundTrips
  <2>1. \A w \in World : f[w] \in SUBSET Outcome
    BY <1>1 DEF Follows
  <2>2. f \in [World -> SUBSET Outcome]
    BY <2>1
  <2> HIDE DEF f
  <2> QED
    BY <1>1, <2>2 DEF RoundTrips
<1>3. Call = <<f>> /\ \A p : Remote(p) = <<f>> \o p
  BY DEF Call, Remote
<1> HIDE DEF f
<1> QED
  BY <1>1, <1>2, <1>3, Single

-----------------------------------------------------------------------------
\* One of the steps lets by only those whose row t is, or comes to be, in S.
Gate(p, t, S) ==
  \E i \in DOMAIN p : \A w, o :
    Makes(p, i, w, o) /\ o.err = "ok" => w[t] \in S \/ o.world[t] \in S

\* And one of them lets nobody by.
Bars(p) == Gate(p, "person", {})

LEMMA GateSingle ==
  ASSUME NEW p \in Code, Len(p) = 1, NEW t, NEW S,
         \A w, o : Yields(p, w, o) /\ o.err = "ok" => w[t] \in S \/ o.world[t] \in S
  PROVE  Gate(p, t, S)
<1>1. 1 \in DOMAIN p
  BY DEF Code
<1>2. \A w, o : Makes(p, 1, w, o) => Yields(p, w, o)
  BY DEF Yields
<1> QED
  BY <1>1, <1>2 DEF Gate

\* What is joined to steps lets nobody by whom they do not.
LEMMA GateLeft ==
  ASSUME NEW p \in Code, NEW q \in Code, NEW t, NEW S, Gate(p, t, S)
  PROVE  Gate(p \o q, t, S)
<1>1. PICK i \in DOMAIN p : \A w, o :
        Makes(p, i, w, o) /\ o.err = "ok" => w[t] \in S \/ o.world[t] \in S
  BY DEF Gate
<1>2. i \in Nat /\ i \in DOMAIN (p \o q) /\ ~(i - Len(p) \in DOMAIN q)
  BY DEF Code
<1>3. \A w, o : Makes(p \o q, i, w, o) => Makes(p, i, w, o)
  BY <1>2, Joined DEF Makes
<1> QED
  BY <1>1, <1>2, <1>3 DEF Gate

LEMMA GateRight ==
  ASSUME NEW p \in Code, NEW q \in Code, NEW t, NEW S, Gate(q, t, S)
  PROVE  Gate(p \o q, t, S)
<1>1. PICK j \in DOMAIN q : \A w, o :
        Makes(q, j, w, o) /\ o.err = "ok" => w[t] \in S \/ o.world[t] \in S
  BY DEF Gate
<1>2. /\ j \in Nat /\ Len(p) \in Nat /\ j + Len(p) \in DOMAIN (p \o q)
      /\ (j + Len(p)) - Len(p) = j /\ j + Len(p) \notin DOMAIN p
  BY DEF Code
<1>3. \A w, o : Makes(p \o q, j + Len(p), w, o) => Makes(q, j, w, o)
  BY <1>2, Joined DEF Makes
<1> QED
  BY <1>1, <1>2, <1>3 DEF Gate

LEMMA GateTranslated ==
  ASSUME NEW p \in Code, NEW G \in Translation, NEW t, NEW S, Gate(p, t, S)
  PROVE  Gate(Translated(p, G), t, S)
<1>1. PICK i \in DOMAIN p : \A w, o :
        Makes(p, i, w, o) /\ o.err = "ok" => w[t] \in S \/ o.world[t] \in S
  BY DEF Gate
<1>2. i \in DOMAIN Translated(p, G)
  BY DEF Translated
<1>3. ASSUME NEW w, NEW o, Makes(Translated(p, G), i, w, o), o.err = "ok"
      PROVE  w[t] \in S \/ o.world[t] \in S
  <2>1. PICK o2 : Makes(p, i, w, o2) /\ Renames(G, o2, o)
    BY <1>3, Translates
  <2>2. o2.err = "ok"
    BY <1>3, <2>1, Made, Errors DEF Renames, Translation, Outcome
  <2> QED
    BY <1>1, <2>1, <2>2 DEF Renames
<1> QED
  BY <1>2, <1>3 DEF Gate

LEMMA GateTested ==
  ASSUME NEW p \in Code, NEW H, NEW e \in Error, NEW t, NEW S, Gate(p, t, S)
  PROVE  Gate(TestedBy(p, H, e), t, S)
<1>1. PICK i \in DOMAIN p : \A w, o :
        Makes(p, i, w, o) /\ o.err = "ok" => w[t] \in S \/ o.world[t] \in S
  BY DEF Gate
<1>2. i \in DOMAIN TestedBy(p, H, e)
  BY DEF TestedBy
<1>3. ASSUME NEW w, NEW o, Makes(TestedBy(p, H, e), i, w, o), o.err = "ok"
      PROVE  w[t] \in S \/ o.world[t] \in S
  <2>1. PICK o2 : Makes(p, i, w, o2) /\ Survives(H, e, o2, o)
    BY <1>3, Tests
  <2>2. o2 = o
    BY <1>3, <2>1, Errors DEF Survives, Is
  <2> QED
    BY <1>1, <1>3, <2>1, <2>2
<1> QED
  BY <1>2, <1>3 DEF Gate

LEMMA TestGates ==
  ASSUME NEW p \in Code, Len(p) > 0, NEW H, NEW e \in Error, NEW t, NEW S,
         \A w \in World : w \in H => w[t] \in S
  PROVE  Gate(TestedBy(p, H, e), t, S)
<1>1. Len(p) \in DOMAIN TestedBy(p, H, e)
  BY DEF TestedBy, Code
<1>2. ASSUME NEW w, NEW o, Makes(TestedBy(p, H, e), Len(p), w, o), o.err = "ok"
      PROVE  o.world[t] \in S
  <2>1. o.world \in H
    BY <1>2, Tests
  <2>2. o.world \in World
    BY <1>2, Tests, Made DEF Outcome
  <2> QED
    BY <2>1, <2>2
<1> QED
  BY <1>1, <1>2 DEF Gate

LEMMA RequireBars ==
  ASSUME NEW e \in Error, NEW h, ~h
  PROVE  Bars(Require(h, e))
<1>1. Require(h, e) \in Code /\ Len(Require(h, e)) = 1
  BY Required
<1>2. \A w, o : Yields(Require(h, e), w, o) => o.err # "ok"
  <2>1. \A w, o : Yields(Require(h, e), w, o) => Is(o, w, e, {})
    BY Required, Zenon
  <2> QED
    BY <2>1, Errors DEF Is
<1> QED
  <2> DEFINE p == Require(h, e)
             t == "person"
             S == {}
  <2>1. p \in Code /\ Len(p) = 1
    BY <1>1
  <2>2. \A w, o : Yields(p, w, o) /\ o.err = "ok" => w[t] \in S \/ o.world[t] \in S
    BY <1>2
  <2> HIDE DEF p, t, S
  <2>3. Gate(p, t, S)
    BY <2>1, <2>2, GateSingle
  <2> QED
    BY <2>3 DEF Bars, p, t, S

-----------------------------------------------------------------------------
\* d[i] is what step i writes when it is passed.  T is all of it.  An error
\* that is not fatal comes when nothing has been written.
Plan(d, p, T, x) ==
  /\ d \in [1 .. Len(p) -> SUBSET Written]
  /\ \A t : t \in T <=> \E i \in 1 .. Len(p) : t \in d[i]
  /\ \A i, w, o : Makes(p, i, w, o) /\ w.receipt = x =>
       /\ o.err = "ok" => o.did = d[i]
       /\ o.err \notin Fatal \cup {"ok"} => o.did = {} /\ \A j \in 1 .. i - 1 : d[j] = {}

\* p writes T by such a plan when the receipt is in state x.
Serves(p, T, x) == \E d : Plan(d, p, T, x)

\* Whoever has come to p is not refused any more.
Commits(p, x) ==
  \A w, o : Yields(p, w, o) /\ w.receipt = x /\ o.err # "ok" => o.err \in Fatal

\* What is fatal below is fatal above.
Keeps(G) == G \in Translation /\ \A e \in Fatal : G[e] \in Fatal

LEMMA ServesSilent ==
  ASSUME NEW p \in Code, NEW x,
         \A w, o : Yields(p, w, o) => o.did = {}
  PROVE  Serves(p, {}, x)
<1> DEFINE d == [i \in 1 .. Len(p) |-> {}]
<1>1. d \in [1 .. Len(p) -> SUBSET Written] /\ \A i \in 1 .. Len(p) : d[i] = {}
  OBVIOUS
<1>2. \A i, w, o : Makes(p, i, w, o) => i \in 1 .. Len(p) /\ o.did = {}
  BY DEF Yields, Makes, Code
<1>3. Len(p) \in Nat
  BY DEF Code
<1> HIDE DEF d
<1>4. Plan(d, p, {}, x)
  <2>1. \A t : t \in {} <=> \E i \in 1 .. Len(p) : t \in d[i]
    BY <1>1
  <2>2. ASSUME NEW i, NEW w, NEW o, Makes(p, i, w, o), w.receipt = x
        PROVE  /\ o.err = "ok" => o.did = d[i]
               /\ o.did = {} /\ \A j \in 1 .. i - 1 : d[j] = {}
    <3>1. i \in 1 .. Len(p) /\ o.did = {}
      BY <1>2, <2>2
    <3>2. \A j \in 1 .. i - 1 : j \in 1 .. Len(p)
      BY <1>3, <3>1
    <3> QED
      BY <1>1, <3>1, <3>2
  <2> QED
    BY <1>1, <2>1, <2>2 DEF Plan
<1> QED
  BY <1>4 DEF Serves

LEMMA ServesSingle ==
  ASSUME NEW p \in Code, Len(p) = 1, NEW T \in SUBSET Written, NEW x,
         \A w, o : Yields(p, w, o) /\ w.receipt = x =>
           /\ o.err = "ok" => o.did = T
           /\ o.err \notin Fatal \cup {"ok"} => o.did = {}
  PROVE  Serves(p, T, x)
<1> DEFINE d == [i \in 1 .. Len(p) |-> T]
<1>1. d \in [1 .. Len(p) -> SUBSET Written] /\ \A i \in 1 .. Len(p) : d[i] = T
  OBVIOUS
<1>2. \A i, w, o : Makes(p, i, w, o) => i = 1 /\ i \in 1 .. Len(p) /\ Yields(p, w, o)
  BY DEF Yields, Makes, Code
<1> HIDE DEF d
<1>3. Plan(d, p, T, x)
  BY <1>1, <1>2 DEF Plan
<1> QED
  BY <1>3 DEF Serves

\* A translation that keeps fatal errors fatal keeps the plan.
LEMMA ServesTranslated ==
  ASSUME NEW p \in Code, NEW G, Keeps(G), NEW T, NEW x, Serves(p, T, x)
  PROVE  Serves(Translated(p, G), T, x)
<1> DEFINE q == Translated(p, G)
<1>1. PICK d : Plan(d, p, T, x)
  BY DEF Serves
<1>2. Len(q) = Len(p) /\ G \in Translation
  BY Translates DEF Keeps
<1>3. ASSUME NEW i, NEW w, NEW o, Makes(q, i, w, o), w.receipt = x
      PROVE  /\ o.err = "ok" => o.did = d[i]
             /\ o.err \notin Fatal \cup {"ok"} =>
                  o.did = {} /\ \A j \in 1 .. i - 1 : d[j] = {}
  <2>1. PICK o2 : Makes(p, i, w, o2) /\ Renames(G, o2, o)
    BY <1>2, <1>3, Translates
  <2>2. /\ o.err = "ok" => o2.err = "ok"
        /\ o.err \notin Fatal \cup {"ok"} => o2.err \notin Fatal \cup {"ok"}
    BY <1>2, <2>1, Made, Errors DEF Renames, Translation, Outcome, Keeps
  <2> QED
    BY <1>1, <1>3, <2>1, <2>2 DEF Plan, Renames
<1> HIDE DEF q
<1>4. Plan(d, q, T, x)
  BY <1>1, <1>2, <1>3 DEF Plan
<1> QED
  BY <1>4 DEF Serves, q

\* What writes is followed only by what cannot refuse.
LEMMA ServesJoined ==
  ASSUME NEW p \in Code, NEW q \in Code, NEW S, NEW T, NEW x,
         Serves(p, S, x), Serves(q, T, x),
         S = {} \/ Commits(q, x)
  PROVE  Serves(p \o q, S \cup T, x)
<1>1. PICK d1 : Plan(d1, p, S, x)
  BY DEF Serves
<1>2. PICK d2 : Plan(d2, q, T, x)
  BY DEF Serves
<1> DEFINE m == Len(p)
           n == Len(p) + Len(q)
           d == [i \in 1 .. n |-> IF i <= m THEN d1[i] ELSE d2[i - m]]
<1>3. /\ Len(p) \in Nat /\ Len(q) \in Nat /\ Len(p \o q) = n
      /\ DOMAIN p = 1 .. Len(p) /\ DOMAIN q = 1 .. Len(q)
  BY Joined DEF Code
<1>4. d \in [1 .. n -> SUBSET Written]
  BY <1>1, <1>2, <1>3 DEF Plan
<1>5. /\ \A i \in 1 .. m : i \in 1 .. n /\ d[i] = d1[i]
      /\ \A i \in 1 .. Len(q) : i + m \in 1 .. n /\ d[i + m] = d2[i]
      /\ \A i \in 1 .. n : i \in 1 .. m \/ (i - m \in 1 .. Len(q) /\ d[i] = d2[i - m])
  BY <1>3
<1> HIDE DEF d
<1>6. \A t : t \in S \cup T <=> \E i \in 1 .. n : t \in d[i]
  <2>1. ASSUME NEW t, t \in S \cup T
        PROVE  \E i \in 1 .. n : t \in d[i]
    BY <1>1, <1>2, <1>5, <2>1 DEF Plan
  <2>2. ASSUME NEW i \in 1 .. n, NEW t \in d[i]
        PROVE  t \in S \cup T
    BY <1>1, <1>2, <1>5, <2>2 DEF Plan
  <2> QED
    BY <2>1, <2>2
<1>7. ASSUME NEW i, NEW w, NEW o, Makes(p \o q, i, w, o), w.receipt = x
      PROVE  /\ o.err = "ok" => o.did = d[i]
             /\ o.err \notin Fatal \cup {"ok"} =>
                  o.did = {} /\ \A j \in 1 .. i - 1 : d[j] = {}
  <2>0. Makes(p, i, w, o) \/ (Makes(q, i - m, w, o) /\ i \in Nat)
    BY <1>7, Joined
  <2>1. CASE Makes(p, i, w, o)
    <3>1. i \in 1 .. m /\ \A j \in 1 .. i - 1 : j \in 1 .. m
      BY <1>3, <2>1 DEF Makes
    <3> QED
      BY <1>1, <1>5, <1>7, <2>1, <3>1 DEF Plan
  <2>2. CASE Makes(q, i - m, w, o) /\ i \in Nat
    <3>1. i - m \in 1 .. Len(q) /\ (i - m) + m = i
      BY <1>3, <2>2 DEF Makes
    <3>2. d[i] = d2[i - m]
      BY <1>5, <3>1
    <3>3. o.err = "ok" => o.did = d[i]
      BY <1>2, <1>7, <2>2, <3>2 DEF Plan
    <3>4. ASSUME o.err \notin Fatal \cup {"ok"}
          PROVE  o.did = {} /\ \A j \in 1 .. i - 1 : d[j] = {}
      <4>1. o.did = {} /\ \A j \in 1 .. (i - m) - 1 : d2[j] = {}
        BY <1>2, <1>7, <2>2, <3>4 DEF Plan
      <4>2. S = {}
        BY <1>7, <2>2, <3>4 DEF Commits, Yields
      <4>3. \A j \in 1 .. m : d1[j] = {}
        BY <1>1, <4>2 DEF Plan
      <4>4. ASSUME NEW j \in 1 .. i - 1
            PROVE  d[j] = {}
        <5>1. CASE j \in 1 .. m
          BY <1>5, <4>3, <5>1
        <5>2. CASE j - m \in 1 .. Len(q) /\ d[j] = d2[j - m]
          <6>1. j - m \in 1 .. (i - m) - 1
            BY <1>3, <3>1, <5>2
          <6> QED
            BY <4>1, <5>2, <6>1
        <5>3. j \in 1 .. n
          BY <1>3, <3>1
        <5> QED
          BY <1>5, <5>1, <5>2, <5>3
      <4> QED
        BY <4>1, <4>4
    <3> QED
      BY <3>3, <3>4
  <2> QED
    BY <2>0, <2>1, <2>2
<1>8. Plan(d, p \o q, S \cup T, x)
  BY <1>3, <1>4, <1>6, <1>7 DEF Plan
<1> QED
  BY <1>8 DEF Serves

-----------------------------------------------------------------------------
LEMMA IsRoundTrip ==
  ASSUME NEW F, F = [w \in World |-> F[w]],
         \A w \in World : \A o \in F[w] : Follows(w, o)
  PROVE  F \in RoundTrips
<1>1. \A w \in World : F[w] \in SUBSET Outcome
  BY DEF Follows
<1> QED
  BY <1>1 DEF RoundTrips

LEMMA Trips ==
  ASSUME NEW F \in RoundTrips
  PROVE  /\ Trip(F) \in Code /\ Len(Trip(F)) = 1
         /\ \A w, o : Yields(Trip(F), w, o) =>
              /\ w \in World
              /\ \/ o \in F[w]
                 \/ /\ o.err = "down" /\ Down(o)
                    /\ o.did = {} \/ \E o2 \in F[w] : o.did = o2.did
<1>1. ASSUME NEW w, NEW o, Yields(Trip(F), w, o)
      PROVE  /\ w \in World
             /\ \/ o \in F[w]
                \/ /\ o.err = "down" /\ Down(o)
                   /\ o.did = {} \/ \E o2 \in F[w] : o.did = o2.did
  <2>1. /\ w \in World
        /\ \/ o \in F[w]
           \/ Is(o, w, "down", {}) /\ Down(o)
           \/ \E o2 \in F[w] : Is(o, o2.world, "down", o2.did) /\ Down(o)
    BY <1>1, Tripped
  <2> QED
    BY <2>1 DEF Is
<1> QED
  BY <1>1, Tripped

-----------------------------------------------------------------------------
\* The translations of the layers: handleError.
Handled ==
  [e \in Error |->
    CASE e = "unique" -> "ErrAlreadyExists"
      [] e = "no_rows" -> "ErrNotFound"
      [] OTHER -> "repository error"]

\* mapError of the user service.
UserStatus(possible) ==
  [e \in Error |-> IF e \in possible THEN StatusOf(e) ELSE "Internal"]

\* mapError of the file service.
FileStatus(possible) ==
  [e \in Error |-> IF e \in possible THEN FileStatusOf(e) ELSE "Internal"]

\* mapError of the payment service.
PaymentStatus(possible) ==
  [e \in Error |-> IF e \in possible THEN PaymentStatusOf(e) ELSE "Internal"]

\* toGRPCError of the homework service.
HomeworkStatus ==
  [e \in Error |->
    CASE e = "ErrNotFound"         -> "NotFound"
      [] e = "ErrPermissionDenied" -> "PermissionDenied"
      [] e = "ErrInvalidArgument"  -> "InvalidArgument"
      [] OTHER                     -> "Internal"]

\* mapErr of the gateway.
Status ==
  [e \in Error |->
    CASE e = "InvalidArgument"  -> "400"
      [] e = "AlreadyExists"    -> "409"
      [] e = "PermissionDenied" -> "403"
      [] e = "NotFound"         -> "404"
      [] e = "Unauthenticated"  -> "401"
      [] OTHER                  -> "500"]

\* What asking for a pair is answered with.
PairAnswer ==
  [e \in Error |-> IF e \in {"NotFound", "no_pair"} THEN "no_pair" ELSE "unverified"]

\* One error for all of them.
Always(b) == [e \in Error |-> b]

\* One error for a, another for the rest.
Either(a, b, c) == [e \in Error |-> IF e = a THEN b ELSE c]

\* Another error for a, the rest as they are.
Only(a, b) == [e \in Error |-> IF e = a THEN b ELSE e]

\* The errors the user service has statuses for.
UserErrors == {"ErrAlreadyExists", "ErrValidation", "ErrAuthentication", "ErrNotFound",
               "ErrPermissionDenied"}

\* And those the payment service has.
PaymentErrors == {"ErrNotFound", "ErrPermissionDenied", "ErrInvalidArgument", "ErrAlreadyExists"}

LEMMA Translations ==
  /\ Handled \in Translation
  /\ HomeworkStatus \in Translation
  /\ Status \in Translation
  /\ PairAnswer \in Translation
  /\ \A P \in SUBSET UserErrors : UserStatus(P) \in Translation
  /\ \A P \in SUBSET {"ErrValidation", "ErrNotFound"} : FileStatus(P) \in Translation
  /\ \A P \in SUBSET PaymentErrors : PaymentStatus(P) \in Translation
  /\ \A b \in Error : Always(b) \in Translation
  /\ \A a : \A b, c \in Error : Either(a, b, c) \in Translation
  /\ \A a : \A b \in Error : Only(a, b) \in Translation
<1>1. Handled \in Translation
  BY Listed DEF Handled, Translation
<1>2. HomeworkStatus \in Translation
  BY Listed DEF HomeworkStatus, Translation
<1>3. Status \in Translation
  BY Listed DEF Status, Translation
<1>4. PairAnswer \in Translation
  BY Listed DEF PairAnswer, Translation
<1>5. ASSUME NEW P \in SUBSET UserErrors
      PROVE  UserStatus(P) \in Translation
  <2>1. \A e \in UserErrors : StatusOf(e) \in Error
    BY Listed DEF StatusOf, UserErrors
  <2> QED
    BY <2>1, Listed DEF UserStatus, Translation
<1>6. ASSUME NEW P \in SUBSET {"ErrValidation", "ErrNotFound"}
      PROVE  FileStatus(P) \in Translation
  BY Listed DEF FileStatus, FileStatusOf, Translation
<1>7. ASSUME NEW P \in SUBSET PaymentErrors
      PROVE  PaymentStatus(P) \in Translation
  BY Listed DEF PaymentStatus, PaymentStatusOf, Translation, PaymentErrors
<1>8. \A b \in Error : Always(b) \in Translation
  BY DEF Always, Translation
<1>9. \A a : \A b, c \in Error : Either(a, b, c) \in Translation
  BY DEF Either, Translation
<1>10. \A a : \A b \in Error : Only(a, b) \in Translation
  BY DEF Only, Translation
<1> QED
  BY <1>1, <1>2, <1>3, <1>4, <1>5, <1>6, <1>7, <1>8, <1>9, <1>10

\* Every layer of every service is a translation.
LEMMA Layers ==
  ASSUME NEW p \in Code
  PROVE  /\ Through(p, handleError) = Translated(p, Handled)
         /\ toGRPCError(p) = Translated(p, HomeworkStatus)
         /\ mapErr(p) = Translated(p, Status)
         /\ \A P : mapError(p, P) = Translated(p, UserStatus(P))
         /\ \A P : fileMapError(p, P) = Translated(p, FileStatus(P))
         /\ \A P : paymentMapError(p, P) = Translated(p, PaymentStatus(P))
         /\ \A b : Becomes(p, b) = Translated(p, Always(b))
         /\ \A a : NotFoundOr(p, a) = Translated(p, Either(a, "NotFound", "Internal"))
         /\ \A a, b : Renamed(p, a, b) = Translated(p, Only(a, b))
         /\ FileNotFound(p) = Translated(p, Only("no_rows", "ErrNotFound"))
<1>1. \A i \in DOMAIN p, w \in World : \A o \in p[i][w] : o.err \in Error \cup {"ok"}
  BY Made DEF Makes, Outcome
<1>2. Through(p, handleError) = Translated(p, Handled)
  BY <1>1 DEF Through, Translated, Handled, handleError
<1>3. toGRPCError(p) = Translated(p, HomeworkStatus)
  BY <1>1 DEF Through, Translated, toGRPCError, HomeworkStatus
<1>4. mapErr(p) = Translated(p, Status)
  BY <1>1 DEF Through, Translated, mapErr, Status
<1>5. ASSUME NEW P
      PROVE  mapError(p, P) = Translated(p, UserStatus(P))
  BY <1>1 DEF Through, Translated, mapError, UserStatus
<1>6. ASSUME NEW P
      PROVE  fileMapError(p, P) = Translated(p, FileStatus(P))
  BY <1>1 DEF Through, Translated, fileMapError, FileStatus
<1>7. ASSUME NEW P
      PROVE  paymentMapError(p, P) = Translated(p, PaymentStatus(P))
  BY <1>1 DEF Through, Translated, paymentMapError, PaymentStatus
<1>8. ASSUME NEW b
      PROVE  Becomes(p, b) = Translated(p, Always(b))
  BY <1>1 DEF Through, Translated, Becomes, Always
<1>9. ASSUME NEW a
      PROVE  NotFoundOr(p, a) = Translated(p, Either(a, "NotFound", "Internal"))
  BY <1>1 DEF Through, Translated, NotFoundOr, Either
<1>10. ASSUME NEW a, NEW b
       PROVE  Renamed(p, a, b) = Translated(p, Only(a, b))
  BY <1>1 DEF Through, Translated, Renamed, Only
<1>11. FileNotFound(p) = Translated(p, Only("no_rows", "ErrNotFound"))
  BY <1>1 DEF Through, Translated, FileNotFound, Only
<1> QED
  BY <1>2, <1>3, <1>4, <1>5, <1>6, <1>7, <1>8, <1>9, <1>10, <1>11

-----------------------------------------------------------------------------
\* The rows after the writes the statements make.
WithPerson(w)        == [w EXCEPT !.person = "present"]
WithPair(w, s)       == [w EXCEPT !.pair = s]
WithSlot(w, s)       == [w EXCEPT !.slot = s]
WithLesson(w, s)     == [w EXCEPT !.lesson = s]
WithHeld(w)          == [w EXCEPT !.held = w.lesson]
WithAssignment(w, s) == [w EXCEPT !.assignment = s]
WithFeedback(w, s)   == [w EXCEPT !.feedback = s]
WithoutAssignment(w) ==
  [w EXCEPT !.assignment = "none", !.submission = "none", !.feedback = "none"]

\* v can be what a round trip makes of the rows w.
Kept(w, v) ==
  /\ v \in World
  /\ Sound(w) => Sound(v)
  /\ v.receipt = w.receipt
  /\ v.file = w.file
  /\ v.cached = w.cached
  /\ v.held = w.held \/ (w.lesson # "none" /\ v.held = w.lesson)

\* Each write keeps a lesson in a slot that was booked for it.
LEMMA Updates ==
  ASSUME NEW w \in World
  PROVE  /\ Kept(w, w)
         /\ Kept(w, WithPerson(w))
         /\ \A s \in PairState : Kept(w, WithPair(w, s))
         /\ w.slot = "free" => Kept(w, WithSlot(w, "none"))
         /\ Kept(w, WithSlot(w, "booked"))
         /\ Kept(w, WithSlot(w, "used"))
         /\ w.lesson # "none" => Kept(w, WithLesson(w, "paid"))
         /\ w.lesson # "none" => Kept(w, WithLesson(w, w.held))
         /\ w.lesson # "none" => Kept(w, WithHeld(w))
         /\ \A s \in WorkState : Kept(w, WithAssignment(w, s))
         /\ \A s \in WorkState : Kept(w, WithFeedback(w, s))
         /\ Kept(w, WithoutAssignment(w))
<1>1. Kept(w, w)
  BY DEF Kept
<1>2. Kept(w, WithPerson(w))
  BY DEF Kept, World, WithPerson, Sound, RowState
<1>3. ASSUME NEW s \in PairState
      PROVE  Kept(w, WithPair(w, s))
  BY DEF Kept, World, WithPair, Sound
<1>4. ASSUME w.slot = "free"
      PROVE  Kept(w, WithSlot(w, "none"))
  BY <1>4 DEF Kept, World, WithSlot, Sound, SlotState
<1>5. Kept(w, WithSlot(w, "booked")) /\ Kept(w, WithSlot(w, "used"))
  BY DEF Kept, World, WithSlot, Sound, SlotState
<1>6. ASSUME w.lesson # "none"
      PROVE  /\ Kept(w, WithLesson(w, "paid"))
             /\ Kept(w, WithLesson(w, w.held))
             /\ Kept(w, WithHeld(w))
  <2>1. Kept(w, WithLesson(w, "paid"))
    BY <1>6 DEF Kept, World, WithLesson, Sound, LessonState
  <2>2. Kept(w, WithLesson(w, w.held))
    BY <1>6 DEF Kept, World, WithLesson, Sound
  <2>3. Kept(w, WithHeld(w))
    BY <1>6 DEF Kept, World, WithHeld, Sound
  <2> QED
    BY <2>1, <2>2, <2>3
<1>7. ASSUME NEW s \in WorkState
      PROVE  Kept(w, WithAssignment(w, s)) /\ Kept(w, WithFeedback(w, s))
  BY DEF Kept, World, WithAssignment, WithFeedback, Sound
<1>8. Kept(w, WithoutAssignment(w))
  BY DEF Kept, World, WithoutAssignment, Sound, WorkState
<1> QED
  BY <1>1, <1>2, <1>3, <1>4, <1>5, <1>6, <1>7, <1>8

LEMMA DoneKept ==
  ASSUME NEW w, NEW v, Kept(w, v)
  PROVE  Is(Done(v), v, "ok", {}) /\ Follows(w, Done(v))
<1>1. Is(Done(v), v, "ok", {})
  BY DoneIs DEF Kept
<1> QED
  BY <1>1 DEF Kept, Is, Follows

LEMMA WroteKept ==
  ASSUME NEW w, NEW v, Kept(w, v), NEW t \in Written
  PROVE  Is(Wrote(v, t), v, "ok", {t}) /\ Follows(w, Wrote(v, t))
<1>1. Is(Wrote(v, t), v, "ok", {t})
  BY WroteIs DEF Kept
<1> QED
  BY <1>1 DEF Kept, Is, Follows

LEMMA FailsKept ==
  ASSUME NEW w \in World, NEW e \in Error
  PROVE  Is(Fails(w, e), w, e, {}) /\ Follows(w, Fails(w, e))
  BY FailsIs, DoneFollows

\* The tables by name.
LEMMA Tables ==
  /\ "users" \in Written /\ "tutor_profiles" \in Written /\ "tutor_students" \in Written
  /\ "slots" \in Written /\ "lessons" \in Written /\ "receipts" \in Written
  /\ "files" \in Written /\ "assignments" \in Written /\ "submissions" \in Written
  /\ "feedbacks" \in Written /\ "objects" \in Written
  BY DEF Written

-----------------------------------------------------------------------------
(* Statements *)

\* One round trip that does its work, and then it has written T, from the rows
\* in H, refuses the others with the error E, and may get lost with error e.
Answers(p, H, E, T, e) ==
  /\ p \in Code /\ Len(p) = 1
  /\ \A w, o : Yields(p, w, o) =>
       /\ w \in World
       /\ \/ o.err = "ok" /\ w \in H /\ o.did = T
          \/ o.err = E[w] /\ E[w] \in Error /\ w \notin H /\ o.did = {}
          \/ o.err = e /\ Down(o) /\ (T = {} => o.did = {})

\* The answers before the round trip.
Meant(F, H, E, T) ==
  /\ F = [w \in World |-> F[w]]
  /\ \A w \in World : \A o \in F[w] :
       \/ w \in H /\ \E v : Kept(w, v) /\ Is(o, v, "ok", T)
       \/ w \notin H /\ E[w] \in Error /\ Is(o, w, E[w], {})

\* A statement that fails in one way, whatever the rows.
Same(e) == [w \in World |-> e]

LEMMA Answering ==
  ASSUME NEW F, NEW H, NEW E, NEW T, Meant(F, H, E, T)
  PROVE  Answers(Trip(F), H, E, T, "down")
<1>1. ASSUME NEW w \in World, NEW o \in F[w]
      PROVE  /\ \/ o.err = "ok" /\ w \in H /\ o.did = T
                \/ o.err = E[w] /\ E[w] \in Error /\ w \notin H /\ o.did = {}
             /\ Follows(w, o)
  <2>1. CASE w \in H /\ \E v : Kept(w, v) /\ Is(o, v, "ok", T)
    BY <2>1 DEF Is, Kept, Follows
  <2>2. CASE w \notin H /\ E[w] \in Error /\ Is(o, w, E[w], {})
    BY <2>2, DoneFollows DEF Is
  <2> QED
    BY <1>1, <2>1, <2>2 DEF Meant
<1>2. F \in RoundTrips
  BY <1>1, IsRoundTrip DEF Meant
<1>3. ASSUME NEW w, NEW o, Yields(Trip(F), w, o)
      PROVE  /\ w \in World
             /\ \/ o.err = "ok" /\ w \in H /\ o.did = T
                \/ o.err = E[w] /\ E[w] \in Error /\ w \notin H /\ o.did = {}
                \/ o.err = "down" /\ Down(o) /\ (T = {} => o.did = {})
  BY <1>1, <1>2, <1>3, Trips
<1> QED
  BY <1>2, <1>3, Trips DEF Answers

LEMMA AnsweringHandled ==
  ASSUME NEW p, NEW H, NEW E, NEW T, Answers(p, H, E, T, "down"),
         NEW E2, \A w \in World : E[w] \in Error /\ E2[w] = Handled[E[w]]
  PROVE  Answers(Through(p, handleError), H, E2, T, "repository error")
<1> DEFINE q == Through(p, handleError)
<1>1. p \in Code /\ Handled \in Translation /\ q = Translated(p, Handled)
  BY Layers, Translations DEF Answers
<1> HIDE DEF q
<1>2. ASSUME NEW w, NEW o, Yields(q, w, o)
      PROVE  /\ w \in World
             /\ \/ o.err = "ok" /\ w \in H /\ o.did = T
                \/ o.err = E2[w] /\ E2[w] \in Error /\ w \notin H /\ o.did = {}
                \/ o.err = "repository error" /\ Down(o) /\ (T = {} => o.did = {})
  <2>1. PICK o2 : Yields(p, w, o2) /\ Renames(Handled, o2, o)
    BY <1>1, <1>2, Translates
  <2>2. Handled["down"] = "repository error"
    BY Listed DEF Handled
  <2> QED
    BY <2>1, <2>2, Errors DEF Renames, Answers
<1>3. q \in Code /\ Len(q) = 1
  BY <1>1, Translates DEF Answers
<1> QED
  BY <1>2, <1>3 DEF Answers, q

\* The statements that come after SetsSomething.
UpdatesUser == Statement(LAMBDA w : {Wrote(w, "users")})

UpdatesTutorProfile(r) ==
  Statement(LAMBDA w :
    {IF Role(r) = "tutor" THEN Wrote(w, "tutor_profiles") ELSE Fails(w, "no_rows")})

UpdatesTutorStudent(r, statuses) ==
  Statement(LAMBDA w :
    IF PairOf(w, r) = "none" THEN {Fails(w, "no_rows")}
    ELSE {Wrote([w EXCEPT !.pair = s], "tutor_students") : s \in statuses})

\* The error of a pair that is not made, by whether S has no row.
Nobody(e1, e2) == [w \in World |-> IF w.person = "none" THEN e1 ELSE e2]

UpdatesReceipt ==
  Statement(LAMBDA w : {IF w.receipt = "present" THEN Wrote(w, "receipts") ELSE Done(w)})

LEMMA UpdatesUserDoes ==
  Answers(UpdatesUser, World,
          Same("ErrNotFound"), {"users"}, "repository error")
<1> DEFINE F == [w \in World |->
      {Wrote(w, "users")}]
           H == World
           E == Same("no_rows")
<1>1. UpdatesUser = Through(Trip(F), handleError) /\ F = [w \in World |-> F[w]]
  BY DEF UpdatesUser, Statement, RoundTrip, Trip
<1>2. ASSUME NEW w \in World, NEW o \in F[w]
      PROVE  w \in H /\ (o = Wrote(w, "users"))
  BY <1>2
<1>3. \A w \in World : E[w] \in Error /\ Same("ErrNotFound")[w] = Handled[E[w]]
  BY Listed DEF Same, Handled
<1>4. \A w \in World : w \in H => TRUE
  OBVIOUS
<1> HIDE DEF F, H, E
<1>5. ASSUME NEW w \in World, NEW o \in F[w]
      PROVE  \/ w \in H /\ \E v : Kept(w, v) /\ Is(o, v, "ok", {"users"})
             \/ w \notin H /\ E[w] \in Error /\ Is(o, w, E[w], {})
  <2>1. ASSUME w \in H /\ (o = Wrote(w, "users"))
        PROVE  \E v : Kept(w, v) /\ Is(o, v, "ok", {"users"})
    BY <1>4, <2>1, Updates, DoneKept, WroteKept, Tables
  <2> QED
    BY <1>2, <1>3, <1>5, <2>1
<1>6. Answers(Trip(F), H, E, {"users"}, "down")
  BY <1>1, <1>5, Answering DEF Meant
<1>7. Answers(UpdatesUser, H, Same("ErrNotFound"), {"users"}, "repository error")
  BY <1>1, <1>3, <1>6, AnsweringHandled
<1> QED
  BY <1>7 DEF H

LEMMA UpdatesTutorProfileDoes ==
  ASSUME NEW r
  PROVE  Answers(UpdatesTutorProfile(r), {w \in World : Role(r) = "tutor"},
                 Same("ErrNotFound"), {"tutor_profiles"}, "repository error")
<1> DEFINE F == [w \in World |->
      {IF Role(r) = "tutor" THEN Wrote(w, "tutor_profiles") ELSE Fails(w, "no_rows")}]
           H == {w \in World : Role(r) = "tutor"}
           E == Same("no_rows")
<1>1. UpdatesTutorProfile(r) = Through(Trip(F), handleError) /\ F = [w \in World |-> F[w]]
  BY DEF UpdatesTutorProfile, Statement, RoundTrip, Trip
<1>2. ASSUME NEW w \in World, NEW o \in F[w]
      PROVE  \/ w \in H /\ (o = Wrote(w, "tutor_profiles"))
             \/ w \notin H /\ (o = Fails(w, E[w]))
  BY <1>2 DEF Same
<1>3. \A w \in World : E[w] \in Error /\ Same("ErrNotFound")[w] = Handled[E[w]]
  BY Listed DEF Same, Handled
<1>4. \A w \in World : w \in H => Role(r) = "tutor"
  OBVIOUS
<1> HIDE DEF F, H, E
<1>5. ASSUME NEW w \in World, NEW o \in F[w]
      PROVE  \/ w \in H /\ \E v : Kept(w, v) /\ Is(o, v, "ok", {"tutor_profiles"})
             \/ w \notin H /\ E[w] \in Error /\ Is(o, w, E[w], {})
  <2>1. ASSUME w \in H /\ (o = Wrote(w, "tutor_profiles"))
        PROVE  \E v : Kept(w, v) /\ Is(o, v, "ok", {"tutor_profiles"})
    BY <1>4, <2>1, Updates, DoneKept, WroteKept, Tables
  <2>2. ASSUME w \notin H, o = Fails(w, E[w])
        PROVE  Is(o, w, E[w], {})
    BY <1>3, <2>2, FailsKept
  <2> QED
    BY <1>2, <1>3, <1>5, <2>1, <2>2
<1>6. Answers(Trip(F), H, E, {"tutor_profiles"}, "down")
  BY <1>1, <1>5, Answering DEF Meant
<1>7. Answers(UpdatesTutorProfile(r), H, Same("ErrNotFound"), {"tutor_profiles"},
        "repository error")
  BY <1>1, <1>3, <1>6, AnsweringHandled
<1> QED
  BY <1>7 DEF H

LEMMA UpdatesTutorStudentDoes ==
  ASSUME NEW r, NEW statuses \in SUBSET PairState
  PROVE  Answers(UpdatesTutorStudent(r, statuses), {w \in World : PairOf(w, r) # "none"},
                 Same("ErrNotFound"), {"tutor_students"}, "repository error")
<1> DEFINE F == [w \in World |->
      IF PairOf(w, r) = "none" THEN {Fails(w, "no_rows")}
      ELSE {Wrote([w EXCEPT !.pair = s], "tutor_students") : s \in statuses}]
           H == {w \in World : PairOf(w, r) # "none"}
           E == Same("no_rows")
<1>1. UpdatesTutorStudent(r, statuses) = Through(Trip(F),
        handleError) /\ F = [w \in World |-> F[w]]
  BY DEF UpdatesTutorStudent, Statement, RoundTrip, Trip
<1>2. ASSUME NEW w \in World, NEW o \in F[w]
      PROVE  \/ w \in H /\ (\E s \in statuses : o = Wrote(WithPair(w, s), "tutor_students"))
             \/ w \notin H /\ (o = Fails(w, E[w]))
  BY <1>2 DEF Same, WithPair
<1>3. \A w \in World : E[w] \in Error /\ Same("ErrNotFound")[w] = Handled[E[w]]
  BY Listed DEF Same, Handled
<1>4. \A w \in World : w \in H => PairOf(w, r) # "none"
  OBVIOUS
<1> HIDE DEF F, H, E
<1>5. ASSUME NEW w \in World, NEW o \in F[w]
      PROVE  \/ w \in H /\ \E v : Kept(w, v) /\ Is(o, v, "ok", {"tutor_students"})
             \/ w \notin H /\ E[w] \in Error /\ Is(o, w, E[w], {})
  <2>1. ASSUME w \in H /\ (\E s \in statuses : o = Wrote(WithPair(w, s), "tutor_students"))
        PROVE  \E v : Kept(w, v) /\ Is(o, v, "ok", {"tutor_students"})
    BY <1>4, <2>1, Updates, DoneKept, WroteKept, Tables
  <2>2. ASSUME w \notin H, o = Fails(w, E[w])
        PROVE  Is(o, w, E[w], {})
    BY <1>3, <2>2, FailsKept
  <2> QED
    BY <1>2, <1>3, <1>5, <2>1, <2>2
<1>6. Answers(Trip(F), H, E, {"tutor_students"}, "down")
  BY <1>1, <1>5, Answering DEF Meant
<1>7. Answers(UpdatesTutorStudent(r, statuses), H, Same("ErrNotFound"), {"tutor_students"},
        "repository error")
  BY <1>1, <1>3, <1>6, AnsweringHandled
<1> QED
  BY <1>7 DEF H

LEMMA DbRegisterDoes ==
  Answers(DbRegister, {w \in World : w.person = "none"},
          Same("ErrAlreadyExists"), {"users"}, "repository error")
<1> DEFINE F == [w \in World |->
      {IF w.person = "none"
         THEN Wrote([w EXCEPT !.person = "present"], "users") ELSE Fails(w, "unique")}]
           H == {w \in World : w.person = "none"}
           E == Same("unique")
<1>1. DbRegister = Through(Trip(F), handleError) /\ F = [w \in World |-> F[w]]
  BY DEF DbRegister, Statement, RoundTrip, Trip
<1>2. ASSUME NEW w \in World, NEW o \in F[w]
      PROVE  \/ w \in H /\ (o = Wrote(WithPerson(w), "users"))
             \/ w \notin H /\ (o = Fails(w, E[w]))
  BY <1>2 DEF Same, WithPerson
<1>3. \A w \in World : E[w] \in Error /\ Same("ErrAlreadyExists")[w] = Handled[E[w]]
  BY Listed DEF Same, Handled
<1>4. \A w \in World : w \in H => w.person = "none"
  OBVIOUS
<1> HIDE DEF F, H, E
<1>5. ASSUME NEW w \in World, NEW o \in F[w]
      PROVE  \/ w \in H /\ \E v : Kept(w, v) /\ Is(o, v, "ok", {"users"})
             \/ w \notin H /\ E[w] \in Error /\ Is(o, w, E[w], {})
  <2>1. ASSUME w \in H /\ (o = Wrote(WithPerson(w), "users"))
        PROVE  \E v : Kept(w, v) /\ Is(o, v, "ok", {"users"})
    BY <1>4, <2>1, Updates, DoneKept, WroteKept, Tables
  <2>2. ASSUME w \notin H, o = Fails(w, E[w])
        PROVE  Is(o, w, E[w], {})
    BY <1>3, <2>2, FailsKept
  <2> QED
    BY <1>2, <1>3, <1>5, <2>1, <2>2
<1>6. Answers(Trip(F), H, E, {"users"}, "down")
  BY <1>1, <1>5, Answering DEF Meant
<1>7. Answers(DbRegister, H, Same("ErrAlreadyExists"), {"users"}, "repository error")
  BY <1>1, <1>3, <1>6, AnsweringHandled
<1> QED
  BY <1>7 DEF H

LEMMA DbCreateTutorStudentDoes ==
  Answers(DbCreateTutorStudent, {w \in World : w.pair = "none" /\ w.person # "none"},
          Nobody("repository error", "ErrAlreadyExists"), {"tutor_students"}, "repository error")
<1> DEFINE F == [w \in World |->
      {CASE w.person = "none" -> Fails(w, "foreign_key")
         [] w.person # "none" /\ w.pair # "none" -> Fails(w, "unique")
         [] OTHER -> Wrote([w EXCEPT !.pair = "invited"], "tutor_students")}]
           H == {w \in World : w.pair = "none" /\ w.person # "none"}
           E == Nobody("foreign_key", "unique")
<1>1. DbCreateTutorStudent = Through(Trip(F), handleError) /\ F = [w \in World |-> F[w]]
  BY DEF DbCreateTutorStudent, Statement, RoundTrip, Trip
<1>2. ASSUME NEW w \in World, NEW o \in F[w]
      PROVE  \/ w \in H /\ (o = Wrote(WithPair(w, "invited"), "tutor_students"))
             \/ w \notin H /\ (o = Fails(w, E[w]))
  <2>1. \/ (w.pair = "none" /\ w.person # "none") /\ (o = Wrote(WithPair(w, "invited"),
             "tutor_students"))
        \/ w.person = "none" /\ o = Fails(w, "foreign_key")
        \/ w.person # "none" /\ w.pair # "none" /\ o = Fails(w, "unique")
    BY <1>2 DEF WithPair
  <2>2. ASSUME w.person = "none"
        PROVE  E[w] = "foreign_key" /\ w \notin H
    BY <2>2 DEF Nobody
  <2>3. ASSUME w.person # "none" /\ w.pair # "none"
        PROVE  E[w] = "unique" /\ w \notin H
    BY <2>3 DEF Nobody
  <2> QED
    BY <2>1, <2>2, <2>3
<1>3. \A w \in World : E[w] \in Error /\ Nobody("repository error",
        "ErrAlreadyExists")[w] = Handled[E[w]]
  BY Listed DEF Same, Handled, Nobody
<1>4. \A w \in World : w \in H => w.pair = "none" /\ w.person # "none"
  OBVIOUS
<1> HIDE DEF F, H, E
<1>5. ASSUME NEW w \in World, NEW o \in F[w]
      PROVE  \/ w \in H /\ \E v : Kept(w, v) /\ Is(o, v, "ok", {"tutor_students"})
             \/ w \notin H /\ E[w] \in Error /\ Is(o, w, E[w], {})
  <2>1. ASSUME w \in H /\ (o = Wrote(WithPair(w, "invited"), "tutor_students"))
        PROVE  \E v : Kept(w, v) /\ Is(o, v, "ok", {"tutor_students"})
    BY <1>4, <2>1, Updates, DoneKept, WroteKept, Tables DEF PairState
  <2>2. ASSUME w \notin H, o = Fails(w, E[w])
        PROVE  Is(o, w, E[w], {})
    BY <1>3, <2>2, FailsKept
  <2> QED
    BY <1>2, <1>3, <1>5, <2>1, <2>2
<1>6. Answers(Trip(F), H, E, {"tutor_students"}, "down")
  BY <1>1, <1>5, Answering DEF Meant
<1>7. Answers(DbCreateTutorStudent, H, Nobody("repository error", "ErrAlreadyExists"),
        {"tutor_students"}, "repository error")
  BY <1>1, <1>3, <1>6, AnsweringHandled
<1> QED
  BY <1>7 DEF H

LEMMA DbDeleteTutorStudentDoes ==
  ASSUME NEW r
  PROVE  Answers(DbDeleteTutorStudent(r), {w \in World : PairOf(w, r) # "none"},
                 Same("ErrNotFound"), {"tutor_students"}, "down")
<1> DEFINE F == [w \in World |->
      {IF PairOf(w, r) # "none"
         THEN Wrote([w EXCEPT !.pair = "none"], "tutor_students")
         ELSE Fails(w, "ErrNotFound")}]
           H == {w \in World : PairOf(w, r) # "none"}
           E == Same("ErrNotFound")
<1>1. DbDeleteTutorStudent(r) = Trip(F) /\ F = [w \in World |-> F[w]]
  BY DEF DbDeleteTutorStudent, RoundTrip, Trip
<1>2. ASSUME NEW w \in World, NEW o \in F[w]
      PROVE  \/ w \in H /\ (o = Wrote(WithPair(w, "none"), "tutor_students"))
             \/ w \notin H /\ (o = Fails(w, E[w]))
  BY <1>2 DEF Same, WithPair
<1>3. \A w \in World : E[w] \in Error
  BY Listed DEF Same
<1>4. \A w \in World : w \in H => PairOf(w, r) # "none"
  OBVIOUS
<1> HIDE DEF F, H, E
<1>5. ASSUME NEW w \in World, NEW o \in F[w]
      PROVE  \/ w \in H /\ \E v : Kept(w, v) /\ Is(o, v, "ok", {"tutor_students"})
             \/ w \notin H /\ E[w] \in Error /\ Is(o, w, E[w], {})
  <2>1. ASSUME w \in H /\ (o = Wrote(WithPair(w, "none"), "tutor_students"))
        PROVE  \E v : Kept(w, v) /\ Is(o, v, "ok", {"tutor_students"})
    BY <1>4, <2>1, Updates, DoneKept, WroteKept, Tables DEF PairState
  <2>2. ASSUME w \notin H, o = Fails(w, E[w])
        PROVE  Is(o, w, E[w], {})
    BY <1>3, <2>2, FailsKept
  <2> QED
    BY <1>2, <1>3, <1>5, <2>1, <2>2
<1>6. Answers(Trip(F), H, E, {"tutor_students"}, "down")
  BY <1>1, <1>5, Answering DEF Meant
<1> QED
  BY <1>1, <1>6 DEF H, E

LEMMA DbGetOwnUserDoes ==
  Answers(DbGetUser(TRUE), World,
          Same("ErrNotFound"), {}, "repository error")
<1> DEFINE F == [w \in World |->
      {Done(w)}]
           H == World
           E == Same("no_rows")
<1>1. DbGetUser(TRUE) = Through(Trip(F), handleError) /\ F = [w \in World |-> F[w]]
  BY DEF DbGetUser, Statement, RoundTrip, Trip
<1>2. ASSUME NEW w \in World, NEW o \in F[w]
      PROVE  w \in H /\ (o = Done(w))
  BY <1>2 DEF Same
<1>3. \A w \in World : E[w] \in Error /\ Same("ErrNotFound")[w] = Handled[E[w]]
  BY Listed DEF Same, Handled
<1>4. \A w \in World : w \in H => TRUE
  OBVIOUS
<1> HIDE DEF F, H, E
<1>5. ASSUME NEW w \in World, NEW o \in F[w]
      PROVE  \/ w \in H /\ \E v : Kept(w, v) /\ Is(o, v, "ok", {})
             \/ w \notin H /\ E[w] \in Error /\ Is(o, w, E[w], {})
  <2>1. ASSUME w \in H /\ (o = Done(w))
        PROVE  \E v : Kept(w, v) /\ Is(o, v, "ok", {})
    BY <1>4, <2>1, Updates, DoneKept, WroteKept, Tables
  <2> QED
    BY <1>2, <1>3, <1>5, <2>1
<1>6. Answers(Trip(F), H, E, {}, "down")
  BY <1>1, <1>5, Answering DEF Meant
<1>7. Answers(DbGetUser(TRUE), H, Same("ErrNotFound"), {}, "repository error")
  BY <1>1, <1>3, <1>6, AnsweringHandled
<1> QED
  BY <1>7 DEF H

LEMMA DbGetOtherUserDoes ==
  Answers(DbGetUser(FALSE), {w \in World : w.person = "present"},
          Same("ErrNotFound"), {}, "repository error")
<1> DEFINE F == [w \in World |->
      {IF w.person = "present" THEN Done(w) ELSE Fails(w, "no_rows")}]
           H == {w \in World : w.person = "present"}
           E == Same("no_rows")
<1>1. DbGetUser(FALSE) = Through(Trip(F), handleError) /\ F = [w \in World |-> F[w]]
  BY DEF DbGetUser, Statement, RoundTrip, Trip
<1>2. ASSUME NEW w \in World, NEW o \in F[w]
      PROVE  \/ w \in H /\ (o = Done(w))
             \/ w \notin H /\ (o = Fails(w, E[w]))
  BY <1>2 DEF Same
<1>3. \A w \in World : E[w] \in Error /\ Same("ErrNotFound")[w] = Handled[E[w]]
  BY Listed DEF Same, Handled
<1>4. \A w \in World : w \in H => w.person = "present"
  OBVIOUS
<1> HIDE DEF F, H, E
<1>5. ASSUME NEW w \in World, NEW o \in F[w]
      PROVE  \/ w \in H /\ \E v : Kept(w, v) /\ Is(o, v, "ok", {})
             \/ w \notin H /\ E[w] \in Error /\ Is(o, w, E[w], {})
  <2>1. ASSUME w \in H /\ (o = Done(w))
        PROVE  \E v : Kept(w, v) /\ Is(o, v, "ok", {})
    BY <1>4, <2>1, Updates, DoneKept, WroteKept, Tables
  <2>2. ASSUME w \notin H, o = Fails(w, E[w])
        PROVE  Is(o, w, E[w], {})
    BY <1>3, <2>2, FailsKept
  <2> QED
    BY <1>2, <1>3, <1>5, <2>1, <2>2
<1>6. Answers(Trip(F), H, E, {}, "down")
  BY <1>1, <1>5, Answering DEF Meant
<1>7. Answers(DbGetUser(FALSE), H, Same("ErrNotFound"), {}, "repository error")
  BY <1>1, <1>3, <1>6, AnsweringHandled
<1> QED
  BY <1>7 DEF H

LEMMA DbGetTutorProfileDoes ==
  ASSUME NEW r
  PROVE  Answers(DbGetTutorProfile(r), {w \in World : Role(r) = "tutor"},
                 Same("ErrNotFound"), {}, "repository error")
<1> DEFINE F == [w \in World |->
      {IF Role(r) = "tutor" THEN Done(w) ELSE Fails(w, "no_rows")}]
           H == {w \in World : Role(r) = "tutor"}
           E == Same("no_rows")
<1>1. DbGetTutorProfile(r) = Through(Trip(F), handleError) /\ F = [w \in World |-> F[w]]
  BY DEF DbGetTutorProfile, Statement, RoundTrip, Trip
<1>2. ASSUME NEW w \in World, NEW o \in F[w]
      PROVE  \/ w \in H /\ (o = Done(w))
             \/ w \notin H /\ (o = Fails(w, E[w]))
  BY <1>2 DEF Same
<1>3. \A w \in World : E[w] \in Error /\ Same("ErrNotFound")[w] = Handled[E[w]]
  BY Listed DEF Same, Handled
<1>4. \A w \in World : w \in H => Role(r) = "tutor"
  OBVIOUS
<1> HIDE DEF F, H, E
<1>5. ASSUME NEW w \in World, NEW o \in F[w]
      PROVE  \/ w \in H /\ \E v : Kept(w, v) /\ Is(o, v, "ok", {})
             \/ w \notin H /\ E[w] \in Error /\ Is(o, w, E[w], {})
  <2>1. ASSUME w \in H /\ (o = Done(w))
        PROVE  \E v : Kept(w, v) /\ Is(o, v, "ok", {})
    BY <1>4, <2>1, Updates, DoneKept, WroteKept, Tables
  <2>2. ASSUME w \notin H, o = Fails(w, E[w])
        PROVE  Is(o, w, E[w], {})
    BY <1>3, <2>2, FailsKept
  <2> QED
    BY <1>2, <1>3, <1>5, <2>1, <2>2
<1>6. Answers(Trip(F), H, E, {}, "down")
  BY <1>1, <1>5, Answering DEF Meant
<1>7. Answers(DbGetTutorProfile(r), H, Same("ErrNotFound"), {}, "repository error")
  BY <1>1, <1>3, <1>6, AnsweringHandled
<1> QED
  BY <1>7 DEF H

LEMMA DbGetTutorStudentDoes ==
  ASSUME NEW r
  PROVE  Answers(DbGetTutorStudent(r), {w \in World : PairOf(w, r) # "none"},
                 Same("ErrNotFound"), {}, "repository error")
<1> DEFINE F == [w \in World |->
      {IF PairOf(w, r) # "none" THEN Done(w) ELSE Fails(w, "no_rows")}]
           H == {w \in World : PairOf(w, r) # "none"}
           E == Same("no_rows")
<1>1. DbGetTutorStudent(r) = Through(Trip(F), handleError) /\ F = [w \in World |-> F[w]]
  BY DEF DbGetTutorStudent, Statement, RoundTrip, Trip
<1>2. ASSUME NEW w \in World, NEW o \in F[w]
      PROVE  \/ w \in H /\ (o = Done(w))
             \/ w \notin H /\ (o = Fails(w, E[w]))
  BY <1>2 DEF Same
<1>3. \A w \in World : E[w] \in Error /\ Same("ErrNotFound")[w] = Handled[E[w]]
  BY Listed DEF Same, Handled
<1>4. \A w \in World : w \in H => PairOf(w, r) # "none"
  OBVIOUS
<1> HIDE DEF F, H, E
<1>5. ASSUME NEW w \in World, NEW o \in F[w]
      PROVE  \/ w \in H /\ \E v : Kept(w, v) /\ Is(o, v, "ok", {})
             \/ w \notin H /\ E[w] \in Error /\ Is(o, w, E[w], {})
  <2>1. ASSUME w \in H /\ (o = Done(w))
        PROVE  \E v : Kept(w, v) /\ Is(o, v, "ok", {})
    BY <1>4, <2>1, Updates, DoneKept, WroteKept, Tables
  <2>2. ASSUME w \notin H, o = Fails(w, E[w])
        PROVE  Is(o, w, E[w], {})
    BY <1>3, <2>2, FailsKept
  <2> QED
    BY <1>2, <1>3, <1>5, <2>1, <2>2
<1>6. Answers(Trip(F), H, E, {}, "down")
  BY <1>1, <1>5, Answering DEF Meant
<1>7. Answers(DbGetTutorStudent(r), H, Same("ErrNotFound"), {}, "repository error")
  BY <1>1, <1>3, <1>6, AnsweringHandled
<1> QED
  BY <1>7 DEF H

LEMMA DbListTutorStudentsDoes ==
  Answers(DbListTutorStudents, World,
          Same("ErrNotFound"), {}, "repository error")
<1> DEFINE F == [w \in World |->
      {Done(w)}]
           H == World
           E == Same("no_rows")
<1>1. DbListTutorStudents = Through(Trip(F), handleError) /\ F = [w \in World |-> F[w]]
  BY DEF DbListTutorStudents, Statement, RoundTrip, Trip, SelectAll
<1>2. ASSUME NEW w \in World, NEW o \in F[w]
      PROVE  w \in H /\ (o = Done(w))
  BY <1>2 DEF Same
<1>3. \A w \in World : E[w] \in Error /\ Same("ErrNotFound")[w] = Handled[E[w]]
  BY Listed DEF Same, Handled
<1>4. \A w \in World : w \in H => TRUE
  OBVIOUS
<1> HIDE DEF F, H, E
<1>5. ASSUME NEW w \in World, NEW o \in F[w]
      PROVE  \/ w \in H /\ \E v : Kept(w, v) /\ Is(o, v, "ok", {})
             \/ w \notin H /\ E[w] \in Error /\ Is(o, w, E[w], {})
  <2>1. ASSUME w \in H /\ (o = Done(w))
        PROVE  \E v : Kept(w, v) /\ Is(o, v, "ok", {})
    BY <1>4, <2>1, Updates, DoneKept, WroteKept, Tables
  <2> QED
    BY <1>2, <1>3, <1>5, <2>1
<1>6. Answers(Trip(F), H, E, {}, "down")
  BY <1>1, <1>5, Answering DEF Meant
<1>7. Answers(DbListTutorStudents, H, Same("ErrNotFound"), {}, "repository error")
  BY <1>1, <1>3, <1>6, AnsweringHandled
<1> QED
  BY <1>7 DEF H

LEMMA DbGetReceiptByIDDoes ==
  Answers(DbGetReceiptByID, {w \in World : w.receipt = "present"},
          Same("ErrNotFound"), {}, "repository error")
<1> DEFINE F == [w \in World |->
      {IF w.receipt = "present" THEN Done(w) ELSE Fails(w, "no_rows")}]
           H == {w \in World : w.receipt = "present"}
           E == Same("no_rows")
<1>1. DbGetReceiptByID = Through(Trip(F), handleError) /\ F = [w \in World |-> F[w]]
  BY DEF DbGetReceiptByID, Statement, RoundTrip, Trip
<1>2. ASSUME NEW w \in World, NEW o \in F[w]
      PROVE  \/ w \in H /\ (o = Done(w))
             \/ w \notin H /\ (o = Fails(w, E[w]))
  BY <1>2 DEF Same
<1>3. \A w \in World : E[w] \in Error /\ Same("ErrNotFound")[w] = Handled[E[w]]
  BY Listed DEF Same, Handled
<1>4. \A w \in World : w \in H => w.receipt = "present"
  OBVIOUS
<1> HIDE DEF F, H, E
<1>5. ASSUME NEW w \in World, NEW o \in F[w]
      PROVE  \/ w \in H /\ \E v : Kept(w, v) /\ Is(o, v, "ok", {})
             \/ w \notin H /\ E[w] \in Error /\ Is(o, w, E[w], {})
  <2>1. ASSUME w \in H /\ (o = Done(w))
        PROVE  \E v : Kept(w, v) /\ Is(o, v, "ok", {})
    BY <1>4, <2>1, Updates, DoneKept, WroteKept, Tables
  <2>2. ASSUME w \notin H, o = Fails(w, E[w])
        PROVE  Is(o, w, E[w], {})
    BY <1>3, <2>2, FailsKept
  <2> QED
    BY <1>2, <1>3, <1>5, <2>1, <2>2
<1>6. Answers(Trip(F), H, E, {}, "down")
  BY <1>1, <1>5, Answering DEF Meant
<1>7. Answers(DbGetReceiptByID, H, Same("ErrNotFound"), {}, "repository error")
  BY <1>1, <1>3, <1>6, AnsweringHandled
<1> QED
  BY <1>7 DEF H

LEMMA DbGetFileDoes ==
  Answers(DbGetFile, {w \in World : w.file = "present"},
          Same("no_rows"), {}, "down")
<1> DEFINE F == [w \in World |->
      {IF w.file = "present" THEN Done(w) ELSE Fails(w, "no_rows")}]
           H == {w \in World : w.file = "present"}
           E == Same("no_rows")
<1>1. DbGetFile = Trip(F) /\ F = [w \in World |-> F[w]]
  BY DEF DbGetFile, RoundTrip, Trip, Select
<1>2. ASSUME NEW w \in World, NEW o \in F[w]
      PROVE  \/ w \in H /\ (o = Done(w))
             \/ w \notin H /\ (o = Fails(w, E[w]))
  BY <1>2 DEF Same
<1>3. \A w \in World : E[w] \in Error
  BY Listed DEF Same
<1>4. \A w \in World : w \in H => w.file = "present"
  OBVIOUS
<1> HIDE DEF F, H, E
<1>5. ASSUME NEW w \in World, NEW o \in F[w]
      PROVE  \/ w \in H /\ \E v : Kept(w, v) /\ Is(o, v, "ok", {})
             \/ w \notin H /\ E[w] \in Error /\ Is(o, w, E[w], {})
  <2>1. ASSUME w \in H /\ (o = Done(w))
        PROVE  \E v : Kept(w, v) /\ Is(o, v, "ok", {})
    BY <1>4, <2>1, Updates, DoneKept, WroteKept, Tables
  <2>2. ASSUME w \notin H, o = Fails(w, E[w])
        PROVE  Is(o, w, E[w], {})
    BY <1>3, <2>2, FailsKept
  <2> QED
    BY <1>2, <1>3, <1>5, <2>1, <2>2
<1>6. Answers(Trip(F), H, E, {}, "down")
  BY <1>1, <1>5, Answering DEF Meant
<1> QED
  BY <1>1, <1>6 DEF H, E

LEMMA DbGetSlotDoes ==
  Answers(DbGetSlot, {w \in World : w.slot # "none"},
          Same("ErrSlotNotFound"), {}, "down")
<1> DEFINE F == [w \in World |->
      {IF w.slot # "none" THEN Done(w) ELSE Fails(w, "ErrSlotNotFound")}]
           H == {w \in World : w.slot # "none"}
           E == Same("ErrSlotNotFound")
<1>1. DbGetSlot = Trip(F) /\ F = [w \in World |-> F[w]]
  BY DEF DbGetSlot, RoundTrip, Trip, Select
<1>2. ASSUME NEW w \in World, NEW o \in F[w]
      PROVE  \/ w \in H /\ (o = Done(w))
             \/ w \notin H /\ (o = Fails(w, E[w]))
  BY <1>2 DEF Same
<1>3. \A w \in World : E[w] \in Error
  BY Listed DEF Same
<1>4. \A w \in World : w \in H => w.slot # "none"
  OBVIOUS
<1> HIDE DEF F, H, E
<1>5. ASSUME NEW w \in World, NEW o \in F[w]
      PROVE  \/ w \in H /\ \E v : Kept(w, v) /\ Is(o, v, "ok", {})
             \/ w \notin H /\ E[w] \in Error /\ Is(o, w, E[w], {})
  <2>1. ASSUME w \in H /\ (o = Done(w))
        PROVE  \E v : Kept(w, v) /\ Is(o, v, "ok", {})
    BY <1>4, <2>1, Updates, DoneKept, WroteKept, Tables
  <2>2. ASSUME w \notin H, o = Fails(w, E[w])
        PROVE  Is(o, w, E[w], {})
    BY <1>3, <2>2, FailsKept
  <2> QED
    BY <1>2, <1>3, <1>5, <2>1, <2>2
<1>6. Answers(Trip(F), H, E, {}, "down")
  BY <1>1, <1>5, Answering DEF Meant
<1> QED
  BY <1>1, <1>6 DEF H, E

LEMMA DbGetAssignmentDoes ==
  Answers(DbGetAssignment, {w \in World : w.assignment # "none"},
          Same("ErrNotFound"), {}, "down")
<1> DEFINE F == [w \in World |->
      {IF w.assignment # "none" THEN Done(w) ELSE Fails(w, "ErrNotFound")}]
           H == {w \in World : w.assignment # "none"}
           E == Same("ErrNotFound")
<1>1. DbGetAssignment = Trip(F) /\ F = [w \in World |-> F[w]]
  BY DEF DbGetAssignment, RoundTrip, Trip, Select
<1>2. ASSUME NEW w \in World, NEW o \in F[w]
      PROVE  \/ w \in H /\ (o = Done(w))
             \/ w \notin H /\ (o = Fails(w, E[w]))
  BY <1>2 DEF Same
<1>3. \A w \in World : E[w] \in Error
  BY Listed DEF Same
<1>4. \A w \in World : w \in H => w.assignment # "none"
  OBVIOUS
<1> HIDE DEF F, H, E
<1>5. ASSUME NEW w \in World, NEW o \in F[w]
      PROVE  \/ w \in H /\ \E v : Kept(w, v) /\ Is(o, v, "ok", {})
             \/ w \notin H /\ E[w] \in Error /\ Is(o, w, E[w], {})
  <2>1. ASSUME w \in H /\ (o = Done(w))
        PROVE  \E v : Kept(w, v) /\ Is(o, v, "ok", {})
    BY <1>4, <2>1, Updates, DoneKept, WroteKept, Tables
  <2>2. ASSUME w \notin H, o = Fails(w, E[w])
        PROVE  Is(o, w, E[w], {})
    BY <1>3, <2>2, FailsKept
  <2> QED
    BY <1>2, <1>3, <1>5, <2>1, <2>2
<1>6. Answers(Trip(F), H, E, {}, "down")
  BY <1>1, <1>5, Answering DEF Meant
<1> QED
  BY <1>1, <1>6 DEF H, E

LEMMA DbGetSubmissionDoes ==
  Answers(DbGetSubmission, {w \in World : w.submission # "none"},
          Same("ErrNotFound"), {}, "down")
<1> DEFINE F == [w \in World |->
      {IF w.submission # "none" THEN Done(w) ELSE Fails(w, "ErrNotFound")}]
           H == {w \in World : w.submission # "none"}
           E == Same("ErrNotFound")
<1>1. DbGetSubmission = Trip(F) /\ F = [w \in World |-> F[w]]
  BY DEF DbGetSubmission, RoundTrip, Trip, Select
<1>2. ASSUME NEW w \in World, NEW o \in F[w]
      PROVE  \/ w \in H /\ (o = Done(w))
             \/ w \notin H /\ (o = Fails(w, E[w]))
  BY <1>2 DEF Same
<1>3. \A w \in World : E[w] \in Error
  BY Listed DEF Same
<1>4. \A w \in World : w \in H => w.submission # "none"
  OBVIOUS
<1> HIDE DEF F, H, E
<1>5. ASSUME NEW w \in World, NEW o \in F[w]
      PROVE  \/ w \in H /\ \E v : Kept(w, v) /\ Is(o, v, "ok", {})
             \/ w \notin H /\ E[w] \in Error /\ Is(o, w, E[w], {})
  <2>1. ASSUME w \in H /\ (o = Done(w))
        PROVE  \E v : Kept(w, v) /\ Is(o, v, "ok", {})
    BY <1>4, <2>1, Updates, DoneKept, WroteKept, Tables
  <2>2. ASSUME w \notin H, o = Fails(w, E[w])
        PROVE  Is(o, w, E[w], {})
    BY <1>3, <2>2, FailsKept
  <2> QED
    BY <1>2, <1>3, <1>5, <2>1, <2>2
<1>6. Answers(Trip(F), H, E, {}, "down")
  BY <1>1, <1>5, Answering DEF Meant
<1> QED
  BY <1>1, <1>6 DEF H, E

LEMMA DbGetFeedbackDoes ==
  Answers(DbGetFeedback, {w \in World : w.feedback # "none"},
          Same("ErrNotFound"), {}, "down")
<1> DEFINE F == [w \in World |->
      {IF w.feedback # "none" THEN Done(w) ELSE Fails(w, "ErrNotFound")}]
           H == {w \in World : w.feedback # "none"}
           E == Same("ErrNotFound")
<1>1. DbGetFeedback = Trip(F) /\ F = [w \in World |-> F[w]]
  BY DEF DbGetFeedback, RoundTrip, Trip, Select
<1>2. ASSUME NEW w \in World, NEW o \in F[w]
      PROVE  \/ w \in H /\ (o = Done(w))
             \/ w \notin H /\ (o = Fails(w, E[w]))
  BY <1>2 DEF Same
<1>3. \A w \in World : E[w] \in Error
  BY Listed DEF Same
<1>4. \A w \in World : w \in H => w.feedback # "none"
  OBVIOUS
<1> HIDE DEF F, H, E
<1>5. ASSUME NEW w \in World, NEW o \in F[w]
      PROVE  \/ w \in H /\ \E v : Kept(w, v) /\ Is(o, v, "ok", {})
             \/ w \notin H /\ E[w] \in Error /\ Is(o, w, E[w], {})
  <2>1. ASSUME w \in H /\ (o = Done(w))
        PROVE  \E v : Kept(w, v) /\ Is(o, v, "ok", {})
    BY <1>4, <2>1, Updates, DoneKept, WroteKept, Tables
  <2>2. ASSUME w \notin H, o = Fails(w, E[w])
        PROVE  Is(o, w, E[w], {})
    BY <1>3, <2>2, FailsKept
  <2> QED
    BY <1>2, <1>3, <1>5, <2>1, <2>2
<1>6. Answers(Trip(F), H, E, {}, "down")
  BY <1>1, <1>5, Answering DEF Meant
<1> QED
  BY <1>1, <1>6 DEF H, E

LEMMA SelectAllDoes ==
  Answers(SelectAll, World,
          Same("no_rows"), {}, "down")
<1> DEFINE F == [w \in World |->
      {Done(w)}]
           H == World
           E == Same("no_rows")
<1>1. SelectAll = Trip(F) /\ F = [w \in World |-> F[w]]
  BY DEF SelectAll, RoundTrip, Trip
<1>2. ASSUME NEW w \in World, NEW o \in F[w]
      PROVE  w \in H /\ (o = Done(w))
  BY <1>2 DEF Same
<1>3. \A w \in World : E[w] \in Error
  BY Listed DEF Same
<1>4. \A w \in World : w \in H => TRUE
  OBVIOUS
<1> HIDE DEF F, H, E
<1>5. ASSUME NEW w \in World, NEW o \in F[w]
      PROVE  \/ w \in H /\ \E v : Kept(w, v) /\ Is(o, v, "ok", {})
             \/ w \notin H /\ E[w] \in Error /\ Is(o, w, E[w], {})
  <2>1. ASSUME w \in H /\ (o = Done(w))
        PROVE  \E v : Kept(w, v) /\ Is(o, v, "ok", {})
    BY <1>4, <2>1, Updates, DoneKept, WroteKept, Tables
  <2> QED
    BY <1>2, <1>3, <1>5, <2>1
<1>6. Answers(Trip(F), H, E, {}, "down")
  BY <1>1, <1>5, Answering DEF Meant
<1> QED
  BY <1>1, <1>6 DEF H, E

LEMMA DbGetLessonDoes ==
  Answers(DbGetLesson, {w \in World : w.lesson # "none"},
          Same("ErrLessonNotFound"), {}, "down")
<1> DEFINE F == [w \in World |->
      {IF w.lesson = "none" THEN Fails(w, "ErrLessonNotFound")
       ELSE Done([w EXCEPT !.held = w.lesson])}]
           H == {w \in World : w.lesson # "none"}
           E == Same("ErrLessonNotFound")
<1>1. DbGetLesson = Trip(F) /\ F = [w \in World |-> F[w]]
  BY DEF DbGetLesson, RoundTrip, Trip
<1>2. ASSUME NEW w \in World, NEW o \in F[w]
      PROVE  \/ w \in H /\ (o = Done(WithHeld(w)))
             \/ w \notin H /\ (o = Fails(w, E[w]))
  BY <1>2 DEF Same, WithHeld
<1>3. \A w \in World : E[w] \in Error
  BY Listed DEF Same
<1>4. \A w \in World : w \in H => w.lesson # "none"
  OBVIOUS
<1> HIDE DEF F, H, E
<1>5. ASSUME NEW w \in World, NEW o \in F[w]
      PROVE  \/ w \in H /\ \E v : Kept(w, v) /\ Is(o, v, "ok", {})
             \/ w \notin H /\ E[w] \in Error /\ Is(o, w, E[w], {})
  <2>1. ASSUME w \in H /\ (o = Done(WithHeld(w)))
        PROVE  \E v : Kept(w, v) /\ Is(o, v, "ok", {})
    BY <1>4, <2>1, Updates, DoneKept, WroteKept, Tables
  <2>2. ASSUME w \notin H, o = Fails(w, E[w])
        PROVE  Is(o, w, E[w], {})
    BY <1>3, <2>2, FailsKept
  <2> QED
    BY <1>2, <1>3, <1>5, <2>1, <2>2
<1>6. Answers(Trip(F), H, E, {}, "down")
  BY <1>1, <1>5, Answering DEF Meant
<1> QED
  BY <1>1, <1>6 DEF H, E

LEMMA DbCreateFileDoes ==
  Answers(DbCreateFile, World,
          Same("down"), {"files"}, "down")
<1> DEFINE F == [w \in World |->
      {Wrote(w, "files")}]
           H == World
           E == Same("down")
<1>1. DbCreateFile = Trip(F) /\ F = [w \in World |-> F[w]]
  BY DEF DbCreateFile, RoundTrip, Trip
<1>2. ASSUME NEW w \in World, NEW o \in F[w]
      PROVE  w \in H /\ (o = Wrote(w, "files"))
  BY <1>2
<1>3. \A w \in World : E[w] \in Error
  BY Listed DEF Same
<1>4. \A w \in World : w \in H => TRUE
  OBVIOUS
<1> HIDE DEF F, H, E
<1>5. ASSUME NEW w \in World, NEW o \in F[w]
      PROVE  \/ w \in H /\ \E v : Kept(w, v) /\ Is(o, v, "ok", {"files"})
             \/ w \notin H /\ E[w] \in Error /\ Is(o, w, E[w], {})
  <2>1. ASSUME w \in H /\ (o = Wrote(w, "files"))
        PROVE  \E v : Kept(w, v) /\ Is(o, v, "ok", {"files"})
    BY <1>4, <2>1, Updates, DoneKept, WroteKept, Tables
  <2> QED
    BY <1>2, <1>3, <1>5, <2>1
<1>6. Answers(Trip(F), H, E, {"files"}, "down")
  BY <1>1, <1>5, Answering DEF Meant
<1> QED
  BY <1>1, <1>6 DEF H, E

LEMMA DbCreateSlotDoes ==
  ASSUME NEW r
  PROVE  Answers(DbCreateSlot(r), {w \in World : r.form # "clash"},
                 Same("unique"), {"slots"}, "down")
<1> DEFINE F == [w \in World |->
      {IF r.form = "clash" THEN Fails(w, "unique") ELSE Wrote(w, "slots")}]
           H == {w \in World : r.form # "clash"}
           E == Same("unique")
<1>1. DbCreateSlot(r) = Trip(F) /\ F = [w \in World |-> F[w]]
  BY DEF DbCreateSlot, RoundTrip, Trip
<1>2. ASSUME NEW w \in World, NEW o \in F[w]
      PROVE  \/ w \in H /\ (o = Wrote(w, "slots"))
             \/ w \notin H /\ (o = Fails(w, E[w]))
  BY <1>2 DEF Same
<1>3. \A w \in World : E[w] \in Error
  BY Listed DEF Same
<1>4. \A w \in World : w \in H => r.form # "clash"
  OBVIOUS
<1> HIDE DEF F, H, E
<1>5. ASSUME NEW w \in World, NEW o \in F[w]
      PROVE  \/ w \in H /\ \E v : Kept(w, v) /\ Is(o, v, "ok", {"slots"})
             \/ w \notin H /\ E[w] \in Error /\ Is(o, w, E[w], {})
  <2>1. ASSUME w \in H /\ (o = Wrote(w, "slots"))
        PROVE  \E v : Kept(w, v) /\ Is(o, v, "ok", {"slots"})
    BY <1>4, <2>1, Updates, DoneKept, WroteKept, Tables
  <2>2. ASSUME w \notin H, o = Fails(w, E[w])
        PROVE  Is(o, w, E[w], {})
    BY <1>3, <2>2, FailsKept
  <2> QED
    BY <1>2, <1>3, <1>5, <2>1, <2>2
<1>6. Answers(Trip(F), H, E, {"slots"}, "down")
  BY <1>1, <1>5, Answering DEF Meant
<1> QED
  BY <1>1, <1>6 DEF H, E

\* The error of a slot that is not changed, by whether it is there.
Slotless(e1, e2) == [w \in World |-> IF w.slot = "none" THEN e1 ELSE e2]

LEMMA DbUpdateSlotDoes ==
  ASSUME NEW r
  PROVE  Answers(DbUpdateSlot(r), {w \in World : w.slot # "none" /\ r.form # "clash"},
                 Slotless("ErrSlotNotFound", "unique"), {"slots"}, "down")
<1> DEFINE F == [w \in World |->
      {CASE w.slot = "none" -> Fails(w, "ErrSlotNotFound")
         [] w.slot # "none" /\ r.form = "clash" -> Fails(w, "unique")
         [] OTHER -> Wrote(w, "slots")}]
           H == {w \in World : w.slot # "none" /\ r.form # "clash"}
           E == Slotless("ErrSlotNotFound", "unique")
<1>1. DbUpdateSlot(r) = Trip(F) /\ F = [w \in World |-> F[w]]
  BY DEF DbUpdateSlot, RoundTrip, Trip
<1>2. ASSUME NEW w \in World, NEW o \in F[w]
      PROVE  \/ w \in H /\ (o = Wrote(w, "slots"))
             \/ w \notin H /\ (o = Fails(w, E[w]))
  <2>1. \/ (w.slot # "none" /\ r.form # "clash") /\ (o = Wrote(w, "slots"))
        \/ w.slot = "none" /\ o = Fails(w, "ErrSlotNotFound")
        \/ w.slot # "none" /\ r.form = "clash" /\ o = Fails(w, "unique")
    BY <1>2
  <2>2. ASSUME w.slot = "none"
        PROVE  E[w] = "ErrSlotNotFound" /\ w \notin H
    BY <2>2 DEF Slotless
  <2>3. ASSUME w.slot # "none" /\ r.form = "clash"
        PROVE  E[w] = "unique" /\ w \notin H
    BY <2>3 DEF Slotless
  <2> QED
    BY <2>1, <2>2, <2>3
<1>3. \A w \in World : E[w] \in Error
  BY Listed DEF Slotless
<1>4. \A w \in World : w \in H => w.slot # "none" /\ r.form # "clash"
  OBVIOUS
<1> HIDE DEF F, H, E
<1>5. ASSUME NEW w \in World, NEW o \in F[w]
      PROVE  \/ w \in H /\ \E v : Kept(w, v) /\ Is(o, v, "ok", {"slots"})
             \/ w \notin H /\ E[w] \in Error /\ Is(o, w, E[w], {})
  <2>1. ASSUME w \in H /\ (o = Wrote(w, "slots"))
        PROVE  \E v : Kept(w, v) /\ Is(o, v, "ok", {"slots"})
    BY <1>4, <2>1, Updates, DoneKept, WroteKept, Tables
  <2>2. ASSUME w \notin H, o = Fails(w, E[w])
        PROVE  Is(o, w, E[w], {})
    BY <1>3, <2>2, FailsKept
  <2> QED
    BY <1>2, <1>3, <1>5, <2>1, <2>2
<1>6. Answers(Trip(F), H, E, {"slots"}, "down")
  BY <1>1, <1>5, Answering DEF Meant
<1> QED
  BY <1>1, <1>6 DEF H, E

LEMMA DbDeleteSlotDoes ==
  Answers(DbDeleteSlot, {w \in World : w.slot = "free"},
          Slotless("ErrSlotNotFound", "foreign_key"), {"slots"}, "down")
<1> DEFINE F == [w \in World |->
      {CASE w.slot = "free" -> Wrote([w EXCEPT !.slot = "none"], "slots")
         [] w.slot = "none" -> Fails(w, "ErrSlotNotFound")
         [] OTHER -> Fails(w, "foreign_key")}]
           H == {w \in World : w.slot = "free"}
           E == Slotless("ErrSlotNotFound", "foreign_key")
<1>1. DbDeleteSlot = Trip(F) /\ F = [w \in World |-> F[w]]
  BY DEF DbDeleteSlot, RoundTrip, Trip
<1>2. ASSUME NEW w \in World, NEW o \in F[w]
      PROVE  \/ w \in H /\ (o = Wrote(WithSlot(w, "none"), "slots"))
             \/ w \notin H /\ (o = Fails(w, E[w]))
  <2>1. \/ (w.slot = "free") /\ (o = Wrote(WithSlot(w, "none"), "slots"))
        \/ w.slot = "none" /\ o = Fails(w, "ErrSlotNotFound")
        \/ w.slot # "none" /\ w.slot # "free" /\ o = Fails(w, "foreign_key")
    BY <1>2 DEF WithSlot
  <2>2. ASSUME w.slot = "none"
        PROVE  E[w] = "ErrSlotNotFound" /\ w \notin H
    BY <2>2 DEF Slotless
  <2>3. ASSUME w.slot # "none" /\ w.slot # "free"
        PROVE  E[w] = "foreign_key" /\ w \notin H
    BY <2>3 DEF Slotless
  <2> QED
    BY <2>1, <2>2, <2>3
<1>3. \A w \in World : E[w] \in Error
  BY Listed DEF Slotless
<1>4. \A w \in World : w \in H => w.slot = "free"
  OBVIOUS
<1> HIDE DEF F, H, E
<1>5. ASSUME NEW w \in World, NEW o \in F[w]
      PROVE  \/ w \in H /\ \E v : Kept(w, v) /\ Is(o, v, "ok", {"slots"})
             \/ w \notin H /\ E[w] \in Error /\ Is(o, w, E[w], {})
  <2>1. ASSUME w \in H /\ (o = Wrote(WithSlot(w, "none"), "slots"))
        PROVE  \E v : Kept(w, v) /\ Is(o, v, "ok", {"slots"})
    BY <1>4, <2>1, Updates, DoneKept, WroteKept, Tables
  <2>2. ASSUME w \notin H, o = Fails(w, E[w])
        PROVE  Is(o, w, E[w], {})
    BY <1>3, <2>2, FailsKept
  <2> QED
    BY <1>2, <1>3, <1>5, <2>1, <2>2
<1>6. Answers(Trip(F), H, E, {"slots"}, "down")
  BY <1>1, <1>5, Answering DEF Meant
<1> QED
  BY <1>1, <1>6 DEF H, E

LEMMA DbCreateLessonAndBookSlotDoes ==
  Answers(DbCreateLessonAndBookSlot, {w \in World : w.slot = "free"},
          Same("transaction"), {"lessons"}, "down")
<1> DEFINE F == [w \in World |->
      {IF w.slot = "free" THEN Wrote([w EXCEPT !.slot = "booked"], "lessons")
       ELSE Fails(w, "transaction")}]
           H == {w \in World : w.slot = "free"}
           E == Same("transaction")
<1>1. DbCreateLessonAndBookSlot = Trip(F) /\ F = [w \in World |-> F[w]]
  BY DEF DbCreateLessonAndBookSlot, RoundTrip, Trip
<1>2. ASSUME NEW w \in World, NEW o \in F[w]
      PROVE  \/ w \in H /\ (o = Wrote(WithSlot(w, "booked"), "lessons"))
             \/ w \notin H /\ (o = Fails(w, E[w]))
  BY <1>2 DEF Same, WithSlot
<1>3. \A w \in World : E[w] \in Error
  BY Listed DEF Same
<1>4. \A w \in World : w \in H => w.slot = "free"
  OBVIOUS
<1> HIDE DEF F, H, E
<1>5. ASSUME NEW w \in World, NEW o \in F[w]
      PROVE  \/ w \in H /\ \E v : Kept(w, v) /\ Is(o, v, "ok", {"lessons"})
             \/ w \notin H /\ E[w] \in Error /\ Is(o, w, E[w], {})
  <2>1. ASSUME w \in H /\ (o = Wrote(WithSlot(w, "booked"), "lessons"))
        PROVE  \E v : Kept(w, v) /\ Is(o, v, "ok", {"lessons"})
    BY <1>4, <2>1, Updates, DoneKept, WroteKept, Tables
  <2>2. ASSUME w \notin H, o = Fails(w, E[w])
        PROVE  Is(o, w, E[w], {})
    BY <1>3, <2>2, FailsKept
  <2> QED
    BY <1>2, <1>3, <1>5, <2>1, <2>2
<1>6. Answers(Trip(F), H, E, {"lessons"}, "down")
  BY <1>1, <1>5, Answering DEF Meant
<1> QED
  BY <1>1, <1>6 DEF H, E

LEMMA DbUpdateLessonDoes ==
  Answers(DbUpdateLesson, {w \in World : w.lesson # "none"},
          Same("ErrLessonNotFound"), {"lessons"}, "down")
<1> DEFINE F == [w \in World |->
      {IF w.lesson = "none" THEN Fails(w, "ErrLessonNotFound")
       ELSE Wrote([w EXCEPT !.lesson = w.held], "lessons")}]
           H == {w \in World : w.lesson # "none"}
           E == Same("ErrLessonNotFound")
<1>1. DbUpdateLesson = Trip(F) /\ F = [w \in World |-> F[w]]
  BY DEF DbUpdateLesson, RoundTrip, Trip
<1>2. ASSUME NEW w \in World, NEW o \in F[w]
      PROVE  \/ w \in H /\ (o = Wrote(WithLesson(w, w.held), "lessons"))
             \/ w \notin H /\ (o = Fails(w, E[w]))
  BY <1>2 DEF Same, WithLesson
<1>3. \A w \in World : E[w] \in Error
  BY Listed DEF Same
<1>4. \A w \in World : w \in H => w.lesson # "none"
  OBVIOUS
<1> HIDE DEF F, H, E
<1>5. ASSUME NEW w \in World, NEW o \in F[w]
      PROVE  \/ w \in H /\ \E v : Kept(w, v) /\ Is(o, v, "ok", {"lessons"})
             \/ w \notin H /\ E[w] \in Error /\ Is(o, w, E[w], {})
  <2>1. ASSUME w \in H /\ (o = Wrote(WithLesson(w, w.held), "lessons"))
        PROVE  \E v : Kept(w, v) /\ Is(o, v, "ok", {"lessons"})
    BY <1>4, <2>1, Updates, DoneKept, WroteKept, Tables
  <2>2. ASSUME w \notin H, o = Fails(w, E[w])
        PROVE  Is(o, w, E[w], {})
    BY <1>3, <2>2, FailsKept
  <2> QED
    BY <1>2, <1>3, <1>5, <2>1, <2>2
<1>6. Answers(Trip(F), H, E, {"lessons"}, "down")
  BY <1>1, <1>5, Answering DEF Meant
<1> QED
  BY <1>1, <1>6 DEF H, E

LEMMA DbCancelLessonAndFreeSlotDoes ==
  Answers(DbCancelLessonAndFreeSlot, {w \in World : w.lesson # "none"},
          Same("transaction"), {"lessons"}, "down")
<1> DEFINE F == [w \in World |->
      {IF w.lesson = "none" THEN Fails(w, "transaction")
       ELSE Wrote([w EXCEPT !.slot = "used"], "lessons")}]
           H == {w \in World : w.lesson # "none"}
           E == Same("transaction")
<1>1. DbCancelLessonAndFreeSlot = Trip(F) /\ F = [w \in World |-> F[w]]
  BY DEF DbCancelLessonAndFreeSlot, RoundTrip, Trip
<1>2. ASSUME NEW w \in World, NEW o \in F[w]
      PROVE  \/ w \in H /\ (o = Wrote(WithSlot(w, "used"), "lessons"))
             \/ w \notin H /\ (o = Fails(w, E[w]))
  BY <1>2 DEF Same, WithSlot
<1>3. \A w \in World : E[w] \in Error
  BY Listed DEF Same
<1>4. \A w \in World : w \in H => w.lesson # "none"
  OBVIOUS
<1> HIDE DEF F, H, E
<1>5. ASSUME NEW w \in World, NEW o \in F[w]
      PROVE  \/ w \in H /\ \E v : Kept(w, v) /\ Is(o, v, "ok", {"lessons"})
             \/ w \notin H /\ E[w] \in Error /\ Is(o, w, E[w], {})
  <2>1. ASSUME w \in H /\ (o = Wrote(WithSlot(w, "used"), "lessons"))
        PROVE  \E v : Kept(w, v) /\ Is(o, v, "ok", {"lessons"})
    BY <1>4, <2>1, Updates, DoneKept, WroteKept, Tables
  <2>2. ASSUME w \notin H, o = Fails(w, E[w])
        PROVE  Is(o, w, E[w], {})
    BY <1>3, <2>2, FailsKept
  <2> QED
    BY <1>2, <1>3, <1>5, <2>1, <2>2
<1>6. Answers(Trip(F), H, E, {"lessons"}, "down")
  BY <1>1, <1>5, Answering DEF Meant
<1> QED
  BY <1>1, <1>6 DEF H, E

LEMMA DbMarkAsPaidDoes ==
  Answers(DbMarkAsPaid, {w \in World : w.lesson # "none"},
          Same("ErrLessonNotFound"), {"lessons"}, "down")
<1> DEFINE F == [w \in World |->
      {IF w.lesson = "none" THEN Fails(w, "ErrLessonNotFound")
       ELSE Wrote([w EXCEPT !.lesson = "paid"], "lessons")}]
           H == {w \in World : w.lesson # "none"}
           E == Same("ErrLessonNotFound")
<1>1. DbMarkAsPaid = Trip(F) /\ F = [w \in World |-> F[w]]
  BY DEF DbMarkAsPaid, RoundTrip, Trip
<1>2. ASSUME NEW w \in World, NEW o \in F[w]
      PROVE  \/ w \in H /\ (o = Wrote(WithLesson(w, "paid"), "lessons"))
             \/ w \notin H /\ (o = Fails(w, E[w]))
  BY <1>2 DEF Same, WithLesson
<1>3. \A w \in World : E[w] \in Error
  BY Listed DEF Same
<1>4. \A w \in World : w \in H => w.lesson # "none"
  OBVIOUS
<1> HIDE DEF F, H, E
<1>5. ASSUME NEW w \in World, NEW o \in F[w]
      PROVE  \/ w \in H /\ \E v : Kept(w, v) /\ Is(o, v, "ok", {"lessons"})
             \/ w \notin H /\ E[w] \in Error /\ Is(o, w, E[w], {})
  <2>1. ASSUME w \in H /\ (o = Wrote(WithLesson(w, "paid"), "lessons"))
        PROVE  \E v : Kept(w, v) /\ Is(o, v, "ok", {"lessons"})
    BY <1>4, <2>1, Updates, DoneKept, WroteKept, Tables
  <2>2. ASSUME w \notin H, o = Fails(w, E[w])
        PROVE  Is(o, w, E[w], {})
    BY <1>3, <2>2, FailsKept
  <2> QED
    BY <1>2, <1>3, <1>5, <2>1, <2>2
<1>6. Answers(Trip(F), H, E, {"lessons"}, "down")
  BY <1>1, <1>5, Answering DEF Meant
<1> QED
  BY <1>1, <1>6 DEF H, E

LEMMA DbCreateReceiptDoes ==
  Answers(DbCreateReceipt, World,
          Same("ErrNotFound"), {"receipts"}, "repository error")
<1> DEFINE F == [w \in World |->
      {Wrote(w, "receipts")}]
           H == World
           E == Same("no_rows")
<1>1. DbCreateReceipt = Through(Trip(F), handleError) /\ F = [w \in World |-> F[w]]
  BY DEF DbCreateReceipt, Statement, RoundTrip, Trip
<1>2. ASSUME NEW w \in World, NEW o \in F[w]
      PROVE  w \in H /\ (o = Wrote(w, "receipts"))
  BY <1>2
<1>3. \A w \in World : E[w] \in Error /\ Same("ErrNotFound")[w] = Handled[E[w]]
  BY Listed DEF Same, Handled
<1>4. \A w \in World : w \in H => TRUE
  OBVIOUS
<1> HIDE DEF F, H, E
<1>5. ASSUME NEW w \in World, NEW o \in F[w]
      PROVE  \/ w \in H /\ \E v : Kept(w, v) /\ Is(o, v, "ok", {"receipts"})
             \/ w \notin H /\ E[w] \in Error /\ Is(o, w, E[w], {})
  <2>1. ASSUME w \in H /\ (o = Wrote(w, "receipts"))
        PROVE  \E v : Kept(w, v) /\ Is(o, v, "ok", {"receipts"})
    BY <1>4, <2>1, Updates, DoneKept, WroteKept, Tables
  <2> QED
    BY <1>2, <1>3, <1>5, <2>1
<1>6. Answers(Trip(F), H, E, {"receipts"}, "down")
  BY <1>1, <1>5, Answering DEF Meant
<1>7. Answers(DbCreateReceipt, H, Same("ErrNotFound"), {"receipts"}, "repository error")
  BY <1>1, <1>3, <1>6, AnsweringHandled
<1> QED
  BY <1>7 DEF H

LEMMA DbCreateAssignmentDoes ==
  Answers(DbCreateAssignment, World,
          Same("down"), {"assignments"}, "down")
<1> DEFINE F == [w \in World |->
      {Wrote(w, "assignments")}]
           H == World
           E == Same("down")
<1>1. DbCreateAssignment = Trip(F) /\ F = [w \in World |-> F[w]]
  BY DEF DbCreateAssignment, RoundTrip, Trip
<1>2. ASSUME NEW w \in World, NEW o \in F[w]
      PROVE  w \in H /\ (o = Wrote(w, "assignments"))
  BY <1>2
<1>3. \A w \in World : E[w] \in Error
  BY Listed DEF Same
<1>4. \A w \in World : w \in H => TRUE
  OBVIOUS
<1> HIDE DEF F, H, E
<1>5. ASSUME NEW w \in World, NEW o \in F[w]
      PROVE  \/ w \in H /\ \E v : Kept(w, v) /\ Is(o, v, "ok", {"assignments"})
             \/ w \notin H /\ E[w] \in Error /\ Is(o, w, E[w], {})
  <2>1. ASSUME w \in H /\ (o = Wrote(w, "assignments"))
        PROVE  \E v : Kept(w, v) /\ Is(o, v, "ok", {"assignments"})
    BY <1>4, <2>1, Updates, DoneKept, WroteKept, Tables
  <2> QED
    BY <1>2, <1>3, <1>5, <2>1
<1>6. Answers(Trip(F), H, E, {"assignments"}, "down")
  BY <1>1, <1>5, Answering DEF Meant
<1> QED
  BY <1>1, <1>6 DEF H, E

LEMMA DbUpdateAssignmentDoes ==
  Answers(DbUpdateAssignment, {w \in World : w.assignment # "none"},
          Same("assignment not found"), {"assignments"}, "down")
<1> DEFINE F == [w \in World |->
      IF w.assignment = "none" THEN {Fails(w, "assignment not found")}
      ELSE {Wrote([w EXCEPT !.assignment = s], "assignments") : s \in {"bare", "filed"}}]
           H == {w \in World : w.assignment # "none"}
           E == Same("assignment not found")
<1>1. DbUpdateAssignment = Trip(F) /\ F = [w \in World |-> F[w]]
  BY DEF DbUpdateAssignment, RoundTrip, Trip
<1>2. ASSUME NEW w \in World, NEW o \in F[w]
      PROVE  \/ w \in H /\ (\E s \in {"bare", "filed"} : o = Wrote(WithAssignment(w, s),
                  "assignments"))
             \/ w \notin H /\ (o = Fails(w, E[w]))
  BY <1>2 DEF Same, WithAssignment
<1>3. \A w \in World : E[w] \in Error
  BY Listed DEF Same
<1>4. \A w \in World : w \in H => w.assignment # "none"
  OBVIOUS
<1> HIDE DEF F, H, E
<1>5. ASSUME NEW w \in World, NEW o \in F[w]
      PROVE  \/ w \in H /\ \E v : Kept(w, v) /\ Is(o, v, "ok", {"assignments"})
             \/ w \notin H /\ E[w] \in Error /\ Is(o, w, E[w], {})
  <2>1. ASSUME w \in H /\ (\E s \in {"bare", "filed"} : o = Wrote(WithAssignment(w, s),
                 "assignments"))
        PROVE  \E v : Kept(w, v) /\ Is(o, v, "ok", {"assignments"})
    BY <1>4, <2>1, Updates, DoneKept, WroteKept, Tables DEF WorkState
  <2>2. ASSUME w \notin H, o = Fails(w, E[w])
        PROVE  Is(o, w, E[w], {})
    BY <1>3, <2>2, FailsKept
  <2> QED
    BY <1>2, <1>3, <1>5, <2>1, <2>2
<1>6. Answers(Trip(F), H, E, {"assignments"}, "down")
  BY <1>1, <1>5, Answering DEF Meant
<1> QED
  BY <1>1, <1>6 DEF H, E

LEMMA DbDeleteAssignmentDoes ==
  Answers(DbDeleteAssignment, {w \in World : w.assignment # "none"},
          Same("ErrNotFound"), {"assignments"}, "down")
<1> DEFINE F == [w \in World |->
      {IF w.assignment = "none" THEN Fails(w, "ErrNotFound")
       ELSE Wrote([w EXCEPT !.assignment = "none", !.submission = "none",
                            !.feedback = "none"], "assignments")}]
           H == {w \in World : w.assignment # "none"}
           E == Same("ErrNotFound")
<1>1. DbDeleteAssignment = Trip(F) /\ F = [w \in World |-> F[w]]
  BY DEF DbDeleteAssignment, RoundTrip, Trip
<1>2. ASSUME NEW w \in World, NEW o \in F[w]
      PROVE  \/ w \in H /\ (o = Wrote(WithoutAssignment(w), "assignments"))
             \/ w \notin H /\ (o = Fails(w, E[w]))
  BY <1>2 DEF Same, WithoutAssignment
<1>3. \A w \in World : E[w] \in Error
  BY Listed DEF Same
<1>4. \A w \in World : w \in H => w.assignment # "none"
  OBVIOUS
<1> HIDE DEF F, H, E
<1>5. ASSUME NEW w \in World, NEW o \in F[w]
      PROVE  \/ w \in H /\ \E v : Kept(w, v) /\ Is(o, v, "ok", {"assignments"})
             \/ w \notin H /\ E[w] \in Error /\ Is(o, w, E[w], {})
  <2>1. ASSUME w \in H /\ (o = Wrote(WithoutAssignment(w), "assignments"))
        PROVE  \E v : Kept(w, v) /\ Is(o, v, "ok", {"assignments"})
    BY <1>4, <2>1, Updates, DoneKept, WroteKept, Tables
  <2>2. ASSUME w \notin H, o = Fails(w, E[w])
        PROVE  Is(o, w, E[w], {})
    BY <1>3, <2>2, FailsKept
  <2> QED
    BY <1>2, <1>3, <1>5, <2>1, <2>2
<1>6. Answers(Trip(F), H, E, {"assignments"}, "down")
  BY <1>1, <1>5, Answering DEF Meant
<1> QED
  BY <1>1, <1>6 DEF H, E

LEMMA DbCreateSubmissionDoes ==
  Answers(DbCreateSubmission, {w \in World : w.assignment # "none"},
          Same("foreign_key"), {"submissions"}, "down")
<1> DEFINE F == [w \in World |->
      {IF w.assignment = "none" THEN Fails(w, "foreign_key") ELSE Wrote(w, "submissions")}]
           H == {w \in World : w.assignment # "none"}
           E == Same("foreign_key")
<1>1. DbCreateSubmission = Trip(F) /\ F = [w \in World |-> F[w]]
  BY DEF DbCreateSubmission, RoundTrip, Trip
<1>2. ASSUME NEW w \in World, NEW o \in F[w]
      PROVE  \/ w \in H /\ (o = Wrote(w, "submissions"))
             \/ w \notin H /\ (o = Fails(w, E[w]))
  BY <1>2 DEF Same
<1>3. \A w \in World : E[w] \in Error
  BY Listed DEF Same
<1>4. \A w \in World : w \in H => w.assignment # "none"
  OBVIOUS
<1> HIDE DEF F, H, E
<1>5. ASSUME NEW w \in World, NEW o \in F[w]
      PROVE  \/ w \in H /\ \E v : Kept(w, v) /\ Is(o, v, "ok", {"submissions"})
             \/ w \notin H /\ E[w] \in Error /\ Is(o, w, E[w], {})
  <2>1. ASSUME w \in H /\ (o = Wrote(w, "submissions"))
        PROVE  \E v : Kept(w, v) /\ Is(o, v, "ok", {"submissions"})
    BY <1>4, <2>1, Updates, DoneKept, WroteKept, Tables
  <2>2. ASSUME w \notin H, o = Fails(w, E[w])
        PROVE  Is(o, w, E[w], {})
    BY <1>3, <2>2, FailsKept
  <2> QED
    BY <1>2, <1>3, <1>5, <2>1, <2>2
<1>6. Answers(Trip(F), H, E, {"submissions"}, "down")
  BY <1>1, <1>5, Answering DEF Meant
<1> QED
  BY <1>1, <1>6 DEF H, E

LEMMA DbCreateFeedbackDoes ==
  Answers(DbCreateFeedback, {w \in World : w.submission # "none"},
          Same("foreign_key"), {"feedbacks"}, "down")
<1> DEFINE F == [w \in World |->
      {IF w.submission = "none" THEN Fails(w, "foreign_key") ELSE Wrote(w, "feedbacks")}]
           H == {w \in World : w.submission # "none"}
           E == Same("foreign_key")
<1>1. DbCreateFeedback = Trip(F) /\ F = [w \in World |-> F[w]]
  BY DEF DbCreateFeedback, RoundTrip, Trip
<1>2. ASSUME NEW w \in World, NEW o \in F[w]
      PROVE  \/ w \in H /\ (o = Wrote(w, "feedbacks"))
             \/ w \notin H /\ (o = Fails(w, E[w]))
  BY <1>2 DEF Same
<1>3. \A w \in World : E[w] \in Error
  BY Listed DEF Same
<1>4. \A w \in World : w \in H => w.submission # "none"
  OBVIOUS
<1> HIDE DEF F, H, E
<1>5. ASSUME NEW w \in World, NEW o \in F[w]
      PROVE  \/ w \in H /\ \E v : Kept(w, v) /\ Is(o, v, "ok", {"feedbacks"})
             \/ w \notin H /\ E[w] \in Error /\ Is(o, w, E[w], {})
  <2>1. ASSUME w \in H /\ (o = Wrote(w, "feedbacks"))
        PROVE  \E v : Kept(w, v) /\ Is(o, v, "ok", {"feedbacks"})
    BY <1>4, <2>1, Updates, DoneKept, WroteKept, Tables
  <2>2. ASSUME w \notin H, o = Fails(w, E[w])
        PROVE  Is(o, w, E[w], {})
    BY <1>3, <2>2, FailsKept
  <2> QED
    BY <1>2, <1>3, <1>5, <2>1, <2>2
<1>6. Answers(Trip(F), H, E, {"feedbacks"}, "down")
  BY <1>1, <1>5, Answering DEF Meant
<1> QED
  BY <1>1, <1>6 DEF H, E

LEMMA DbUpdateFeedbackDoes ==
  Answers(DbUpdateFeedback, {w \in World : w.feedback # "none"},
          Same("ErrNotFound"), {"feedbacks"}, "down")
<1> DEFINE F == [w \in World |->
      IF w.feedback = "none" THEN {Fails(w, "ErrNotFound")}
      ELSE {Wrote([w EXCEPT !.feedback = s], "feedbacks") : s \in {"bare", "filed"}}]
           H == {w \in World : w.feedback # "none"}
           E == Same("ErrNotFound")
<1>1. DbUpdateFeedback = Trip(F) /\ F = [w \in World |-> F[w]]
  BY DEF DbUpdateFeedback, RoundTrip, Trip
<1>2. ASSUME NEW w \in World, NEW o \in F[w]
      PROVE  \/ w \in H /\ (\E s \in {"bare", "filed"} : o = Wrote(WithFeedback(w, s),
                  "feedbacks"))
             \/ w \notin H /\ (o = Fails(w, E[w]))
  BY <1>2 DEF Same, WithFeedback
<1>3. \A w \in World : E[w] \in Error
  BY Listed DEF Same
<1>4. \A w \in World : w \in H => w.feedback # "none"
  OBVIOUS
<1> HIDE DEF F, H, E
<1>5. ASSUME NEW w \in World, NEW o \in F[w]
      PROVE  \/ w \in H /\ \E v : Kept(w, v) /\ Is(o, v, "ok", {"feedbacks"})
             \/ w \notin H /\ E[w] \in Error /\ Is(o, w, E[w], {})
  <2>1. ASSUME w \in H /\ (\E s \in {"bare", "filed"} : o = Wrote(WithFeedback(w, s),
                 "feedbacks"))
        PROVE  \E v : Kept(w, v) /\ Is(o, v, "ok", {"feedbacks"})
    BY <1>4, <2>1, Updates, DoneKept, WroteKept, Tables DEF WorkState
  <2>2. ASSUME w \notin H, o = Fails(w, E[w])
        PROVE  Is(o, w, E[w], {})
    BY <1>3, <2>2, FailsKept
  <2> QED
    BY <1>2, <1>3, <1>5, <2>1, <2>2
<1>6. Answers(Trip(F), H, E, {"feedbacks"}, "down")
  BY <1>1, <1>5, Answering DEF Meant
<1> QED
  BY <1>1, <1>6 DEF H, E

-----------------------------------------------------------------------------
(* Code that only reads, and code that writes *)

\* Whatever comes of it, nothing has been written.
Reader(p) == p \in Code /\ \A w, o : Yields(p, w, o) => o.did = {}

\* It writes T in the end, and nothing when it is refused.
Writer(p, T) == p \in Code /\ \A x : Serves(p, T, x)

LEMMA ReaderAnswers ==
  ASSUME NEW p, NEW H, NEW E, NEW e, Answers(p, H, E, {}, e)
  PROVE  Reader(p)
  BY DEF Answers, Reader

LEMMA ReaderNothing == Reader(<<>>)
  BY Nothing, Zenon DEF Reader

LEMMA ReaderRequire ==
  ASSUME NEW h, NEW e \in Error
  PROVE  Reader(Require(h, e))
<1>1. Require(h, e) \in Code
  BY Required
<1>2. \A w, o : Yields(Require(h, e), w, o) => Is(o, w, e, {})
  BY Required, Zenon
<1> QED
  BY <1>1, <1>2 DEF Reader, Is

LEMMA ReaderJoined ==
  ASSUME NEW p, NEW q, Reader(p), Reader(q)
  PROVE  Reader(p \o q)
<1>1. p \in Code /\ q \in Code
  BY DEF Reader
<1> QED
  BY <1>1, Joined DEF Reader

LEMMA ReaderTranslated ==
  ASSUME NEW p, Reader(p), NEW G \in Translation
  PROVE  Reader(Translated(p, G))
<1>1. p \in Code
  BY DEF Reader
<1> QED
  BY <1>1, Translates DEF Reader, Renames

LEMMA ReaderTested ==
  ASSUME NEW p, Reader(p), NEW H, NEW e \in Error
  PROVE  Reader(TestedBy(p, H, e))
<1>1. p \in Code
  BY DEF Reader
<1> QED
  BY <1>1, Tests DEF Reader, Survives, Is

LEMMA ReaderRemote ==
  ASSUME NEW p, Reader(p)
  PROVE  Reader(Remote(p))
<1>1. Reader(Call)
  BY Called DEF Reader, Is
<1>2. Remote(p) = Call \o p
  BY Called
<1> QED
  BY <1>1, <1>2, ReaderJoined

LEMMA WriterReads ==
  ASSUME NEW p, Reader(p)
  PROVE  Writer(p, {})
  BY ServesSilent DEF Reader, Writer

LEMMA WriterAnswers ==
  ASSUME NEW p, NEW H, NEW E, NEW T \in SUBSET Written, NEW e \in Fatal, Answers(p, H, E, T, e)
  PROVE  Writer(p, T)
<1>1. ASSUME NEW x
      PROVE  Serves(p, T, x)
  <2>1. \A w, o : Yields(p, w, o) =>
          /\ o.err = "ok" => o.did = T
          /\ o.err \notin Fatal \cup {"ok"} => o.did = {}
    BY Errors DEF Answers
  <2> QED
    BY <2>1, ServesSingle DEF Answers
<1> QED
  BY <1>1 DEF Answers, Writer

LEMMA WriterJoined ==
  ASSUME NEW p, NEW q, NEW T, Reader(p), Writer(q, T)
  PROVE  Writer(p \o q, T)
<1>1. p \in Code /\ q \in Code
  BY DEF Reader, Writer
<1>2. ASSUME NEW x
      PROVE  Serves(p \o q, T, x)
  <2>1. Serves(p, {}, x) /\ Serves(q, T, x)
    BY WriterReads DEF Writer
  <2>2. Serves(p \o q, {} \cup T, x)
    BY <1>1, <2>1, ServesJoined
  <2>3. {} \cup T = T
    OBVIOUS
  <2> QED
    BY <2>2, <2>3
<1> QED
  BY <1>1, <1>2, Joined DEF Writer

LEMMA WriterTranslated ==
  ASSUME NEW p, NEW T, Writer(p, T), NEW G, Keeps(G)
  PROVE  Writer(Translated(p, G), T)
  BY ServesTranslated, Translates DEF Writer, Keeps

LEMMA WriterRemote ==
  ASSUME NEW p, NEW T, Writer(p, T)
  PROVE  Writer(Remote(p), T)
<1>1. Reader(Call)
  BY Called DEF Reader, Is
<1>2. Remote(p) = Call \o p
  BY Called
<1> QED
  BY <1>1, <1>2, WriterJoined

LEMMA Keepers ==
  /\ Keeps(Handled)
  /\ Keeps(HomeworkStatus)
  /\ Keeps(Status)
  /\ \A P \in SUBSET UserErrors : Keeps(UserStatus(P))
  /\ \A P \in SUBSET {"ErrValidation", "ErrNotFound"} : Keeps(FileStatus(P))
  /\ \A P \in SUBSET PaymentErrors : Keeps(PaymentStatus(P))
  /\ Keeps(Always("Internal"))
  /\ Keeps(Either("ErrLessonNotFound", "NotFound", "Internal"))
<1>1. Keeps(Handled)
  BY Translations DEF Keeps, Handled, Fatal, Error
<1>2. Keeps(HomeworkStatus)
  BY Translations DEF Keeps, HomeworkStatus, Fatal, Error
<1>3. Keeps(Status)
  BY Translations DEF Keeps, Status, Fatal, Error
<1>4. \A P \in SUBSET UserErrors : Keeps(UserStatus(P))
  BY Translations DEF Keeps, UserStatus, UserErrors, Fatal, Error
<1>5. \A P \in SUBSET {"ErrValidation", "ErrNotFound"} : Keeps(FileStatus(P))
  BY Translations DEF Keeps, FileStatus, Fatal, Error
<1>6. \A P \in SUBSET PaymentErrors : Keeps(PaymentStatus(P))
  BY Translations DEF Keeps, PaymentStatus, PaymentErrors, Fatal, Error
<1>7. Keeps(Always("Internal"))
  BY Translations, Listed DEF Keeps, Always, Fatal, Error
<1>8. Keeps(Either("ErrLessonNotFound", "NotFound", "Internal"))
  <2>1. Either("ErrLessonNotFound", "NotFound", "Internal") \in Translation
    BY Translations, Listed
  <2>2. \A e \in Fatal : e \in Error /\ e # "ErrLessonNotFound"
    BY DEF Fatal, Error
  <2>3. "Internal" \in Fatal
    BY DEF Fatal
  <2> QED
    BY <2>1, <2>2, <2>3 DEF Keeps, Either
<1> QED
  BY <1>1, <1>2, <1>3, <1>4, <1>5, <1>6, <1>7, <1>8

LEMMA ReadLayers ==
  ASSUME NEW p, Reader(p)
  PROVE  /\ Reader(toGRPCError(p))
         /\ Reader(mapErr(p))
         /\ \A P \in SUBSET UserErrors : Reader(mapError(p, P))
         /\ \A P \in SUBSET {"ErrValidation", "ErrNotFound"} : Reader(fileMapError(p, P))
         /\ \A P \in SUBSET PaymentErrors : Reader(paymentMapError(p, P))
         /\ \A b \in Error : Reader(Becomes(p, b))
         /\ \A a : Reader(NotFoundOr(p, a))
         /\ \A a : \A b \in Error : Reader(Renamed(p, a, b))
         /\ Reader(FileNotFound(p))
<1>1. p \in Code
  BY DEF Reader
<1>2. Reader(toGRPCError(p)) /\ Reader(mapErr(p))
  BY <1>1, Layers, Translations, ReaderTranslated
<1>3. \A P \in SUBSET UserErrors : Reader(mapError(p, P))
  BY <1>1, Layers, Translations, ReaderTranslated
<1>4. \A P \in SUBSET {"ErrValidation", "ErrNotFound"} : Reader(fileMapError(p, P))
  BY <1>1, Layers, Translations, ReaderTranslated
<1>5. \A P \in SUBSET PaymentErrors : Reader(paymentMapError(p, P))
  BY <1>1, Layers, Translations, ReaderTranslated
<1>6. \A b \in Error : Reader(Becomes(p, b))
  BY <1>1, Layers, Translations, ReaderTranslated
<1>7. ASSUME NEW a
      PROVE  Reader(NotFoundOr(p, a))
  <2>1. Either(a, "NotFound", "Internal") \in Translation
    BY Translations, Listed
  <2> QED
    BY <1>1, <2>1, Layers, ReaderTranslated
<1>8. \A a : \A b \in Error : Reader(Renamed(p, a, b))
  BY <1>1, Layers, Translations, ReaderTranslated
<1>9. Reader(FileNotFound(p))
  BY <1>1, Layers, Translations, ReaderTranslated, Listed
<1> QED
  BY <1>2, <1>3, <1>4, <1>5, <1>6, <1>7, <1>8, <1>9

LEMMA WriteLayers ==
  ASSUME NEW p, NEW T, Writer(p, T)
  PROVE  /\ Writer(toGRPCError(p), T)
         /\ Writer(mapErr(p), T)
         /\ \A P \in SUBSET UserErrors : Writer(mapError(p, P), T)
         /\ \A P \in SUBSET {"ErrValidation", "ErrNotFound"} : Writer(fileMapError(p, P), T)
         /\ \A P \in SUBSET PaymentErrors : Writer(paymentMapError(p, P), T)
         /\ Writer(Becomes(p, "Internal"), T)
<1>1. p \in Code
  BY DEF Writer
<1>2. Writer(toGRPCError(p), T) /\ Writer(mapErr(p), T)
  BY <1>1, Layers, Keepers, WriterTranslated
<1>3. \A P \in SUBSET UserErrors : Writer(mapError(p, P), T)
  BY <1>1, Layers, Keepers, WriterTranslated
<1>4. \A P \in SUBSET {"ErrValidation", "ErrNotFound"} : Writer(fileMapError(p, P), T)
  BY <1>1, Layers, Keepers, WriterTranslated
<1>5. \A P \in SUBSET PaymentErrors : Writer(paymentMapError(p, P), T)
  BY <1>1, Layers, Keepers, WriterTranslated
<1>6. Writer(Becomes(p, "Internal"), T)
  BY <1>1, Layers, Keepers, WriterTranslated
<1> QED
  BY <1>2, <1>3, <1>4, <1>5, <1>6

LEMMA GateLayers ==
  ASSUME NEW p \in Code, NEW t, NEW S, Gate(p, t, S)
  PROVE  /\ Gate(toGRPCError(p), t, S)
         /\ Gate(mapErr(p), t, S)
         /\ \A P \in SUBSET UserErrors : Gate(mapError(p, P), t, S)
         /\ \A P \in SUBSET {"ErrValidation", "ErrNotFound"} : Gate(fileMapError(p, P), t, S)
         /\ \A P \in SUBSET PaymentErrors : Gate(paymentMapError(p, P), t, S)
         /\ \A b \in Error : Gate(Becomes(p, b), t, S)
         /\ \A a : Gate(NotFoundOr(p, a), t, S)
         /\ \A a : \A b \in Error : Gate(Renamed(p, a, b), t, S)
         /\ Gate(FileNotFound(p), t, S)
<1>1. Gate(toGRPCError(p), t, S) /\ Gate(mapErr(p), t, S)
  BY Layers, Translations, GateTranslated
<1>2. \A P \in SUBSET UserErrors : Gate(mapError(p, P), t, S)
  BY Layers, Translations, GateTranslated
<1>3. \A P \in SUBSET {"ErrValidation", "ErrNotFound"} : Gate(fileMapError(p, P), t, S)
  BY Layers, Translations, GateTranslated
<1>4. \A P \in SUBSET PaymentErrors : Gate(paymentMapError(p, P), t, S)
  BY Layers, Translations, GateTranslated
<1>5. \A b \in Error : Gate(Becomes(p, b), t, S)
  BY Layers, Translations, GateTranslated
<1>6. ASSUME NEW a
      PROVE  Gate(NotFoundOr(p, a), t, S)
  <2>1. Either(a, "NotFound", "Internal") \in Translation
    BY Translations, Listed
  <2> QED
    BY <2>1, Layers, GateTranslated
<1>7. \A a : \A b \in Error : Gate(Renamed(p, a, b), t, S)
  BY Layers, Translations, GateTranslated
<1>8. Gate(FileNotFound(p), t, S)
  BY Layers, Translations, GateTranslated, Listed
<1> QED
  BY <1>1, <1>2, <1>3, <1>4, <1>5, <1>6, <1>7, <1>8

LEMMA GateRemote ==
  ASSUME NEW p \in Code, NEW t, NEW S, Gate(p, t, S)
  PROVE  Gate(Remote(p), t, S)
  BY Called, GateRight

LEMMA GateAnswers ==
  ASSUME NEW p, NEW H, NEW E, NEW T, NEW e \in Error, Answers(p, H, E, T, e), NEW t, NEW S,
         \A w \in World : w \in H => w[t] \in S
  PROVE  Gate(p, t, S)
<1>1. p \in Code /\ Len(p) = 1
  BY DEF Answers
<1>2. \A w, o : Yields(p, w, o) /\ o.err = "ok" => w[t] \in S
  BY Errors DEF Answers
<1> QED
  BY <1>1, <1>2, GateSingle

\* The statements that read write nothing.
LEMMA ReadStatements ==
  /\ Reader(DbGetUser(TRUE))
  /\ Reader(DbGetUser(FALSE))
  /\ \A r : Reader(DbGetTutorProfile(r))
  /\ \A r : Reader(DbGetTutorStudent(r))
  /\ Reader(DbListTutorStudents)
  /\ Reader(DbGetReceiptByID)
  /\ Reader(DbGetFile)
  /\ Reader(DbGetSlot)
  /\ Reader(DbGetLesson)
  /\ Reader(DbGetAssignment)
  /\ Reader(DbGetSubmission)
  /\ Reader(DbGetFeedback)
  /\ Reader(SelectAll)
<1>1. Reader(DbGetUser(TRUE))
  BY DbGetOwnUserDoes, ReaderAnswers
<1>2. Reader(DbGetUser(FALSE))
  BY DbGetOtherUserDoes, ReaderAnswers
<1>3. \A r : Reader(DbGetTutorProfile(r))
  BY DbGetTutorProfileDoes, ReaderAnswers
<1>4. \A r : Reader(DbGetTutorStudent(r))
  BY DbGetTutorStudentDoes, ReaderAnswers
<1>5. Reader(DbListTutorStudents)
  BY DbListTutorStudentsDoes, ReaderAnswers
<1>6. Reader(DbGetReceiptByID)
  BY DbGetReceiptByIDDoes, ReaderAnswers
<1>7. Reader(DbGetFile)
  BY DbGetFileDoes, ReaderAnswers
<1>8. Reader(DbGetSlot)
  BY DbGetSlotDoes, ReaderAnswers
<1>9. Reader(DbGetLesson)
  BY DbGetLessonDoes, ReaderAnswers
<1>10. Reader(DbGetAssignment)
  BY DbGetAssignmentDoes, ReaderAnswers
<1>11. Reader(DbGetSubmission)
  BY DbGetSubmissionDoes, ReaderAnswers
<1>12. Reader(DbGetFeedback)
  BY DbGetFeedbackDoes, ReaderAnswers
<1>13. Reader(SelectAll)
  BY SelectAllDoes, ReaderAnswers
<1> QED
  BY <1>1, <1>2, <1>3, <1>4, <1>5, <1>6, <1>7, <1>8, <1>9, <1>10, <1>11, <1>12, <1>13

\* Those that write write their table, or refuse and write nothing.
LEMMA WriteStatements ==
  /\ Writer(UpdatesUser, {"users"})
  /\ \A r : Writer(UpdatesTutorProfile(r), {"tutor_profiles"})
  /\ \A r : \A statuses \in SUBSET PairState : Writer(UpdatesTutorStudent(r, statuses),
              {"tutor_students"})
  /\ Writer(DbRegister, {"users"})
  /\ Writer(DbCreateTutorStudent, {"tutor_students"})
  /\ \A r : Writer(DbDeleteTutorStudent(r), {"tutor_students"})
  /\ Writer(DbCreateFile, {"files"})
  /\ \A r : Writer(DbCreateSlot(r), {"slots"})
  /\ \A r : Writer(DbUpdateSlot(r), {"slots"})
  /\ Writer(DbDeleteSlot, {"slots"})
  /\ Writer(DbCreateLessonAndBookSlot, {"lessons"})
  /\ Writer(DbUpdateLesson, {"lessons"})
  /\ Writer(DbCancelLessonAndFreeSlot, {"lessons"})
  /\ Writer(DbMarkAsPaid, {"lessons"})
  /\ Writer(DbCreateReceipt, {"receipts"})
  /\ Writer(DbCreateAssignment, {"assignments"})
  /\ Writer(DbUpdateAssignment, {"assignments"})
  /\ Writer(DbDeleteAssignment, {"assignments"})
  /\ Writer(DbCreateSubmission, {"submissions"})
  /\ Writer(DbCreateFeedback, {"feedbacks"})
  /\ Writer(DbUpdateFeedback, {"feedbacks"})
<1>1. /\ "down" \in Fatal /\ "repository error" \in Fatal
      /\ \A t \in Written : {t} \in SUBSET Written
  BY DEF Fatal
<1>2. Writer(UpdatesUser, {"users"})
  BY <1>1, Tables, UpdatesUserDoes, WriterAnswers
<1>3. \A r : Writer(UpdatesTutorProfile(r), {"tutor_profiles"})
  BY <1>1, Tables, UpdatesTutorProfileDoes, WriterAnswers
<1>4. \A r : \A statuses \in SUBSET PairState : Writer(UpdatesTutorStudent(r, statuses),
               {"tutor_students"})
  BY <1>1, Tables, UpdatesTutorStudentDoes, WriterAnswers
<1>5. Writer(DbRegister, {"users"})
  BY <1>1, Tables, DbRegisterDoes, WriterAnswers
<1>6. Writer(DbCreateTutorStudent, {"tutor_students"})
  BY <1>1, Tables, DbCreateTutorStudentDoes, WriterAnswers
<1>7. \A r : Writer(DbDeleteTutorStudent(r), {"tutor_students"})
  BY <1>1, Tables, DbDeleteTutorStudentDoes, WriterAnswers
<1>8. Writer(DbCreateFile, {"files"})
  BY <1>1, Tables, DbCreateFileDoes, WriterAnswers
<1>9. \A r : Writer(DbCreateSlot(r), {"slots"})
  BY <1>1, Tables, DbCreateSlotDoes, WriterAnswers
<1>10. \A r : Writer(DbUpdateSlot(r), {"slots"})
  BY <1>1, Tables, DbUpdateSlotDoes, WriterAnswers
<1>11. Writer(DbDeleteSlot, {"slots"})
  BY <1>1, Tables, DbDeleteSlotDoes, WriterAnswers
<1>12. Writer(DbCreateLessonAndBookSlot, {"lessons"})
  BY <1>1, Tables, DbCreateLessonAndBookSlotDoes, WriterAnswers
<1>13. Writer(DbUpdateLesson, {"lessons"})
  BY <1>1, Tables, DbUpdateLessonDoes, WriterAnswers
<1>14. Writer(DbCancelLessonAndFreeSlot, {"lessons"})
  BY <1>1, Tables, DbCancelLessonAndFreeSlotDoes, WriterAnswers
<1>15. Writer(DbMarkAsPaid, {"lessons"})
  BY <1>1, Tables, DbMarkAsPaidDoes, WriterAnswers
<1>16. Writer(DbCreateReceipt, {"receipts"})
  BY <1>1, Tables, DbCreateReceiptDoes, WriterAnswers
<1>17. Writer(DbCreateAssignment, {"assignments"})
  BY <1>1, Tables, DbCreateAssignmentDoes, WriterAnswers
<1>18. Writer(DbUpdateAssignment, {"assignments"})
  BY <1>1, Tables, DbUpdateAssignmentDoes, WriterAnswers
<1>19. Writer(DbDeleteAssignment, {"assignments"})
  BY <1>1, Tables, DbDeleteAssignmentDoes, WriterAnswers
<1>20. Writer(DbCreateSubmission, {"submissions"})
  BY <1>1, Tables, DbCreateSubmissionDoes, WriterAnswers
<1>21. Writer(DbCreateFeedback, {"feedbacks"})
  BY <1>1, Tables, DbCreateFeedbackDoes, WriterAnswers
<1>22. Writer(DbUpdateFeedback, {"feedbacks"})
  BY <1>1, Tables, DbUpdateFeedbackDoes, WriterAnswers
<1> QED
  BY <1>2, <1>3, <1>4, <1>5, <1>6, <1>7, <1>8, <1>9, <1>10, <1>11, <1>12, <1>13, <1>14, <1>15,
     <1>16, <1>17, <1>18, <1>19, <1>20, <1>21, <1>22

\* And they let by only those whose row is there.
LEMMA GateStatements ==
  /\ Gate(DbGetUser(FALSE), "person", {"present"})
  /\ \A r : Role(r) # "tutor" => Bars(DbGetTutorProfile(r))
  /\ \A r : Gate(DbGetTutorStudent(r), "pair", {"invited", "active"})
  /\ \A r : ~NamesPair(r) => Bars(DbGetTutorStudent(r))
  /\ Gate(DbGetReceiptByID, "receipt", {"present"})
  /\ Gate(DbGetFile, "file", {"present"})
  /\ Gate(DbGetSlot, "slot", {"free", "booked", "used"})
  /\ Gate(DbGetLesson, "lesson", {"unpaid", "paid"})
  /\ Gate(DbGetAssignment, "assignment", {"bare", "filed"})
  /\ Gate(DbGetSubmission, "submission", {"bare", "filed"})
  /\ Gate(DbGetFeedback, "feedback", {"bare", "filed"})
  /\ \A r : Role(r) # "tutor" => Bars(UpdatesTutorProfile(r))
  /\ \A r : \A statuses \in SUBSET PairState : Gate(UpdatesTutorStudent(r, statuses), "pair",
              {"invited", "active"})
  /\ \A r : \A statuses \in SUBSET PairState : ~NamesPair(r) => Bars(UpdatesTutorStudent(r,
              statuses))
  /\ Gate(DbRegister, "person", {"none"})
  /\ Gate(DbCreateTutorStudent, "person", {"present"})
  /\ Gate(DbCreateTutorStudent, "pair", {"none"})
  /\ \A r : Gate(DbDeleteTutorStudent(r), "pair", {"invited", "active"})
  /\ \A r : ~NamesPair(r) => Bars(DbDeleteTutorStudent(r))
  /\ Gate(DbDeleteSlot, "slot", {"free"})
  /\ Gate(DbCreateLessonAndBookSlot, "slot", {"free"})
<1>1. "down" \in Error /\ "repository error" \in Error
  BY Listed
<1>2. Gate(DbGetUser(FALSE), "person", {"present"})
  <2> DEFINE H == {w \in World : w.person = "present"}
  <2>1. \A w \in World : w \in H => w["person"] \in {"present"}
    BY DEF World, RowState
  <2>2. Answers(DbGetUser(FALSE), H, Same("ErrNotFound"), {}, "repository error")
    BY DbGetOtherUserDoes
  <2> HIDE DEF H
  <2> QED
    BY <1>1, <2>1, <2>2, GateAnswers
<1>3. ASSUME NEW r, Role(r) # "tutor"
      PROVE  Bars(DbGetTutorProfile(r))
  <2> DEFINE H == {w \in World : Role(r) = "tutor"}
  <2>1. \A w \in World : w \in H => w["person"] \in {}
    BY <1>3 DEF World, RowState
  <2>2. Answers(DbGetTutorProfile(r), H, Same("ErrNotFound"), {}, "repository error")
    BY DbGetTutorProfileDoes
  <2> HIDE DEF H
  <2> QED
    BY <1>1, <2>1, <2>2, GateAnswers DEF Bars
<1>4. ASSUME NEW r
      PROVE  Gate(DbGetTutorStudent(r), "pair", {"invited", "active"})
  <2> DEFINE H == {w \in World : PairOf(w, r) # "none"}
  <2>1. \A w \in World : w \in H => w["pair"] \in {"invited", "active"}
    BY DEF World, PairState, PairOf
  <2>2. Answers(DbGetTutorStudent(r), H, Same("ErrNotFound"), {}, "repository error")
    BY DbGetTutorStudentDoes
  <2> HIDE DEF H
  <2> QED
    BY <1>1, <2>1, <2>2, GateAnswers
<1>5. ASSUME NEW r, ~NamesPair(r)
      PROVE  Bars(DbGetTutorStudent(r))
  <2> DEFINE H == {w \in World : PairOf(w, r) # "none"}
  <2>1. \A w \in World : w \in H => w["person"] \in {}
    BY <1>5 DEF World, RowState, PairOf
  <2>2. Answers(DbGetTutorStudent(r), H, Same("ErrNotFound"), {}, "repository error")
    BY DbGetTutorStudentDoes
  <2> HIDE DEF H
  <2> QED
    BY <1>1, <2>1, <2>2, GateAnswers DEF Bars
<1>6. Gate(DbGetReceiptByID, "receipt", {"present"})
  <2> DEFINE H == {w \in World : w.receipt = "present"}
  <2>1. \A w \in World : w \in H => w["receipt"] \in {"present"}
    BY DEF World
  <2>2. Answers(DbGetReceiptByID, H, Same("ErrNotFound"), {}, "repository error")
    BY DbGetReceiptByIDDoes
  <2> HIDE DEF H
  <2> QED
    BY <1>1, <2>1, <2>2, GateAnswers
<1>7. Gate(DbGetFile, "file", {"present"})
  <2> DEFINE H == {w \in World : w.file = "present"}
  <2>1. \A w \in World : w \in H => w["file"] \in {"present"}
    BY DEF World
  <2>2. Answers(DbGetFile, H, Same("no_rows"), {}, "down")
    BY DbGetFileDoes
  <2> HIDE DEF H
  <2> QED
    BY <1>1, <2>1, <2>2, GateAnswers
<1>8. Gate(DbGetSlot, "slot", {"free", "booked", "used"})
  <2> DEFINE H == {w \in World : w.slot # "none"}
  <2>1. \A w \in World : w \in H => w["slot"] \in {"free", "booked", "used"}
    BY DEF World, SlotState
  <2>2. Answers(DbGetSlot, H, Same("ErrSlotNotFound"), {}, "down")
    BY DbGetSlotDoes
  <2> HIDE DEF H
  <2> QED
    BY <1>1, <2>1, <2>2, GateAnswers
<1>9. Gate(DbGetLesson, "lesson", {"unpaid", "paid"})
  <2> DEFINE H == {w \in World : w.lesson # "none"}
  <2>1. \A w \in World : w \in H => w["lesson"] \in {"unpaid", "paid"}
    BY DEF World, LessonState
  <2>2. Answers(DbGetLesson, H, Same("ErrLessonNotFound"), {}, "down")
    BY DbGetLessonDoes
  <2> HIDE DEF H
  <2> QED
    BY <1>1, <2>1, <2>2, GateAnswers
<1>10. Gate(DbGetAssignment, "assignment", {"bare", "filed"})
  <2> DEFINE H == {w \in World : w.assignment # "none"}
  <2>1. \A w \in World : w \in H => w["assignment"] \in {"bare", "filed"}
    BY DEF World, WorkState
  <2>2. Answers(DbGetAssignment, H, Same("ErrNotFound"), {}, "down")
    BY DbGetAssignmentDoes
  <2> HIDE DEF H
  <2> QED
    BY <1>1, <2>1, <2>2, GateAnswers
<1>11. Gate(DbGetSubmission, "submission", {"bare", "filed"})
  <2> DEFINE H == {w \in World : w.submission # "none"}
  <2>1. \A w \in World : w \in H => w["submission"] \in {"bare", "filed"}
    BY DEF World, WorkState
  <2>2. Answers(DbGetSubmission, H, Same("ErrNotFound"), {}, "down")
    BY DbGetSubmissionDoes
  <2> HIDE DEF H
  <2> QED
    BY <1>1, <2>1, <2>2, GateAnswers
<1>12. Gate(DbGetFeedback, "feedback", {"bare", "filed"})
  <2> DEFINE H == {w \in World : w.feedback # "none"}
  <2>1. \A w \in World : w \in H => w["feedback"] \in {"bare", "filed"}
    BY DEF World, WorkState
  <2>2. Answers(DbGetFeedback, H, Same("ErrNotFound"), {}, "down")
    BY DbGetFeedbackDoes
  <2> HIDE DEF H
  <2> QED
    BY <1>1, <2>1, <2>2, GateAnswers
<1>13. ASSUME NEW r, Role(r) # "tutor"
      PROVE  Bars(UpdatesTutorProfile(r))
  <2> DEFINE H == {w \in World : Role(r) = "tutor"}
  <2>1. \A w \in World : w \in H => w["person"] \in {}
    BY <1>13 DEF World, RowState
  <2>2. Answers(UpdatesTutorProfile(r), H, Same("ErrNotFound"), {"tutor_profiles"},
          "repository error")
    BY UpdatesTutorProfileDoes
  <2> HIDE DEF H
  <2> QED
    BY <1>1, <2>1, <2>2, GateAnswers DEF Bars
<1>14. ASSUME NEW r, NEW statuses \in SUBSET PairState
      PROVE  Gate(UpdatesTutorStudent(r, statuses), "pair", {"invited", "active"})
  <2> DEFINE H == {w \in World : PairOf(w, r) # "none"}
  <2>1. \A w \in World : w \in H => w["pair"] \in {"invited", "active"}
    BY DEF World, PairState, PairOf
  <2>2. Answers(UpdatesTutorStudent(r, statuses), H, Same("ErrNotFound"), {"tutor_students"},
          "repository error")
    BY UpdatesTutorStudentDoes
  <2> HIDE DEF H
  <2> QED
    BY <1>1, <2>1, <2>2, GateAnswers
<1>15. ASSUME NEW r, NEW statuses \in SUBSET PairState, ~NamesPair(r)
      PROVE  Bars(UpdatesTutorStudent(r, statuses))
  <2> DEFINE H == {w \in World : PairOf(w, r) # "none"}
  <2>1. \A w \in World : w \in H => w["person"] \in {}
    BY <1>15 DEF World, RowState, PairOf
  <2>2. Answers(UpdatesTutorStudent(r, statuses), H, Same("ErrNotFound"), {"tutor_students"},
          "repository error")
    BY UpdatesTutorStudentDoes
  <2> HIDE DEF H
  <2> QED
    BY <1>1, <2>1, <2>2, GateAnswers DEF Bars
<1>16. Gate(DbRegister, "person", {"none"})
  <2> DEFINE H == {w \in World : w.person = "none"}
  <2>1. \A w \in World : w \in H => w["person"] \in {"none"}
    BY DEF World, RowState
  <2>2. Answers(DbRegister, H, Same("ErrAlreadyExists"), {"users"}, "repository error")
    BY DbRegisterDoes
  <2> HIDE DEF H
  <2> QED
    BY <1>1, <2>1, <2>2, GateAnswers
<1>17. Gate(DbCreateTutorStudent, "person", {"present"})
  <2> DEFINE H == {w \in World : w.pair = "none" /\ w.person # "none"}
  <2>1. \A w \in World : w \in H => w["person"] \in {"present"}
    BY DEF World, RowState
  <2>2. Answers(DbCreateTutorStudent, H, Nobody("repository error", "ErrAlreadyExists"),
          {"tutor_students"}, "repository error")
    BY DbCreateTutorStudentDoes
  <2> HIDE DEF H
  <2> QED
    BY <1>1, <2>1, <2>2, GateAnswers
<1>18. Gate(DbCreateTutorStudent, "pair", {"none"})
  <2> DEFINE H == {w \in World : w.pair = "none" /\ w.person # "none"}
  <2>1. \A w \in World : w \in H => w["pair"] \in {"none"}
    BY DEF World, PairState
  <2>2. Answers(DbCreateTutorStudent, H, Nobody("repository error", "ErrAlreadyExists"),
          {"tutor_students"}, "repository error")
    BY DbCreateTutorStudentDoes
  <2> HIDE DEF H
  <2> QED
    BY <1>1, <2>1, <2>2, GateAnswers
<1>19. ASSUME NEW r
      PROVE  Gate(DbDeleteTutorStudent(r), "pair", {"invited", "active"})
  <2> DEFINE H == {w \in World : PairOf(w, r) # "none"}
  <2>1. \A w \in World : w \in H => w["pair"] \in {"invited", "active"}
    BY DEF World, PairState, PairOf
  <2>2. Answers(DbDeleteTutorStudent(r), H, Same("ErrNotFound"), {"tutor_students"}, "down")
    BY DbDeleteTutorStudentDoes
  <2> HIDE DEF H
  <2> QED
    BY <1>1, <2>1, <2>2, GateAnswers
<1>20. ASSUME NEW r, ~NamesPair(r)
      PROVE  Bars(DbDeleteTutorStudent(r))
  <2> DEFINE H == {w \in World : PairOf(w, r) # "none"}
  <2>1. \A w \in World : w \in H => w["person"] \in {}
    BY <1>20 DEF World, RowState, PairOf
  <2>2. Answers(DbDeleteTutorStudent(r), H, Same("ErrNotFound"), {"tutor_students"}, "down")
    BY DbDeleteTutorStudentDoes
  <2> HIDE DEF H
  <2> QED
    BY <1>1, <2>1, <2>2, GateAnswers DEF Bars
<1>21. Gate(DbDeleteSlot, "slot", {"free"})
  <2> DEFINE H == {w \in World : w.slot = "free"}
  <2>1. \A w \in World : w \in H => w["slot"] \in {"free"}
    BY DEF World, SlotState
  <2>2. Answers(DbDeleteSlot, H, Slotless("ErrSlotNotFound", "foreign_key"), {"slots"}, "down")
    BY DbDeleteSlotDoes
  <2> HIDE DEF H
  <2> QED
    BY <1>1, <2>1, <2>2, GateAnswers
<1>22. Gate(DbCreateLessonAndBookSlot, "slot", {"free"})
  <2> DEFINE H == {w \in World : w.slot = "free"}
  <2>1. \A w \in World : w \in H => w["slot"] \in {"free"}
    BY DEF World, SlotState
  <2>2. Answers(DbCreateLessonAndBookSlot, H, Same("transaction"), {"lessons"}, "down")
    BY DbCreateLessonAndBookSlotDoes
  <2> HIDE DEF H
  <2> QED
    BY <1>1, <2>1, <2>2, GateAnswers
<1> QED
  BY <1>2, <1>3, <1>4, <1>5, <1>6, <1>7, <1>8, <1>9, <1>10, <1>11, <1>12, <1>13, <1>14, <1>15,
     <1>16, <1>17, <1>18, <1>19, <1>20, <1>21, <1>22

-----------------------------------------------------------------------------
(* The user service *)

LEMMA AreCode ==
  ASSUME NEW p, Reader(p) \/ \E T : Writer(p, T)
  PROVE  p \in Code
  BY DEF Reader, Writer

LEMMA Checks ==
  ASSUME NEW r
  PROVE  /\ \A wrong : Reader(Parsed(r, wrong))
         /\ Reader(getUserId(r)) /\ Reader(getRole(r))
         /\ \A ids : Reader(ensureCurrentUserIs(r, ids))
         /\ \A role : Reader(ensureCurrentUserRole(r, role))
         /\ Reader(SetsSomething(r))
<1>1. \A wrong : Reader(Parsed(r, wrong))
  BY ReaderRequire, Listed DEF Parsed
<1>2. Reader(getUserId(r)) /\ Reader(getRole(r))
  <2>1. "ErrAuthentication" \in Error
    BY Listed
  <2> QED
    BY <2>1, ReaderRequire, Zenon DEF getUserId, getRole
<1>3. ASSUME NEW ids
      PROVE  Reader(ensureCurrentUserIs(r, ids))
  <2>1. "ErrPermissionDenied" \in Error
    BY Listed
  <2>2. Reader(Require(r.who \in ids, "ErrPermissionDenied"))
    BY <2>1, ReaderRequire, Zenon
  <2> QED
    BY <1>2, <2>2, ReaderJoined, Zenon DEF ensureCurrentUserIs
<1>4. \A role : Reader(ensureCurrentUserRole(r, role))
  BY <1>2, ReaderRequire, ReaderJoined, Listed DEF ensureCurrentUserRole
<1>5. Reader(SetsSomething(r))
  BY ReaderRequire, Listed DEF SetsSomething
<1> QED
  BY <1>1, <1>2, <1>3, <1>4, <1>5

LEMMA CheckBars ==
  ASSUME NEW r
  PROVE  /\ \A ids : r.who \notin ids => Bars(ensureCurrentUserIs(r, ids))
         /\ \A role : Role(r) # role => Bars(ensureCurrentUserRole(r, role))
         /\ \A wrong : r.form = wrong => Bars(Parsed(r, wrong))
         /\ r.form = "empty" => Bars(SetsSomething(r))
<1>1. ASSUME NEW ids, r.who \notin ids
      PROVE  Bars(ensureCurrentUserIs(r, ids))
  <2>0. "ErrPermissionDenied" \in Error
    BY Listed
  <2>1. Bars(Require(r.who \in ids, "ErrPermissionDenied"))
    BY <1>1, <2>0, RequireBars, Zenon
  <2>2. Reader(getUserId(r)) /\ Reader(Require(r.who \in ids, "ErrPermissionDenied"))
    BY <2>0, Checks, ReaderRequire, Zenon
  <2> QED
    BY <2>1, <2>2, AreCode, GateRight DEF Bars, ensureCurrentUserIs
<1>2. ASSUME NEW role, Role(r) # role
      PROVE  Bars(ensureCurrentUserRole(r, role))
  <2>0. "ErrPermissionDenied" \in Error
    BY Listed
  <2>1. Bars(Require(Role(r) = role, "ErrPermissionDenied"))
    BY <1>2, <2>0, RequireBars, Zenon
  <2>2. Reader(getRole(r)) /\ Reader(Require(Role(r) = role, "ErrPermissionDenied"))
    BY <2>0, Checks, ReaderRequire, Zenon
  <2> QED
    BY <2>1, <2>2, AreCode, GateRight DEF Bars, ensureCurrentUserRole
<1>3. ASSUME NEW wrong, r.form = wrong
      PROVE  Bars(Parsed(r, wrong))
  BY <1>3, RequireBars, Listed DEF Parsed
<1>4. ASSUME r.form = "empty"
      PROVE  Bars(SetsSomething(r))
  BY <1>4, RequireBars, Listed DEF SetsSomething
<1> QED
  BY <1>1, <1>2, <1>3, <1>4

LEMMA RpcGetUserDoes ==
  ASSUME NEW r
  PROVE  /\ Reader(RpcGetUser(r))
         /\ Gate(RpcGetUser(r), "person", {"present"})
<1>1. Reader(DbGetUser(FALSE))
  BY ReadStatements
<1>2. Gate(DbGetUser(FALSE), "person", {"present"})
  BY GateStatements
<1>3. Reader(SvcGetUserPublic(r))
  BY <1>1 DEF SvcGetUserPublic
<1>4. Gate(SvcGetUserPublic(r), "person", {"present"})
  BY <1>2 DEF SvcGetUserPublic
<1>5. Reader(mapError(SvcGetUserPublic(r), {"ErrNotFound"}))
  BY <1>3, ReadLayers DEF UserErrors
<1>6. Gate(mapError(SvcGetUserPublic(r), {"ErrNotFound"}), "person", {"present"})
  BY <1>3, <1>4, AreCode, GateLayers DEF UserErrors
<1>7. Reader(RpcGetUser(r))
  BY <1>5, Checks, ReaderJoined DEF RpcGetUser
<1>8. Gate(RpcGetUser(r), "person", {"present"})
  BY <1>5, <1>6, Checks, AreCode, GateRight DEF RpcGetUser
<1> QED
  BY <1>7, <1>8

LEMMA RpcGetMeDoes ==
  ASSUME NEW r
  PROVE  Reader(RpcGetMe(r))
<1>1. Reader(DbGetUser(TRUE))
  BY ReadStatements
<1>2. Reader(SvcGetMe(r))
  BY <1>1, ReaderRequire, Listed, ReaderJoined DEF SvcGetMe
<1>3. Reader(mapError(SvcGetMe(r), {"ErrNotFound"}))
  BY <1>2, ReadLayers DEF UserErrors
<1>4. Reader(RpcGetMe(r))
  BY <1>3 DEF RpcGetMe
<1> QED
  BY <1>4

LEMMA RpcUpdateUserDoes ==
  ASSUME NEW r
  PROVE  /\ Writer(RpcUpdateUser(r), {"users"})
         /\ r.who \notin Participants => Bars(RpcUpdateUser(r))
<1>1. Writer(UpdatesUser, {"users"})
  BY WriteStatements
<1>2. Writer(DbUpdateUser(r), {"users"})
  BY <1>1, Checks, WriterJoined DEF DbUpdateUser, UpdatesUser
<1>3. Writer(SvcUpdateUser(r), {"users"})
  BY <1>2, Checks, WriterJoined DEF SvcUpdateUser
<1>4. r.who \notin Participants => Bars(SvcUpdateUser(r))
  BY <1>2, Checks, CheckBars, AreCode, GateLeft DEF SvcUpdateUser, Bars
<1>5. Writer(mapError(SvcUpdateUser(r), {"ErrNotFound", "ErrValidation", "ErrPermissionDenied"}),
        {"users"})
  BY <1>3, WriteLayers DEF UserErrors
<1>6. r.who \notin Participants => Bars(mapError(SvcUpdateUser(r), {"ErrNotFound",
        "ErrValidation", "ErrPermissionDenied"}))
  BY <1>3, <1>4, AreCode, GateLayers DEF UserErrors, Bars
<1>7. Writer(RpcUpdateUser(r), {"users"})
  BY <1>5, Checks, WriterJoined DEF RpcUpdateUser
<1>8. r.who \notin Participants => Bars(RpcUpdateUser(r))
  BY <1>5, <1>6, Checks, AreCode, GateRight DEF RpcUpdateUser, Bars
<1> QED
  BY <1>7, <1>8

LEMMA RpcGetTutorProfileByUserIdDoes ==
  ASSUME NEW r
  PROVE  /\ Reader(RpcGetTutorProfileByUserId(r))
         /\ Role(r) # "tutor" => Bars(RpcGetTutorProfileByUserId(r))
         /\ r.who \notin Participants => Bars(RpcGetTutorProfileByUserId(r))
<1>1. Reader(DbGetTutorProfile(r))
  BY ReadStatements
<1>2. Role(r) # "tutor" => Bars(DbGetTutorProfile(r))
  BY GateStatements DEF Bars
<1>3. Reader(SvcGetTutorProfile(r))
  BY <1>1, Checks, ReaderJoined DEF SvcGetTutorProfile
<1>4. Role(r) # "tutor" => Bars(SvcGetTutorProfile(r))
  BY <1>1, <1>2, Checks, AreCode, GateRight DEF SvcGetTutorProfile, Bars
<1>5. r.who \notin Participants => Bars(SvcGetTutorProfile(r))
  BY <1>1, Checks, CheckBars, AreCode, GateLeft DEF SvcGetTutorProfile, Bars
<1>6. Reader(mapError(SvcGetTutorProfile(r), {"ErrNotFound", "ErrPermissionDenied"}))
  BY <1>3, ReadLayers DEF UserErrors
<1>7. Role(r) # "tutor" => Bars(mapError(SvcGetTutorProfile(r), {"ErrNotFound",
        "ErrPermissionDenied"}))
  BY <1>3, <1>4, AreCode, GateLayers DEF UserErrors, Bars
<1>8. r.who \notin Participants => Bars(mapError(SvcGetTutorProfile(r), {"ErrNotFound",
        "ErrPermissionDenied"}))
  BY <1>3, <1>5, AreCode, GateLayers DEF UserErrors, Bars
<1>9. Reader(RpcGetTutorProfileByUserId(r))
  BY <1>6, Checks, ReaderJoined DEF RpcGetTutorProfileByUserId
<1>10. Role(r) # "tutor" => Bars(RpcGetTutorProfileByUserId(r))
  BY <1>6, <1>7, Checks, AreCode, GateRight DEF RpcGetTutorProfileByUserId, Bars
<1>11. r.who \notin Participants => Bars(RpcGetTutorProfileByUserId(r))
  BY <1>6, <1>8, Checks, AreCode, GateRight DEF RpcGetTutorProfileByUserId, Bars
<1> QED
  BY <1>9, <1>10, <1>11

LEMMA RpcUpdateTutorProfileDoes ==
  ASSUME NEW r
  PROVE  /\ Writer(RpcUpdateTutorProfile(r), {"tutor_profiles"})
         /\ Role(r) # "tutor" => Bars(RpcUpdateTutorProfile(r))
         /\ r.who \notin Participants => Bars(RpcUpdateTutorProfile(r))
<1>1. Writer(UpdatesTutorProfile(r), {"tutor_profiles"})
  BY WriteStatements
<1>2. Writer(DbUpdateTutorProfile(r), {"tutor_profiles"})
  BY <1>1, Checks, WriterJoined DEF DbUpdateTutorProfile, UpdatesTutorProfile
<1>3. Role(r) # "tutor" => Bars(DbUpdateTutorProfile(r))
  <2>1. Role(r) # "tutor" => Bars(UpdatesTutorProfile(r))
    BY GateStatements
  <2>2. DbUpdateTutorProfile(r) = SetsSomething(r) \o UpdatesTutorProfile(r)
    BY DEF DbUpdateTutorProfile, UpdatesTutorProfile
  <2> QED
    BY <1>1, <2>1, <2>2, Checks, AreCode, GateRight DEF Bars
<1>4. Writer(SvcUpdateTutorProfile(r), {"tutor_profiles"})
  BY <1>2, Checks, WriterJoined DEF SvcUpdateTutorProfile
<1>5. Role(r) # "tutor" => Bars(SvcUpdateTutorProfile(r))
  BY <1>2, <1>3, Checks, AreCode, GateRight DEF SvcUpdateTutorProfile, Bars
<1>6. r.who \notin Participants => Bars(SvcUpdateTutorProfile(r))
  BY <1>2, Checks, CheckBars, AreCode, GateLeft DEF SvcUpdateTutorProfile, Bars
<1>7. Writer(mapError(SvcUpdateTutorProfile(r), {"ErrNotFound", "ErrValidation",
        "ErrPermissionDenied"}), {"tutor_profiles"})
  BY <1>4, WriteLayers DEF UserErrors
<1>8. Role(r) # "tutor" => Bars(mapError(SvcUpdateTutorProfile(r), {"ErrNotFound",
        "ErrValidation", "ErrPermissionDenied"}))
  BY <1>4, <1>5, AreCode, GateLayers DEF UserErrors, Bars
<1>9. r.who \notin Participants => Bars(mapError(SvcUpdateTutorProfile(r), {"ErrNotFound",
        "ErrValidation", "ErrPermissionDenied"}))
  BY <1>4, <1>6, AreCode, GateLayers DEF UserErrors, Bars
<1>10. Writer(RpcUpdateTutorProfile(r), {"tutor_profiles"})
  BY <1>7, Checks, WriterJoined DEF RpcUpdateTutorProfile
<1>11. Role(r) # "tutor" => Bars(RpcUpdateTutorProfile(r))
  BY <1>7, <1>8, Checks, AreCode, GateRight DEF RpcUpdateTutorProfile, Bars
<1>12. r.who \notin Participants => Bars(RpcUpdateTutorProfile(r))
  BY <1>7, <1>9, Checks, AreCode, GateRight DEF RpcUpdateTutorProfile, Bars
<1> QED
  BY <1>10, <1>11, <1>12

LEMMA RpcCreateTutorStudentDoes ==
  ASSUME NEW r
  PROVE  /\ Writer(RpcCreateTutorStudent(r), {"tutor_students"})
         /\ Gate(RpcCreateTutorStudent(r), "person", {"present"})
         /\ Gate(RpcCreateTutorStudent(r), "pair", {"none"})
         /\ r.who # "tutor" => Bars(RpcCreateTutorStudent(r))
<1>1. Writer(DbCreateTutorStudent, {"tutor_students"})
  BY WriteStatements
<1>2. Gate(DbCreateTutorStudent, "person", {"present"})
  BY GateStatements
<1>3. Gate(DbCreateTutorStudent, "pair", {"none"})
  BY GateStatements
<1>4. Writer(SvcCreateTutorStudent(r), {"tutor_students"})
  BY <1>1, Checks, WriterJoined, ReaderJoined, ReaderJoined DEF SvcCreateTutorStudent
<1>5. Gate(SvcCreateTutorStudent(r), "person", {"present"})
  BY <1>1, <1>2, Checks, AreCode, GateRight, ReaderJoined DEF SvcCreateTutorStudent
<1>6. Gate(SvcCreateTutorStudent(r), "pair", {"none"})
  BY <1>1, <1>3, Checks, AreCode, GateRight, ReaderJoined DEF SvcCreateTutorStudent
<1>7. r.who # "tutor" => Bars(SvcCreateTutorStudent(r))
  BY <1>1, Checks, CheckBars, AreCode, GateLeft, ReaderJoined DEF SvcCreateTutorStudent, Bars
<1>8. Writer(mapError(SvcCreateTutorStudent(r), {"ErrAlreadyExists", "ErrValidation",
        "ErrPermissionDenied"}), {"tutor_students"})
  BY <1>4, WriteLayers DEF UserErrors
<1>9. Gate(mapError(SvcCreateTutorStudent(r), {"ErrAlreadyExists", "ErrValidation",
        "ErrPermissionDenied"}), "person", {"present"})
  BY <1>4, <1>5, AreCode, GateLayers DEF UserErrors
<1>10. Gate(mapError(SvcCreateTutorStudent(r), {"ErrAlreadyExists", "ErrValidation",
         "ErrPermissionDenied"}), "pair", {"none"})
  BY <1>4, <1>6, AreCode, GateLayers DEF UserErrors
<1>11. r.who # "tutor" => Bars(mapError(SvcCreateTutorStudent(r), {"ErrAlreadyExists",
         "ErrValidation", "ErrPermissionDenied"}))
  BY <1>4, <1>7, AreCode, GateLayers DEF UserErrors, Bars
<1>12. Writer(RpcCreateTutorStudent(r), {"tutor_students"})
  BY <1>8, Checks, WriterJoined DEF RpcCreateTutorStudent
<1>13. Gate(RpcCreateTutorStudent(r), "person", {"present"})
  BY <1>8, <1>9, Checks, AreCode, GateRight DEF RpcCreateTutorStudent
<1>14. Gate(RpcCreateTutorStudent(r), "pair", {"none"})
  BY <1>8, <1>10, Checks, AreCode, GateRight DEF RpcCreateTutorStudent
<1>15. r.who # "tutor" => Bars(RpcCreateTutorStudent(r))
  BY <1>8, <1>11, Checks, AreCode, GateRight DEF RpcCreateTutorStudent, Bars
<1> QED
  BY <1>12, <1>13, <1>14, <1>15

LEMMA RpcGetTutorStudentDoes ==
  ASSUME NEW r
  PROVE  /\ Reader(RpcGetTutorStudent(r))
         /\ Gate(RpcGetTutorStudent(r), "pair", {"invited", "active"})
         /\ r.who \notin Participants => Bars(RpcGetTutorStudent(r))
<1>1. Reader(DbGetTutorStudent(r))
  BY ReadStatements
<1>2. Gate(DbGetTutorStudent(r), "pair", {"invited", "active"})
  BY GateStatements
<1>3. ~NamesPair(r) => Bars(DbGetTutorStudent(r))
  BY GateStatements DEF Bars
<1>4. Reader(SvcGetTutorStudent(r))
  BY <1>1, Checks, ReaderJoined DEF SvcGetTutorStudent
<1>5. Gate(SvcGetTutorStudent(r), "pair", {"invited", "active"})
  BY <1>1, <1>2, Checks, AreCode, GateRight DEF SvcGetTutorStudent
<1>6. r.who \notin Participants => Bars(SvcGetTutorStudent(r))
  <2> DEFINE ids == IF NamesPair(r) THEN Participants ELSE {r.who}
  <2>1. SvcGetTutorStudent(r) = ensureCurrentUserIs(r, ids) \o DbGetTutorStudent(r)
    BY DEF SvcGetTutorStudent
  <2>2. NamesPair(r) /\ r.who \notin Participants => r.who \notin ids
    OBVIOUS
  <2> HIDE DEF ids
  <2>3. Reader(ensureCurrentUserIs(r, ids))
    BY Checks
  <2>4. NamesPair(r) /\ r.who \notin Participants => Bars(SvcGetTutorStudent(r))
    BY <1>1, <2>1, <2>2, <2>3, CheckBars, AreCode, GateLeft DEF Bars
  <2>5. ~NamesPair(r) => Bars(SvcGetTutorStudent(r))
    BY <1>1, <1>3, <2>1, <2>3, AreCode, GateRight DEF Bars
  <2> QED
    BY <2>4, <2>5
<1>7. Reader(mapError(SvcGetTutorStudent(r), {"ErrNotFound", "ErrPermissionDenied",
        "ErrAuthentication"}))
  BY <1>4, ReadLayers DEF UserErrors
<1>8. Gate(mapError(SvcGetTutorStudent(r), {"ErrNotFound", "ErrPermissionDenied",
        "ErrAuthentication"}), "pair", {"invited", "active"})
  BY <1>4, <1>5, AreCode, GateLayers DEF UserErrors
<1>9. r.who \notin Participants => Bars(mapError(SvcGetTutorStudent(r), {"ErrNotFound",
        "ErrPermissionDenied", "ErrAuthentication"}))
  BY <1>4, <1>6, AreCode, GateLayers DEF UserErrors, Bars
<1>10. Reader(RpcGetTutorStudent(r))
  BY <1>7, Checks, ReaderJoined DEF RpcGetTutorStudent
<1>11. Gate(RpcGetTutorStudent(r), "pair", {"invited", "active"})
  BY <1>7, <1>8, Checks, AreCode, GateRight DEF RpcGetTutorStudent
<1>12. r.who \notin Participants => Bars(RpcGetTutorStudent(r))
  BY <1>7, <1>9, Checks, AreCode, GateRight DEF RpcGetTutorStudent, Bars
<1> QED
  BY <1>10, <1>11, <1>12

LEMMA RpcUpdateTutorStudentDoes ==
  ASSUME NEW r
  PROVE  /\ Writer(RpcUpdateTutorStudent(r), {"tutor_students"})
         /\ Gate(RpcUpdateTutorStudent(r), "pair", {"invited", "active"})
         /\ r.who # "tutor" => Bars(RpcUpdateTutorStudent(r))
<1>1. Writer(UpdatesTutorStudent(r, {"invited", "active"}), {"tutor_students"})
  BY WriteStatements DEF PairState
<1>2. Gate(UpdatesTutorStudent(r, {"invited", "active"}), "pair", {"invited", "active"})
  BY GateStatements DEF PairState
<1>3. Writer(DbUpdateTutorStudent(r, {"invited", "active"}), {"tutor_students"})
  BY <1>1, Checks, WriterJoined DEF DbUpdateTutorStudent, UpdatesTutorStudent
<1>4. Gate(DbUpdateTutorStudent(r, {"invited", "active"}), "pair", {"invited", "active"})
  BY <1>1, <1>2, Checks, AreCode, GateRight DEF DbUpdateTutorStudent, UpdatesTutorStudent
<1>5. Writer(SvcUpdateTutorStudent(r), {"tutor_students"})
  BY <1>3, Checks, WriterJoined DEF SvcUpdateTutorStudent
<1>6. Gate(SvcUpdateTutorStudent(r), "pair", {"invited", "active"})
  BY <1>3, <1>4, Checks, AreCode, GateRight DEF SvcUpdateTutorStudent
<1>7. r.who # "tutor" => Bars(SvcUpdateTutorStudent(r))
  BY <1>3, Checks, CheckBars, AreCode, GateLeft DEF SvcUpdateTutorStudent, Bars
<1>8. Writer(mapError(SvcUpdateTutorStudent(r), {"ErrNotFound", "ErrPermissionDenied"}),
        {"tutor_students"})
  BY <1>5, WriteLayers DEF UserErrors
<1>9. Gate(mapError(SvcUpdateTutorStudent(r), {"ErrNotFound", "ErrPermissionDenied"}), "pair",
        {"invited", "active"})
  BY <1>5, <1>6, AreCode, GateLayers DEF UserErrors
<1>10. r.who # "tutor" => Bars(mapError(SvcUpdateTutorStudent(r), {"ErrNotFound",
         "ErrPermissionDenied"}))
  BY <1>5, <1>7, AreCode, GateLayers DEF UserErrors, Bars
<1>11. Writer(RpcUpdateTutorStudent(r), {"tutor_students"})
  BY <1>8, Checks, WriterJoined, ReaderJoined, ReaderJoined DEF RpcUpdateTutorStudent
<1>12. Gate(RpcUpdateTutorStudent(r), "pair", {"invited", "active"})
  BY <1>8, <1>9, Checks, AreCode, GateRight, ReaderJoined DEF RpcUpdateTutorStudent
<1>13. r.who # "tutor" => Bars(RpcUpdateTutorStudent(r))
  BY <1>8, <1>10, Checks, AreCode, GateRight, ReaderJoined DEF RpcUpdateTutorStudent, Bars
<1> QED
  BY <1>11, <1>12, <1>13

LEMMA RpcDeleteTutorStudentDoes ==
  ASSUME NEW r
  PROVE  /\ Writer(RpcDeleteTutorStudent(r), {"tutor_students"})
         /\ Gate(RpcDeleteTutorStudent(r), "pair", {"invited", "active"})
         /\ r.who # "tutor" => Bars(RpcDeleteTutorStudent(r))
<1>1. Writer(DbDeleteTutorStudent(r), {"tutor_students"})
  BY WriteStatements
<1>2. Gate(DbDeleteTutorStudent(r), "pair", {"invited", "active"})
  BY GateStatements
<1>3. Writer(SvcDeleteTutorStudent(r), {"tutor_students"})
  BY <1>1, Checks, WriterJoined DEF SvcDeleteTutorStudent
<1>4. Gate(SvcDeleteTutorStudent(r), "pair", {"invited", "active"})
  BY <1>1, <1>2, Checks, AreCode, GateRight DEF SvcDeleteTutorStudent
<1>5. r.who # "tutor" => Bars(SvcDeleteTutorStudent(r))
  BY <1>1, Checks, CheckBars, AreCode, GateLeft DEF SvcDeleteTutorStudent, Bars
<1>6. Writer(mapError(SvcDeleteTutorStudent(r), {"ErrNotFound", "ErrPermissionDenied"}),
        {"tutor_students"})
  BY <1>3, WriteLayers DEF UserErrors
<1>7. Gate(mapError(SvcDeleteTutorStudent(r), {"ErrNotFound", "ErrPermissionDenied"}), "pair",
        {"invited", "active"})
  BY <1>3, <1>4, AreCode, GateLayers DEF UserErrors
<1>8. r.who # "tutor" => Bars(mapError(SvcDeleteTutorStudent(r), {"ErrNotFound",
        "ErrPermissionDenied"}))
  BY <1>3, <1>5, AreCode, GateLayers DEF UserErrors, Bars
<1>9. Writer(RpcDeleteTutorStudent(r), {"tutor_students"})
  BY <1>6, Checks, WriterJoined DEF RpcDeleteTutorStudent
<1>10. Gate(RpcDeleteTutorStudent(r), "pair", {"invited", "active"})
  BY <1>6, <1>7, Checks, AreCode, GateRight DEF RpcDeleteTutorStudent
<1>11. r.who # "tutor" => Bars(RpcDeleteTutorStudent(r))
  BY <1>6, <1>8, Checks, AreCode, GateRight DEF RpcDeleteTutorStudent, Bars
<1> QED
  BY <1>9, <1>10, <1>11

LEMMA RpcListTutorStudentsDoes ==
  ASSUME NEW r
  PROVE  /\ Reader(RpcListTutorStudents(r))
         /\ r.who # "tutor" => Bars(RpcListTutorStudents(r))
<1>1. Reader(DbListTutorStudents)
  BY ReadStatements
<1>2. Reader(SvcListTutorStudents(r))
  BY <1>1, Checks, ReaderJoined DEF SvcListTutorStudents
<1>3. r.who # "tutor" => Bars(SvcListTutorStudents(r))
  BY <1>1, Checks, CheckBars, AreCode, GateLeft DEF SvcListTutorStudents, Bars
<1>4. Reader(mapError(SvcListTutorStudents(r), {"ErrNotFound", "ErrPermissionDenied"}))
  BY <1>2, ReadLayers DEF UserErrors
<1>5. r.who # "tutor" => Bars(mapError(SvcListTutorStudents(r), {"ErrNotFound",
        "ErrPermissionDenied"}))
  BY <1>2, <1>3, AreCode, GateLayers DEF UserErrors, Bars
<1>6. Reader(RpcListTutorStudents(r))
  BY <1>4, Checks, ReaderJoined DEF RpcListTutorStudents
<1>7. r.who # "tutor" => Bars(RpcListTutorStudents(r))
  BY <1>4, <1>5, Checks, AreCode, GateRight DEF RpcListTutorStudents, Bars
<1> QED
  BY <1>6, <1>7

LEMMA RpcListTutorsForStudentDoes ==
  ASSUME NEW r
  PROVE  /\ Reader(RpcListTutorsForStudent(r))
         /\ r.who # "student" => Bars(RpcListTutorsForStudent(r))
<1>1. Reader(DbListTutorStudents)
  BY ReadStatements
<1>2. Reader(SvcListTutorStudentsForStudent(r))
  BY <1>1, Checks, ReaderJoined DEF SvcListTutorStudentsForStudent
<1>3. r.who # "student" => Bars(SvcListTutorStudentsForStudent(r))
  BY <1>1, Checks, CheckBars, AreCode, GateLeft DEF SvcListTutorStudentsForStudent, Bars
<1>4. Reader(mapError(SvcListTutorStudentsForStudent(r), {"ErrNotFound", "ErrPermissionDenied"}))
  BY <1>2, ReadLayers DEF UserErrors
<1>5. r.who # "student" => Bars(mapError(SvcListTutorStudentsForStudent(r), {"ErrNotFound",
        "ErrPermissionDenied"}))
  BY <1>2, <1>3, AreCode, GateLayers DEF UserErrors, Bars
<1>6. Reader(RpcListTutorsForStudent(r))
  BY <1>4, Checks, ReaderJoined DEF RpcListTutorsForStudent
<1>7. r.who # "student" => Bars(RpcListTutorsForStudent(r))
  BY <1>4, <1>5, Checks, AreCode, GateRight DEF RpcListTutorsForStudent, Bars
<1> QED
  BY <1>6, <1>7

LEMMA RpcAcceptInvitationFromTutorDoes ==
  ASSUME NEW r
  PROVE  /\ Writer(RpcAcceptInvitationFromTutor(r), {"tutor_students"})
         /\ Gate(RpcAcceptInvitationFromTutor(r), "pair", {"invited", "active"})
         /\ ~NamesPair(r) => Bars(RpcAcceptInvitationFromTutor(r))
         /\ Role(r) # "student" => Bars(RpcAcceptInvitationFromTutor(r))
<1>1. Writer(UpdatesTutorStudent(r, {"active"}), {"tutor_students"})
  BY WriteStatements DEF PairState
<1>2. Gate(UpdatesTutorStudent(r, {"active"}), "pair", {"invited", "active"})
  BY GateStatements DEF PairState
<1>3. ~NamesPair(r) => Bars(UpdatesTutorStudent(r, {"active"}))
  BY GateStatements DEF PairState, Bars
<1>4. Writer(DbUpdateTutorStudent(r, {"active"}), {"tutor_students"})
  BY <1>1, Checks, WriterJoined DEF DbUpdateTutorStudent, UpdatesTutorStudent
<1>5. Gate(DbUpdateTutorStudent(r, {"active"}), "pair", {"invited", "active"})
  BY <1>1, <1>2, Checks, AreCode, GateRight DEF DbUpdateTutorStudent, UpdatesTutorStudent
<1>6. ~NamesPair(r) => Bars(DbUpdateTutorStudent(r, {"active"}))
  BY <1>1, <1>3, Checks, AreCode, GateRight DEF DbUpdateTutorStudent, UpdatesTutorStudent, Bars
<1>7. Writer(SvcAcceptInvitationFromTutor(r), {"tutor_students"})
  BY <1>4, Checks, WriterJoined, ReaderJoined, ReaderJoined DEF SvcAcceptInvitationFromTutor
<1>8. Gate(SvcAcceptInvitationFromTutor(r), "pair", {"invited", "active"})
  BY <1>4, <1>5, Checks, AreCode, GateRight, ReaderJoined DEF SvcAcceptInvitationFromTutor
<1>9. ~NamesPair(r) => Bars(SvcAcceptInvitationFromTutor(r))
  BY <1>4, <1>6, Checks, AreCode, GateRight, ReaderJoined DEF SvcAcceptInvitationFromTutor, Bars
<1>10. Role(r) # "student" => Bars(SvcAcceptInvitationFromTutor(r))
  BY <1>4, Checks, CheckBars, GateRight, AreCode, GateLeft, ReaderJoined
  DEF SvcAcceptInvitationFromTutor, Bars
<1>11. Writer(mapError(SvcAcceptInvitationFromTutor(r), {"ErrPermissionDenied", "ErrNotFound"}),
         {"tutor_students"})
  BY <1>7, WriteLayers DEF UserErrors
<1>12. Gate(mapError(SvcAcceptInvitationFromTutor(r), {"ErrPermissionDenied", "ErrNotFound"}),
         "pair", {"invited", "active"})
  BY <1>7, <1>8, AreCode, GateLayers DEF UserErrors
<1>13. ~NamesPair(r) => Bars(mapError(SvcAcceptInvitationFromTutor(r), {"ErrPermissionDenied",
         "ErrNotFound"}))
  BY <1>7, <1>9, AreCode, GateLayers DEF UserErrors, Bars
<1>14. Role(r) # "student" => Bars(mapError(SvcAcceptInvitationFromTutor(r),
         {"ErrPermissionDenied", "ErrNotFound"}))
  BY <1>7, <1>10, AreCode, GateLayers DEF UserErrors, Bars
<1>15. Writer(RpcAcceptInvitationFromTutor(r), {"tutor_students"})
  BY <1>11, Checks, WriterJoined DEF RpcAcceptInvitationFromTutor
<1>16. Gate(RpcAcceptInvitationFromTutor(r), "pair", {"invited", "active"})
  BY <1>11, <1>12, Checks, AreCode, GateRight DEF RpcAcceptInvitationFromTutor
<1>17. ~NamesPair(r) => Bars(RpcAcceptInvitationFromTutor(r))
  BY <1>11, <1>13, Checks, AreCode, GateRight DEF RpcAcceptInvitationFromTutor, Bars
<1>18. Role(r) # "student" => Bars(RpcAcceptInvitationFromTutor(r))
  BY <1>11, <1>14, Checks, AreCode, GateRight DEF RpcAcceptInvitationFromTutor, Bars
<1> QED
  BY <1>15, <1>16, <1>17, <1>18

LEMMA RpcRegisterViaTelegramDoes ==
  ASSUME NEW r
  PROVE  /\ Writer(RpcRegisterViaTelegram(r), {"users"})
         /\ Gate(RpcRegisterViaTelegram(r), "person", {"none"})
<1>1. Writer(DbRegister, {"users"})
  BY WriteStatements
<1>2. Gate(DbRegister, "person", {"none"})
  BY GateStatements
<1>3. Writer(SvcRegisterViaTelegram(r), {"users"})
  BY <1>1, ReaderRequire, Listed, WriterJoined DEF SvcRegisterViaTelegram
<1>4. Gate(SvcRegisterViaTelegram(r), "person", {"none"})
  BY <1>1, <1>2, ReaderRequire, Listed, AreCode, GateRight DEF SvcRegisterViaTelegram
<1>5. Writer(mapError(SvcRegisterViaTelegram(r), {"ErrAlreadyExists", "ErrValidation"}),
        {"users"})
  BY <1>3, WriteLayers DEF UserErrors
<1>6. Gate(mapError(SvcRegisterViaTelegram(r), {"ErrAlreadyExists", "ErrValidation"}), "person",
        {"none"})
  BY <1>3, <1>4, AreCode, GateLayers DEF UserErrors
<1>7. Writer(RpcRegisterViaTelegram(r), {"users"})
  BY <1>5 DEF RpcRegisterViaTelegram
<1>8. Gate(RpcRegisterViaTelegram(r), "person", {"none"})
  BY <1>6 DEF RpcRegisterViaTelegram
<1> QED
  BY <1>7, <1>8

-----------------------------------------------------------------------------
(* The last of the steps *)

\* What the last of the steps leaves behind when it is passed: row t is in S.
Ends(p, t, S) ==
  /\ p \in Code /\ Len(p) > 0
  /\ \A w, o : Makes(p, Len(p), w, o) /\ o.err = "ok" => o.world[t] \in S

\* So that nobody gets by whose row is not.
LEMMA EndsGate ==
  ASSUME NEW p, NEW t, NEW S, Ends(p, t, S)
  PROVE  Gate(p, t, S)
<1>1. Len(p) \in DOMAIN p
  BY DEF Ends, Code
<1> QED
  BY <1>1 DEF Ends, Gate

LEMMA EndsSingle ==
  ASSUME NEW p \in Code, Len(p) = 1, NEW t, NEW S,
         \A w, o : Yields(p, w, o) /\ o.err = "ok" => o.world[t] \in S
  PROVE  Ends(p, t, S)
<1>1. \A w, o : Makes(p, Len(p), w, o) => Yields(p, w, o)
  BY DEF Yields
<1> QED
  BY <1>1 DEF Ends

LEMMA EndsJoined ==
  ASSUME NEW p \in Code, NEW q, NEW t, NEW S, Ends(q, t, S)
  PROVE  Ends(p \o q, t, S)
<1>1. /\ Len(p) \in Nat /\ Len(q) \in Nat /\ Len(q) > 0 /\ Len(p \o q) = Len(p) + Len(q)
      /\ p \o q \in Code /\ DOMAIN p = 1 .. Len(p)
  BY Joined DEF Ends, Code
<1>2. /\ Len(p \o q) - Len(p) = Len(q) /\ Len(p \o q) \notin DOMAIN p /\ Len(p \o q) > 0
  BY <1>1
<1>3. \A w, o : Makes(p \o q, Len(p \o q), w, o) => Makes(q, Len(q), w, o)
  BY <1>2, Joined DEF Ends, Makes
<1> QED
  BY <1>1, <1>2, <1>3 DEF Ends

LEMMA EndsTranslated ==
  ASSUME NEW p, NEW t, NEW S, Ends(p, t, S), NEW G \in Translation
  PROVE  Ends(Translated(p, G), t, S)
<1>1. /\ p \in Code /\ Len(p) > 0 /\ Len(Translated(p, G)) = Len(p)
      /\ Translated(p, G) \in Code
  BY Translates DEF Ends
<1>2. ASSUME NEW w, NEW o, Makes(Translated(p, G), Len(p), w, o), o.err = "ok"
      PROVE  o.world[t] \in S
  <2>1. PICK o2 : Makes(p, Len(p), w, o2) /\ Renames(G, o2, o)
    BY <1>1, <1>2, Translates
  <2>2. o2.err = "ok"
    BY <1>1, <1>2, <2>1, Made, Errors DEF Renames, Translation, Outcome
  <2> QED
    BY <2>1, <2>2 DEF Ends, Renames
<1> QED
  BY <1>1, <1>2 DEF Ends

\* A test leaves only what the steps left and what it lets by.
LEMMA EndsTested ==
  ASSUME NEW p, NEW t, NEW S, Ends(p, t, S), NEW H, NEW e \in Error,
         NEW S2, \A w \in World : w \in H /\ w[t] \in S => w[t] \in S2
  PROVE  Ends(TestedBy(p, H, e), t, S2)
<1>1. /\ p \in Code /\ Len(p) > 0 /\ Len(TestedBy(p, H, e)) = Len(p)
      /\ TestedBy(p, H, e) \in Code
  BY Tests DEF Ends
<1>2. ASSUME NEW w, NEW o, Makes(TestedBy(p, H, e), Len(p), w, o), o.err = "ok"
      PROVE  o.world[t] \in S2
  <2>1. PICK o2 : Makes(p, Len(p), w, o2) /\ Survives(H, e, o2, o)
    BY <1>1, <1>2, Tests
  <2>2. o2 = o
    BY <1>2, <2>1, Errors DEF Survives, Is
  <2>3. o.world \in H /\ o.world \in World
    BY <1>1, <1>2, Tests, Made DEF Outcome
  <2> QED
    BY <1>2, <2>1, <2>2, <2>3 DEF Ends
<1> QED
  BY <1>1, <1>2 DEF Ends

\* A slot that was read is there, and what was read of a lesson is held.
LEMMA ReadRows ==
  /\ Ends(DbGetSlot, "slot", {"free", "booked", "used"})
  /\ Ends(DbGetLesson, "held", {"unpaid", "paid"})
<1>1. Ends(DbGetSlot, "slot", {"free", "booked", "used"})
  <2> DEFINE F == [w \in World |->
                    {IF w.slot # "none" THEN Done(w) ELSE Fails(w, "ErrSlotNotFound")}]
  <2>1. DbGetSlot = Trip(F) /\ F = [w \in World |-> F[w]]
    BY DEF DbGetSlot, RoundTrip, Trip, Select
  <2>2. ASSUME NEW w \in World, NEW o \in F[w]
        PROVE  (o = Done(w) /\ w.slot # "none") \/ o = Fails(w, "ErrSlotNotFound")
    BY <2>2
  <2> HIDE DEF F
  <2>3. ASSUME NEW w \in World, NEW o \in F[w]
        PROVE  /\ Follows(w, o)
               /\ o.err = "ok" => o.world["slot"] \in {"free", "booked", "used"}
    <3>1. CASE o = Done(w) /\ w.slot # "none"
      BY <2>3, <3>1, DoneIs, DoneFollows DEF Is, World, SlotState
    <3>2. CASE o = Fails(w, "ErrSlotNotFound")
      <4>1. Follows(w, o) /\ o.err = "ErrSlotNotFound"
        <5>1. "ErrSlotNotFound" \in Error
          BY Listed
        <5>2. Kept(w, w)
          BY <2>3, Updates
        <5>3. Is(Fails(w, "ErrSlotNotFound"), w, "ErrSlotNotFound", {})
          BY <2>3, <5>1, FailsIs
        <5> QED
          BY <2>3, <3>2, <5>2, <5>3 DEF Is, Kept, Follows
      <4> QED
        BY <4>1
    <3> QED
      BY <2>2, <2>3, <3>1, <3>2
  <2>4. F \in RoundTrips
    BY <2>1, <2>3, IsRoundTrip
  <2>5. ASSUME NEW w, NEW o, Yields(Trip(F), w, o), o.err = "ok"
        PROVE  o.world["slot"] \in {"free", "booked", "used"}
    <3>1. w \in World /\ (o \in F[w] \/ o.err = "down")
      BY <2>4, <2>5, Trips
    <3> QED
      BY <2>3, <2>5, <3>1
  <2>6. Trip(F) \in Code /\ Len(Trip(F)) = 1
    BY <2>4, Trips
  <2>8. Trip(F) = DbGetSlot
    BY <2>1
  <2> QED
    <3> DEFINE p == Trip(F)
               t == "slot"
    <3>1. /\ p \in Code /\ Len(p) = 1
          /\ \A w, o : Yields(p, w, o) /\ o.err = "ok" => o.world[t] \in {"free", "booked",
               "used"}
      BY <2>5, <2>6
    <3> HIDE DEF p, t
    <3>2. Ends(p, t, {"free", "booked", "used"})
      BY <3>1, EndsSingle
    <3> QED
      BY <2>8, <3>2 DEF p, t
<1>2. Ends(DbGetLesson, "held", {"unpaid", "paid"})
  <2> DEFINE F == [w \in World |->
                    {IF w.lesson = "none" THEN Fails(w, "ErrLessonNotFound")
                     ELSE Done([w EXCEPT !.held = w.lesson])}]
  <2>1. DbGetLesson = Trip(F) /\ F = [w \in World |-> F[w]]
    BY DEF DbGetLesson, RoundTrip, Trip
  <2>2. ASSUME NEW w \in World, NEW o \in F[w]
        PROVE  \/ o = Done(WithHeld(w)) /\ w.lesson # "none"
               \/ o = Fails(w, "ErrLessonNotFound")
    BY <2>2 DEF WithHeld
  <2> HIDE DEF F
  <2>3. ASSUME NEW w \in World, NEW o \in F[w]
        PROVE  /\ Follows(w, o)
               /\ o.err = "ok" => o.world["held"] \in {"unpaid", "paid"}
    <3>1. CASE o = Done(WithHeld(w)) /\ w.lesson # "none"
      <4>1. Kept(w, WithHeld(w)) /\ WithHeld(w).held = w.lesson
        BY <2>3, <3>1, Updates DEF WithHeld, World
      <4>2. Is(o, WithHeld(w), "ok", {})
        BY <3>1, <4>1, DoneIs DEF Kept
      <4>3. Follows(w, o)
        BY <2>3, <4>1, <4>2 DEF Is, Kept, Follows
      <4> QED
        BY <2>3, <3>1, <4>1, <4>2, <4>3 DEF Is, World, LessonState
    <3>2. CASE o = Fails(w, "ErrLessonNotFound")
      <4>1. Follows(w, o) /\ o.err = "ErrLessonNotFound"
        <5>1. "ErrLessonNotFound" \in Error
          BY Listed
        <5>2. Kept(w, w)
          BY <2>3, Updates
        <5>3. Is(Fails(w, "ErrLessonNotFound"), w, "ErrLessonNotFound", {})
          BY <2>3, <5>1, FailsIs
        <5> QED
          BY <2>3, <3>2, <5>2, <5>3 DEF Is, Kept, Follows
      <4> QED
        BY <4>1
    <3> QED
      BY <2>2, <2>3, <3>1, <3>2
  <2>4. F \in RoundTrips
    BY <2>1, <2>3, IsRoundTrip
  <2>5. ASSUME NEW w, NEW o, Yields(Trip(F), w, o), o.err = "ok"
        PROVE  o.world["held"] \in {"unpaid", "paid"}
    <3>1. w \in World /\ (o \in F[w] \/ o.err = "down")
      BY <2>4, <2>5, Trips
    <3> QED
      BY <2>3, <2>5, <3>1
  <2>6. Trip(F) \in Code /\ Len(Trip(F)) = 1
    BY <2>4, Trips
  <2>8. Trip(F) = DbGetLesson
    BY <2>1
  <2> QED
    <3> DEFINE p == Trip(F)
               t == "held"
    <3>1. /\ p \in Code /\ Len(p) = 1
          /\ \A w, o : Yields(p, w, o) /\ o.err = "ok" => o.world[t] \in {"unpaid", "paid"}
      BY <2>5, <2>6
    <3> HIDE DEF p, t
    <3>2. Ends(p, t, {"unpaid", "paid"})
      BY <3>1, EndsSingle
    <3> QED
      BY <2>8, <3>2 DEF p, t
<1> QED
  BY <1>1, <1>2

-----------------------------------------------------------------------------
(* The schedule service *)

\* What the tests let by.
ActivePair(r) == {w \in World : PairOf(w, r) = "active"}
CallerIs(r, callers) == {w \in World : r.who \in callers}
Owned(r) == {w \in World : r.who = "tutor"}
Unbooked == {w \in World : w.slot # "booked"}

\* A test closes a gate to those whose row it does not find as it should be.
LEMMA TestedGates ==
  ASSUME NEW p \in Code, NEW t0, NEW S0, Gate(p, t0, S0), NEW H, NEW e \in Error,
         NEW t, NEW S, \A w \in World : w \in H => w[t] \in S
  PROVE  Gate(TestedBy(p, H, e), t, S)
<1>1. Len(p) > 0
  BY DEF Gate, Code
<1> QED
  BY <1>1, TestGates

\* The user service has only an active pair of T and S pass.
LEMMA ValidateTutorStudentPairDoes ==
  ASSUME NEW r
  PROVE  /\ Reader(ValidateTutorStudentPair(r))
         /\ Gate(ValidateTutorStudentPair(r), "pair", {"active"})
         /\ r.who \notin Participants => Bars(ValidateTutorStudentPair(r))
         /\ ValidateTutorStudentPair(r) =
              Translated(TestedBy(GetTutorStudent(r), ActivePair(r), "no_pair"), PairAnswer)
<1>1. Reader(GetTutorStudent(r))
  BY RpcGetTutorStudentDoes, ReaderRemote DEF GetTutorStudent
<1>2. Gate(GetTutorStudent(r), "pair", {"invited", "active"})
  BY RpcGetTutorStudentDoes, AreCode, GateRemote DEF GetTutorStudent
<1>3. r.who \notin Participants => Bars(GetTutorStudent(r))
  BY RpcGetTutorStudentDoes, AreCode, GateRemote DEF GetTutorStudent, Bars
<1>4. GetTutorStudent(r) \in Code
  BY <1>1, AreCode
<1>5. Tested(GetTutorStudent(r), LAMBDA w : PairOf(w, r) = "active",
        "no_pair") = TestedBy(GetTutorStudent(r), ActivePair(r), "no_pair")
  BY <1>4, Made DEF Tested, TestedBy, Makes, Outcome, ActivePair
<1>6. "no_pair" \in Error
  BY Listed
<1>7. Reader(TestedBy(GetTutorStudent(r), ActivePair(r), "no_pair"))
  BY <1>1, <1>6, ReaderTested
<1>8. Gate(TestedBy(GetTutorStudent(r), ActivePair(r), "no_pair"), "pair", {"invited", "active"})
  BY <1>4, <1>6, <1>2, GateTested
<1>9. r.who \notin Participants => Bars(TestedBy(GetTutorStudent(r), ActivePair(r), "no_pair"))
  BY <1>4, <1>6, <1>3, GateTested DEF Bars
<1>10. \A w \in World : w \in ActivePair(r) => w["pair"] \in {"active"}
  BY DEF ActivePair, World, PairOf
<1>11. Gate(TestedBy(GetTutorStudent(r), ActivePair(r), "no_pair"), "pair", {"active"})
  BY <1>4, <1>6, <1>10, <1>2, TestedGates
<1>12. TestedBy(GetTutorStudent(r), ActivePair(r), "no_pair") \in Code
  BY <1>7, <1>5, AreCode
<1>13. ValidateTutorStudentPair(r) = Translated(TestedBy(GetTutorStudent(r), ActivePair(r),
         "no_pair"), PairAnswer)
  <2> DEFINE q == TestedBy(GetTutorStudent(r), ActivePair(r), "no_pair")
  <2>1. ValidateTutorStudentPair(r) = Through(q, LAMBDA e : IF e \in {"NotFound",
          "no_pair"} THEN "no_pair" ELSE "unverified")
  BY <1>7, <1>5
  DEF ValidateTutorStudentPair
  <2>2. q \in Code
    BY <1>12
  <2> HIDE DEF q
  <2>3. \A i \in DOMAIN q, w \in World : \A o \in q[i][w] : o.err \in Error \cup {"ok"}
    BY <2>2, Made DEF Makes, Outcome
  <2>4. Through(q, LAMBDA e : IF e \in {"NotFound",
          "no_pair"} THEN "no_pair" ELSE "unverified") = Translated(q, PairAnswer)
    BY <2>3 DEF Through, Translated, PairAnswer
  <2> QED
    BY <2>1, <2>4 DEF q
<1>14. PairAnswer \in Translation
  BY Translations, Listed
<1>15. Reader(ValidateTutorStudentPair(r))
  BY <1>7, <1>5, <1>13, <1>14, ReaderTranslated
<1>16. Gate(ValidateTutorStudentPair(r), "pair", {"invited", "active"})
  BY <1>12, <1>13, <1>14, <1>8, GateTranslated
<1>17. r.who \notin Participants => Bars(ValidateTutorStudentPair(r))
  BY <1>12, <1>13, <1>14, <1>9, GateTranslated DEF Bars
<1>18. Gate(ValidateTutorStudentPair(r), "pair", {"active"})
  BY <1>12, <1>13, <1>14, <1>11, GateTranslated
<1> QED
  BY <1>13, <1>15, <1>18, <1>17

\* The slot named is read, and is there.
LEMMA SlotByIdDoes ==
  ASSUME NEW r
  PROVE  /\ Reader(SlotById(r))
         /\ Gate(SlotById(r), "slot", {"free", "booked", "used"})
         /\ Ends(SlotById(r), "slot", {"free", "booked", "used"})
<1>1. Reader(NotFoundOr(DbGetSlot, "ErrSlotNotFound"))
  BY ReadStatements, ReadLayers
<1>2. Gate(NotFoundOr(DbGetSlot, "ErrSlotNotFound"), "slot", {"free", "booked", "used"})
  BY ReadStatements, GateStatements, AreCode, GateLayers
<1>3. "Internal" \in Error /\ "NotFound" \in Error
  BY Listed
<1>4. DbGetSlot \in Code
  BY ReadStatements, AreCode
<1>5. NotFoundOr(DbGetSlot, "ErrSlotNotFound") = Translated(DbGetSlot, Either("ErrSlotNotFound",
        "NotFound", "Internal"))
  BY <1>4, Layers
<1>6. Either("ErrSlotNotFound", "NotFound", "Internal") \in Translation
  BY <1>3, Translations
<1>7. Ends(NotFoundOr(DbGetSlot, "ErrSlotNotFound"), "slot", {"free", "booked", "used"})
  BY <1>5, <1>6, ReadRows, EndsTranslated
<1>8. Reader(SlotById(r))
  BY Checks, <1>1, ReaderJoined DEF SlotById
<1>9. Gate(SlotById(r), "slot", {"free", "booked", "used"})
  BY Checks, <1>1, <1>2, AreCode, GateRight DEF SlotById
<1>10. Ends(SlotById(r), "slot", {"free", "booked", "used"})
  BY <1>7, Checks, AreCode, EndsJoined DEF SlotById
<1> QED
  BY <1>8, <1>9, <1>10

\* T gets by, with a slot that is not booked.
LEMMA OwnUnbookedSlotDoes ==
  ASSUME NEW r
  PROVE  /\ Reader(OwnUnbookedSlot(r))
         /\ r.who # "tutor" => Bars(OwnUnbookedSlot(r))
         /\ Gate(OwnUnbookedSlot(r), "slot", {"free", "used"})
<1>1. SlotById(r) \in Code
  BY SlotByIdDoes, AreCode
<1>2. Tested(SlotById(r), LAMBDA w : r.who = "tutor", "PermissionDenied") = TestedBy(SlotById(r),
        Owned(r), "PermissionDenied")
  BY <1>1, Made DEF Tested, TestedBy, Makes, Outcome, Owned
<1>3. "PermissionDenied" \in Error
  BY Listed
<1>4. Reader(TestedBy(SlotById(r), Owned(r), "PermissionDenied"))
  BY SlotByIdDoes, <1>3, ReaderTested
<1>5. Gate(TestedBy(SlotById(r), Owned(r), "PermissionDenied"), "slot", {"free", "booked",
        "used"})
  BY <1>1, <1>3, SlotByIdDoes, GateTested
<1>6. r.who # "tutor" => (\A w \in World : w \in Owned(r) => w["person"] \in {})
  BY DEF Owned, World
<1>7. r.who # "tutor" => Bars(TestedBy(SlotById(r), Owned(r), "PermissionDenied"))
  BY <1>1, <1>3, <1>6, SlotByIdDoes, TestedGates DEF Bars
<1>8. TestedBy(SlotById(r), Owned(r), "PermissionDenied") \in Code
  BY <1>4, <1>2, AreCode
<1>9. Tested(TestedBy(SlotById(r), Owned(r), "PermissionDenied"), LAMBDA w : w.slot # "booked",
        "FailedPrecondition") = TestedBy(TestedBy(SlotById(r), Owned(r), "PermissionDenied"),
        Unbooked, "FailedPrecondition")
  <2> DEFINE q == TestedBy(SlotById(r), Owned(r), "PermissionDenied")
  <2>1. q \in Code
    BY <1>8
  <2> HIDE DEF q
  <2>2. Tested(q, LAMBDA w : w.slot # "booked", "FailedPrecondition") = TestedBy(q, Unbooked,
          "FailedPrecondition")
    BY <2>1, Made
    DEF Tested, TestedBy, Makes, Outcome, Unbooked
  <2> QED
    BY <2>2 DEF q
<1>10. "FailedPrecondition" \in Error
  BY Listed
<1>11. Reader(TestedBy(TestedBy(SlotById(r), Owned(r), "PermissionDenied"), Unbooked,
         "FailedPrecondition"))
  BY <1>4, <1>2, <1>10, ReaderTested
<1>12. Gate(TestedBy(TestedBy(SlotById(r), Owned(r), "PermissionDenied"), Unbooked,
         "FailedPrecondition"), "slot", {"free", "booked", "used"})
  BY <1>8, <1>10, <1>5, GateTested
<1>13. r.who # "tutor" => Bars(TestedBy(TestedBy(SlotById(r), Owned(r), "PermissionDenied"),
         Unbooked, "FailedPrecondition"))
  BY <1>8, <1>10, <1>7, GateTested DEF Bars
<1>14. Reader(OwnUnbookedSlot(r))
  BY <1>11, <1>9, <1>2 DEF OwnUnbookedSlot
<1>15. Gate(OwnUnbookedSlot(r), "slot", {"free", "booked", "used"})
  BY <1>12, <1>9, <1>2 DEF OwnUnbookedSlot
<1>16. r.who # "tutor" => Bars(OwnUnbookedSlot(r))
  BY <1>13, <1>9, <1>2 DEF OwnUnbookedSlot, Bars
<1>17. "PermissionDenied" \in Error /\ "FailedPrecondition" \in Error
  BY Listed
<1>18. Ends(TestedBy(SlotById(r), Owned(r), "PermissionDenied"), "slot", {"free", "booked",
         "used"})
  BY <1>17, SlotByIdDoes, EndsTested
<1>19. \A w \in World : w \in Unbooked /\ w["slot"] \in {"free", "booked",
         "used"} => w["slot"] \in {"free", "used"}
  BY DEF Unbooked
<1>20. Ends(TestedBy(TestedBy(SlotById(r), Owned(r), "PermissionDenied"), Unbooked,
         "FailedPrecondition"), "slot", {"free", "used"})
  BY <1>17, <1>18, <1>19, EndsTested
<1>21. Gate(TestedBy(TestedBy(SlotById(r), Owned(r), "PermissionDenied"), Unbooked,
         "FailedPrecondition"), "slot", {"free", "used"})
  BY <1>20, EndsGate
<1>22. Gate(OwnUnbookedSlot(r), "slot", {"free", "used"})
  BY <1>21, <1>9, <1>2 DEF OwnUnbookedSlot
<1> QED
  BY <1>14, <1>16, <1>22

\* T sees the slot, and S when they are a pair.
LEMMA RpcGetSlotDoes ==
  ASSUME NEW r
  PROVE  /\ Reader(RpcGetSlot(r))
         /\ Gate(RpcGetSlot(r), "slot", {"free", "booked", "used"})
         /\ r.who # "tutor" => Gate(RpcGetSlot(r), "pair", {"active"})
         /\ r.who \notin Participants => Bars(RpcGetSlot(r))
<1>1. Reader(Becomes(ValidateTutorStudentPair(r), "PermissionDenied"))
  BY ValidateTutorStudentPairDoes, ReadLayers, Listed
<1>2. Gate(Becomes(ValidateTutorStudentPair(r), "PermissionDenied"), "pair", {"active"})
  BY ValidateTutorStudentPairDoes, AreCode, GateLayers, Listed
<1>3. r.who \notin Participants => Bars(Becomes(ValidateTutorStudentPair(r), "PermissionDenied"))
  BY ValidateTutorStudentPairDoes, AreCode, GateLayers, Listed DEF Bars
<1>4. Reader((IF r.who = "tutor" THEN <<>> ELSE Becomes(ValidateTutorStudentPair(r),
        "PermissionDenied")))
  BY <1>1, ReaderNothing
<1>5. r.who # "tutor"
        => Gate((IF r.who = "tutor" THEN <<>> ELSE Becomes(ValidateTutorStudentPair(r),
        "PermissionDenied")), "pair", {"active"})
  BY <1>2
<1>6. r.who \notin Participants
        => Bars((IF r.who = "tutor" THEN <<>> ELSE Becomes(ValidateTutorStudentPair(r),
        "PermissionDenied")))
  BY <1>3 DEF Participants
<1>7. Reader(RpcGetSlot(r))
  BY SlotByIdDoes, <1>4, ReaderJoined DEF RpcGetSlot
<1>8. r.who # "tutor" => Gate(RpcGetSlot(r), "pair", {"active"})
  BY SlotByIdDoes, <1>4, <1>5, AreCode, GateRight DEF RpcGetSlot
<1>9. r.who \notin Participants => Bars(RpcGetSlot(r))
  BY SlotByIdDoes, <1>4, <1>6, AreCode, GateRight DEF RpcGetSlot, Bars
<1>10. Gate(RpcGetSlot(r), "slot", {"free", "booked", "used"})
  BY SlotByIdDoes, <1>4, AreCode, GateLeft DEF RpcGetSlot
<1> QED
  BY <1>7, <1>10, <1>8, <1>9

LEMMA RpcCreateSlotDoes ==
  ASSUME NEW r
  PROVE  /\ Writer(RpcCreateSlot(r), {"slots"})
         /\ r.who # "tutor" => Bars(RpcCreateSlot(r))
<1>1. "PermissionDenied" \in Error
  BY Listed
<1>2. Reader(Require(IsTutor(r), "PermissionDenied"))
  BY <1>1, ReaderRequire, Zenon
<1>3. "PermissionDenied" \in Error
  BY Listed
<1>4. Reader(Require(r.who = "tutor", "PermissionDenied"))
  BY <1>3, ReaderRequire, Zenon
<1>5. r.who # "tutor" => Bars(Require(r.who = "tutor", "PermissionDenied"))
  BY <1>3, RequireBars
<1>6. Writer(Becomes(DbCreateSlot(r), "Internal"), {"slots"})
  BY WriteStatements, WriteLayers, Listed
<1>7. Reader(Require(IsTutor(r), "PermissionDenied") \o Require(r.who = "tutor",
        "PermissionDenied"))
  BY <1>2, <1>4, ReaderJoined
<1>8. r.who # "tutor" => Bars(Require(IsTutor(r), "PermissionDenied") \o Require(r.who = "tutor",
        "PermissionDenied"))
  BY <1>2, <1>4, <1>5, AreCode, GateRight DEF Bars
<1>9. Reader(Require(IsTutor(r), "PermissionDenied") \o Require(r.who = "tutor",
        "PermissionDenied") \o Parsed(r, "bad_value"))
  BY <1>7, Checks, ReaderJoined
<1>10. r.who # "tutor" => Bars(Require(IsTutor(r),
         "PermissionDenied") \o Require(r.who = "tutor", "PermissionDenied") \o Parsed(r,
         "bad_value"))
  BY <1>7, Checks, <1>8, AreCode, GateLeft DEF Bars
<1>11. Writer(RpcCreateSlot(r), {"slots"})
  BY <1>9, <1>6, WriterJoined DEF RpcCreateSlot
<1>12. r.who # "tutor" => Bars(RpcCreateSlot(r))
  BY <1>9, <1>6, <1>10, AreCode, GateLeft DEF RpcCreateSlot, Bars
<1> QED
  BY <1>11, <1>12

LEMMA RpcUpdateSlotDoes ==
  ASSUME NEW r
  PROVE  /\ Writer(RpcUpdateSlot(r), {"slots"})
         /\ r.who # "tutor" => Bars(RpcUpdateSlot(r))
         /\ Gate(RpcUpdateSlot(r), "slot", {"free", "used"})
<1>1. Writer(Becomes(DbUpdateSlot(r), "Internal"), {"slots"})
  BY WriteStatements, WriteLayers, Listed
<1>2. Reader(OwnUnbookedSlot(r) \o Parsed(r, "bad_value"))
  BY OwnUnbookedSlotDoes, Checks, ReaderJoined
<1>3. r.who # "tutor" => Bars(OwnUnbookedSlot(r) \o Parsed(r, "bad_value"))
  BY OwnUnbookedSlotDoes, Checks, AreCode, GateLeft DEF Bars
<1>4. Gate(OwnUnbookedSlot(r) \o Parsed(r, "bad_value"), "slot", {"free", "used"})
  BY OwnUnbookedSlotDoes, Checks, AreCode, GateLeft
<1>5. Writer(RpcUpdateSlot(r), {"slots"})
  BY <1>2, <1>1, WriterJoined DEF RpcUpdateSlot
<1>6. r.who # "tutor" => Bars(RpcUpdateSlot(r))
  BY <1>2, <1>1, <1>3, AreCode, GateLeft DEF RpcUpdateSlot, Bars
<1>7. Gate(RpcUpdateSlot(r), "slot", {"free", "used"})
  BY <1>2, <1>1, <1>4, AreCode, GateLeft DEF RpcUpdateSlot
<1> QED
  BY <1>5, <1>6, <1>7

LEMMA RpcDeleteSlotDoes ==
  ASSUME NEW r
  PROVE  /\ Writer(RpcDeleteSlot(r), {"slots"})
         /\ Gate(RpcDeleteSlot(r), "slot", {"free"})
         /\ r.who # "tutor" => Bars(RpcDeleteSlot(r))
<1>1. Writer(Becomes(DbDeleteSlot, "Internal"), {"slots"})
  BY WriteStatements, WriteLayers, Listed
<1>2. Gate(Becomes(DbDeleteSlot, "Internal"), "slot", {"free"})
  BY WriteStatements, GateStatements, AreCode, GateLayers, Listed
<1>3. Writer(RpcDeleteSlot(r), {"slots"})
  BY OwnUnbookedSlotDoes, <1>1, WriterJoined DEF RpcDeleteSlot
<1>4. Gate(RpcDeleteSlot(r), "slot", {"free"})
  BY OwnUnbookedSlotDoes, <1>1, <1>2, AreCode, GateRight DEF RpcDeleteSlot
<1>5. r.who # "tutor" => Bars(RpcDeleteSlot(r))
  BY OwnUnbookedSlotDoes, <1>1, AreCode, GateLeft DEF RpcDeleteSlot, Bars
<1> QED
  BY <1>3, <1>4, <1>5

LEMMA RpcListSlotsByTutorDoes ==
  ASSUME NEW r
  PROVE  /\ Reader(RpcListSlotsByTutor(r))
         /\ r.who # "tutor" => Gate(RpcListSlotsByTutor(r), "pair", {"active"})
         /\ r.who \notin Participants => Bars(RpcListSlotsByTutor(r))
<1>1. Reader(Becomes(ValidateTutorStudentPair(r), "PermissionDenied"))
  BY ValidateTutorStudentPairDoes, ReadLayers, Listed
<1>2. Gate(Becomes(ValidateTutorStudentPair(r), "PermissionDenied"), "pair", {"active"})
  BY ValidateTutorStudentPairDoes, AreCode, GateLayers, Listed
<1>3. r.who \notin Participants => Bars(Becomes(ValidateTutorStudentPair(r), "PermissionDenied"))
  BY ValidateTutorStudentPairDoes, AreCode, GateLayers, Listed DEF Bars
<1>4. Reader((IF r.who = "tutor" THEN <<>> ELSE Becomes(ValidateTutorStudentPair(r),
        "PermissionDenied")))
  BY <1>1, ReaderNothing
<1>5. r.who # "tutor"
        => Gate((IF r.who = "tutor" THEN <<>> ELSE Becomes(ValidateTutorStudentPair(r),
        "PermissionDenied")), "pair", {"active"})
  BY <1>2
<1>6. r.who \notin Participants
        => Bars((IF r.who = "tutor" THEN <<>> ELSE Becomes(ValidateTutorStudentPair(r),
        "PermissionDenied")))
  BY <1>3 DEF Participants
<1>7. Reader(DbListSlotsByTutor)
  BY ReadStatements DEF DbListSlotsByTutor
<1>8. Reader(Becomes(DbListSlotsByTutor, "Internal"))
  BY <1>7, ReadLayers, Listed
<1>9. Reader(Parsed(r,
        "bad_id") \o (IF r.who = "tutor" THEN <<>> ELSE Becomes(ValidateTutorStudentPair(r),
        "PermissionDenied")))
  BY Checks, <1>4, ReaderJoined
<1>10. r.who # "tutor" => Gate(Parsed(r,
         "bad_id") \o (IF r.who = "tutor" THEN <<>> ELSE Becomes(ValidateTutorStudentPair(r),
         "PermissionDenied")), "pair", {"active"})
  BY Checks, <1>4, <1>5, AreCode, GateRight
<1>11. r.who \notin Participants => Bars(Parsed(r,
         "bad_id") \o (IF r.who = "tutor" THEN <<>> ELSE Becomes(ValidateTutorStudentPair(r),
         "PermissionDenied")))
  BY Checks, <1>4, <1>6, AreCode, GateRight DEF Bars
<1>12. Reader(RpcListSlotsByTutor(r))
  BY <1>9, <1>8, ReaderJoined DEF RpcListSlotsByTutor
<1>13. r.who # "tutor" => Gate(RpcListSlotsByTutor(r), "pair", {"active"})
  BY <1>9, <1>8, <1>10, AreCode, GateLeft DEF RpcListSlotsByTutor
<1>14. r.who \notin Participants => Bars(RpcListSlotsByTutor(r))
  BY <1>9, <1>8, <1>11, AreCode, GateLeft DEF RpcListSlotsByTutor, Bars
<1> QED
  BY <1>12, <1>13, <1>14

\* The lesson named is read, and is there.
LEMMA LessonByIdDoes ==
  ASSUME NEW r
  PROVE  /\ Reader(LessonById(r))
         /\ Gate(LessonById(r), "lesson", {"unpaid", "paid"})
<1>1. Reader(NotFoundOr(DbGetLesson, "ErrLessonNotFound"))
  BY ReadStatements, ReadLayers
<1>2. Gate(NotFoundOr(DbGetLesson, "ErrLessonNotFound"), "lesson", {"unpaid", "paid"})
  BY ReadStatements, GateStatements, AreCode, GateLayers
<1>3. Reader(LessonById(r))
  BY Checks, <1>1, ReaderJoined DEF LessonById
<1>4. Gate(LessonById(r), "lesson", {"unpaid", "paid"})
  BY Checks, <1>1, <1>2, AreCode, GateRight DEF LessonById
<1> QED
  BY <1>3, <1>4

\* And only its participants get by.
LEMMA LessonOfDoes ==
  ASSUME NEW r, NEW callers
  PROVE  /\ Reader(LessonOf(r, callers))
         /\ r.who \notin callers => Bars(LessonOf(r, callers))
         /\ Gate(LessonOf(r, callers), "lesson", {"unpaid", "paid"})
<1>1. "PermissionDenied" \in Error
  BY Listed
<1>2. Reader(Require(r.who \in callers, "PermissionDenied"))
  BY <1>1, ReaderRequire, Zenon
<1>3. r.who \notin callers => Bars(Require(r.who \in callers, "PermissionDenied"))
  BY <1>1, RequireBars
<1>4. Reader(Becomes(DbGetSlot, "Internal"))
  BY ReadStatements, ReadLayers, Listed
<1>5. Reader(LessonById(r) \o Becomes(DbGetSlot, "Internal"))
  BY LessonByIdDoes, <1>4, ReaderJoined
<1>6. Gate(LessonById(r) \o Becomes(DbGetSlot, "Internal"), "lesson", {"unpaid", "paid"})
  BY LessonByIdDoes, <1>4, AreCode, GateLeft
<1>7. Reader(LessonOf(r, callers))
  BY <1>5, <1>2, ReaderJoined DEF LessonOf
<1>8. r.who \notin callers => Bars(LessonOf(r, callers))
  BY <1>5, <1>2, <1>3, AreCode, GateRight DEF LessonOf, Bars
<1>9. Gate(LessonOf(r, callers), "lesson", {"unpaid", "paid"})
  BY <1>5, <1>2, <1>6, AreCode, GateLeft DEF LessonOf
<1> QED
  BY <1>7, <1>8, <1>9

LEMMA RpcGetLessonDoes ==
  ASSUME NEW r
  PROVE  /\ Reader(RpcGetLesson(r))
         /\ Gate(RpcGetLesson(r), "lesson", {"unpaid", "paid"})
         /\ r.who \notin Participants => Bars(RpcGetLesson(r))
<1>1. Reader(RpcGetLesson(r))
  BY LessonOfDoes DEF RpcGetLesson
<1>2. Gate(RpcGetLesson(r), "lesson", {"unpaid", "paid"})
  BY LessonOfDoes DEF RpcGetLesson
<1>3. r.who \notin Participants => Bars(RpcGetLesson(r))
  BY LessonOfDoes DEF RpcGetLesson, Bars
<1> QED
  BY <1>1, <1>2, <1>3

LEMMA RpcCreateLessonDoes ==
  ASSUME NEW r
  PROVE  /\ Writer(RpcCreateLesson(r), {"lessons"})
         /\ Gate(RpcCreateLesson(r), "slot", {"free"})
         /\ Gate(RpcCreateLesson(r), "pair", {"active"})
         /\ r.who \notin Participants => Bars(RpcCreateLesson(r))
<1>1. SlotById(r) \in Code
  BY SlotByIdDoes, AreCode
<1>2. Tested(SlotById(r), LAMBDA w : w.slot # "booked", "AlreadyExists") = TestedBy(SlotById(r),
        Unbooked, "AlreadyExists")
  BY <1>1, Made DEF Tested, TestedBy, Makes, Outcome, Unbooked
<1>3. "AlreadyExists" \in Error
  BY Listed
<1>4. Reader(TestedBy(SlotById(r), Unbooked, "AlreadyExists"))
  BY SlotByIdDoes, <1>3, ReaderTested
<1>5. Gate(TestedBy(SlotById(r), Unbooked, "AlreadyExists"), "slot", {"free", "booked", "used"})
  BY <1>1, <1>3, SlotByIdDoes, GateTested
<1>6. ValidateTutorStudentPair(r) \in Code
  BY ValidateTutorStudentPairDoes, AreCode
<1>7. Through(ValidateTutorStudentPair(r),
        LAMBDA e : IF e = "no_pair" THEN "FailedPrecondition" ELSE "Internal")
        = Translated(ValidateTutorStudentPair(r), Either("no_pair", "FailedPrecondition",
        "Internal"))
  <2> DEFINE q == ValidateTutorStudentPair(r)
  <2>1. Through(ValidateTutorStudentPair(r),
          LAMBDA e : IF e = "no_pair" THEN "FailedPrecondition" ELSE "Internal") = Through(q,
          LAMBDA e : IF e = "no_pair" THEN "FailedPrecondition" ELSE "Internal")
  OBVIOUS
  <2>2. q \in Code
    BY <1>6
  <2> HIDE DEF q
  <2>3. \A i \in DOMAIN q, w \in World : \A o \in q[i][w] : o.err \in Error \cup {"ok"}
    BY <2>2, Made DEF Makes, Outcome
  <2>4. Through(q, LAMBDA e : IF e = "no_pair" THEN "FailedPrecondition"
          ELSE "Internal") = Translated(q, Either("no_pair", "FailedPrecondition", "Internal"))
    BY <2>3 DEF Through, Translated, Either
  <2> QED
    BY <2>1, <2>4 DEF q
<1>8. Either("no_pair", "FailedPrecondition", "Internal") \in Translation
  BY Translations, Listed
<1>9. Reader(Through(ValidateTutorStudentPair(r),
        LAMBDA e : IF e = "no_pair" THEN "FailedPrecondition" ELSE "Internal"))
  BY ValidateTutorStudentPairDoes, <1>7, <1>8, ReaderTranslated
<1>10. Gate(Through(ValidateTutorStudentPair(r),
         LAMBDA e : IF e = "no_pair" THEN "FailedPrecondition" ELSE "Internal"), "pair",
         {"active"})
  BY <1>6, <1>7, <1>8, ValidateTutorStudentPairDoes, GateTranslated
<1>11. r.who \notin Participants => Bars(Through(ValidateTutorStudentPair(r),
         LAMBDA e : IF e = "no_pair" THEN "FailedPrecondition" ELSE "Internal"))
  BY <1>6, <1>7, <1>8, ValidateTutorStudentPairDoes, GateTranslated DEF Bars
<1>12. "PermissionDenied" \in Error
  BY Listed
<1>13. Reader(Require(r.who # "other_tutor", "PermissionDenied"))
  BY <1>12, ReaderRequire, Zenon
<1>14. Writer(Becomes(DbCreateLessonAndBookSlot, "Internal"), {"lessons"})
  BY WriteStatements, WriteLayers, Listed
<1>15. Gate(Becomes(DbCreateLessonAndBookSlot, "Internal"), "slot", {"free"})
  BY WriteStatements, GateStatements, AreCode, GateLayers, Listed
<1>16. Reader(TestedBy(SlotById(r), Unbooked, "AlreadyExists") \o Require(r.who # "other_tutor",
         "PermissionDenied"))
  BY <1>4, <1>13, ReaderJoined
<1>17. Reader(TestedBy(SlotById(r), Unbooked, "AlreadyExists") \o Require(r.who # "other_tutor",
         "PermissionDenied") \o Through(ValidateTutorStudentPair(r),
         LAMBDA e : IF e = "no_pair" THEN "FailedPrecondition" ELSE "Internal"))
  BY <1>16, <1>9, ReaderJoined
<1>18. Gate(TestedBy(SlotById(r), Unbooked, "AlreadyExists") \o Require(r.who # "other_tutor",
         "PermissionDenied") \o Through(ValidateTutorStudentPair(r),
         LAMBDA e : IF e = "no_pair" THEN "FailedPrecondition" ELSE "Internal"), "pair",
         {"active"})
  BY <1>16, <1>9, <1>10, AreCode, GateRight
<1>19. r.who \notin Participants => Bars(TestedBy(SlotById(r), Unbooked,
         "AlreadyExists") \o Require(r.who # "other_tutor",
         "PermissionDenied") \o Through(ValidateTutorStudentPair(r),
         LAMBDA e : IF e = "no_pair" THEN "FailedPrecondition" ELSE "Internal"))
  BY <1>16, <1>9, <1>11, AreCode, GateRight DEF Bars
<1>20. Writer(RpcCreateLesson(r), {"lessons"})
  BY <1>17, <1>14, <1>2, WriterJoined DEF RpcCreateLesson
<1>21. Gate(RpcCreateLesson(r), "slot", {"free"})
  BY <1>17, <1>14, <1>2, <1>15, AreCode, GateRight DEF RpcCreateLesson
<1>22. Gate(RpcCreateLesson(r), "pair", {"active"})
  BY <1>17, <1>14, <1>2, <1>18, AreCode, GateLeft DEF RpcCreateLesson
<1>23. r.who \notin Participants => Bars(RpcCreateLesson(r))
  BY <1>17, <1>14, <1>2, <1>19, AreCode, GateLeft DEF RpcCreateLesson, Bars
<1> QED
  BY <1>20, <1>21, <1>22, <1>23

LEMMA RpcUpdateLessonDoes ==
  ASSUME NEW r
  PROVE  /\ r.form = "empty" => Reader(RpcUpdateLesson(r))
         /\ r.form # "empty" => Writer(RpcUpdateLesson(r), {"lessons"})
         /\ Gate(RpcUpdateLesson(r), "lesson", {"unpaid", "paid"})
         /\ r.who \notin {"tutor"} => Bars(RpcUpdateLesson(r))
<1>1. Writer(Becomes(DbUpdateLesson, "Internal"), {"lessons"})
  BY WriteStatements, WriteLayers, Listed
<1>2. r.form = "empty" => Reader((IF r.form = "empty" THEN <<>> ELSE Becomes(DbUpdateLesson,
        "Internal")))
  BY ReaderNothing
<1>3. r.form # "empty" => Writer((IF r.form = "empty" THEN <<>> ELSE Becomes(DbUpdateLesson,
        "Internal")), {"lessons"})
  BY <1>1
<1>4. Reader(LessonOf(r, {"tutor"}))
  BY LessonOfDoes
<1>5. r.form = "empty" => Reader(RpcUpdateLesson(r))
  BY <1>2, <1>4, ReaderJoined DEF RpcUpdateLesson
<1>6. r.form # "empty" => Writer(RpcUpdateLesson(r), {"lessons"})
  BY <1>3, <1>4, WriterJoined DEF RpcUpdateLesson
<1>7. LessonOf(r,
        {"tutor"}) \in Code /\ (IF r.form = "empty" THEN <<>> ELSE Becomes(DbUpdateLesson,
        "Internal")) \in Code
  BY <1>2, <1>3, <1>4, AreCode
<1>8. Gate(RpcUpdateLesson(r), "lesson", {"unpaid", "paid"})
  BY <1>7, LessonOfDoes, GateLeft DEF RpcUpdateLesson
<1>9. r.who \notin {"tutor"} => Bars(RpcUpdateLesson(r))
  BY <1>7, LessonOfDoes, GateLeft DEF RpcUpdateLesson, Bars
<1> QED
  BY <1>5, <1>6, <1>8, <1>9

LEMMA RpcCancelLessonDoes ==
  ASSUME NEW r
  PROVE  /\ Writer(RpcCancelLesson(r), {"lessons"})
         /\ Gate(RpcCancelLesson(r), "lesson", {"unpaid", "paid"})
         /\ r.who \notin Participants => Bars(RpcCancelLesson(r))
<1>1. Writer(Becomes(DbCancelLessonAndFreeSlot, "Internal"), {"lessons"})
  BY WriteStatements, WriteLayers, Listed
<1>2. Writer(RpcCancelLesson(r), {"lessons"})
  BY LessonOfDoes, <1>1, WriterJoined DEF RpcCancelLesson
<1>3. Gate(RpcCancelLesson(r), "lesson", {"unpaid", "paid"})
  BY LessonOfDoes, <1>1, AreCode, GateLeft DEF RpcCancelLesson
<1>4. r.who \notin Participants => Bars(RpcCancelLesson(r))
  BY LessonOfDoes, <1>1, AreCode, GateLeft DEF RpcCancelLesson, Bars
<1> QED
  BY <1>2, <1>3, <1>4

LEMMA RpcListLessonsByTutorDoes ==
  ASSUME NEW r
  PROVE  /\ Reader(RpcListLessonsByTutor(r))
         /\ r.who # "tutor" => Bars(RpcListLessonsByTutor(r))
<1>1. "PermissionDenied" \in Error
  BY Listed
<1>2. Reader(Require(r.who = "tutor", "PermissionDenied"))
  BY <1>1, ReaderRequire, Zenon
<1>3. r.who # "tutor" => Bars(Require(r.who = "tutor", "PermissionDenied"))
  BY <1>1, RequireBars
<1>4. Reader(DbListLessonsByTutor)
  BY ReadStatements DEF DbListLessonsByTutor, queryLessons
<1>5. Reader(Becomes(DbListLessonsByTutor, "Internal"))
  BY <1>4, ReadLayers, Listed
<1>6. Reader(Parsed(r, "bad_id") \o Require(r.who = "tutor", "PermissionDenied"))
  BY Checks, <1>2, ReaderJoined
<1>7. r.who # "tutor" => Bars(Parsed(r, "bad_id") \o Require(r.who = "tutor", "PermissionDenied"))
  BY Checks, <1>2, <1>3, AreCode, GateRight DEF Bars
<1>8. Reader(RpcListLessonsByTutor(r))
  BY <1>6, <1>5, ReaderJoined DEF RpcListLessonsByTutor
<1>9. r.who # "tutor" => Bars(RpcListLessonsByTutor(r))
  BY <1>6, <1>5, <1>7, AreCode, GateLeft DEF RpcListLessonsByTutor, Bars
<1> QED
  BY <1>8, <1>9

LEMMA RpcListLessonsByStudentDoes ==
  ASSUME NEW r
  PROVE  /\ Reader(RpcListLessonsByStudent(r))
         /\ r.who # "student" => Bars(RpcListLessonsByStudent(r))
<1>1. "PermissionDenied" \in Error
  BY Listed
<1>2. Reader(Require(r.who = "student" /\ r.form # "bad_id", "PermissionDenied"))
  BY <1>1, ReaderRequire, Zenon
<1>3. r.who # "student" => Bars(Require(r.who = "student" /\ r.form # "bad_id",
        "PermissionDenied"))
  BY <1>1, RequireBars
<1>4. Reader(DbListLessonsByStudent)
  BY ReadStatements DEF DbListLessonsByStudent, queryLessons
<1>5. Reader(Becomes(DbListLessonsByStudent, "Internal"))
  BY <1>4, ReadLayers, Listed
<1>6. Reader(RpcListLessonsByStudent(r))
  BY <1>2, <1>5, ReaderJoined DEF RpcListLessonsByStudent
<1>7. r.who # "student" => Bars(RpcListLessonsByStudent(r))
  BY <1>2, <1>5, <1>3, AreCode, GateLeft DEF RpcListLessonsByStudent, Bars
<1> QED
  BY <1>6, <1>7

LEMMA RpcListLessonsByPairDoes ==
  ASSUME NEW r
  PROVE  /\ Reader(RpcListLessonsByPair(r))
         /\ Gate(RpcListLessonsByPair(r), "pair", {"active"})
         /\ r.who \notin Participants => Bars(RpcListLessonsByPair(r))
<1>1. ValidateTutorStudentPair(r) \in Code
  BY ValidateTutorStudentPairDoes, AreCode
<1>2. Through(ValidateTutorStudentPair(r),
        LAMBDA e : IF e = "no_pair" THEN "PermissionDenied" ELSE "Internal")
        = Translated(ValidateTutorStudentPair(r), Either("no_pair", "PermissionDenied",
        "Internal"))
  <2> DEFINE q == ValidateTutorStudentPair(r)
  <2>1. Through(ValidateTutorStudentPair(r),
          LAMBDA e : IF e = "no_pair" THEN "PermissionDenied" ELSE "Internal") = Through(q,
          LAMBDA e : IF e = "no_pair" THEN "PermissionDenied" ELSE "Internal")
  OBVIOUS
  <2>2. q \in Code
    BY <1>1
  <2> HIDE DEF q
  <2>3. \A i \in DOMAIN q, w \in World : \A o \in q[i][w] : o.err \in Error \cup {"ok"}
    BY <2>2, Made DEF Makes, Outcome
  <2>4. Through(q, LAMBDA e : IF e = "no_pair" THEN "PermissionDenied"
          ELSE "Internal") = Translated(q, Either("no_pair", "PermissionDenied", "Internal"))
    BY <2>3 DEF Through, Translated, Either
  <2> QED
    BY <2>1, <2>4 DEF q
<1>3. Either("no_pair", "PermissionDenied", "Internal") \in Translation
  BY Translations, Listed
<1>4. Reader(Through(ValidateTutorStudentPair(r),
        LAMBDA e : IF e = "no_pair" THEN "PermissionDenied" ELSE "Internal"))
  BY ValidateTutorStudentPairDoes, <1>2, <1>3, ReaderTranslated
<1>5. Gate(Through(ValidateTutorStudentPair(r),
        LAMBDA e : IF e = "no_pair" THEN "PermissionDenied" ELSE "Internal"), "pair", {"active"})
  BY <1>1, <1>2, <1>3, ValidateTutorStudentPairDoes, GateTranslated
<1>6. r.who \notin Participants => Bars(Through(ValidateTutorStudentPair(r),
        LAMBDA e : IF e = "no_pair" THEN "PermissionDenied" ELSE "Internal"))
  BY <1>1, <1>2, <1>3, ValidateTutorStudentPairDoes, GateTranslated DEF Bars
<1>7. "PermissionDenied" \in Error
  BY Listed
<1>8. Reader(Require(r.who \in Participants, "PermissionDenied"))
  BY <1>7, ReaderRequire, Zenon
<1>9. Reader(DbListLessonsByPair)
  BY ReadStatements DEF DbListLessonsByPair, queryLessons
<1>10. Reader(Becomes(DbListLessonsByPair, "Internal"))
  BY <1>9, ReadLayers, Listed
<1>11. Reader(Require(r.who \in Participants,
         "PermissionDenied") \o Through(ValidateTutorStudentPair(r),
         LAMBDA e : IF e = "no_pair" THEN "PermissionDenied" ELSE "Internal"))
  BY <1>8, <1>4, ReaderJoined
<1>12. Gate(Require(r.who \in Participants,
         "PermissionDenied") \o Through(ValidateTutorStudentPair(r),
         LAMBDA e : IF e = "no_pair" THEN "PermissionDenied" ELSE "Internal"), "pair", {"active"})
  BY <1>8, <1>4, <1>5, AreCode, GateRight
<1>13. r.who \notin Participants => Bars(Require(r.who \in Participants,
         "PermissionDenied") \o Through(ValidateTutorStudentPair(r),
         LAMBDA e : IF e = "no_pair" THEN "PermissionDenied" ELSE "Internal"))
  BY <1>8, <1>4, <1>6, AreCode, GateRight DEF Bars
<1>14. Reader(Require(r.who \in Participants,
         "PermissionDenied") \o Through(ValidateTutorStudentPair(r),
         LAMBDA e : IF e = "no_pair" THEN "PermissionDenied" ELSE "Internal") \o Parsed(r,
         "bad_id"))
  BY <1>11, Checks, ReaderJoined
<1>15. Gate(Require(r.who \in Participants,
         "PermissionDenied") \o Through(ValidateTutorStudentPair(r),
         LAMBDA e : IF e = "no_pair" THEN "PermissionDenied" ELSE "Internal") \o Parsed(r,
         "bad_id"), "pair", {"active"})
  BY <1>11, Checks, <1>12, AreCode, GateLeft
<1>16. r.who \notin Participants => Bars(Require(r.who \in Participants,
         "PermissionDenied") \o Through(ValidateTutorStudentPair(r),
         LAMBDA e : IF e = "no_pair" THEN "PermissionDenied" ELSE "Internal") \o Parsed(r,
         "bad_id"))
  BY <1>11, Checks, <1>13, AreCode, GateLeft DEF Bars
<1>17. Reader(RpcListLessonsByPair(r))
  BY <1>14, <1>10, ReaderJoined DEF RpcListLessonsByPair
<1>18. Gate(RpcListLessonsByPair(r), "pair", {"active"})
  BY <1>14, <1>10, <1>15, AreCode, GateLeft DEF RpcListLessonsByPair
<1>19. r.who \notin Participants => Bars(RpcListLessonsByPair(r))
  BY <1>14, <1>10, <1>16, AreCode, GateLeft DEF RpcListLessonsByPair, Bars
<1> QED
  BY <1>17, <1>18, <1>19

LEMMA RpcMarkAsPaidDoes ==
  ASSUME NEW r
  PROVE  /\ Writer(RpcMarkAsPaid(r), {"lessons"})
         /\ Gate(RpcMarkAsPaid(r), "lesson", {"unpaid", "paid"})
<1>1. Writer(Becomes(DbMarkAsPaid, "Internal"), {"lessons"})
  BY WriteStatements, WriteLayers, Listed
<1>2. Writer(RpcMarkAsPaid(r), {"lessons"})
  BY LessonByIdDoes, <1>1, WriterJoined DEF RpcMarkAsPaid
<1>3. Gate(RpcMarkAsPaid(r), "lesson", {"unpaid", "paid"})
  BY LessonByIdDoes, <1>1, AreCode, GateLeft DEF RpcMarkAsPaid
<1> QED
  BY <1>2, <1>3

-----------------------------------------------------------------------------
(* The file service *)

\* What is written stays written when a later step fails, if that step has only
\* fatal errors.
LEMMA WriterCommits ==
  ASSUME NEW p, NEW q, NEW S, NEW T, Writer(p, S), Writer(q, T), \A x : Commits(q, x)
  PROVE  Writer(p \o q, S \cup T)
<1>1. p \in Code /\ q \in Code
  BY DEF Writer
<1>2. \A x : Serves(p \o q, S \cup T, x)
  BY <1>1, ServesJoined DEF Writer
<1> QED
  BY <1>1, <1>2, Joined DEF Writer

\* Presigning writes nothing, and fails fatally.
LEMMA PresignDoes ==
  /\ Reader(Presign)
  /\ \A x : Commits(Presign, x)
  /\ \A w, o : Yields(Presign, w, o) => o.err = "ok" \/ (o.err = "presign" /\ Down(o))
<1> DEFINE f == [w \in World |-> {Done(w), [Fails(w, "presign") EXCEPT !.down = TRUE]}]
<1>1. "presign" \in Error /\ "presign" \in Fatal
  BY Errors DEF Fatal
<1>2. ASSUME NEW w \in World, NEW o \in f[w]
      PROVE  /\ Is(o, w, "ok", {}) \/ (Is(o, w, "presign", {}) /\ Down(o))
             /\ Follows(w, o)
  <2>1. Is(Done(w), w, "ok", {}) /\ Follows(w, Done(w))
    BY DoneIs, DoneFollows
  <2> DEFINE g == Fails(w, "presign")
             h == [g EXCEPT !.down = TRUE]
  <2>2. Is(g, w, "presign", {})
    BY <1>1, FailsIs
  <2>3. o = Done(w) \/ o = h
    BY <1>2
  <2> HIDE DEF g
  <2>4. Is(h, w, "presign", {}) /\ Down(h)
    BY <2>2 DEF Is, Outcome, Down
  <2>5. Kept(w, w)
    BY <1>2, Updates
  <2>6. Follows(w, h)
    BY <2>4, <2>5 DEF Is, Kept, Follows
  <2> QED
    BY <2>1, <2>3, <2>4, <2>6
<1>3. f \in RoundTrips
  <2>1. f = [w \in World |-> f[w]]
    OBVIOUS
  <2> HIDE DEF f
  <2> QED
    BY <1>2, <2>1, IsRoundTrip
<1>4. Presign = <<f>>
  BY DEF Presign
<1> HIDE DEF f
<1>5. /\ Presign \in Code
      /\ \A w, o : Yields(Presign, w, o) => w \in World /\ o \in f[w]
  BY <1>3, <1>4, Single
<1>6. \A w, o : Yields(Presign, w, o) =>
        Is(o, w, "ok", {}) \/ (Is(o, w, "presign", {}) /\ Down(o))
  BY <1>2, <1>5
<1> QED
  BY <1>1, <1>5, <1>6 DEF Reader, Commits, Is

\* A file that is not there has no URL.
LEMMA RpcGenerateDownloadURLDoes ==
  ASSUME NEW r
  PROVE  /\ Reader(RpcGenerateDownloadURL(r))
         /\ Gate(RpcGenerateDownloadURL(r), "file", {"present"})
<1>1. Reader(FileNotFound(DbGetFile))
  BY ReadStatements, ReadLayers
<1>2. Gate(FileNotFound(DbGetFile), "file", {"present"})
  BY ReadStatements, GateStatements, AreCode, GateLayers
<1>3. Reader(generateDownloadURL)
  BY PresignDoes DEF generateDownloadURL
<1>4. Reader(SvcGenerateDownloadURL)
  BY <1>1, <1>3, ReaderJoined DEF SvcGenerateDownloadURL
<1>5. Gate(SvcGenerateDownloadURL, "file", {"present"})
  BY <1>1, <1>3, <1>2, AreCode, GateLeft DEF SvcGenerateDownloadURL
<1>6. Reader(fileMapError(SvcGenerateDownloadURL, {"ErrNotFound"}))
  BY <1>4, ReadLayers
<1>7. Gate(fileMapError(SvcGenerateDownloadURL, {"ErrNotFound"}), "file", {"present"})
  BY <1>4, <1>5, AreCode, GateLayers
<1>8. Reader(RpcGenerateDownloadURL(r))
  BY Checks, <1>6, ReaderJoined DEF RpcGenerateDownloadURL
<1>9. Gate(RpcGenerateDownloadURL(r), "file", {"present"})
  BY Checks, <1>6, <1>7, AreCode, GateRight DEF RpcGenerateDownloadURL
<1> QED
  BY <1>8, <1>9

LEMMA RpcGetFileMetaDoes ==
  ASSUME NEW r
  PROVE  /\ Reader(RpcGetFileMeta(r))
         /\ Gate(RpcGetFileMeta(r), "file", {"present"})
<1>1. Reader(SvcGetFileMeta)
  BY ReadStatements, ReadLayers DEF SvcGetFileMeta
<1>2. Gate(SvcGetFileMeta, "file", {"present"})
  BY ReadStatements, GateStatements, AreCode, GateLayers DEF SvcGetFileMeta
<1>3. Reader(fileMapError(SvcGetFileMeta, {"ErrNotFound"}))
  BY <1>1, ReadLayers
<1>4. Gate(fileMapError(SvcGetFileMeta, {"ErrNotFound"}), "file", {"present"})
  BY <1>1, <1>2, AreCode, GateLayers
<1>5. Reader(RpcGetFileMeta(r))
  BY Checks, <1>3, ReaderJoined DEF RpcGetFileMeta
<1>6. Gate(RpcGetFileMeta(r), "file", {"present"})
  BY Checks, <1>3, <1>4, AreCode, GateRight DEF RpcGetFileMeta
<1> QED
  BY <1>5, <1>6

\* When presigning fails, the file's row has been written.
LEMMA RpcInitUploadDoes ==
  ASSUME NEW r
  PROVE  Writer(RpcInitUpload(r), {"files"})
<1>1. "ErrValidation" \in Error
  BY Listed
<1>2. Reader(Require(AllowedExtension(r), "ErrValidation"))
  BY <1>1, ReaderRequire, Zenon
<1>3. Writer(Require(AllowedExtension(r), "ErrValidation") \o DbCreateFile, {"files"})
  BY <1>2, WriteStatements, WriterJoined
<1>4. Writer(Presign, {}) /\ \A x : Commits(Presign, x)
  BY PresignDoes, WriterReads
<1>5. {"files"} \cup {} = {"files"}
  BY Zenon
<1>6. Writer(SvcInitUpload(r), {"files"} \cup {})
  BY <1>3, <1>4, WriterCommits DEF SvcInitUpload, generateUploadURL
<1>7. Writer(SvcInitUpload(r), {"files"})
  BY <1>5, <1>6
<1>8. Writer(fileMapError(SvcInitUpload(r), {"ErrValidation"}), {"files"})
  BY <1>7, WriteLayers
<1>9. Writer(RpcInitUpload(r), {"files"})
  BY Checks, <1>8, WriterJoined DEF RpcInitUpload
<1> QED
  BY <1>9

-----------------------------------------------------------------------------
(* The payment service *)

\* What a layer makes of a sequence, it makes of its parts.
LEMMA TranslatedJoined ==
  ASSUME NEW p \in Code, NEW q \in Code, NEW G \in Translation
  PROVE  Translated(p \o q, G) = Translated(p, G) \o Translated(q, G)
<1> DEFINE a == Translated(p \o q, G)
           b == Translated(p, G) \o Translated(q, G)
           m == Len(p)
           n == Len(p) + Len(q)
           f(g) == [w \in World |->
                     {[o EXCEPT !.err = IF @ = "ok" THEN @ ELSE G[@]] : o \in g[w]}]
<1>1. /\ Len(p) \in Nat /\ Len(q) \in Nat /\ p \o q \in Code /\ Len(p \o q) = n
      /\ DOMAIN p = 1 .. m /\ DOMAIN q = 1 .. Len(q) /\ DOMAIN (p \o q) = 1 .. n
  BY Joined DEF Code
<1>2. /\ Translated(p, G) \in Code /\ Translated(q, G) \in Code /\ a \in Code
      /\ Len(Translated(p, G)) = m /\ Len(Translated(q, G)) = Len(q) /\ Len(a) = n
  BY <1>1, Translates
<1>3. b \in Code /\ Len(b) = n
  BY <1>2, Joined
<1>4. /\ \A i \in 1 .. m : Translated(p, G)[i] = f(p[i])
      /\ \A i \in 1 .. Len(q) : Translated(q, G)[i] = f(q[i])
      /\ \A i \in 1 .. n : a[i] = f((p \o q)[i])
  BY <1>1 DEF Translated
<1> HIDE DEF f, a
<1>5. ASSUME NEW i \in 1 .. n
      PROVE  a[i] = b[i]
  <2>1. CASE i \in 1 .. m
    <3>1. (p \o q)[i] = p[i] /\ b[i] = Translated(p, G)[i]
      BY <1>1, <1>2, <2>1 DEF Code
    <3> QED
      BY <1>4, <2>1, <3>1
  <2>2. CASE i \notin 1 .. m
    <3>1. i - m \in 1 .. Len(q)
      BY <1>1, <2>2
    <3>2. (p \o q)[i] = q[i - m] /\ b[i] = Translated(q, G)[i - m]
      BY <1>1, <1>2, <2>2, <3>1 DEF Code
    <3> QED
      BY <1>4, <3>1, <3>2
  <2> QED
    BY <2>1, <2>2
<1> HIDE DEF b
<1>6. a = b
  BY <1>2, <1>3, <1>5 DEF Code
<1> QED
  BY <1>6 DEF a, b

\* The UPDATE of the receipt writes when there is one.
LEMMA UpdatesReceiptDoes ==
  /\ UpdatesReceipt \in Code /\ Len(UpdatesReceipt) = 1
  /\ \A w, o : Yields(UpdatesReceipt, w, o) =>
       \/ o.err = "ok" /\ o.did = IF w.receipt = "present" THEN {"receipts"} ELSE {}
       \/ o.err = "repository error" /\ Down(o) /\ (w.receipt # "present" => o.did = {})
<1> DEFINE F == [w \in World |-> {IF w.receipt = "present" THEN Wrote(w,
             "receipts") ELSE Done(w)}]
           q == Trip(F)
<1>1. UpdatesReceipt = Through(q, handleError) /\ F = [w \in World |-> F[w]]
  BY DEF UpdatesReceipt, Statement, RoundTrip, Trip
<1>2. ASSUME NEW w \in World, NEW o \in F[w]
      PROVE  \/ w.receipt = "present" /\ o = Wrote(w, "receipts")
             \/ w.receipt # "present" /\ o = Done(w)
  BY <1>2
<1> HIDE DEF F
<1>3. ASSUME NEW w \in World, NEW o \in F[w]
      PROVE  /\ Follows(w, o)
             /\ o.err = "ok" /\ o.did = IF w.receipt = "present" THEN {"receipts"} ELSE {}
  <2>1. CASE w.receipt = "present" /\ o = Wrote(w, "receipts")
    <3>1. "receipts" \in Written
      BY Tables
    <3>2. Is(Wrote(w, "receipts"), w, "ok", {"receipts"})
      BY <1>3, <3>1, WroteIs
    <3>3. Kept(w, w)
      BY <1>3, Updates
    <3> QED
      BY <2>1, <3>2, <3>3 DEF Is, Kept, Follows
  <2>2. CASE w.receipt # "present" /\ o = Done(w)
    BY <1>3, <2>2, DoneIs, DoneFollows DEF Is
  <2> QED
    BY <1>2, <1>3, <2>1, <2>2
<1>4. F \in RoundTrips
  BY <1>1, <1>3, IsRoundTrip
<1>5. q \in Code /\ Len(q) = 1
  BY <1>4, Trips
<1>6. ASSUME NEW w, NEW o, Yields(q, w, o)
      PROVE  \/ o.err = "ok" /\ o.did = IF w.receipt = "present" THEN {"receipts"} ELSE {}
             \/ o.err = "down" /\ Down(o) /\ (w.receipt # "present" => o.did = {})
  <2>1. /\ w \in World
        /\ \/ o \in F[w]
           \/ /\ o.err = "down" /\ Down(o)
              /\ o.did = {} \/ \E o2 \in F[w] : o.did = o2.did
    BY <1>4, <1>6, Trips
  <2>2. \A o2 \in F[w] : o2.err = "ok"
          /\ o2.did = IF w.receipt = "present" THEN {"receipts"} ELSE {}
    BY <1>3, <2>1
  <2> QED
    BY <2>1, <2>2
<1> HIDE DEF q
<1>7. UpdatesReceipt = Translated(q, Handled) /\ Handled \in Translation
  BY <1>1, <1>5, Layers, Translations
<1>8. ASSUME NEW w, NEW o, Yields(UpdatesReceipt, w, o)
      PROVE  \/ o.err = "ok" /\ o.did = IF w.receipt = "present" THEN {"receipts"} ELSE {}
             \/ o.err = "repository error" /\ Down(o) /\ (w.receipt # "present" => o.did = {})
  <2>1. PICK o2 : Yields(q, w, o2) /\ Renames(Handled, o2, o)
    BY <1>5, <1>7, <1>8, Translates
  <2>2. Handled["down"] = "repository error"
    BY Listed DEF Handled
  <2>3. /\ o.did = o2.did
        /\ o2.err = "ok" => o.err = "ok"
        /\ o2.err = "down" => o.err = "repository error"
        /\ Down(o2) => Down(o)
    BY <2>1, <2>2, Errors DEF Renames
  <2>4. \/ o2.err = "ok" /\ o2.did = IF w.receipt = "present" THEN {"receipts"} ELSE {}
        \/ o2.err = "down" /\ Down(o2) /\ (w.receipt # "present" => o2.did = {})
    BY <1>6, <2>1
  <2> QED
    BY <2>3, <2>4
<1> QED
  BY <1>5, <1>7, <1>8, Translates

\* The SELECT after it finds the receipt again, or fails where nothing was
\* written.
LEMMA DbUpdateReceiptDoes ==
  /\ Writer(DbUpdateReceipt, {"receipts"})
  /\ Gate(DbUpdateReceipt, "receipt", {"present"})
<1> DEFINE p == UpdatesReceipt
           q == DbGetReceiptByID
           H == {w \in World : w.receipt = "present"}
           T == {"receipts"}
<1>1. DbUpdateReceipt = p \o q
  BY DEF DbUpdateReceipt, UpdatesReceipt
<1>2. Answers(q, H, Same("ErrNotFound"), {}, "repository error")
  BY DbGetReceiptByIDDoes
<1>3. /\ p \in Code /\ Len(p) = 1 /\ q \in Code /\ Len(q) = 1
      /\ \A w, o : Yields(q, w, o) =>
           /\ w \in World
           /\ o.did = {}
           /\ o.err = "ok" => w.receipt = "present"
           /\ o.err # "ok" => o.err = "repository error" \/ w.receipt # "present"
  BY <1>2, UpdatesReceiptDoes, Errors DEF Answers
<1>4. T \in SUBSET Written /\ "repository error" \in Fatal /\ "ok" # "repository error"
  BY Tables DEF Fatal
<1>5. ASSUME NEW x
      PROVE  Serves(p \o q, T, x)
  <2>1. CASE x = "present"
    <3>1. Serves(p, T, x)
      <4>1. ASSUME NEW w, NEW o, Yields(p, w, o), w.receipt = x
            PROVE  /\ o.err = "ok" => o.did = T
                   /\ o.err \notin Fatal \cup {"ok"} => o.did = {}
        BY <1>4, <2>1, <4>1, UpdatesReceiptDoes
      <4> HIDE DEF T, p
      <4> QED
        BY <1>3, <1>4, <4>1, ServesSingle
    <3>2. Serves(q, {}, x)
      BY <1>3, ServesSilent
    <3>3. Commits(q, x)
      BY <1>3, <1>4, <2>1 DEF Commits
    <3> HIDE DEF T, p, q
    <3>4. Serves(p \o q, T \cup {}, x)
      BY <1>3, <3>1, <3>2, <3>3, ServesJoined
    <3>5. T \cup {} = T
      OBVIOUS
    <3> QED
      BY <3>4, <3>5
  <2>2. CASE x # "present"
    <3>1. Serves(p, {}, x)
      <4>1. ASSUME NEW w, NEW o, Yields(p, w, o), w.receipt = x
            PROVE  /\ o.err = "ok" => o.did = {}
                   /\ o.err \notin Fatal \cup {"ok"} => o.did = {}
        BY <1>4, <2>2, <4>1, UpdatesReceiptDoes
      <4>2. {} \in SUBSET Written
        OBVIOUS
      <4> HIDE DEF T, p
      <4> QED
        BY <1>3, <4>1, <4>2, ServesSingle
    <3>2. Serves(q, T, x)
      <4>1. ASSUME NEW w, NEW o, Yields(q, w, o), w.receipt = x
            PROVE  /\ o.err = "ok" => o.did = T
                   /\ o.err \notin Fatal \cup {"ok"} => o.did = {}
        BY <1>3, <2>2, <4>1
      <4> HIDE DEF T, q
      <4> QED
        BY <1>3, <1>4, <4>1, ServesSingle
    <3> HIDE DEF T, p, q
    <3>3. Serves(p \o q, {} \cup T, x)
      BY <1>3, <3>1, <3>2, ServesJoined
    <3>4. {} \cup T = T
      OBVIOUS
    <3> QED
      BY <3>3, <3>4
  <2> QED
    BY <2>1, <2>2
<1>6. Gate(q, "receipt", {"present"})
  BY GateStatements
<1> HIDE DEF p, q
<1>7. Gate(p \o q, "receipt", {"present"}) /\ p \o q \in Code
  BY <1>3, <1>6, GateRight, Joined
<1> QED
  BY <1>1, <1>5, <1>7 DEF Writer, T

\* What is held of the lesson has been read before the last of the steps.
Holds(p) ==
  \E i \in DOMAIN p :
    /\ i < Len(p)
    /\ \A w, o : Makes(p, i, w, o) /\ o.err = "ok" => o.world.held # "none"

\* And has been looked at after it was read, for a lesson that is paid.
Twice(p) ==
  \E i, j \in DOMAIN p :
    /\ i < j
    /\ \A w, o : Makes(p, i, w, o) /\ o.err = "ok" => o.world.held # "none"
    /\ \A w, o : Makes(p, j, w, o) /\ o.err = "ok" => o.world.held # "paid"

LEMMA HoldsEnds ==
  ASSUME NEW p, Ends(p, "held", {"unpaid", "paid"}), NEW q \in Code, Len(q) > 0
  PROVE  Holds(p \o q)
<1>1. /\ p \in Code /\ Len(p) \in Nat /\ Len(q) \in Nat /\ Len(p) > 0
      /\ Len(p \o q) = Len(p) + Len(q) /\ p \o q \in Code
      /\ DOMAIN (p \o q) = 1 .. Len(p \o q)
      /\ DOMAIN q = 1 .. Len(q)
  BY Joined DEF Ends, Code
<1>2. Len(p) \in DOMAIN (p \o q) /\ Len(p) < Len(p \o q) /\ Len(p) - Len(p) \notin DOMAIN q
  BY <1>1
<1>3. \A w, o : Makes(p \o q, Len(p), w, o) => Makes(p, Len(p), w, o)
  BY <1>1, <1>2, Joined DEF Makes
<1>4. \A w, o : Makes(p, Len(p), w, o) /\ o.err = "ok" => o.world.held # "none"
  BY DEF Ends
<1> QED
  BY <1>2, <1>3, <1>4 DEF Holds

LEMMA HoldsJoined ==
  ASSUME NEW p \in Code, NEW q \in Code
  PROVE  /\ Holds(p) => Holds(p \o q)
         /\ Holds(q) => Holds(p \o q)
<1>1. /\ Len(p) \in Nat /\ Len(q) \in Nat
      /\ Len(p \o q) = Len(p) + Len(q) /\ p \o q \in Code
      /\ DOMAIN (p \o q) = 1 .. (Len(p) + Len(q))
      /\ DOMAIN p = 1 .. Len(p) /\ DOMAIN q = 1 .. Len(q)
  BY Joined DEF Code
<1>2. ASSUME Holds(p)
      PROVE  Holds(p \o q)
  <2>1. PICK i \in DOMAIN p :
          /\ i < Len(p)
          /\ \A w, o : Makes(p, i, w, o) /\ o.err = "ok" => o.world.held # "none"
    BY <1>2 DEF Holds
  <2>2. i \in DOMAIN (p \o q) /\ i < Len(p \o q) /\ i - Len(p) \notin DOMAIN q
    BY <1>1, <2>1
  <2>3. \A w, o : Makes(p \o q, i, w, o) => Makes(p, i, w, o)
    BY <2>2, Joined DEF Makes
  <2> QED
    BY <2>1, <2>2, <2>3 DEF Holds
<1>3. ASSUME Holds(q)
      PROVE  Holds(p \o q)
  <2>1. PICK i \in DOMAIN q :
          /\ i < Len(q)
          /\ \A w, o : Makes(q, i, w, o) /\ o.err = "ok" => o.world.held # "none"
    BY <1>3 DEF Holds
  <2>2. /\ i + Len(p) \in DOMAIN (p \o q) /\ i + Len(p) < Len(p \o q)
        /\ i + Len(p) \notin DOMAIN p /\ (i + Len(p)) - Len(p) = i
    BY <1>1, <2>1
  <2>3. \A w, o : Makes(p \o q, i + Len(p), w, o) => Makes(q, i, w, o)
    BY <2>2, Joined DEF Makes
  <2> QED
    BY <2>1, <2>2, <2>3 DEF Holds
<1> QED
  BY <1>2, <1>3

LEMMA TwiceTested ==
  ASSUME NEW p \in Code, Holds(p), NEW H, NEW e \in Error,
         \A w \in World : w \in H => w.held # "paid"
  PROVE  Twice(TestedBy(p, H, e))
<1>1. PICK i \in DOMAIN p :
        /\ i < Len(p)
        /\ \A w, o : Makes(p, i, w, o) /\ o.err = "ok" => o.world.held # "none"
  BY DEF Holds
<1>2. DOMAIN p = 1 .. Len(p) /\ Len(p) \in Nat /\ DOMAIN TestedBy(p, H, e) = DOMAIN p
  BY DEF Code, TestedBy
<1>3. Len(p) \in DOMAIN TestedBy(p, H, e) /\ i \in DOMAIN TestedBy(p, H, e)
  BY <1>1, <1>2
<1>4. ASSUME NEW w, NEW o, Makes(TestedBy(p, H, e), i, w, o), o.err = "ok"
      PROVE  o.world.held # "none"
  <2>1. PICK o2 : Makes(p, i, w, o2) /\ Survives(H, e, o2, o)
    BY <1>4, Tests
  <2>2. o2 = o
    BY <1>4, <2>1, Errors DEF Survives, Is
  <2> QED
    BY <1>1, <1>4, <2>1, <2>2
<1>5. ASSUME NEW w, NEW o, Makes(TestedBy(p, H, e), Len(p), w, o), o.err = "ok"
      PROVE  o.world.held # "paid"
  <2>1. o.world \in H /\ o.world \in World
    BY <1>5, Tests, Made DEF Outcome
  <2> QED
    BY <2>1
<1> QED
  BY <1>1, <1>3, <1>4, <1>5 DEF Twice

LEMMA TwiceJoined ==
  ASSUME NEW p \in Code, NEW q \in Code
  PROVE  /\ Twice(p) => Twice(p \o q)
         /\ Twice(q) => Twice(p \o q)
<1>1. /\ Len(p) \in Nat /\ Len(q) \in Nat
      /\ DOMAIN (p \o q) = 1 .. (Len(p) + Len(q))
      /\ DOMAIN p = 1 .. Len(p) /\ DOMAIN q = 1 .. Len(q)
  BY Joined DEF Code
<1>2. ASSUME Twice(p)
      PROVE  Twice(p \o q)
  <2>1. PICK i \in DOMAIN p, j \in DOMAIN p :
          /\ i < j
          /\ \A w, o : Makes(p, i, w, o) /\ o.err = "ok" => o.world.held # "none"
          /\ \A w, o : Makes(p, j, w, o) /\ o.err = "ok" => o.world.held # "paid"
    BY <1>2 DEF Twice
  <2>2. /\ i \in DOMAIN (p \o q) /\ i - Len(p) \notin DOMAIN q
        /\ j \in DOMAIN (p \o q) /\ j - Len(p) \notin DOMAIN q
    BY <1>1
  <2>3. \A w, o : /\ Makes(p \o q, i, w, o) => Makes(p, i, w, o)
                  /\ Makes(p \o q, j, w, o) => Makes(p, j, w, o)
    BY <2>2, Joined DEF Makes
  <2> QED
    BY <2>1, <2>2, <2>3 DEF Twice
<1>3. ASSUME Twice(q)
      PROVE  Twice(p \o q)
  <2>1. PICK i \in DOMAIN q, j \in DOMAIN q :
          /\ i < j
          /\ \A w, o : Makes(q, i, w, o) /\ o.err = "ok" => o.world.held # "none"
          /\ \A w, o : Makes(q, j, w, o) /\ o.err = "ok" => o.world.held # "paid"
    BY <1>3 DEF Twice
  <2> DEFINE a == i + Len(p)
             b == j + Len(p)
  <2>2. /\ a \in DOMAIN (p \o q) /\ a \notin DOMAIN p /\ a - Len(p) = i
        /\ b \in DOMAIN (p \o q) /\ b \notin DOMAIN p /\ b - Len(p) = j
        /\ a < b
    BY <1>1, <2>1
  <2> HIDE DEF a, b
  <2>3. \A w, o : /\ Makes(p \o q, a, w, o) => Makes(q, i, w, o)
                  /\ Makes(p \o q, b, w, o) => Makes(q, j, w, o)
    BY <2>2, Joined DEF Makes
  <2> QED
    BY <2>1, <2>2, <2>3 DEF Twice
<1> QED
  BY <1>2, <1>3

LEMMA TwiceTranslated ==
  ASSUME NEW p \in Code, NEW G \in Translation, Twice(p)
  PROVE  Twice(Translated(p, G))
<1>1. PICK i \in DOMAIN p, j \in DOMAIN p :
        /\ i < j
        /\ \A w, o : Makes(p, i, w, o) /\ o.err = "ok" => o.world.held # "none"
        /\ \A w, o : Makes(p, j, w, o) /\ o.err = "ok" => o.world.held # "paid"
  BY DEF Twice
<1>2. i \in DOMAIN Translated(p, G) /\ j \in DOMAIN Translated(p, G)
  BY DEF Translated
<1>3. ASSUME NEW k, NEW w, NEW o, Makes(Translated(p, G), k, w, o), o.err = "ok"
      PROVE  \E o2 : Makes(p, k, w, o2) /\ o2.err = "ok" /\ o2.world = o.world
  <2>1. PICK o2 : Makes(p, k, w, o2) /\ Renames(G, o2, o)
    BY <1>3, Translates
  <2>2. o2.err = "ok" /\ o2.world = o.world
    BY <1>3, <2>1, Errors DEF Renames
  <2> QED
    BY <2>1, <2>2
<1>4. /\ \A w, o : Makes(Translated(p, G), i, w, o) /\ o.err = "ok" => o.world.held # "none"
      /\ \A w, o : Makes(Translated(p, G), j, w, o) /\ o.err = "ok" => o.world.held # "paid"
  BY <1>1, <1>3
<1> QED
  BY <1>1, <1>2, <1>4 DEF Twice

\* The lesson is read, then its slot.
LEMMA RpcGetLessonHolds ==
  ASSUME NEW r
  PROVE  Holds(RpcGetLesson(r))
<1> DEFINE a == NotFoundOr(DbGetLesson, "ErrLessonNotFound")
           b == Becomes(DbGetSlot, "Internal")
           c == Require(r.who \in Participants, "PermissionDenied")
<1>1. "Internal" \in Error /\ "NotFound" \in Error /\ "PermissionDenied" \in Error
  BY Listed
<1>2. Either("ErrLessonNotFound", "NotFound", "Internal") \in Translation
  BY <1>1, Translations
<1>3. DbGetLesson \in Code /\ DbGetSlot \in Code
  BY ReadStatements, AreCode
<1>4. a = Translated(DbGetLesson, Either("ErrLessonNotFound", "NotFound", "Internal"))
  BY <1>3, Layers
<1>5. Ends(a, "held", {"unpaid", "paid"})
  BY <1>2, <1>4, ReadRows, EndsTranslated
<1> HIDE DEF a
<1>6. Parsed(r, "bad_id") \in Code
  BY Checks, AreCode
<1>7. Ends(LessonById(r), "held", {"unpaid", "paid"})
  BY <1>5, <1>6, EndsJoined DEF LessonById, a
<1>8. Gate(b, "slot", {"free", "booked", "used"}) /\ b \in Code
  BY <1>1, <1>3, ReadStatements, ReadLayers, AreCode, GateStatements, GateLayers
<1>9. Reader(c)
  BY <1>1, ReaderRequire, Zenon
<1>10. c \in Code
  BY <1>9, AreCode
<1> HIDE DEF b, c
<1>11. Len(b) > 0
  BY <1>8 DEF Gate, Code
<1>12. Holds(LessonById(r) \o b)
  BY <1>7, <1>8, <1>11, HoldsEnds
<1>13. LessonById(r) \o b \in Code
  BY <1>7, <1>8, Joined DEF Ends
<1>14. Holds(LessonById(r) \o b \o c)
  BY <1>10, <1>12, <1>13, HoldsJoined
<1> QED
  BY <1>14 DEF RpcGetLesson, LessonOf, b, c

\* A call that marks a lesson fails in ways the caller has no name for.
LEMMA RpcMarkAsPaidFails ==
  ASSUME NEW r, NEW w, NEW o, Yields(Remote(RpcMarkAsPaid(r)), w, o)
  PROVE  o.err \in {"ok", "InvalidArgument", "NotFound", "Internal", "Unavailable"}
<1> DEFINE a == Parsed(r, "bad_id")
           b == NotFoundOr(DbGetLesson, "ErrLessonNotFound")
           c == Becomes(DbMarkAsPaid, "Internal")
<1>1. "Internal" \in Error /\ "NotFound" \in Error /\ "InvalidArgument" \in Error
  BY Listed
<1>2. DbGetLesson \in Code /\ DbMarkAsPaid \in Code
  BY ReadStatements, WriteStatements, AreCode
<1>3. /\ Either("ErrLessonNotFound", "NotFound", "Internal") \in Translation
      /\ Always("Internal") \in Translation
  BY <1>1, Translations
<1>4. /\ b = Translated(DbGetLesson, Either("ErrLessonNotFound", "NotFound", "Internal"))
      /\ c = Translated(DbMarkAsPaid, Always("Internal"))
  BY <1>2, Layers
<1>5. a \in Code /\ b \in Code /\ c \in Code
  <2>1. a \in Code
    BY Checks, AreCode
  <2> QED
    BY <1>2, <1>3, <1>4, <2>1, Translates
<1>6. Yields(a, w, o) => o.err = "InvalidArgument"
  <2>1. \A w2, o2 : Yields(Require(r.form # "bad_id", "InvalidArgument"), w2, o2)
                      => Is(o2, w2, "InvalidArgument", {})
    BY <1>1, Required, Zenon
  <2> QED
    BY <2>1 DEF Parsed, Is
<1>7. ASSUME Yields(b, w, o)
      PROVE  o.err \in {"ok", "NotFound", "Internal"}
  <2>1. PICK o2 : Renames(Either("ErrLessonNotFound", "NotFound", "Internal"), o2, o)
    BY <1>2, <1>3, <1>4, <1>7, Translates
  <2> QED
    BY <2>1 DEF Renames, Either
<1>8. ASSUME Yields(c, w, o)
      PROVE  o.err \in {"ok", "Internal"}
  <2>1. PICK o2 : Renames(Always("Internal"), o2, o)
    BY <1>2, <1>3, <1>4, <1>8, Translates
  <2> QED
    BY <2>1 DEF Renames, Always
<1>9. Yields(Call, w, o) => o.err \in {"ok", "Unavailable"}
  BY Called DEF Is
<1> HIDE DEF a, b, c
<1>10. Remote(RpcMarkAsPaid(r)) = Call \o (a \o b \o c)
  BY Called DEF RpcMarkAsPaid, LessonById, a, b, c
<1>11. Yields(Call, w, o) \/ Yields(a, w, o) \/ Yields(b, w, o) \/ Yields(c, w, o)
  <2>1. a \o b \in Code /\ a \o b \o c \in Code
    BY <1>5, Joined
  <2>2. Yields(Call, w, o) \/ Yields(a \o b \o c, w, o)
    BY <1>10, <2>1, Called, Joined
  <2> QED
    BY <1>5, <2>1, <2>2, Joined
<1> QED
  BY <1>6, <1>7, <1>8, <1>9, <1>11

\* Lessons that are not known to be paid.
Unpaid == {w \in World : w.held # "paid"}

LEMMA NotNilDoes ==
  ASSUME NEW r
  PROVE  Reader(NotNil(r))
<1>1. "ErrInvalidArgument" \in Error
  BY Listed
<1>2. Reader(Require(r.form # "nil_id", "ErrInvalidArgument"))
  BY <1>1, ReaderRequire, Zenon
<1>3. Reader(NotNil(r))
  BY <1>2 DEF NotNil
<1> QED
  BY <1>3

LEMMA requireRoleDoes ==
  ASSUME NEW r, NEW role
  PROVE  /\ Reader(requireRole(r, role))
         /\ Role(r) # role => Bars(requireRole(r, role))
<1>1. "ErrPermissionDenied" \in Error
  BY Listed
<1>2. Reader(Require(Role(r) = role, "ErrPermissionDenied"))
  BY <1>1, ReaderRequire, Zenon
<1>3. Role(r) # role => Bars(Require(Role(r) = role, "ErrPermissionDenied"))
  BY <1>1, RequireBars
<1>4. Reader(requireRole(r, role))
  BY <1>2 DEF requireRole
<1>5. Role(r) # role => Bars(requireRole(r, role))
  BY <1>3 DEF requireRole, Bars
<1> QED
  BY <1>4, <1>5

LEMMA RpcGetPaymentInfoDoes ==
  ASSUME NEW r
  PROVE  /\ Reader(RpcGetPaymentInfo(r))
         /\ Gate(RpcGetPaymentInfo(r), "lesson", {"unpaid", "paid"})
         /\ r.who \notin Participants => Bars(RpcGetPaymentInfo(r))
<1>1. Reader(Remote(RpcGetLesson(r)))
  BY RpcGetLessonDoes, ReaderRemote
<1>2. Gate(Remote(RpcGetLesson(r)), "lesson", {"unpaid", "paid"})
  BY RpcGetLessonDoes, AreCode, GateRemote
<1>3. r.who \notin Participants => Bars(Remote(RpcGetLesson(r)))
  BY RpcGetLessonDoes, AreCode, GateRemote DEF Bars
<1>4. Reader(SvcGetPaymentInfo(r))
  BY NotNilDoes, <1>1, ReaderJoined DEF SvcGetPaymentInfo
<1>5. Gate(SvcGetPaymentInfo(r), "lesson", {"unpaid", "paid"})
  BY NotNilDoes, <1>1, <1>2, AreCode, GateRight DEF SvcGetPaymentInfo
<1>6. r.who \notin Participants => Bars(SvcGetPaymentInfo(r))
  BY NotNilDoes, <1>1, <1>3, AreCode, GateRight DEF SvcGetPaymentInfo, Bars
<1>7. Reader(paymentMapError(SvcGetPaymentInfo(r), {"ErrNotFound"}))
  BY <1>4, ReadLayers DEF PaymentErrors
<1>8. Gate(paymentMapError(SvcGetPaymentInfo(r), {"ErrNotFound"}), "lesson", {"unpaid", "paid"})
  BY <1>4, <1>5, AreCode, GateLayers DEF PaymentErrors
<1>9. r.who \notin Participants => Bars(paymentMapError(SvcGetPaymentInfo(r), {"ErrNotFound"}))
  BY <1>4, <1>6, AreCode, GateLayers DEF PaymentErrors, Bars
<1>10. Reader(RpcGetPaymentInfo(r))
  BY Checks, <1>7, ReaderJoined DEF RpcGetPaymentInfo
<1>11. Gate(RpcGetPaymentInfo(r), "lesson", {"unpaid", "paid"})
  BY Checks, <1>7, <1>8, AreCode, GateRight DEF RpcGetPaymentInfo
<1>12. r.who \notin Participants => Bars(RpcGetPaymentInfo(r))
  BY Checks, <1>7, <1>9, AreCode, GateRight DEF RpcGetPaymentInfo, Bars
<1> QED
  BY <1>10, <1>11, <1>12

LEMMA RpcGetReceiptDoes ==
  ASSUME NEW r
  PROVE  /\ Reader(RpcGetReceipt(r))
         /\ Gate(RpcGetReceipt(r), "receipt", {"present"})
<1>1. Reader(SvcGetReceipt(r))
  BY NotNilDoes, ReadStatements, ReaderJoined DEF SvcGetReceipt
<1>2. Gate(SvcGetReceipt(r), "receipt", {"present"})
  BY NotNilDoes, ReadStatements, GateStatements, AreCode, GateRight DEF SvcGetReceipt
<1>3. Reader(paymentMapError(SvcGetReceipt(r), {"ErrNotFound", "ErrPermissionDenied"}))
  BY <1>1, ReadLayers DEF PaymentErrors
<1>4. Gate(paymentMapError(SvcGetReceipt(r), {"ErrNotFound", "ErrPermissionDenied"}), "receipt",
        {"present"})
  BY <1>1, <1>2, AreCode, GateLayers DEF PaymentErrors
<1>5. Reader(RpcGetReceipt(r))
  BY Checks, <1>3, ReaderJoined DEF RpcGetReceipt
<1>6. Gate(RpcGetReceipt(r), "receipt", {"present"})
  BY Checks, <1>3, <1>4, AreCode, GateRight DEF RpcGetReceipt
<1> QED
  BY <1>5, <1>6

LEMMA RpcVerifyReceiptDoes ==
  ASSUME NEW r
  PROVE  /\ Writer(RpcVerifyReceipt(r), {"receipts"})
         /\ Gate(RpcVerifyReceipt(r), "receipt", {"present"})
         /\ Role(r) # "tutor" => Bars(RpcVerifyReceipt(r))
<1>1. Reader(requireRole(r, "tutor") \o NotNil(r))
  BY requireRoleDoes, NotNilDoes, ReaderJoined
<1>2. Role(r) # "tutor" => Bars(requireRole(r, "tutor") \o NotNil(r))
  BY requireRoleDoes, NotNilDoes, AreCode, GateLeft DEF Bars
<1>3. Writer(SvcVerifyReceipt(r), {"receipts"})
  BY <1>1, DbUpdateReceiptDoes, WriterJoined DEF SvcVerifyReceipt
<1>4. Gate(SvcVerifyReceipt(r), "receipt", {"present"})
  BY <1>1, DbUpdateReceiptDoes, AreCode, GateRight DEF SvcVerifyReceipt
<1>5. Role(r) # "tutor" => Bars(SvcVerifyReceipt(r))
  BY <1>1, DbUpdateReceiptDoes, <1>2, AreCode, GateLeft DEF SvcVerifyReceipt, Bars
<1>6. Writer(paymentMapError(SvcVerifyReceipt(r), {"ErrNotFound", "ErrPermissionDenied"}),
        {"receipts"})
  BY <1>3, WriteLayers DEF PaymentErrors
<1>7. Gate(paymentMapError(SvcVerifyReceipt(r), {"ErrNotFound", "ErrPermissionDenied"}),
        "receipt", {"present"})
  BY <1>3, <1>4, AreCode, GateLayers DEF PaymentErrors
<1>8. Role(r) # "tutor" => Bars(paymentMapError(SvcVerifyReceipt(r), {"ErrNotFound",
        "ErrPermissionDenied"}))
  BY <1>3, <1>5, AreCode, GateLayers DEF PaymentErrors, Bars
<1>9. Writer(RpcVerifyReceipt(r), {"receipts"})
  BY Checks, <1>6, WriterJoined DEF RpcVerifyReceipt
<1>10. Gate(RpcVerifyReceipt(r), "receipt", {"present"})
  BY Checks, <1>6, <1>7, AreCode, GateRight DEF RpcVerifyReceipt
<1>11. Role(r) # "tutor" => Bars(RpcVerifyReceipt(r))
  BY Checks, <1>6, <1>8, AreCode, GateRight DEF RpcVerifyReceipt, Bars
<1> QED
  BY <1>9, <1>10, <1>11

LEMMA RpcGetReceiptFileDoes ==
  ASSUME NEW r
  PROVE  /\ Reader(RpcGetReceiptFile(r))
         /\ Gate(RpcGetReceiptFile(r), "file", {"present"})
         /\ Gate(RpcGetReceiptFile(r), "receipt", {"present"})
<1>1. Reader(Remote(RpcGenerateDownloadURL(r)))
  BY RpcGenerateDownloadURLDoes, ReaderRemote
<1>2. Gate(Remote(RpcGenerateDownloadURL(r)), "file", {"present"})
  BY RpcGenerateDownloadURLDoes, AreCode, GateRemote
<1>3. Reader(NotNil(r) \o DbGetReceiptByID)
  BY NotNilDoes, ReadStatements, ReaderJoined
<1>4. Gate(NotNil(r) \o DbGetReceiptByID, "receipt", {"present"})
  BY NotNilDoes, ReadStatements, GateStatements, AreCode, GateRight
<1>5. Reader(SvcGetReceiptFile(r))
  BY <1>3, <1>1, ReaderJoined DEF SvcGetReceiptFile
<1>6. Gate(SvcGetReceiptFile(r), "file", {"present"})
  BY <1>3, <1>1, <1>2, AreCode, GateRight DEF SvcGetReceiptFile
<1>7. Gate(SvcGetReceiptFile(r), "receipt", {"present"})
  BY <1>3, <1>1, <1>4, AreCode, GateLeft DEF SvcGetReceiptFile
<1>8. Reader(paymentMapError(SvcGetReceiptFile(r), {"ErrNotFound", "ErrInvalidArgument",
        "ErrPermissionDenied"}))
  BY <1>5, ReadLayers DEF PaymentErrors
<1>9. Gate(paymentMapError(SvcGetReceiptFile(r), {"ErrNotFound", "ErrInvalidArgument",
        "ErrPermissionDenied"}), "file", {"present"})
  BY <1>5, <1>6, AreCode, GateLayers DEF PaymentErrors
<1>10. Gate(paymentMapError(SvcGetReceiptFile(r), {"ErrNotFound", "ErrInvalidArgument",
         "ErrPermissionDenied"}), "receipt", {"present"})
  BY <1>5, <1>7, AreCode, GateLayers DEF PaymentErrors
<1>11. Reader(RpcGetReceiptFile(r))
  BY Checks, <1>8, ReaderJoined DEF RpcGetReceiptFile
<1>12. Gate(RpcGetReceiptFile(r), "file", {"present"})
  BY Checks, <1>8, <1>9, AreCode, GateRight DEF RpcGetReceiptFile
<1>13. Gate(RpcGetReceiptFile(r), "receipt", {"present"})
  BY Checks, <1>8, <1>10, AreCode, GateRight DEF RpcGetReceiptFile
<1> QED
  BY <1>11, <1>12, <1>13

\* The receipt is stored before the lesson is marked, and when the lesson is not
\* marked the caller learns of an internal error, whatever it was.
LEMMA RpcSubmitPaymentReceiptDoes ==
  ASSUME NEW r
  PROVE  /\ Writer(RpcSubmitPaymentReceipt(r), {"receipts", "lessons"})
         /\ Twice(RpcSubmitPaymentReceipt(r))
         /\ Role(r) # "student" => Bars(RpcSubmitPaymentReceipt(r))
         /\ r.who \notin Participants => Bars(RpcSubmitPaymentReceipt(r))
<1>1. Reader(Remote(RpcGetLesson(r)))
  BY RpcGetLessonDoes, ReaderRemote
<1>2. Gate(Remote(RpcGetLesson(r)), "lesson", {"unpaid", "paid"})
  BY RpcGetLessonDoes, AreCode, GateRemote
<1>3. r.who \notin Participants => Bars(Remote(RpcGetLesson(r)))
  BY RpcGetLessonDoes, AreCode, GateRemote DEF Bars
<1>4. Remote(RpcGetLesson(r)) \in Code
  BY <1>1, AreCode
<1>5. Tested(Remote(RpcGetLesson(r)), LAMBDA w : w.held # "paid",
        "ErrAlreadyExists") = TestedBy(Remote(RpcGetLesson(r)), Unpaid, "ErrAlreadyExists")
  BY <1>4, Made DEF Tested, TestedBy, Makes, Outcome, Unpaid
<1>6. "ErrAlreadyExists" \in Error
  BY Listed
<1>7. Reader(TestedBy(Remote(RpcGetLesson(r)), Unpaid, "ErrAlreadyExists"))
  BY <1>1, <1>6, ReaderTested
<1>8. Gate(TestedBy(Remote(RpcGetLesson(r)), Unpaid, "ErrAlreadyExists"), "lesson", {"unpaid",
        "paid"})
  BY <1>4, <1>6, <1>2, GateTested
<1>9. r.who \notin Participants => Bars(TestedBy(Remote(RpcGetLesson(r)), Unpaid,
        "ErrAlreadyExists"))
  BY <1>4, <1>6, <1>3, GateTested DEF Bars
<1>10. Reader(requireRole(r, "student") \o NotNil(r))
  BY requireRoleDoes, NotNilDoes, ReaderJoined
<1>11. Role(r) # "student" => Bars(requireRole(r, "student") \o NotNil(r))
  BY requireRoleDoes, NotNilDoes, AreCode, GateLeft DEF Bars
<1>12. Reader(requireRole(r, "student") \o NotNil(r) \o TestedBy(Remote(RpcGetLesson(r)), Unpaid,
         "ErrAlreadyExists"))
  BY <1>10, <1>7, ReaderJoined
<1>13. r.who \notin Participants => Bars(requireRole(r,
         "student") \o NotNil(r) \o TestedBy(Remote(RpcGetLesson(r)), Unpaid, "ErrAlreadyExists"))
  BY <1>10, <1>7, <1>9, AreCode, GateRight DEF Bars
<1>14. Role(r) # "student" => Bars(requireRole(r,
         "student") \o NotNil(r) \o TestedBy(Remote(RpcGetLesson(r)), Unpaid, "ErrAlreadyExists"))
  BY <1>10, <1>7, <1>11, AreCode, GateLeft DEF Bars
<1>15. Holds(Remote(RpcGetLesson(r)))
  BY Called, RpcGetLessonDoes, RpcGetLessonHolds, AreCode, HoldsJoined
<1>16. \A w \in World : w \in Unpaid => w.held # "paid"
  BY DEF Unpaid
<1>17. "ErrAlreadyExists" \in Error
  BY Listed
<1>18. Twice(TestedBy(Remote(RpcGetLesson(r)), Unpaid, "ErrAlreadyExists"))
  BY <1>15, <1>16, <1>17, <1>1, AreCode, TwiceTested
<1>19. requireRole(r, "student") \o NotNil(r) \in Code
  BY requireRoleDoes, NotNilDoes, ReaderJoined, AreCode
<1>20. Twice(requireRole(r, "student") \o NotNil(r) \o TestedBy(Remote(RpcGetLesson(r)), Unpaid,
         "ErrAlreadyExists"))
  BY <1>19, <1>18, <1>7, AreCode, TwiceJoined
<1>21. Writer(requireRole(r, "student") \o NotNil(r) \o TestedBy(Remote(RpcGetLesson(r)), Unpaid,
         "ErrAlreadyExists") \o DbCreateReceipt, {"receipts"})
  BY <1>12, WriteStatements, WriterJoined
<1>22. r.who \notin Participants => Bars(requireRole(r,
         "student") \o NotNil(r) \o TestedBy(Remote(RpcGetLesson(r)), Unpaid,
         "ErrAlreadyExists") \o DbCreateReceipt)
  BY <1>12, WriteStatements, <1>13, AreCode, GateLeft DEF Bars
<1>23. Role(r) # "student" => Bars(requireRole(r,
         "student") \o NotNil(r) \o TestedBy(Remote(RpcGetLesson(r)), Unpaid,
         "ErrAlreadyExists") \o DbCreateReceipt)
  BY <1>12, WriteStatements, <1>14, AreCode, GateLeft DEF Bars
<1>24. requireRole(r, "student") \o NotNil(r) \o TestedBy(Remote(RpcGetLesson(r)), Unpaid,
         "ErrAlreadyExists") \in Code /\ DbCreateReceipt \in Code /\ requireRole(r,
         "student") \o NotNil(r) \o TestedBy(Remote(RpcGetLesson(r)), Unpaid,
         "ErrAlreadyExists") \o DbCreateReceipt \in Code
  BY <1>12, <1>21, WriteStatements, AreCode
<1>25. Twice(requireRole(r, "student") \o NotNil(r) \o TestedBy(Remote(RpcGetLesson(r)), Unpaid,
         "ErrAlreadyExists") \o DbCreateReceipt)
  BY <1>24, <1>20, TwiceJoined
<1>26. Writer(Remote(RpcMarkAsPaid(r)), {"lessons"})
  BY RpcMarkAsPaidDoes, WriterRemote
<1>27. Remote(RpcMarkAsPaid(r)) \in Code
  BY <1>26, AreCode
<1>28. PaymentStatus(PaymentErrors) \in Translation /\ Keeps(PaymentStatus(PaymentErrors))
  BY Translations, Keepers
<1>29. SvcSubmitPaymentReceipt(r) = requireRole(r,
         "student") \o NotNil(r) \o TestedBy(Remote(RpcGetLesson(r)), Unpaid,
         "ErrAlreadyExists") \o DbCreateReceipt \o Remote(RpcMarkAsPaid(r))
  BY <1>5 DEF SvcSubmitPaymentReceipt
<1> DEFINE p == requireRole(r, "student") \o NotNil(r) \o TestedBy(Remote(RpcGetLesson(r)),
             Unpaid, "ErrAlreadyExists") \o DbCreateReceipt
           q == Remote(RpcMarkAsPaid(r))
           G == PaymentStatus(PaymentErrors)
           all == paymentMapError(SvcSubmitPaymentReceipt(r),
                    {"ErrNotFound", "ErrPermissionDenied", "ErrInvalidArgument",
                     "ErrAlreadyExists"})
           before == Require(r.form # "empty", "Unavailable") \o Parsed(r, "bad_id")
                     \o Parsed(r, "bad_file")
<1>30. Writer(p, {"receipts"}) /\ Writer(q, {"lessons"}) /\ Twice(p)
  BY <1>21, <1>26, <1>25
<1>31. Role(r) # "student" => Bars(p)
  BY <1>23
<1>32. r.who \notin Participants => Bars(p)
  BY <1>22
<1>33. p \in Code /\ q \in Code /\ G \in Translation /\ Keeps(G)
  BY <1>24, <1>27, <1>28
<1>34. SvcSubmitPaymentReceipt(r) = p \o q
  BY <1>29
<1>35. \A w, o : Yields(q, w, o) => o.err \in {"ok", "InvalidArgument", "NotFound", "Internal",
         "Unavailable"}
  BY RpcMarkAsPaidFails
<1>36. before \in Code
  <2>1. "Unavailable" \in Error
    BY Listed
  <2>2. Reader(Require(r.form # "empty", "Unavailable"))
    BY <2>1, ReaderRequire, Zenon
  <2>3. Reader(before)
    BY <2>2, Checks, ReaderJoined
  <2> QED
    BY <2>3, AreCode
<1>37. Reader(before)
  <2>1. "Unavailable" \in Error
    BY Listed
  <2>2. Reader(Require(r.form # "empty", "Unavailable"))
    BY <2>1, ReaderRequire, Zenon
  <2> QED
    BY <2>2, Checks, ReaderJoined
<1>38. PaymentErrors = {"ErrNotFound", "ErrPermissionDenied", "ErrInvalidArgument",
         "ErrAlreadyExists"}
  BY DEF PaymentErrors
<1>39. RpcSubmitPaymentReceipt(r) = before \o all
  BY DEF RpcSubmitPaymentReceipt
<1> HIDE DEF p, q, G, before
<1>40. all = Translated(p, G) \o Translated(q, G)
  <2>1. p \o q \in Code
    BY <1>33, Joined
  <2>2. paymentMapError(p \o q, PaymentErrors) = Translated(p \o q, G)
    BY <2>1, Layers DEF G
  <2>3. Translated(p \o q, G) = Translated(p, G) \o Translated(q, G)
    BY <1>33, TranslatedJoined
  <2> QED
    BY <2>2, <2>3, <1>34, <1>38
<1>41. \A x : Commits(Translated(q, G), x)
  <2>1. ASSUME NEW w, NEW o, Yields(Translated(q, G), w, o), o.err # "ok"
        PROVE  o.err \in Fatal
    <3>1. PICK o2 : Yields(q, w, o2) /\ Renames(G, o2, o)
      BY <1>33, <2>1, Translates
    <3>2. o2.err \in Error /\ o.err = G[o2.err]
      BY <2>1, <3>1 DEF Renames
    <3>3. o2.err \in {"InvalidArgument", "NotFound", "Internal", "Unavailable"}
      BY <1>35, <3>1, <3>2, Errors
    <3>4. G[o2.err] = "Internal"
      BY <3>2, <3>3 DEF G, PaymentStatus, PaymentErrors
    <3> QED
      BY <3>2, <3>4 DEF Fatal
  <2> QED
    BY <2>1 DEF Commits
<1>42. Writer(Translated(p, G), {"receipts"}) /\ Writer(Translated(q, G), {"lessons"})
  BY <1>30, <1>33, WriterTranslated
<1>43. Writer(all, {"receipts", "lessons"})
  <2>1. Writer(Translated(p, G) \o Translated(q, G), {"receipts"} \cup {"lessons"})
    BY <1>41, <1>42, WriterCommits
  <2>2. {"receipts"} \cup {"lessons"} = {"receipts", "lessons"}
    OBVIOUS
  <2> QED
    BY <1>40, <2>1, <2>2
<1>44. Twice(all)
  <2>1. Twice(Translated(p, G)) /\ Translated(p, G) \in Code /\ Translated(q, G) \in Code
    BY <1>30, <1>33, TwiceTranslated, Translates
  <2> QED
    BY <1>40, <2>1, TwiceJoined
<1>45. Role(r) # "student" => Bars(all)
  <2>1. Translated(p, G) \in Code /\ Translated(q, G) \in Code
    BY <1>33, Translates
  <2>2. Role(r) # "student" => Gate(Translated(p, G), "person", {})
    BY <1>33, <1>31, GateTranslated DEF Bars
  <2> QED
    BY <1>40, <2>1, <2>2, GateLeft DEF Bars
<1>46. r.who \notin Participants => Bars(all)
  <2>1. Translated(p, G) \in Code /\ Translated(q, G) \in Code
    BY <1>33, Translates
  <2>2. r.who \notin Participants => Gate(Translated(p, G), "person", {})
    BY <1>33, <1>32, GateTranslated DEF Bars
  <2> QED
    BY <1>40, <2>1, <2>2, GateLeft DEF Bars
<1> HIDE DEF all
<1>47. all \in Code
  BY <1>43, AreCode
<1>48. Writer(before \o all, {"receipts", "lessons"})
  BY <1>37, <1>43, WriterJoined
<1>49. Twice(before \o all)
  BY <1>36, <1>44, <1>47, TwiceJoined
<1>50. Role(r) # "student" => Bars(before \o all)
  BY <1>36, <1>47, <1>45, GateRight DEF Bars
<1>51. r.who \notin Participants => Bars(before \o all)
  BY <1>36, <1>47, <1>46, GateRight DEF Bars
<1> QED
  BY <1>39, <1>48, <1>49, <1>50, <1>51

-----------------------------------------------------------------------------
(* The homework service *)

\* Work that has a file.
Filed(t) == {w \in World : w[t] = "filed"}

\* The client has only an active pair pass.
LEMMA IsPairDoes ==
  ASSUME NEW r
  PROVE  /\ Reader(IsPair(r))
         /\ Gate(IsPair(r), "pair", {"active"})
         /\ r.who \notin Participants => Bars(IsPair(r))
         /\ IsPair(r) =
              Translated(TestedBy(Remote(RpcGetTutorStudent(r)), ActivePair(r),
                                  "not a tutor-student pair"),
                         Only("NotFound", "not a tutor-student pair"))
<1>1. Reader(Remote(RpcGetTutorStudent(r)))
  BY RpcGetTutorStudentDoes, ReaderRemote
<1>2. Gate(Remote(RpcGetTutorStudent(r)), "pair", {"invited", "active"})
  BY RpcGetTutorStudentDoes, AreCode, GateRemote
<1>3. r.who \notin Participants => Bars(Remote(RpcGetTutorStudent(r)))
  BY RpcGetTutorStudentDoes, AreCode, GateRemote DEF Bars
<1>4. Remote(RpcGetTutorStudent(r)) \in Code
  BY <1>1, AreCode
<1>5. Tested(Remote(RpcGetTutorStudent(r)), LAMBDA w : PairOf(w, r) = "active",
        "not a tutor-student pair") = TestedBy(Remote(RpcGetTutorStudent(r)), ActivePair(r),
        "not a tutor-student pair")
  <2> DEFINE q == Remote(RpcGetTutorStudent(r))
           e == "not a tutor-student pair"
  <2>1. q \in Code
    BY <1>4
  <2> HIDE DEF q, e
  <2>2. Tested(q, LAMBDA w : PairOf(w, r) = "active", e) = TestedBy(q, ActivePair(r), e)
    BY <2>1, Made
    DEF Tested, TestedBy, Makes, Outcome, ActivePair
  <2> QED
    BY <2>2 DEF q, e
<1>6. "not a tutor-student pair" \in Error
  BY Listed
<1>7. Reader(TestedBy(Remote(RpcGetTutorStudent(r)), ActivePair(r), "not a tutor-student pair"))
  BY <1>1, <1>6, ReaderTested
<1>8. Gate(TestedBy(Remote(RpcGetTutorStudent(r)), ActivePair(r), "not a tutor-student pair"),
        "pair", {"invited", "active"})
  BY <1>4, <1>6, <1>2, GateTested
<1>9. r.who \notin Participants => Bars(TestedBy(Remote(RpcGetTutorStudent(r)), ActivePair(r),
        "not a tutor-student pair"))
  BY <1>4, <1>6, <1>3, GateTested DEF Bars
<1>10. \A w \in World : w \in ActivePair(r) => w["pair"] \in {"active"}
  BY DEF ActivePair, World, PairOf
<1>11. Gate(TestedBy(Remote(RpcGetTutorStudent(r)), ActivePair(r), "not a tutor-student pair"),
         "pair", {"active"})
  BY <1>4, <1>6, <1>10, <1>2, TestedGates
<1>12. TestedBy(Remote(RpcGetTutorStudent(r)), ActivePair(r), "not a tutor-student pair") \in Code
  BY <1>7, <1>5, AreCode
<1>13. IsPair(r) = Translated(TestedBy(Remote(RpcGetTutorStudent(r)), ActivePair(r),
         "not a tutor-student pair"), Only("NotFound", "not a tutor-student pair"))
  <2> DEFINE q == TestedBy(Remote(RpcGetTutorStudent(r)), ActivePair(r),
               "not a tutor-student pair")
  <2>1. IsPair(r) = Through(q,
          LAMBDA e : IF e = "NotFound" THEN "not a tutor-student pair" ELSE e)
  BY <1>7, <1>5
  DEF IsPair
  <2>2. q \in Code
    BY <1>12
  <2> HIDE DEF q
  <2>3. \A i \in DOMAIN q, w \in World : \A o \in q[i][w] : o.err \in Error \cup {"ok"}
    BY <2>2, Made DEF Makes, Outcome
  <2>4. Through(q, LAMBDA e : IF e = "NotFound" THEN "not a tutor-student pair"
          ELSE e) = Translated(q, Only("NotFound", "not a tutor-student pair"))
    BY <2>3 DEF Through, Translated, Only
  <2> QED
    BY <2>1, <2>4 DEF q
<1>14. Only("NotFound", "not a tutor-student pair") \in Translation
  BY Translations, Listed
<1>15. Reader(IsPair(r))
  BY <1>7, <1>5, <1>13, <1>14, ReaderTranslated
<1>16. Gate(IsPair(r), "pair", {"invited", "active"})
  BY <1>12, <1>13, <1>14, <1>8, GateTranslated
<1>17. r.who \notin Participants => Bars(IsPair(r))
  BY <1>12, <1>13, <1>14, <1>9, GateTranslated DEF Bars
<1>18. Gate(IsPair(r), "pair", {"active"})
  BY <1>12, <1>13, <1>14, <1>11, GateTranslated
<1> QED
  BY <1>13, <1>15, <1>18, <1>17

LEMMA GetFileURLDoes ==
  ASSUME NEW r
  PROVE  /\ Reader(GetFileURL(r))
         /\ Gate(GetFileURL(r), "file", {"present"})
<1>1. Reader(GetFileURL(r))
  BY RpcGenerateDownloadURLDoes, ReaderRemote DEF GetFileURL
<1>2. Gate(GetFileURL(r), "file", {"present"})
  BY RpcGenerateDownloadURLDoes, AreCode, GateRemote DEF GetFileURL
<1> QED
  BY <1>1, <1>2

\* The assignment is read, and its tutor or its student is who asks.
LEMMA BelongsDoes ==
  ASSUME NEW r, NEW callers
  PROVE  /\ Reader(Belongs(DbGetAssignment, r, callers))
         /\ Gate(Belongs(DbGetAssignment, r, callers), "assignment", {"bare", "filed"})
         /\ r.who \notin callers => Bars(Belongs(DbGetAssignment, r, callers))
<1>1. DbGetAssignment \in Code
  BY ReadStatements, AreCode
<1>2. Belongs(DbGetAssignment, r, callers) = TestedBy(DbGetAssignment, CallerIs(r, callers),
        "ErrPermissionDenied")
  BY <1>1, Made DEF Tested, TestedBy, Makes, Outcome, CallerIs, Belongs
<1>3. "ErrPermissionDenied" \in Error
  BY Listed
<1>4. Reader(TestedBy(DbGetAssignment, CallerIs(r, callers), "ErrPermissionDenied"))
  BY ReadStatements, <1>3, ReaderTested
<1>5. Gate(TestedBy(DbGetAssignment, CallerIs(r, callers), "ErrPermissionDenied"), "assignment",
        {"bare", "filed"})
  BY <1>1, <1>3, GateStatements, GateTested
<1>6. r.who \notin callers => (\A w \in World : w \in CallerIs(r, callers) => w["person"] \in {})
  BY DEF CallerIs, World
<1>7. r.who \notin callers => Bars(TestedBy(DbGetAssignment, CallerIs(r, callers),
        "ErrPermissionDenied"))
  BY <1>1, <1>3, <1>6, GateStatements, TestedGates DEF Bars
<1>8. Reader(Belongs(DbGetAssignment, r, callers))
  BY <1>4, <1>2
<1>9. Gate(Belongs(DbGetAssignment, r, callers), "assignment", {"bare", "filed"})
  BY <1>5, <1>2
<1>10. r.who \notin callers => Bars(Belongs(DbGetAssignment, r, callers))
  BY <1>7, <1>2 DEF Bars
<1> QED
  BY <1>8, <1>9, <1>10

LEMMA RpcCreateAssignmentDoes ==
  ASSUME NEW r
  PROVE  /\ Writer(RpcCreateAssignment(r), {"assignments"})
         /\ Gate(RpcCreateAssignment(r), "pair", {"active"})
         /\ r.who \notin Participants => Bars(RpcCreateAssignment(r))
         /\ Role(r) # "tutor" => Bars(RpcCreateAssignment(r))
<1>1. "permission denied" \in Error
  BY Listed
<1>2. Reader(Require(Role(r) = "tutor", "permission denied"))
  BY <1>1, ReaderRequire, Zenon
<1>3. Role(r) # "tutor" => Bars(Require(Role(r) = "tutor", "permission denied"))
  BY <1>1, RequireBars
<1>4. Reader(Require(Role(r) = "tutor", "permission denied") \o IsPair(r))
  BY <1>2, IsPairDoes, ReaderJoined
<1>5. Gate(Require(Role(r) = "tutor", "permission denied") \o IsPair(r), "pair", {"active"})
  BY <1>2, IsPairDoes, AreCode, GateRight
<1>6. r.who \notin Participants => Bars(Require(Role(r) = "tutor",
        "permission denied") \o IsPair(r))
  BY <1>2, IsPairDoes, AreCode, GateRight DEF Bars
<1>7. Role(r) # "tutor" => Bars(Require(Role(r) = "tutor", "permission denied") \o IsPair(r))
  BY <1>2, IsPairDoes, <1>3, AreCode, GateLeft DEF Bars
<1>8. Writer(SvcCreateAssignment(r), {"assignments"})
  BY <1>4, WriteStatements, WriterJoined DEF SvcCreateAssignment
<1>9. Gate(SvcCreateAssignment(r), "pair", {"active"})
  BY <1>4, WriteStatements, <1>5, AreCode, GateLeft DEF SvcCreateAssignment
<1>10. r.who \notin Participants => Bars(SvcCreateAssignment(r))
  BY <1>4, WriteStatements, <1>6, AreCode, GateLeft DEF SvcCreateAssignment, Bars
<1>11. Role(r) # "tutor" => Bars(SvcCreateAssignment(r))
  BY <1>4, WriteStatements, <1>7, AreCode, GateLeft DEF SvcCreateAssignment, Bars
<1>12. Writer(toGRPCError(SvcCreateAssignment(r)), {"assignments"})
  BY <1>8, WriteLayers
<1>13. Gate(toGRPCError(SvcCreateAssignment(r)), "pair", {"active"})
  BY <1>8, <1>9, AreCode, GateLayers
<1>14. r.who \notin Participants => Bars(toGRPCError(SvcCreateAssignment(r)))
  BY <1>8, <1>10, AreCode, GateLayers DEF Bars
<1>15. Role(r) # "tutor" => Bars(toGRPCError(SvcCreateAssignment(r)))
  BY <1>8, <1>11, AreCode, GateLayers DEF Bars
<1>16. Reader(Parsed(r, "bad_id") \o Parsed(r, "bad_file"))
  BY Checks, ReaderJoined
<1>17. Writer(RpcCreateAssignment(r), {"assignments"})
  BY <1>16, <1>12, WriterJoined DEF RpcCreateAssignment
<1>18. Gate(RpcCreateAssignment(r), "pair", {"active"})
  BY <1>16, <1>12, <1>13, AreCode, GateRight DEF RpcCreateAssignment
<1>19. r.who \notin Participants => Bars(RpcCreateAssignment(r))
  BY <1>16, <1>12, <1>14, AreCode, GateRight DEF RpcCreateAssignment, Bars
<1>20. Role(r) # "tutor" => Bars(RpcCreateAssignment(r))
  BY <1>16, <1>12, <1>15, AreCode, GateRight DEF RpcCreateAssignment, Bars
<1> QED
  BY <1>17, <1>18, <1>19, <1>20

LEMMA RpcDeleteAssignmentDoes ==
  ASSUME NEW r
  PROVE  /\ Writer(RpcDeleteAssignment(r), {"assignments"})
         /\ Gate(RpcDeleteAssignment(r), "assignment", {"bare", "filed"})
         /\ r.who \notin {"tutor"} => Bars(RpcDeleteAssignment(r))
<1>1. Writer(SvcDeleteAssignment(r), {"assignments"})
  BY BelongsDoes, WriteStatements, WriterJoined DEF SvcDeleteAssignment
<1>2. Gate(SvcDeleteAssignment(r), "assignment", {"bare", "filed"})
  BY BelongsDoes, WriteStatements, AreCode, GateLeft DEF SvcDeleteAssignment
<1>3. r.who \notin {"tutor"} => Bars(SvcDeleteAssignment(r))
  BY BelongsDoes, WriteStatements, AreCode, GateLeft DEF SvcDeleteAssignment, Bars
<1>4. Writer(toGRPCError(SvcDeleteAssignment(r)), {"assignments"})
  BY <1>1, WriteLayers
<1>5. Gate(toGRPCError(SvcDeleteAssignment(r)), "assignment", {"bare", "filed"})
  BY <1>1, <1>2, AreCode, GateLayers
<1>6. r.who \notin {"tutor"} => Bars(toGRPCError(SvcDeleteAssignment(r)))
  BY <1>1, <1>3, AreCode, GateLayers DEF Bars
<1>7. Writer(RpcDeleteAssignment(r), {"assignments"})
  BY Checks, <1>4, WriterJoined DEF RpcDeleteAssignment
<1>8. Gate(RpcDeleteAssignment(r), "assignment", {"bare", "filed"})
  BY Checks, <1>4, <1>5, AreCode, GateRight DEF RpcDeleteAssignment
<1>9. r.who \notin {"tutor"} => Bars(RpcDeleteAssignment(r))
  BY Checks, <1>4, <1>6, AreCode, GateRight DEF RpcDeleteAssignment, Bars
<1> QED
  BY <1>7, <1>8, <1>9

LEMMA RpcCreateSubmissionDoes ==
  ASSUME NEW r
  PROVE  /\ Writer(RpcCreateSubmission(r), {"submissions"})
         /\ Gate(RpcCreateSubmission(r), "assignment", {"bare", "filed"})
         /\ r.who \notin {"student"} => Bars(RpcCreateSubmission(r))
<1>1. Writer(SvcCreateSubmission(r), {"submissions"})
  BY BelongsDoes, WriteStatements, WriterJoined DEF SvcCreateSubmission
<1>2. Gate(SvcCreateSubmission(r), "assignment", {"bare", "filed"})
  BY BelongsDoes, WriteStatements, AreCode, GateLeft DEF SvcCreateSubmission
<1>3. r.who \notin {"student"} => Bars(SvcCreateSubmission(r))
  BY BelongsDoes, WriteStatements, AreCode, GateLeft DEF SvcCreateSubmission, Bars
<1>4. Writer(toGRPCError(SvcCreateSubmission(r)), {"submissions"})
  BY <1>1, WriteLayers
<1>5. Gate(toGRPCError(SvcCreateSubmission(r)), "assignment", {"bare", "filed"})
  BY <1>1, <1>2, AreCode, GateLayers
<1>6. r.who \notin {"student"} => Bars(toGRPCError(SvcCreateSubmission(r)))
  BY <1>1, <1>3, AreCode, GateLayers DEF Bars
<1>7. Reader(Parsed(r, "bad_id") \o Parsed(r, "bad_file"))
  BY Checks, ReaderJoined
<1>8. Writer(RpcCreateSubmission(r), {"submissions"})
  BY <1>7, <1>4, WriterJoined DEF RpcCreateSubmission
<1>9. Gate(RpcCreateSubmission(r), "assignment", {"bare", "filed"})
  BY <1>7, <1>4, <1>5, AreCode, GateRight DEF RpcCreateSubmission
<1>10. r.who \notin {"student"} => Bars(RpcCreateSubmission(r))
  BY <1>7, <1>4, <1>6, AreCode, GateRight DEF RpcCreateSubmission, Bars
<1> QED
  BY <1>8, <1>9, <1>10

LEMMA RpcListSubmissionsByAssignmentDoes ==
  ASSUME NEW r
  PROVE  /\ Reader(RpcListSubmissionsByAssignment(r))
         /\ Gate(RpcListSubmissionsByAssignment(r), "assignment", {"bare", "filed"})
         /\ r.who \notin Participants => Bars(RpcListSubmissionsByAssignment(r))
<1>1. Reader(DbListSubmissions)
  BY ReadStatements DEF DbListSubmissions
<1>2. Reader(SvcListSubmissionsByAssignment(r))
  BY BelongsDoes, <1>1, ReaderJoined DEF SvcListSubmissionsByAssignment
<1>3. Gate(SvcListSubmissionsByAssignment(r), "assignment", {"bare", "filed"})
  BY BelongsDoes, <1>1, AreCode, GateLeft DEF SvcListSubmissionsByAssignment
<1>4. r.who \notin Participants => Bars(SvcListSubmissionsByAssignment(r))
  BY BelongsDoes, <1>1, AreCode, GateLeft DEF SvcListSubmissionsByAssignment, Bars
<1>5. Reader(toGRPCError(SvcListSubmissionsByAssignment(r)))
  BY <1>2, ReadLayers
<1>6. Gate(toGRPCError(SvcListSubmissionsByAssignment(r)), "assignment", {"bare", "filed"})
  BY <1>2, <1>3, AreCode, GateLayers
<1>7. r.who \notin Participants => Bars(toGRPCError(SvcListSubmissionsByAssignment(r)))
  BY <1>2, <1>4, AreCode, GateLayers DEF Bars
<1>8. Reader(RpcListSubmissionsByAssignment(r))
  BY Checks, <1>5, ReaderJoined DEF RpcListSubmissionsByAssignment
<1>9. Gate(RpcListSubmissionsByAssignment(r), "assignment", {"bare", "filed"})
  BY Checks, <1>5, <1>6, AreCode, GateRight DEF RpcListSubmissionsByAssignment
<1>10. r.who \notin Participants => Bars(RpcListSubmissionsByAssignment(r))
  BY Checks, <1>5, <1>7, AreCode, GateRight DEF RpcListSubmissionsByAssignment, Bars
<1> QED
  BY <1>8, <1>9, <1>10

LEMMA RpcListFeedbacksByAssignmentDoes ==
  ASSUME NEW r
  PROVE  /\ Reader(RpcListFeedbacksByAssignment(r))
         /\ Gate(RpcListFeedbacksByAssignment(r), "assignment", {"bare", "filed"})
         /\ r.who \notin Participants => Bars(RpcListFeedbacksByAssignment(r))
<1>1. Reader(DbListFeedbacks)
  BY ReadStatements DEF DbListFeedbacks
<1>2. Reader(SvcListFeedbacksByAssignment(r))
  BY BelongsDoes, <1>1, ReaderJoined DEF SvcListFeedbacksByAssignment
<1>3. Gate(SvcListFeedbacksByAssignment(r), "assignment", {"bare", "filed"})
  BY BelongsDoes, <1>1, AreCode, GateLeft DEF SvcListFeedbacksByAssignment
<1>4. r.who \notin Participants => Bars(SvcListFeedbacksByAssignment(r))
  BY BelongsDoes, <1>1, AreCode, GateLeft DEF SvcListFeedbacksByAssignment, Bars
<1>5. Reader(toGRPCError(SvcListFeedbacksByAssignment(r)))
  BY <1>2, ReadLayers
<1>6. Gate(toGRPCError(SvcListFeedbacksByAssignment(r)), "assignment", {"bare", "filed"})
  BY <1>2, <1>3, AreCode, GateLayers
<1>7. r.who \notin Participants => Bars(toGRPCError(SvcListFeedbacksByAssignment(r)))
  BY <1>2, <1>4, AreCode, GateLayers DEF Bars
<1>8. Reader(RpcListFeedbacksByAssignment(r))
  BY Checks, <1>5, ReaderJoined DEF RpcListFeedbacksByAssignment
<1>9. Gate(RpcListFeedbacksByAssignment(r), "assignment", {"bare", "filed"})
  BY Checks, <1>5, <1>6, AreCode, GateRight DEF RpcListFeedbacksByAssignment
<1>10. r.who \notin Participants => Bars(RpcListFeedbacksByAssignment(r))
  BY Checks, <1>5, <1>7, AreCode, GateRight DEF RpcListFeedbacksByAssignment, Bars
<1> QED
  BY <1>8, <1>9, <1>10

LEMMA RpcGetAssignmentFileDoes ==
  ASSUME NEW r
  PROVE  /\ Reader(RpcGetAssignmentFile(r))
         /\ Gate(RpcGetAssignmentFile(r), "file", {"present"})
         /\ Gate(RpcGetAssignmentFile(r), "assignment", {"filed"})
<1>1. DbGetAssignment \in Code
  BY ReadStatements, AreCode
<1>2. Tested(DbGetAssignment, LAMBDA w : w.assignment = "filed",
        "ErrFileNotFound") = TestedBy(DbGetAssignment, Filed("assignment"), "ErrFileNotFound")
  BY <1>1, Made DEF Tested, TestedBy, Makes, Outcome, Filed
<1>3. "ErrFileNotFound" \in Error
  BY Listed
<1>4. Reader(TestedBy(DbGetAssignment, Filed("assignment"), "ErrFileNotFound"))
  BY ReadStatements, <1>3, ReaderTested
<1>5. Gate(TestedBy(DbGetAssignment, Filed("assignment"), "ErrFileNotFound"), "assignment",
        {"bare", "filed"})
  BY <1>1, <1>3, GateStatements, GateTested
<1>6. \A w \in World : w \in Filed("assignment") => w["assignment"] \in {"filed"}
  BY DEF Filed, World
<1>7. Gate(TestedBy(DbGetAssignment, Filed("assignment"), "ErrFileNotFound"), "assignment",
        {"filed"})
  BY <1>1, <1>3, <1>6, GateStatements, TestedGates
<1>8. Reader(SvcGetAssignmentFileURL(r))
  BY <1>4, GetFileURLDoes, <1>2, ReaderJoined DEF SvcGetAssignmentFileURL
<1>9. Gate(SvcGetAssignmentFileURL(r), "file", {"present"})
  BY <1>4, GetFileURLDoes, <1>2, AreCode, GateRight DEF SvcGetAssignmentFileURL
<1>10. Gate(SvcGetAssignmentFileURL(r), "assignment", {"filed"})
  BY <1>4, GetFileURLDoes, <1>2, <1>7, AreCode, GateLeft DEF SvcGetAssignmentFileURL
<1>11. Reader(toGRPCError(SvcGetAssignmentFileURL(r)))
  BY <1>8, ReadLayers
<1>12. Gate(toGRPCError(SvcGetAssignmentFileURL(r)), "file", {"present"})
  BY <1>8, <1>9, AreCode, GateLayers
<1>13. Gate(toGRPCError(SvcGetAssignmentFileURL(r)), "assignment", {"filed"})
  BY <1>8, <1>10, AreCode, GateLayers
<1>14. Reader(RpcGetAssignmentFile(r))
  BY Checks, <1>11, ReaderJoined DEF RpcGetAssignmentFile
<1>15. Gate(RpcGetAssignmentFile(r), "file", {"present"})
  BY Checks, <1>11, <1>12, AreCode, GateRight DEF RpcGetAssignmentFile
<1>16. Gate(RpcGetAssignmentFile(r), "assignment", {"filed"})
  BY Checks, <1>11, <1>13, AreCode, GateRight DEF RpcGetAssignmentFile
<1> QED
  BY <1>14, <1>15, <1>16

LEMMA RpcGetSubmissionFileDoes ==
  ASSUME NEW r
  PROVE  /\ Reader(RpcGetSubmissionFile(r))
         /\ Gate(RpcGetSubmissionFile(r), "file", {"present"})
         /\ Gate(RpcGetSubmissionFile(r), "assignment", {"bare", "filed"})
         /\ r.who \notin Participants => Bars(RpcGetSubmissionFile(r))
         /\ Gate(RpcGetSubmissionFile(r), "submission", {"filed"})
<1>1. DbGetAssignment \in Code
  BY ReadStatements, AreCode
<1>2. Belongs(DbGetAssignment, r, Participants) = TestedBy(DbGetAssignment, CallerIs(r,
        Participants), "ErrPermissionDenied")
  BY <1>1, Made DEF Tested, TestedBy, Makes, Outcome, CallerIs, Belongs
<1>3. "ErrPermissionDenied" \in Error
  BY Listed
<1>4. Reader(TestedBy(DbGetAssignment, CallerIs(r, Participants), "ErrPermissionDenied"))
  BY ReadStatements, <1>3, ReaderTested
<1>5. Gate(TestedBy(DbGetAssignment, CallerIs(r, Participants), "ErrPermissionDenied"),
        "assignment", {"bare", "filed"})
  BY <1>1, <1>3, GateStatements, GateTested
<1>6. r.who \notin Participants => (\A w \in World : w \in CallerIs(r,
        Participants) => w["person"] \in {})
  BY DEF CallerIs, World
<1>7. r.who \notin Participants => Bars(TestedBy(DbGetAssignment, CallerIs(r, Participants),
        "ErrPermissionDenied"))
  BY <1>1, <1>3, <1>6, GateStatements, TestedGates DEF Bars
<1>8. TestedBy(DbGetAssignment, CallerIs(r, Participants), "ErrPermissionDenied") \in Code
  BY <1>4, AreCode
<1>9. Tested(TestedBy(DbGetAssignment, CallerIs(r, Participants), "ErrPermissionDenied"),
        LAMBDA w : w.submission = "filed",
        "ErrFileNotFound") = TestedBy(TestedBy(DbGetAssignment, CallerIs(r, Participants),
        "ErrPermissionDenied"), Filed("submission"), "ErrFileNotFound")
  <2> DEFINE q == TestedBy(DbGetAssignment, CallerIs(r, Participants), "ErrPermissionDenied")
           e == "ErrFileNotFound"
  <2>1. q \in Code
    BY <1>8
  <2> HIDE DEF q, e
  <2>2. Tested(q, LAMBDA w : w.submission = "filed", e) = TestedBy(q, Filed("submission"), e)
    BY <2>1, Made
    DEF Tested, TestedBy, Makes, Outcome, Filed
  <2> QED
    BY <2>2 DEF q, e
<1>10. "ErrFileNotFound" \in Error
  BY Listed
<1>11. Reader(TestedBy(TestedBy(DbGetAssignment, CallerIs(r, Participants),
         "ErrPermissionDenied"), Filed("submission"), "ErrFileNotFound"))
  BY <1>4, <1>10, ReaderTested
<1>12. Gate(TestedBy(TestedBy(DbGetAssignment, CallerIs(r, Participants), "ErrPermissionDenied"),
         Filed("submission"), "ErrFileNotFound"), "assignment", {"bare", "filed"})
  BY <1>8, <1>10, <1>5, GateTested
<1>13. r.who \notin Participants => Bars(TestedBy(TestedBy(DbGetAssignment, CallerIs(r,
         Participants), "ErrPermissionDenied"), Filed("submission"), "ErrFileNotFound"))
  BY <1>8, <1>10, <1>7, GateTested DEF Bars
<1>14. \A w \in World : w \in Filed("submission") => w["submission"] \in {"filed"}
  BY DEF Filed, World
<1>15. Gate(TestedBy(TestedBy(DbGetAssignment, CallerIs(r, Participants), "ErrPermissionDenied"),
         Filed("submission"), "ErrFileNotFound"), "submission", {"filed"})
  BY <1>8, <1>10, <1>14, <1>5, TestedGates
<1>16. Reader(DbGetSubmission \o TestedBy(TestedBy(DbGetAssignment, CallerIs(r, Participants),
         "ErrPermissionDenied"), Filed("submission"), "ErrFileNotFound"))
  BY ReadStatements, <1>11, ReaderJoined
<1>17. Gate(DbGetSubmission \o TestedBy(TestedBy(DbGetAssignment, CallerIs(r, Participants),
         "ErrPermissionDenied"), Filed("submission"), "ErrFileNotFound"), "assignment", {"bare",
         "filed"})
  BY ReadStatements, <1>11, <1>12, AreCode, GateRight
<1>18. r.who \notin Participants => Bars(DbGetSubmission \o TestedBy(TestedBy(DbGetAssignment,
         CallerIs(r, Participants), "ErrPermissionDenied"), Filed("submission"),
         "ErrFileNotFound"))
  BY ReadStatements, <1>11, <1>13, AreCode, GateRight DEF Bars
<1>19. Gate(DbGetSubmission \o TestedBy(TestedBy(DbGetAssignment, CallerIs(r, Participants),
         "ErrPermissionDenied"), Filed("submission"), "ErrFileNotFound"), "submission", {"filed"})
  BY ReadStatements, <1>11, <1>15, AreCode, GateRight
<1>20. Reader(SvcGetSubmissionFileURL(r))
  BY <1>16, GetFileURLDoes, <1>2, <1>9, ReaderJoined DEF SvcGetSubmissionFileURL
<1>21. Gate(SvcGetSubmissionFileURL(r), "file", {"present"})
  BY <1>16, GetFileURLDoes, <1>2, <1>9, AreCode, GateRight DEF SvcGetSubmissionFileURL
<1>22. Gate(SvcGetSubmissionFileURL(r), "assignment", {"bare", "filed"})
  BY <1>16, GetFileURLDoes, <1>2, <1>9, <1>17, AreCode, GateLeft DEF SvcGetSubmissionFileURL
<1>23. r.who \notin Participants => Bars(SvcGetSubmissionFileURL(r))
  BY <1>16, GetFileURLDoes, <1>2, <1>9, <1>18, AreCode, GateLeft
  DEF SvcGetSubmissionFileURL, Bars
<1>24. Gate(SvcGetSubmissionFileURL(r), "submission", {"filed"})
  BY <1>16, GetFileURLDoes, <1>2, <1>9, <1>19, AreCode, GateLeft DEF SvcGetSubmissionFileURL
<1>25. Reader(toGRPCError(SvcGetSubmissionFileURL(r)))
  BY <1>20, ReadLayers
<1>26. Gate(toGRPCError(SvcGetSubmissionFileURL(r)), "file", {"present"})
  BY <1>20, <1>21, AreCode, GateLayers
<1>27. Gate(toGRPCError(SvcGetSubmissionFileURL(r)), "assignment", {"bare", "filed"})
  BY <1>20, <1>22, AreCode, GateLayers
<1>28. r.who \notin Participants => Bars(toGRPCError(SvcGetSubmissionFileURL(r)))
  BY <1>20, <1>23, AreCode, GateLayers DEF Bars
<1>29. Gate(toGRPCError(SvcGetSubmissionFileURL(r)), "submission", {"filed"})
  BY <1>20, <1>24, AreCode, GateLayers
<1>30. Reader(RpcGetSubmissionFile(r))
  BY Checks, <1>25, ReaderJoined DEF RpcGetSubmissionFile
<1>31. Gate(RpcGetSubmissionFile(r), "file", {"present"})
  BY Checks, <1>25, <1>26, AreCode, GateRight DEF RpcGetSubmissionFile
<1>32. Gate(RpcGetSubmissionFile(r), "assignment", {"bare", "filed"})
  BY Checks, <1>25, <1>27, AreCode, GateRight DEF RpcGetSubmissionFile
<1>33. r.who \notin Participants => Bars(RpcGetSubmissionFile(r))
  BY Checks, <1>25, <1>28, AreCode, GateRight DEF RpcGetSubmissionFile, Bars
<1>34. Gate(RpcGetSubmissionFile(r), "submission", {"filed"})
  BY Checks, <1>25, <1>29, AreCode, GateRight DEF RpcGetSubmissionFile
<1> QED
  BY <1>30, <1>31, <1>32, <1>33, <1>34

LEMMA RpcCreateFeedbackDoes ==
  ASSUME NEW r
  PROVE  /\ Writer(RpcCreateFeedback(r), {"feedbacks"})
         /\ Gate(RpcCreateFeedback(r), "assignment", {"bare", "filed"})
         /\ r.who \notin {"tutor"} => Bars(RpcCreateFeedback(r))
         /\ Gate(RpcCreateFeedback(r), "submission", {"bare", "filed"})
<1>1. Reader(Renamed(DbGetSubmission, "ErrNotFound", "ErrSubmissionNotFound"))
  BY ReadStatements, ReadLayers, Listed
<1>2. Gate(Renamed(DbGetSubmission, "ErrNotFound", "ErrSubmissionNotFound"), "submission",
        {"bare", "filed"})
  BY ReadStatements, GateStatements, AreCode, GateLayers, Listed
<1>3. Reader(Renamed(DbGetAssignment, "ErrNotFound", "ErrAssignmentNotFound"))
  BY ReadStatements, ReadLayers, Listed
<1>4. Gate(Renamed(DbGetAssignment, "ErrNotFound", "ErrAssignmentNotFound"), "assignment",
        {"bare", "filed"})
  BY ReadStatements, GateStatements, AreCode, GateLayers, Listed
<1>5. Renamed(DbGetAssignment, "ErrNotFound", "ErrAssignmentNotFound") \in Code
  BY <1>3, AreCode
<1>6. Belongs(Renamed(DbGetAssignment, "ErrNotFound", "ErrAssignmentNotFound"), r,
        {"tutor"}) = TestedBy(Renamed(DbGetAssignment, "ErrNotFound", "ErrAssignmentNotFound"),
        CallerIs(r, {"tutor"}), "ErrPermissionDenied")
  BY <1>5, Made DEF Tested, TestedBy, Makes, Outcome, CallerIs, Belongs
<1>7. "ErrPermissionDenied" \in Error
  BY Listed
<1>8. Reader(TestedBy(Renamed(DbGetAssignment, "ErrNotFound", "ErrAssignmentNotFound"),
        CallerIs(r, {"tutor"}), "ErrPermissionDenied"))
  BY <1>3, <1>7, ReaderTested
<1>9. Gate(TestedBy(Renamed(DbGetAssignment, "ErrNotFound", "ErrAssignmentNotFound"), CallerIs(r,
        {"tutor"}), "ErrPermissionDenied"), "assignment", {"bare", "filed"})
  BY <1>5, <1>7, <1>4, GateTested
<1>10. r.who \notin {"tutor"} => (\A w \in World : w \in CallerIs(r,
         {"tutor"}) => w["person"] \in {})
  BY DEF CallerIs, World
<1>11. r.who \notin {"tutor"} => Bars(TestedBy(Renamed(DbGetAssignment, "ErrNotFound",
         "ErrAssignmentNotFound"), CallerIs(r, {"tutor"}), "ErrPermissionDenied"))
  BY <1>5, <1>7, <1>10, <1>4, TestedGates DEF Bars
<1>12. "ErrPermissionDenied" \in Error
  BY Listed
<1>13. Reader(Require(Role(r) = "tutor", "ErrPermissionDenied"))
  BY <1>12, ReaderRequire, Zenon
<1>14. Role(r) # "tutor" => Bars(Require(Role(r) = "tutor", "ErrPermissionDenied"))
  BY <1>12, RequireBars
<1>15. Reader(Require(Role(r) = "tutor", "ErrPermissionDenied") \o Renamed(DbGetSubmission,
         "ErrNotFound", "ErrSubmissionNotFound"))
  BY <1>13, <1>1, ReaderJoined
<1>16. Gate(Require(Role(r) = "tutor", "ErrPermissionDenied") \o Renamed(DbGetSubmission,
         "ErrNotFound", "ErrSubmissionNotFound"), "submission", {"bare", "filed"})
  BY <1>13, <1>1, <1>2, AreCode, GateRight
<1>17. Reader(Require(Role(r) = "tutor", "ErrPermissionDenied") \o Renamed(DbGetSubmission,
         "ErrNotFound", "ErrSubmissionNotFound") \o TestedBy(Renamed(DbGetAssignment,
         "ErrNotFound", "ErrAssignmentNotFound"), CallerIs(r, {"tutor"}), "ErrPermissionDenied"))
  BY <1>15, <1>8, ReaderJoined
<1>18. Gate(Require(Role(r) = "tutor", "ErrPermissionDenied") \o Renamed(DbGetSubmission,
         "ErrNotFound", "ErrSubmissionNotFound") \o TestedBy(Renamed(DbGetAssignment,
         "ErrNotFound", "ErrAssignmentNotFound"), CallerIs(r, {"tutor"}), "ErrPermissionDenied"),
         "assignment", {"bare", "filed"})
  BY <1>15, <1>8, <1>9, AreCode, GateRight
<1>19. r.who \notin {"tutor"} => Bars(Require(Role(r) = "tutor",
         "ErrPermissionDenied") \o Renamed(DbGetSubmission, "ErrNotFound",
         "ErrSubmissionNotFound") \o TestedBy(Renamed(DbGetAssignment, "ErrNotFound",
         "ErrAssignmentNotFound"), CallerIs(r, {"tutor"}), "ErrPermissionDenied"))
  BY <1>15, <1>8, <1>11, AreCode, GateRight DEF Bars
<1>20. Gate(Require(Role(r) = "tutor", "ErrPermissionDenied") \o Renamed(DbGetSubmission,
         "ErrNotFound", "ErrSubmissionNotFound") \o TestedBy(Renamed(DbGetAssignment,
         "ErrNotFound", "ErrAssignmentNotFound"), CallerIs(r, {"tutor"}), "ErrPermissionDenied"),
         "submission", {"bare", "filed"})
  BY <1>15, <1>8, <1>16, AreCode, GateLeft
<1>21. Writer(SvcCreateFeedback(r), {"feedbacks"})
  BY <1>17, WriteStatements, <1>6, WriterJoined DEF SvcCreateFeedback
<1>22. Gate(SvcCreateFeedback(r), "assignment", {"bare", "filed"})
  BY <1>17, WriteStatements, <1>6, <1>18, AreCode, GateLeft DEF SvcCreateFeedback
<1>23. r.who \notin {"tutor"} => Bars(SvcCreateFeedback(r))
  BY <1>17, WriteStatements, <1>6, <1>19, AreCode, GateLeft DEF SvcCreateFeedback, Bars
<1>24. Gate(SvcCreateFeedback(r), "submission", {"bare", "filed"})
  BY <1>17, WriteStatements, <1>6, <1>20, AreCode, GateLeft DEF SvcCreateFeedback
<1>25. Writer(toGRPCError(SvcCreateFeedback(r)), {"feedbacks"})
  BY <1>21, WriteLayers
<1>26. Gate(toGRPCError(SvcCreateFeedback(r)), "assignment", {"bare", "filed"})
  BY <1>21, <1>22, AreCode, GateLayers
<1>27. r.who \notin {"tutor"} => Bars(toGRPCError(SvcCreateFeedback(r)))
  BY <1>21, <1>23, AreCode, GateLayers DEF Bars
<1>28. Gate(toGRPCError(SvcCreateFeedback(r)), "submission", {"bare", "filed"})
  BY <1>21, <1>24, AreCode, GateLayers
<1>29. Reader(Parsed(r, "bad_id") \o Parsed(r, "bad_file"))
  BY Checks, ReaderJoined
<1>30. Writer(RpcCreateFeedback(r), {"feedbacks"})
  BY <1>29, <1>25, WriterJoined DEF RpcCreateFeedback
<1>31. Gate(RpcCreateFeedback(r), "assignment", {"bare", "filed"})
  BY <1>29, <1>25, <1>26, AreCode, GateRight DEF RpcCreateFeedback
<1>32. r.who \notin {"tutor"} => Bars(RpcCreateFeedback(r))
  BY <1>29, <1>25, <1>27, AreCode, GateRight DEF RpcCreateFeedback, Bars
<1>33. Gate(RpcCreateFeedback(r), "submission", {"bare", "filed"})
  BY <1>29, <1>25, <1>28, AreCode, GateRight DEF RpcCreateFeedback
<1> QED
  BY <1>30, <1>31, <1>32, <1>33

LEMMA RpcGetFeedbackFileDoes ==
  ASSUME NEW r
  PROVE  /\ Reader(RpcGetFeedbackFile(r))
         /\ Gate(RpcGetFeedbackFile(r), "file", {"present"})
         /\ Gate(RpcGetFeedbackFile(r), "assignment", {"bare", "filed"})
         /\ r.who \notin Participants => Bars(RpcGetFeedbackFile(r))
         /\ Gate(RpcGetFeedbackFile(r), "submission", {"bare", "filed"})
         /\ Gate(RpcGetFeedbackFile(r), "feedback", {"filed"})
<1>1. DbGetFeedback \in Code
  BY ReadStatements, AreCode
<1>2. Tested(DbGetFeedback, LAMBDA w : w.feedback = "filed",
        "ErrFileNotFound") = TestedBy(DbGetFeedback, Filed("feedback"), "ErrFileNotFound")
  BY <1>1, Made DEF Tested, TestedBy, Makes, Outcome, Filed
<1>3. "ErrFileNotFound" \in Error
  BY Listed
<1>4. Reader(TestedBy(DbGetFeedback, Filed("feedback"), "ErrFileNotFound"))
  BY ReadStatements, <1>3, ReaderTested
<1>5. Gate(TestedBy(DbGetFeedback, Filed("feedback"), "ErrFileNotFound"), "feedback", {"bare",
        "filed"})
  BY <1>1, <1>3, GateStatements, GateTested
<1>6. \A w \in World : w \in Filed("feedback") => w["feedback"] \in {"filed"}
  BY DEF Filed, World
<1>7. Gate(TestedBy(DbGetFeedback, Filed("feedback"), "ErrFileNotFound"), "feedback", {"filed"})
  BY <1>1, <1>3, <1>6, GateStatements, TestedGates
<1>8. Reader(TestedBy(DbGetFeedback, Filed("feedback"), "ErrFileNotFound") \o DbGetSubmission)
  BY <1>4, ReadStatements, ReaderJoined
<1>9. Gate(TestedBy(DbGetFeedback, Filed("feedback"), "ErrFileNotFound") \o DbGetSubmission,
        "submission", {"bare", "filed"})
  BY <1>4, ReadStatements, GateStatements, AreCode, GateRight
<1>10. Gate(TestedBy(DbGetFeedback, Filed("feedback"), "ErrFileNotFound") \o DbGetSubmission,
         "feedback", {"filed"})
  BY <1>4, ReadStatements, <1>7, AreCode, GateLeft
<1>11. Reader(TestedBy(DbGetFeedback, Filed("feedback"),
         "ErrFileNotFound") \o DbGetSubmission \o Belongs(DbGetAssignment, r, Participants))
  BY <1>8, BelongsDoes, ReaderJoined
<1>12. Gate(TestedBy(DbGetFeedback, Filed("feedback"),
         "ErrFileNotFound") \o DbGetSubmission \o Belongs(DbGetAssignment, r, Participants),
         "assignment", {"bare", "filed"})
  BY <1>8, BelongsDoes, AreCode, GateRight
<1>13. r.who \notin Participants => Bars(TestedBy(DbGetFeedback, Filed("feedback"),
         "ErrFileNotFound") \o DbGetSubmission \o Belongs(DbGetAssignment, r, Participants))
  BY <1>8, BelongsDoes, AreCode, GateRight DEF Bars
<1>14. Gate(TestedBy(DbGetFeedback, Filed("feedback"),
         "ErrFileNotFound") \o DbGetSubmission \o Belongs(DbGetAssignment, r, Participants),
         "submission", {"bare", "filed"})
  BY <1>8, BelongsDoes, <1>9, AreCode, GateLeft
<1>15. Gate(TestedBy(DbGetFeedback, Filed("feedback"),
         "ErrFileNotFound") \o DbGetSubmission \o Belongs(DbGetAssignment, r, Participants),
         "feedback", {"filed"})
  BY <1>8, BelongsDoes, <1>10, AreCode, GateLeft
<1>16. Reader(SvcGetFeedbackFileURL(r))
  BY <1>11, GetFileURLDoes, <1>2, ReaderJoined DEF SvcGetFeedbackFileURL
<1>17. Gate(SvcGetFeedbackFileURL(r), "file", {"present"})
  BY <1>11, GetFileURLDoes, <1>2, AreCode, GateRight DEF SvcGetFeedbackFileURL
<1>18. Gate(SvcGetFeedbackFileURL(r), "assignment", {"bare", "filed"})
  BY <1>11, GetFileURLDoes, <1>2, <1>12, AreCode, GateLeft DEF SvcGetFeedbackFileURL
<1>19. r.who \notin Participants => Bars(SvcGetFeedbackFileURL(r))
  BY <1>11, GetFileURLDoes, <1>2, <1>13, AreCode, GateLeft DEF SvcGetFeedbackFileURL, Bars
<1>20. Gate(SvcGetFeedbackFileURL(r), "submission", {"bare", "filed"})
  BY <1>11, GetFileURLDoes, <1>2, <1>14, AreCode, GateLeft DEF SvcGetFeedbackFileURL
<1>21. Gate(SvcGetFeedbackFileURL(r), "feedback", {"filed"})
  BY <1>11, GetFileURLDoes, <1>2, <1>15, AreCode, GateLeft DEF SvcGetFeedbackFileURL
<1>22. Reader(toGRPCError(SvcGetFeedbackFileURL(r)))
  BY <1>16, ReadLayers
<1>23. Gate(toGRPCError(SvcGetFeedbackFileURL(r)), "file", {"present"})
  BY <1>16, <1>17, AreCode, GateLayers
<1>24. Gate(toGRPCError(SvcGetFeedbackFileURL(r)), "assignment", {"bare", "filed"})
  BY <1>16, <1>18, AreCode, GateLayers
<1>25. r.who \notin Participants => Bars(toGRPCError(SvcGetFeedbackFileURL(r)))
  BY <1>16, <1>19, AreCode, GateLayers DEF Bars
<1>26. Gate(toGRPCError(SvcGetFeedbackFileURL(r)), "submission", {"bare", "filed"})
  BY <1>16, <1>20, AreCode, GateLayers
<1>27. Gate(toGRPCError(SvcGetFeedbackFileURL(r)), "feedback", {"filed"})
  BY <1>16, <1>21, AreCode, GateLayers
<1>28. Reader(RpcGetFeedbackFile(r))
  BY Checks, <1>22, ReaderJoined DEF RpcGetFeedbackFile
<1>29. Gate(RpcGetFeedbackFile(r), "file", {"present"})
  BY Checks, <1>22, <1>23, AreCode, GateRight DEF RpcGetFeedbackFile
<1>30. Gate(RpcGetFeedbackFile(r), "assignment", {"bare", "filed"})
  BY Checks, <1>22, <1>24, AreCode, GateRight DEF RpcGetFeedbackFile
<1>31. r.who \notin Participants => Bars(RpcGetFeedbackFile(r))
  BY Checks, <1>22, <1>25, AreCode, GateRight DEF RpcGetFeedbackFile, Bars
<1>32. Gate(RpcGetFeedbackFile(r), "submission", {"bare", "filed"})
  BY Checks, <1>22, <1>26, AreCode, GateRight DEF RpcGetFeedbackFile
<1>33. Gate(RpcGetFeedbackFile(r), "feedback", {"filed"})
  BY Checks, <1>22, <1>27, AreCode, GateRight DEF RpcGetFeedbackFile
<1> QED
  BY <1>28, <1>29, <1>30, <1>31, <1>32, <1>33

LEMMA RpcUpdateAssignmentDoes ==
  ASSUME NEW r
  PROVE  /\ Writer(RpcUpdateAssignment(r), {"assignments"})
         /\ r.who \notin {"tutor"} => Bars(RpcUpdateAssignment(r))
         /\ Gate(RpcUpdateAssignment(r), "assignment", {"bare", "filed"})
<1>1. "ErrPermissionDenied" \in Error
  BY Listed
<1>2. Reader(Require(r.who = "tutor", "ErrPermissionDenied"))
  BY <1>1, ReaderRequire, Zenon
<1>3. r.who \notin {"tutor"} => Bars(Require(r.who = "tutor", "ErrPermissionDenied"))
  BY <1>1, RequireBars
<1>4. Reader(SvcGetAssignment(r))
  BY BelongsDoes DEF SvcGetAssignment
<1>5. Gate(SvcGetAssignment(r), "assignment", {"bare", "filed"})
  BY BelongsDoes DEF SvcGetAssignment
<1>6. r.who \notin Participants => Bars(SvcGetAssignment(r))
  BY BelongsDoes DEF SvcGetAssignment, Bars
<1>7. Reader(toGRPCError(SvcGetAssignment(r)))
  BY <1>4, ReadLayers
<1>8. Gate(toGRPCError(SvcGetAssignment(r)), "assignment", {"bare", "filed"})
  BY <1>4, <1>5, AreCode, GateLayers
<1>9. r.who \notin Participants => Bars(toGRPCError(SvcGetAssignment(r)))
  BY <1>4, <1>6, AreCode, GateLayers DEF Bars
<1>10. Writer(SvcUpdateAssignment(r), {"assignments"})
  BY <1>2, WriteStatements, WriterJoined DEF SvcUpdateAssignment
<1>11. r.who \notin {"tutor"} => Bars(SvcUpdateAssignment(r))
  BY <1>2, WriteStatements, <1>3, AreCode, GateLeft DEF SvcUpdateAssignment, Bars
<1>12. Writer(toGRPCError(SvcUpdateAssignment(r)), {"assignments"})
  BY <1>10, WriteLayers
<1>13. r.who \notin {"tutor"} => Bars(toGRPCError(SvcUpdateAssignment(r)))
  BY <1>10, <1>11, AreCode, GateLayers DEF Bars
<1>14. Reader(Parsed(r, "bad_id") \o toGRPCError(SvcGetAssignment(r)))
  BY Checks, <1>7, ReaderJoined
<1>15. Gate(Parsed(r, "bad_id") \o toGRPCError(SvcGetAssignment(r)), "assignment", {"bare",
         "filed"})
  BY Checks, <1>7, <1>8, AreCode, GateRight
<1>16. Reader(Parsed(r, "bad_id") \o toGRPCError(SvcGetAssignment(r)) \o Parsed(r, "bad_file"))
  BY <1>14, Checks, ReaderJoined
<1>17. Gate(Parsed(r, "bad_id") \o toGRPCError(SvcGetAssignment(r)) \o Parsed(r, "bad_file"),
         "assignment", {"bare", "filed"})
  BY <1>14, Checks, <1>15, AreCode, GateLeft
<1>18. Writer(RpcUpdateAssignment(r), {"assignments"})
  BY <1>16, <1>12, WriterJoined DEF RpcUpdateAssignment
<1>19. r.who \notin {"tutor"} => Bars(RpcUpdateAssignment(r))
  BY <1>16, <1>12, <1>13, AreCode, GateRight DEF RpcUpdateAssignment, Bars
<1>20. Gate(RpcUpdateAssignment(r), "assignment", {"bare", "filed"})
  BY <1>16, <1>12, <1>17, AreCode, GateLeft DEF RpcUpdateAssignment
<1> QED
  BY <1>18, <1>19, <1>20

LEMMA RpcUpdateFeedbackDoes ==
  ASSUME NEW r
  PROVE  /\ Writer(RpcUpdateFeedback(r), {"feedbacks"})
         /\ Gate(RpcUpdateFeedback(r), "assignment", {"bare", "filed"})
         /\ r.who \notin {"tutor"} => Bars(RpcUpdateFeedback(r))
         /\ Gate(RpcUpdateFeedback(r), "submission", {"bare", "filed"})
         /\ Gate(RpcUpdateFeedback(r), "feedback", {"bare", "filed"})
<1>1. "ErrPermissionDenied" \in Error
  BY Listed
<1>2. Reader(Require(Role(r) = "tutor", "ErrPermissionDenied"))
  BY <1>1, ReaderRequire, Zenon
<1>3. Role(r) # "tutor" => Bars(Require(Role(r) = "tutor", "ErrPermissionDenied"))
  BY <1>1, RequireBars
<1>4. Reader(DbGetFeedback \o DbGetSubmission)
  BY ReadStatements, ReaderJoined
<1>5. Reader(SvcGetFeedback(r))
  BY <1>4, BelongsDoes, ReaderJoined DEF SvcGetFeedback
<1>6. Gate(SvcGetFeedback(r), "assignment", {"bare", "filed"})
  BY <1>4, BelongsDoes, AreCode, GateRight DEF SvcGetFeedback
<1>7. r.who \notin Participants => Bars(SvcGetFeedback(r))
  BY <1>4, BelongsDoes, AreCode, GateRight DEF SvcGetFeedback, Bars
<1>8. Reader(toGRPCError(SvcGetFeedback(r)))
  BY <1>5, ReadLayers
<1>9. Gate(toGRPCError(SvcGetFeedback(r)), "assignment", {"bare", "filed"})
  BY <1>5, <1>6, AreCode, GateLayers
<1>10. r.who \notin Participants => Bars(toGRPCError(SvcGetFeedback(r)))
  BY <1>5, <1>7, AreCode, GateLayers DEF Bars
<1>11. Reader(Renamed(DbGetFeedback, "ErrNotFound", "ErrFeedbackNotFound"))
  BY ReadStatements, ReadLayers, Listed
<1>12. Gate(Renamed(DbGetFeedback, "ErrNotFound", "ErrFeedbackNotFound"), "feedback", {"bare",
         "filed"})
  BY ReadStatements, GateStatements, AreCode, GateLayers, Listed
<1>13. Reader(Require(Role(r) = "tutor", "ErrPermissionDenied") \o Renamed(DbGetFeedback,
         "ErrNotFound", "ErrFeedbackNotFound"))
  BY <1>2, <1>11, ReaderJoined
<1>14. Gate(Require(Role(r) = "tutor", "ErrPermissionDenied") \o Renamed(DbGetFeedback,
         "ErrNotFound", "ErrFeedbackNotFound"), "feedback", {"bare", "filed"})
  BY <1>2, <1>11, <1>12, AreCode, GateRight
<1>15. Reader(Require(Role(r) = "tutor", "ErrPermissionDenied") \o Renamed(DbGetFeedback,
         "ErrNotFound", "ErrFeedbackNotFound") \o DbGetSubmission)
  BY <1>13, ReadStatements, ReaderJoined
<1>16. Gate(Require(Role(r) = "tutor", "ErrPermissionDenied") \o Renamed(DbGetFeedback,
         "ErrNotFound", "ErrFeedbackNotFound") \o DbGetSubmission, "submission", {"bare",
         "filed"})
  BY <1>13, ReadStatements, GateStatements, AreCode, GateRight
<1>17. Gate(Require(Role(r) = "tutor", "ErrPermissionDenied") \o Renamed(DbGetFeedback,
         "ErrNotFound", "ErrFeedbackNotFound") \o DbGetSubmission, "feedback", {"bare", "filed"})
  BY <1>13, ReadStatements, <1>14, AreCode, GateLeft
<1>18. Reader(Require(Role(r) = "tutor", "ErrPermissionDenied") \o Renamed(DbGetFeedback,
         "ErrNotFound", "ErrFeedbackNotFound") \o DbGetSubmission \o Belongs(DbGetAssignment, r,
         {"tutor"}))
  BY <1>15, BelongsDoes, ReaderJoined
<1>19. Gate(Require(Role(r) = "tutor", "ErrPermissionDenied") \o Renamed(DbGetFeedback,
         "ErrNotFound", "ErrFeedbackNotFound") \o DbGetSubmission \o Belongs(DbGetAssignment, r,
         {"tutor"}), "assignment", {"bare", "filed"})
  BY <1>15, BelongsDoes, AreCode, GateRight
<1>20. r.who \notin {"tutor"} => Bars(Require(Role(r) = "tutor",
         "ErrPermissionDenied") \o Renamed(DbGetFeedback, "ErrNotFound",
         "ErrFeedbackNotFound") \o DbGetSubmission \o Belongs(DbGetAssignment, r, {"tutor"}))
  BY <1>15, BelongsDoes, AreCode, GateRight DEF Bars
<1>21. Gate(Require(Role(r) = "tutor", "ErrPermissionDenied") \o Renamed(DbGetFeedback,
         "ErrNotFound", "ErrFeedbackNotFound") \o DbGetSubmission \o Belongs(DbGetAssignment, r,
         {"tutor"}), "submission", {"bare", "filed"})
  BY <1>15, BelongsDoes, <1>16, AreCode, GateLeft
<1>22. Gate(Require(Role(r) = "tutor", "ErrPermissionDenied") \o Renamed(DbGetFeedback,
         "ErrNotFound", "ErrFeedbackNotFound") \o DbGetSubmission \o Belongs(DbGetAssignment, r,
         {"tutor"}), "feedback", {"bare", "filed"})
  BY <1>15, BelongsDoes, <1>17, AreCode, GateLeft
<1>23. Writer(SvcUpdateFeedback(r), {"feedbacks"})
  BY <1>18, WriteStatements, WriterJoined DEF SvcUpdateFeedback
<1>24. Gate(SvcUpdateFeedback(r), "assignment", {"bare", "filed"})
  BY <1>18, WriteStatements, <1>19, AreCode, GateLeft DEF SvcUpdateFeedback
<1>25. r.who \notin {"tutor"} => Bars(SvcUpdateFeedback(r))
  BY <1>18, WriteStatements, <1>20, AreCode, GateLeft DEF SvcUpdateFeedback, Bars
<1>26. Gate(SvcUpdateFeedback(r), "submission", {"bare", "filed"})
  BY <1>18, WriteStatements, <1>21, AreCode, GateLeft DEF SvcUpdateFeedback
<1>27. Gate(SvcUpdateFeedback(r), "feedback", {"bare", "filed"})
  BY <1>18, WriteStatements, <1>22, AreCode, GateLeft DEF SvcUpdateFeedback
<1>28. Writer(toGRPCError(SvcUpdateFeedback(r)), {"feedbacks"})
  BY <1>23, WriteLayers
<1>29. Gate(toGRPCError(SvcUpdateFeedback(r)), "assignment", {"bare", "filed"})
  BY <1>23, <1>24, AreCode, GateLayers
<1>30. r.who \notin {"tutor"} => Bars(toGRPCError(SvcUpdateFeedback(r)))
  BY <1>23, <1>25, AreCode, GateLayers DEF Bars
<1>31. Gate(toGRPCError(SvcUpdateFeedback(r)), "submission", {"bare", "filed"})
  BY <1>23, <1>26, AreCode, GateLayers
<1>32. Gate(toGRPCError(SvcUpdateFeedback(r)), "feedback", {"bare", "filed"})
  BY <1>23, <1>27, AreCode, GateLayers
<1>33. Reader(Parsed(r, "bad_id") \o toGRPCError(SvcGetFeedback(r)))
  BY Checks, <1>8, ReaderJoined
<1>34. Reader(Parsed(r, "bad_id") \o toGRPCError(SvcGetFeedback(r)) \o Parsed(r, "bad_file"))
  BY <1>33, Checks, ReaderJoined
<1>35. Writer(RpcUpdateFeedback(r), {"feedbacks"})
  BY <1>34, <1>28, WriterJoined DEF RpcUpdateFeedback
<1>36. Gate(RpcUpdateFeedback(r), "assignment", {"bare", "filed"})
  BY <1>34, <1>28, <1>29, AreCode, GateRight DEF RpcUpdateFeedback
<1>37. r.who \notin {"tutor"} => Bars(RpcUpdateFeedback(r))
  BY <1>34, <1>28, <1>30, AreCode, GateRight DEF RpcUpdateFeedback, Bars
<1>38. Gate(RpcUpdateFeedback(r), "submission", {"bare", "filed"})
  BY <1>34, <1>28, <1>31, AreCode, GateRight DEF RpcUpdateFeedback
<1>39. Gate(RpcUpdateFeedback(r), "feedback", {"bare", "filed"})
  BY <1>34, <1>28, <1>32, AreCode, GateRight DEF RpcUpdateFeedback
<1> QED
  BY <1>35, <1>36, <1>37, <1>38, <1>39

LEMMA RpcListAssignmentsByTutorDoes ==
  ASSUME NEW r
  PROVE  /\ Reader(RpcListAssignmentsByTutor(r))
         /\ r.form = "bad_id" => Bars(RpcListAssignmentsByTutor(r))
<1>1. "ErrPermissionDenied" \in Error
  BY Listed
<1>2. Reader(Require(r.who = "tutor", "ErrPermissionDenied"))
  BY <1>1, ReaderRequire, Zenon
<1>3. Reader(DbListAssignments)
  BY ReadStatements DEF DbListAssignments
<1>4. Reader(SvcListAssignmentsByTutor(r))
  BY <1>2, <1>3, ReaderJoined DEF SvcListAssignmentsByTutor
<1>5. Reader(toGRPCError(SvcListAssignmentsByTutor(r)))
  BY <1>4, ReadLayers
<1>6. Reader(RpcListAssignmentsByTutor(r))
  BY Checks, <1>5, ReaderJoined DEF RpcListAssignmentsByTutor
<1>7. r.form = "bad_id" => Bars(RpcListAssignmentsByTutor(r))
  BY Checks, <1>5, CheckBars, AreCode, GateLeft DEF RpcListAssignmentsByTutor, Bars
<1> QED
  BY <1>6, <1>7

LEMMA RpcListAssignmentsByStudentDoes ==
  ASSUME NEW r
  PROVE  /\ Reader(RpcListAssignmentsByStudent(r))
         /\ r.form = "bad_id" => Bars(RpcListAssignmentsByStudent(r))
<1>1. "ErrPermissionDenied" \in Error
  BY Listed
<1>2. Reader(Require(r.who = "student", "ErrPermissionDenied"))
  BY <1>1, ReaderRequire, Zenon
<1>3. Reader(DbListAssignments)
  BY ReadStatements DEF DbListAssignments
<1>4. Reader(SvcListAssignmentsByStudent(r))
  BY <1>2, <1>3, ReaderJoined DEF SvcListAssignmentsByStudent
<1>5. Reader(toGRPCError(SvcListAssignmentsByStudent(r)))
  BY <1>4, ReadLayers
<1>6. Reader(RpcListAssignmentsByStudent(r))
  BY Checks, <1>5, ReaderJoined DEF RpcListAssignmentsByStudent
<1>7. r.form = "bad_id" => Bars(RpcListAssignmentsByStudent(r))
  BY Checks, <1>5, CheckBars, AreCode, GateLeft DEF RpcListAssignmentsByStudent, Bars
<1> QED
  BY <1>6, <1>7

LEMMA RpcListAssignmentsByPairDoes ==
  ASSUME NEW r
  PROVE  /\ Reader(RpcListAssignmentsByPair(r))
         /\ r.form = "bad_id" => Bars(RpcListAssignmentsByPair(r))
<1>1. "ErrPermissionDenied" \in Error
  BY Listed
<1>2. Reader(Require(r.who \in Participants, "ErrPermissionDenied"))
  BY <1>1, ReaderRequire, Zenon
<1>3. Reader(DbListAssignments)
  BY ReadStatements DEF DbListAssignments
<1>4. Reader(SvcListAssignmentsByPair(r))
  BY <1>2, <1>3, ReaderJoined DEF SvcListAssignmentsByPair
<1>5. Reader(toGRPCError(SvcListAssignmentsByPair(r)))
  BY <1>4, ReadLayers
<1>6. Reader(RpcListAssignmentsByPair(r))
  BY Checks, <1>5, ReaderJoined DEF RpcListAssignmentsByPair
<1>7. r.form = "bad_id" => Bars(RpcListAssignmentsByPair(r))
  BY Checks, <1>5, CheckBars, AreCode, GateLeft DEF RpcListAssignmentsByPair, Bars
<1> QED
  BY <1>6, <1>7

-----------------------------------------------------------------------------
(* The gateway *)

\* What a request that is not served is answered with.
Statuses == Refusals \cup {"500", "502"}

\* The errors of the whole are statuses.
Final(p) == \A w, o : Yields(p, w, o) => o.err \in Statuses \cup {"ok"}

\* The steps of a whole request: they end with a status, and write T.
Served(p, T) == Writer(p, T) /\ Final(p) /\ Len(p) > 0

\* q lets nobody by that p does not.
AsStrict(p, q) ==
  /\ \A t, S : Gate(p, t, S) => Gate(q, t, S)
  /\ Twice(p) => Twice(q)

\* Statuses are errors.
LEMMA StatusErrors == Statuses \subseteq Error
  BY Errors DEF Statuses, Error, Fatal

LEMMA StrictRemote ==
  ASSUME NEW p \in Code
  PROVE  AsStrict(p, Remote(p))
  BY Called, GateRemote, TwiceJoined DEF AsStrict

LEMMA StrictTranslated ==
  ASSUME NEW p \in Code, NEW G \in Translation
  PROVE  AsStrict(p, Translated(p, G))
  BY GateTranslated, TwiceTranslated DEF AsStrict

LEMMA StrictJoined ==
  ASSUME NEW p \in Code, NEW q \in Code
  PROVE  AsStrict(p, q \o p)
  BY GateRight, TwiceJoined DEF AsStrict

LEMMA StrictTwice ==
  ASSUME NEW p, NEW q, NEW s, AsStrict(p, q), AsStrict(q, s)
  PROVE  AsStrict(p, s)
  BY DEF AsStrict

\* The gateway maps whatever error there is to a status.
LEMMA MappedDoes ==
  ASSUME NEW p, NEW T, Writer(p, T)
  PROVE  Served(mapErr(Remote(p)), T) /\ AsStrict(p, mapErr(Remote(p)))
<1> DEFINE q == Remote(p)
           s == Translated(q, Status)
<1>1. p \in Code /\ Writer(q, T)
  BY WriterRemote DEF Writer
<1>2. q \in Code
  BY <1>1 DEF Writer
<1>3. Status \in Translation /\ Keeps(Status)
  BY Translations, Keepers
<1>4. mapErr(q) = s
  BY <1>2, Layers
<1>5. Writer(s, T)
  BY <1>1, <1>3, WriterTranslated
<1>6. AsStrict(p, s)
  BY <1>1, <1>2, <1>3, StrictRemote, StrictTranslated, StrictTwice
<1>7. Len(s) > 0
  <2>1. Len(q) = Len(Call) + Len(p) /\ Len(Call) = 1
    BY <1>1, Called, Joined
  <2>2. Len(p) \in Nat
    BY <1>1 DEF Code
  <2> QED
    BY <1>2, <1>3, <2>1, <2>2, Translates
<1>8. ASSUME NEW w, NEW o, Yields(s, w, o)
      PROVE  o.err \in Statuses \cup {"ok"}
  <2>1. PICK o2 : Renames(Status, o2, o)
    BY <1>2, <1>3, <1>8, Translates
  <2>2. \A e \in Error : Status[e] \in Statuses
    BY DEF Status, Statuses, Refusals
  <2> QED
    BY <2>1, <2>2 DEF Renames
<1> QED
  BY <1>4, <1>5, <1>6, <1>7, <1>8 DEF Served, Final

\* A hit in the cache, of somebody's answer.
Hits(r, w, o) == o.err = "200" /\ w.cached \in SameKey(r) \ {"nobody"}

LEMMA CacheGetDoes ==
  ASSUME NEW r
  PROVE  /\ Reader(CacheGet(r)) /\ Len(CacheGet(r)) = 1
         /\ \A w, o : Yields(CacheGet(r), w, o) => o.err = "ok" \/ Hits(r, w, o)
<1> DEFINE f == [w \in World |-> {Done(w)} \cup
                   IF r.form = "good" /\ w.cached \in SameKey(r) \ {"nobody"}
                     THEN {Fails(w, "200")} ELSE {}]
<1>1. CacheGet(r) = <<f>> /\ f = [w \in World |-> f[w]]
  BY DEF CacheGet
<1>2. ASSUME NEW w \in World, NEW o \in f[w]
      PROVE  \/ o = Done(w)
             \/ o = Fails(w, "200") /\ w.cached \in SameKey(r) \ {"nobody"}
  BY <1>2
<1> HIDE DEF f
<1>3. ASSUME NEW w \in World, NEW o \in f[w]
      PROVE  /\ Follows(w, o) /\ o.did = {}
             /\ o.err = "ok" \/ Hits(r, w, o)
  <2>1. CASE o = Done(w)
    <3>1. Is(o, w, "ok", {})
      BY <2>1, DoneIs
    <3> QED
      BY <3>1, DoneFollows DEF Is
  <2>2. CASE o = Fails(w, "200") /\ w.cached \in SameKey(r) \ {"nobody"}
    <3>1. Is(o, w, "200", {})
      BY <2>2, FailsIs, Listed
    <3> QED
      BY <2>2, <3>1, DoneFollows DEF Is, Hits
  <2> QED
    BY <1>2, <1>3, <2>1, <2>2
<1>4. f \in RoundTrips
  BY <1>1, <1>3, IsRoundTrip
<1> QED
  BY <1>1, <1>3, <1>4, Single DEF Reader

LEMMA HandleWithCacheDoes ==
  ASSUME NEW r, NEW p, NEW T, Writer(p, T)
  PROVE  /\ Writer(HandleWithCache(r, p), T) /\ AsStrict(p, HandleWithCache(r, p))
         /\ Len(HandleWithCache(r, p)) > 1
         /\ \A i, w, o : Makes(HandleWithCache(r, p), i, w, o) =>
              o.err \in Statuses \cup {"ok"} \/ (i = 1 /\ Hits(r, w, o))
<1> DEFINE c == CacheGet(r)
           q == mapErr(Remote(p))
<1>1. /\ Reader(c) /\ Len(c) = 1
      /\ \A w, o : Yields(c, w, o) => o.err = "ok" \/ Hits(r, w, o)
  BY CacheGetDoes
<1>2. Served(q, T) /\ AsStrict(p, q)
  BY MappedDoes
<1>3. HandleWithCache(r, p) = c \o q
  BY DEF HandleWithCache
<1> HIDE DEF c, q
<1>4. c \in Code /\ q \in Code /\ Writer(q, T) /\ Final(q) /\ Len(q) > 0 /\ Len(q) \in Nat
  BY <1>1, <1>2 DEF Reader, Served, Writer, Code
<1>5. Writer(c \o q, T)
  BY <1>1, <1>4, WriterJoined
<1>6. AsStrict(p, c \o q)
  BY <1>2, <1>4, StrictJoined, StrictTwice
<1>7. Len(c \o q) > 1
  <2>1. Len(c \o q) = Len(c) + Len(q)
    BY <1>4, Joined
  <2> QED
    BY <1>1, <1>4, <2>1
<1>8. ASSUME NEW i, NEW w, NEW o, Makes(c \o q, i, w, o)
      PROVE  o.err \in Statuses \cup {"ok"} \/ (i = 1 /\ Hits(r, w, o))
  <2>1. CASE Makes(c, i, w, o)
    <3>1. i = 1
      BY <1>1, <1>4, <2>1 DEF Makes, Code
    <3>2. Yields(c, w, o)
      BY <2>1 DEF Yields
    <3> QED
      BY <1>1, <3>1, <3>2
  <2>2. CASE Makes(q, i - Len(c), w, o)
    <3>1. Yields(q, w, o)
      BY <2>2 DEF Yields
    <3> QED
      BY <1>4, <3>1 DEF Final
  <2> QED
    BY <1>4, <1>8, <2>1, <2>2, Joined
<1> QED
  BY <1>3, <1>5, <1>6, <1>7, <1>8

\* What the gateway checks first lets by no more.
LEMMA RequireFirst ==
  ASSUME NEW p, NEW T, Served(p, T), NEW h, NEW e \in Statuses
  PROVE  Served(Require(h, e) \o p, T) /\ AsStrict(p, Require(h, e) \o p)
<1>1. e \in Error
  BY StatusErrors
<1>2. Reader(Require(h, e))
  BY <1>1, ReaderRequire, Zenon
<1>3. Require(h, e) \in Code /\ p \in Code
  BY <1>2 DEF Reader, Served, Writer
<1>4. \A w, o : Yields(Require(h, e), w, o) => o.err = e
  <2>1. \A w, o : Yields(Require(h, e), w, o) => Is(o, w, e, {})
    BY <1>1, Required, Zenon
  <2> QED
    BY <2>1 DEF Is
<1> DEFINE q == Require(h, e)
<1> HIDE DEF q
<1>5. Writer(q \o p, T) /\ AsStrict(p, q \o p)
  BY <1>2, <1>3, WriterJoined, StrictJoined DEF q, Served
<1>6. Final(q \o p)
  BY <1>3, <1>4, Joined DEF q, Served, Final
<1>7. Len(q \o p) > 0
  BY <1>3, Joined DEF q, Served, Code
<1> QED
  BY <1>5, <1>6, <1>7 DEF Served, q

\* And so does a handler whose body is parsed first.
LEMMA HandleDoes ==
  ASSUME NEW r, NEW p, NEW T, Writer(p, T)
  PROVE  Served(Handle(r, p), T) /\ AsStrict(p, Handle(r, p))
<1> DEFINE q == mapErr(Remote(p))
<1>1. Served(q, T) /\ AsStrict(p, q)
  BY MappedDoes
<1>2. "500" \in Statuses
  BY DEF Statuses
<1>3. Handle(r, p) = Require(r.form # "no_json", "500") \o q
  BY DEF Handle
<1> HIDE DEF q
<1>4. /\ Served(Require(r.form # "no_json", "500") \o q, T)
      /\ AsStrict(q, Require(r.form # "no_json", "500") \o q)
  BY <1>1, <1>2, RequireFirst
<1> QED
  BY <1>1, <1>3, <1>4, StrictTwice

\* Who comes with no credentials, or with those of nobody, is turned away.
LEMMA authMiddlewareDoes ==
  ASSUME NEW r
  PROVE  /\ Reader(authMiddleware(r)) /\ Final(authMiddleware(r))
         /\ r.who \in {"nobody", "unknown"} => Bars(authMiddleware(r))
<1> DEFINE a == Require(r.who # "unknown", "ErrAuthentication")
           b == DbGetUser(TRUE)
           c == RpcAuthorizeByAuthHeader(r)
           d == Remote(c)
           G == Either("PermissionDenied", "401", "500")
           f == Through(d, LAMBDA e : IF e = "PermissionDenied" THEN "401" ELSE "500")
           h == Require(r.who # "nobody", "401")
<1>1. "ErrAuthentication" \in Error /\ "401" \in Error /\ "500" \in Error
  BY Listed, StatusErrors DEF Statuses, Refusals
<1>2. Reader(a) /\ (r.who = "unknown" => Bars(a))
  BY <1>1, ReaderRequire, RequireBars
<1>3. Reader(b)
  BY ReadStatements
<1>4. SvcAuthorize(r) = a \o b \o b
  BY DEF SvcAuthorize
<1> HIDE DEF a, b
<1>5. Reader(SvcAuthorize(r)) /\ (r.who = "unknown" => Bars(SvcAuthorize(r)))
  <2>1. Reader(a \o b) /\ (r.who = "unknown" => Bars(a \o b))
    BY <1>2, <1>3, ReaderJoined, AreCode, GateLeft DEF Bars
  <2> QED
    BY <1>3, <1>4, <2>1, ReaderJoined, AreCode, GateLeft DEF Bars
<1>6. Reader(c) /\ (r.who = "unknown" => Bars(c))
  <2>1. Reader(c)
    BY <1>5, ReadLayers DEF RpcAuthorizeByAuthHeader, UserErrors
  <2>2. r.who = "unknown" => Bars(c)
    BY <1>5, AreCode, GateLayers DEF RpcAuthorizeByAuthHeader, UserErrors, Bars
  <2> QED
    BY <2>1, <2>2
<1> HIDE DEF c
<1>7. Reader(d) /\ (r.who = "unknown" => Bars(d))
  BY <1>6, ReaderRemote, AreCode, GateRemote DEF Bars
<1> HIDE DEF d
<1>8. G \in Translation
  BY <1>1, Translations
<1>9. f = Translated(d, G)
  <2>1. d \in Code
    BY <1>7, AreCode
  <2>2. \A i \in DOMAIN d, w \in World : \A o \in d[i][w] : o.err \in Error \cup {"ok"}
    BY <2>1, Made DEF Makes, Outcome
  <2> QED
    BY <2>2 DEF Through, Translated, Either
<1>10. Reader(f) /\ (r.who = "unknown" => Bars(f))
  BY <1>7, <1>8, <1>9, ReaderTranslated, AreCode, GateTranslated DEF Bars
<1>11. ASSUME NEW w, NEW o, Yields(f, w, o)
       PROVE  o.err \in {"401", "500", "ok"}
  <2>1. PICK o2 : Renames(G, o2, o)
    BY <1>7, <1>8, <1>9, <1>11, AreCode, Translates
  <2> QED
    BY <2>1 DEF Renames, Either
<1>12. Reader(h) /\ (r.who = "nobody" => Bars(h))
  BY <1>1, ReaderRequire, RequireBars
<1>13. \A w, o : Yields(h, w, o) => o.err = "401"
  <2>1. \A w, o : Yields(h, w, o) => Is(o, w, "401", {})
    BY <1>1, Required, Zenon
  <2> QED
    BY <2>1 DEF Is
<1>14. authMiddleware(r) = h \o f
  BY DEF authMiddleware, d, c
<1> HIDE DEF f, h, G
<1>15. Reader(h \o f)
  BY <1>10, <1>12, ReaderJoined
<1>16. r.who \in {"nobody", "unknown"} => Bars(h \o f)
  BY <1>10, <1>12, AreCode, GateLeft, GateRight DEF Bars
<1>17. Final(h \o f)
  <2>1. h \in Code /\ f \in Code
    BY <1>10, <1>12, AreCode
  <2> QED
    BY <2>1, <1>11, <1>13, Joined DEF Final, Statuses, Refusals
<1> QED
  BY <1>14, <1>15, <1>16, <1>17

\* Nobody gets by the middleware without an account.
LEMMA Authorized ==
  ASSUME NEW r, NEW p, NEW T, Served(p, T)
  PROVE  /\ Served(authMiddleware(r) \o p, T)
         /\ AsStrict(p, authMiddleware(r) \o p)
         /\ r.who \in {"nobody", "unknown"} => Bars(authMiddleware(r) \o p)
<1> DEFINE a == authMiddleware(r)
<1>1. /\ Reader(a) /\ Final(a)
      /\ r.who \in {"nobody", "unknown"} => Bars(a)
  BY authMiddlewareDoes
<1>2. a \in Code /\ p \in Code
  BY <1>1 DEF Reader, Served, Writer
<1> HIDE DEF a
<1>3. Writer(a \o p, T) /\ AsStrict(p, a \o p)
  BY <1>1, <1>2, WriterJoined, StrictJoined DEF Served
<1>4. Final(a \o p)
  BY <1>1, <1>2, Joined DEF Served, Final
<1>5. Len(a \o p) > 0
  BY <1>2, Joined DEF Served, Code
<1>6. r.who \in {"nobody", "unknown"} => Bars(a \o p)
  BY <1>1, <1>2, GateLeft DEF Bars
<1> QED
  BY <1>3, <1>4, <1>5, <1>6 DEF Served, a

\* The store's answer is passed on, and when it was not reached there was none.
LEMMA proxyToMinioDoes ==
  ASSUME NEW r
  PROVE  Served(proxyToMinio(r), IF r.op = "Upload" THEN {"objects"} ELSE {})
<1> DEFINE T == IF r.op = "Upload" THEN {"objects"} ELSE {}
           F == [w \in World |->
                  {IF r.op = "Upload" THEN Wrote(w, "objects") ELSE Done(w)}
                  \cup {Fails(w, e) : e \in {"403", "404"}}]
           q == Trip(F)
           G == Only("down", "502")
           f == Through(q, LAMBDA e : IF e = "down" THEN "502" ELSE e)
<1>1. /\ "objects" \in Written /\ T \in SUBSET Written
      /\ "403" \in Error /\ "404" \in Error /\ "502" \in Error /\ "400" \in Error
           /\ "down" \in Error
  BY Listed, Tables, StatusErrors DEF Statuses, Refusals
<1>2. Minio(r) = q /\ F = [w \in World |-> F[w]]
  BY DEF Minio, RoundTrip, Trip
<1>3. ASSUME NEW w \in World, NEW o \in F[w]
      PROVE  \/ r.op = "Upload" /\ o = Wrote(w, "objects")
             \/ r.op # "Upload" /\ o = Done(w)
             \/ o = Fails(w, "403")
             \/ o = Fails(w, "404")
  BY <1>3
<1> HIDE DEF F
<1>4. ASSUME NEW w \in World, NEW o \in F[w]
      PROVE  /\ \/ Is(o, w, "ok", T)
                \/ Is(o, w, "403", {})
                \/ Is(o, w, "404", {})
             /\ Follows(w, o)
  <2>1. /\ Is(Wrote(w, "objects"), w, "ok", {"objects"})
        /\ Is(Done(w), w, "ok", {})
        /\ Is(Fails(w, "403"), w, "403", {})
        /\ Is(Fails(w, "404"), w, "404", {})
    BY <1>1, WroteIs, DoneIs, FailsIs
  <2>2. \/ Is(o, w, "ok", T)
        \/ Is(o, w, "403", {})
        \/ Is(o, w, "404", {})
    BY <1>3, <1>4, <2>1
  <2>3. Kept(w, w)
    BY Updates
  <2>4. o \in Outcome /\ o.world = w
    BY <2>2 DEF Is
  <2>5. Follows(w, o)
    BY <2>3, <2>4 DEF Kept, Follows
  <2> QED
    BY <2>2, <2>5
<1>5. F \in RoundTrips
  BY <1>2, <1>4, IsRoundTrip
<1>6. q \in Code /\ Len(q) = 1
  BY <1>5, Trips
<1>7. ASSUME NEW w, NEW o, Yields(q, w, o)
      PROVE  \/ o.err = "ok" /\ o.did = T
             \/ o.err \in {"403", "404"} /\ o.did = {}
             \/ o.err = "down"
  <2>1. w \in World /\ (o \in F[w] \/ o.err = "down")
    BY <1>5, <1>7, Trips
  <2> QED
    BY <1>4, <2>1 DEF Is
<1> HIDE DEF q
<1>8. G \in Translation
  BY <1>1, Translations
<1>9. f = Translated(q, G)
  <2>1. \A i \in DOMAIN q, w \in World : \A o \in q[i][w] : o.err \in Error \cup {"ok"}
    BY <1>6, Made DEF Makes, Outcome
  <2> QED
    BY <2>1 DEF Through, Translated, Only
<1>10. ASSUME NEW w, NEW o, Yields(f, w, o)
       PROVE  \/ o.err = "ok" /\ o.did = T
              \/ o.err \in {"403", "404"} /\ o.did = {}
              \/ o.err = "502"
  <2>1. PICK o2 : Yields(q, w, o2) /\ Renames(G, o2, o)
    BY <1>6, <1>8, <1>9, <1>10, Translates
  <2>2. /\ o.did = o2.did
        /\ o2.err = "ok" => o.err = "ok"
        /\ o2.err = "down" => o.err = "502"
        /\ o2.err \in {"403", "404"} => o.err = o2.err
    BY <1>1, <2>1, Errors DEF Renames, Only
  <2> QED
    BY <1>7, <2>1, <2>2
<1>11. f \in Code /\ Len(f) = 1
  BY <1>6, <1>8, <1>9, Translates
<1>12. proxyToMinio(r) = Require(r.form # "bad_value", "400") \o f
  BY <1>2 DEF proxyToMinio
<1> HIDE DEF f, T, G
<1>13. Served(f, T)
  <2>1. Final(f)
    BY <1>10 DEF Final, Statuses, Refusals
  <2>2. \A w, o : Yields(f, w, o) =>
          /\ o.err = "ok" => o.did = T
          /\ o.err \notin Fatal \cup {"ok"} => o.did = {}
    BY <1>10 DEF Fatal
  <2>3. \A x : Serves(f, T, x)
    BY <1>1, <1>11, <2>2, ServesSingle
  <2> QED
    BY <1>11, <2>1, <2>3 DEF Served, Writer
<1>14. "400" \in Statuses
  BY DEF Statuses, Refusals
<1>15. Served(Require(r.form # "bad_value", "400") \o f, T)
  BY <1>13, <1>14, RequireFirst
<1> QED
  BY <1>12, <1>15 DEF T

-----------------------------------------------------------------------------
(* The routes *)

\* A request gets by only when row t was once in S.
Relies(p, t, S) ==
  \/ Gate(p, t, S)
  \/ \A w \in World : w[t] \in S
  \/ t = "lesson" /\ S = {"unpaid"} /\ Twice(p)

\* The step j lets nobody by.
Stops(p, j) == \A w, o : Makes(p, j, w, o) => o.err # "ok"

\* Step i is a hit in the cache, and not the last one.  Who has no account has
\* been stopped before.
Hit(r, p, i, w, o) ==
  /\ r.op \in CachedRoutes /\ Hits(r, w, o)
  /\ i < Len(p)
  /\ r.who \in {"nobody", "unknown"} => \E j \in 1 .. i - 1 : Stops(p, j)

ServedOrHit(r, p, T) ==
  /\ Writer(p, T) /\ Len(p) > 0
  /\ \A i, w, o : Makes(p, i, w, o) =>
       o.err \in Statuses \cup {"ok"} \/ Hit(r, p, i, w, o)

\* What is meant of the steps a request is served by: they write what the route
\* promises, let by only who is admitted, and rely on the rows that are needed,
\* up to a hit in the cache.
Guarded(r) ==
  /\ Served(Program(r), Promised(r)) \/ ServedOrHit(r, Program(r), Promised(r))
  /\ r.who \in Admitted(r.op) \/ Bars(Program(r))
  /\ \A t \in NamedBy(r.op) : Relies(Program(r), t, Needed(r, t))

\* A request that is authorized, handled and answered.
LEMMA Routed ==
  ASSUME NEW r, NEW p, NEW T, Writer(p, T)
  PROVE  /\ Served(authMiddleware(r) \o Handle(r, p), T)
         /\ AsStrict(p, authMiddleware(r) \o Handle(r, p))
         /\ r.who \in {"nobody", "unknown"} => Bars(authMiddleware(r) \o Handle(r, p))
<1> DEFINE q == Handle(r, p)
<1>1. Served(q, T) /\ AsStrict(p, q)
  BY HandleDoes
<1> HIDE DEF q
<1>2. /\ Served(authMiddleware(r) \o q, T)
      /\ AsStrict(q, authMiddleware(r) \o q)
      /\ r.who \in {"nobody", "unknown"} => Bars(authMiddleware(r) \o q)
  BY <1>1, Authorized
<1> QED
  BY <1>1, <1>2, StrictTwice DEF q

\* The same of a handler that reads through the cache.
LEMMA RoutedWithCache ==
  ASSUME NEW r, r.op \in CachedRoutes, NEW p, NEW T, Writer(p, T)
  PROVE  /\ ServedOrHit(r, authMiddleware(r) \o HandleWithCache(r, p), T)
         /\ AsStrict(p, authMiddleware(r) \o HandleWithCache(r, p))
         /\ r.who \in {"nobody", "unknown"} =>
              Bars(authMiddleware(r) \o HandleWithCache(r, p))
<1> DEFINE a == authMiddleware(r)
           q == HandleWithCache(r, p)
<1>1. /\ Reader(a) /\ Final(a)
      /\ r.who \in {"nobody", "unknown"} => Bars(a)
  BY authMiddlewareDoes
<1>2. /\ Writer(q, T) /\ AsStrict(p, q) /\ Len(q) > 1
      /\ \A i, w, o : Makes(q, i, w, o) =>
           o.err \in Statuses \cup {"ok"} \/ (i = 1 /\ Hits(r, w, o))
  BY HandleWithCacheDoes
<1>3. a \in Code /\ q \in Code
  BY <1>1, <1>2 DEF Reader, Writer
<1> HIDE DEF a, q
<1>4. Len(a) \in Nat /\ Len(q) \in Nat /\ DOMAIN a = 1 .. Len(a) /\ DOMAIN q = 1 .. Len(q)
  BY <1>3 DEF Code
<1>5. Writer(a \o q, T) /\ AsStrict(p, a \o q)
  BY <1>1, <1>2, <1>3, WriterJoined, StrictJoined, StrictTwice
<1>6. /\ Len(a \o q) = Len(a) + Len(q)
      /\ \A i, w, o : Makes(a \o q, i, w, o) <=>
           Makes(a, i, w, o) \/ (Makes(q, i - Len(a), w, o) /\ i \in Nat)
  BY <1>3, Joined
<1>7. r.who \in {"nobody", "unknown"} => Bars(a \o q)
  BY <1>1, <1>3, GateLeft DEF Bars
<1>8. r.who \in {"nobody", "unknown"} => \E j \in 1 .. Len(a) : Stops(a \o q, j)
  <2>1. SUFFICES ASSUME r.who \in {"nobody", "unknown"}
                 PROVE  \E j \in 1 .. Len(a) : Stops(a \o q, j)
    OBVIOUS
  <2>2. PICK j \in DOMAIN a : \A w, o :
          Makes(a, j, w, o) /\ o.err = "ok" => w["person"] \in {} \/ o.world["person"] \in {}
    BY <1>1, <2>1 DEF Bars, Gate
  <2>3. \A w, o : ~Makes(q, j - Len(a), w, o)
    BY <1>4 DEF Makes
  <2>4. Stops(a \o q, j)
    BY <1>6, <2>2, <2>3 DEF Stops
  <2> QED
    BY <1>4, <2>4
<1>9. ASSUME NEW i, NEW w, NEW o, Makes(a \o q, i, w, o)
      PROVE  o.err \in Statuses \cup {"ok"} \/ Hit(r, a \o q, i, w, o)
  <2>1. CASE Makes(a, i, w, o)
    BY <1>1, <2>1 DEF Final, Yields
  <2>2. CASE Makes(q, i - Len(a), w, o) /\ i \in Nat
    <3>1. o.err \in Statuses \cup {"ok"} \/ (i - Len(a) = 1 /\ Hits(r, w, o))
      BY <1>2, <2>2
    <3>2. ASSUME i - Len(a) = 1, Hits(r, w, o)
          PROVE  Hit(r, a \o q, i, w, o)
      <4>1. i < Len(a \o q) /\ i - 1 = Len(a)
        BY <1>2, <1>4, <1>6, <2>2, <3>2
      <4> QED
        BY <1>8, <3>2, <4>1 DEF Hit
    <3> QED
      BY <3>1, <3>2
  <2> QED
    BY <1>6, <1>9, <2>1, <2>2
<1>10. Len(a \o q) > 0
  BY <1>2, <1>4, <1>6
<1> QED
  BY <1>5, <1>7, <1>9, <1>10 DEF ServedOrHit, a, q

\* A list is asked for by somebody the query has to name.
LEMMA RoutedList ==
  ASSUME NEW r, NEW p, NEW T, Writer(p, T)
  PROVE  /\ Served(authMiddleware(r) \o (Require(r.form # "empty", "400") \o Handle(r, p)), T)
         /\ AsStrict(p, authMiddleware(r) \o (Require(r.form # "empty", "400") \o Handle(r, p)))
         /\ r.who \in {"nobody", "unknown"} =>
              Bars(authMiddleware(r) \o (Require(r.form # "empty", "400") \o Handle(r, p)))
<1> DEFINE q == Handle(r, p)
           s == Require(r.form # "empty", "400") \o q
<1>1. Served(q, T) /\ AsStrict(p, q)
  BY HandleDoes
<1> HIDE DEF q
<1>2. "400" \in Statuses
  BY DEF Statuses, Refusals
<1>3. Served(s, T) /\ AsStrict(q, s)
  BY <1>1, <1>2, RequireFirst
<1> HIDE DEF s
<1>4. /\ Served(authMiddleware(r) \o s, T)
      /\ AsStrict(s, authMiddleware(r) \o s)
      /\ r.who \in {"nobody", "unknown"} => Bars(authMiddleware(r) \o s)
  BY <1>3, Authorized
<1> QED
  BY <1>1, <1>3, <1>4, StrictTwice DEF q, s

LEMMA SignUpRoute ==
  ASSUME NEW r \in Request, r.op = "SignUp", r.who \in CallersOf(r.op)
  PROVE  Guarded(r)
<1> DEFINE p == RpcRegisterViaTelegram(r)
           q == Handle(r, p)
           T == {"users"}
<1>1. Program(r) = q
  BY DEF Program, SignUpRoutes, UserRoutes, ScheduleRoutes, HomeworkRoutes, PaymentRoutes,
         FileRoutes, ProxyRoutes, SignUpHandler
<1>2. /\ Promised(r) = T
      /\ r.who \in Admitted(r.op)
      /\ NamedBy(r.op) = {"person"}
      /\ Needed(r, "person") = {"none"}
  BY DEF Promised, Admitted, Entitled, Account, NamedBy, Needed, CallersOf, OpenRoutes,
           SignUpRoutes, ProxyRoutes
<1>3. Writer(p, T) /\ Gate(p, "person", {"none"})
  BY RpcRegisterViaTelegramDoes
<1> HIDE DEF p
<1>4. Served(q, T) /\ AsStrict(p, q)
  BY <1>3, HandleDoes
<1> HIDE DEF q, T
<1>5. Relies(q, "person", Needed(r, "person"))
  BY <1>2, <1>3, <1>4 DEF Relies, AsStrict
<1> QED
  BY <1>1, <1>2, <1>4, <1>5 DEF Guarded

LEMMA ProxyRoute ==
  ASSUME NEW r \in Request, r.op \in ProxyRoutes, r.who \in CallersOf(r.op)
  PROVE  Guarded(r)
<1> DEFINE T == IF r.op = "Upload" THEN {"objects"} ELSE {}
<1>1. Program(r) = proxyToMinio(r)
  BY DEF Program, SignUpRoutes, UserRoutes, ScheduleRoutes, HomeworkRoutes, PaymentRoutes,
         FileRoutes, ProxyRoutes
<1>2. /\ Promised(r) = T
      /\ r.who \in Admitted(r.op)
      /\ NamedBy(r.op) = {}
  BY DEF Promised, Admitted, Entitled, Account, NamedBy, CallersOf, OpenRoutes, SignUpRoutes,
           ProxyRoutes
<1>3. Served(proxyToMinio(r), T)
  BY proxyToMinioDoes
<1> QED
  BY <1>1, <1>2, <1>3 DEF Guarded

LEMMA GetMeRoute ==
  ASSUME NEW r \in Request, r.op = "GetMe"
  PROVE  Guarded(r)
<1> DEFINE p == RpcGetMe(r)
           q == authMiddleware(r) \o HandleWithCache(r, p)
           T == {}
<1>1. Program(r) = q
  BY DEF Program, SignUpRoutes, UserRoutes, ScheduleRoutes, HomeworkRoutes, PaymentRoutes,
         FileRoutes, ProxyRoutes, UserHandler
<1>2. /\ Promised(r) = T
      /\ Admitted(r.op) = Caller \ {"nobody", "unknown"}
      /\ NamedBy(r.op) = {}
  BY DEF Promised, Admitted, Entitled, Account, NamedBy, OpenRoutes, SignUpRoutes, ProxyRoutes
<1>3. Writer(p, T)
  BY RpcGetMeDoes, WriterReads
<1> HIDE DEF p
<1>4. /\ ServedOrHit(r, q, T) /\ AsStrict(p, q)
      /\ r.who \in {"nobody", "unknown"} => Bars(q)
  BY <1>3, RoutedWithCache DEF CachedRoutes
<1> HIDE DEF q, T
<1>5. r.who \in Admitted(r.op) \/ Bars(q)
  BY <1>2, <1>4 DEF Request
<1> QED
  BY <1>1, <1>2, <1>4, <1>5 DEF Guarded

LEMMA GetUserRoute ==
  ASSUME NEW r \in Request, r.op = "GetUser"
  PROVE  Guarded(r)
<1> DEFINE p == RpcGetUser(r)
           q == authMiddleware(r) \o HandleWithCache(r, p)
           T == {}
<1>1. Program(r) = q
  BY DEF Program, SignUpRoutes, UserRoutes, ScheduleRoutes, HomeworkRoutes, PaymentRoutes,
         FileRoutes, ProxyRoutes, UserHandler
<1>2. /\ Promised(r) = T
      /\ Admitted(r.op) = Caller \ {"nobody", "unknown"}
      /\ NamedBy(r.op) = {"person"}
  BY DEF Promised, Admitted, Entitled, Account, NamedBy, OpenRoutes, SignUpRoutes, ProxyRoutes
<1>3. Writer(p, T)
  BY RpcGetUserDoes, WriterReads
<1>4. Gate(p, "person", {"present"})
  BY RpcGetUserDoes
<1>5. Needed(r, "person") = {"present"}
  BY DEF Needed
<1> HIDE DEF p
<1>6. /\ ServedOrHit(r, q, T) /\ AsStrict(p, q)
      /\ r.who \in {"nobody", "unknown"} => Bars(q)
  BY <1>3, RoutedWithCache DEF CachedRoutes
<1> HIDE DEF q, T
<1>7. r.who \in Admitted(r.op) \/ Bars(q)
  BY <1>2, <1>6 DEF Request
<1>8. Relies(q, "person", Needed(r, "person"))
  BY <1>6, <1>4, <1>5 DEF Relies, AsStrict
<1> QED
  BY <1>1, <1>2, <1>6, <1>7, <1>8 DEF Guarded

LEMMA UpdateUserRoute ==
  ASSUME NEW r \in Request, r.op = "UpdateUser"
  PROVE  Guarded(r)
<1> DEFINE p == RpcUpdateUser(r)
           q == authMiddleware(r) \o Handle(r, p)
           T == {"users"}
<1>1. Program(r) = q
  BY DEF Program, SignUpRoutes, UserRoutes, ScheduleRoutes, HomeworkRoutes, PaymentRoutes,
         FileRoutes, ProxyRoutes, UserHandler
<1>2. /\ Promised(r) = T
      /\ Admitted(r.op) = Participants
      /\ NamedBy(r.op) = {}
  BY DEF Promised, Admitted, Entitled, Account, NamedBy, OpenRoutes, SignUpRoutes, ProxyRoutes
<1>3. Writer(p, T)
  BY RpcUpdateUserDoes
<1>4. r.who \notin Participants => Bars(p)
  BY RpcUpdateUserDoes
<1> HIDE DEF p
<1>5. /\ Served(q, T) /\ AsStrict(p, q)
      /\ r.who \in {"nobody", "unknown"} => Bars(q)
  BY <1>3, Routed
<1> HIDE DEF q, T
<1>6. r.who \in Admitted(r.op) \/ Bars(q)
  BY <1>2, <1>4, <1>5 DEF AsStrict, Bars
<1> QED
  BY <1>1, <1>2, <1>5, <1>6 DEF Guarded

LEMMA GetTutorProfileRoute ==
  ASSUME NEW r \in Request, r.op = "GetTutorProfile"
  PROVE  Guarded(r)
<1> DEFINE p == RpcGetTutorProfileByUserId(r)
           q == authMiddleware(r) \o HandleWithCache(r, p)
           T == {}
<1>1. Program(r) = q
  BY DEF Program, SignUpRoutes, UserRoutes, ScheduleRoutes, HomeworkRoutes, PaymentRoutes,
         FileRoutes, ProxyRoutes, UserHandler
<1>2. /\ Promised(r) = T
      /\ Admitted(r.op) = {"tutor"}
      /\ NamedBy(r.op) = {}
  BY DEF Promised, Admitted, Entitled, Account, NamedBy, OpenRoutes, SignUpRoutes, ProxyRoutes
<1>3. Writer(p, T)
  BY RpcGetTutorProfileByUserIdDoes, WriterReads
<1>4. r.who \notin {"tutor"} => Bars(p)
  BY RpcGetTutorProfileByUserIdDoes DEF Participants, Role, Request, Caller
<1> HIDE DEF p
<1>5. /\ ServedOrHit(r, q, T) /\ AsStrict(p, q)
      /\ r.who \in {"nobody", "unknown"} => Bars(q)
  BY <1>3, RoutedWithCache DEF CachedRoutes
<1> HIDE DEF q, T
<1>6. r.who \in Admitted(r.op) \/ Bars(q)
  BY <1>2, <1>4, <1>5 DEF AsStrict, Bars
<1> QED
  BY <1>1, <1>2, <1>5, <1>6 DEF Guarded

LEMMA UpdateTutorProfileRoute ==
  ASSUME NEW r \in Request, r.op = "UpdateTutorProfile"
  PROVE  Guarded(r)
<1> DEFINE s == [r EXCEPT !.form = IF @ = "good" THEN "empty" ELSE @]
           p == RpcUpdateTutorProfile(s)
           q == authMiddleware(r) \o Handle(r, p)
           T == {"tutor_profiles"}
<1>1. Program(r) = q
  BY DEF Program, SignUpRoutes, UserRoutes, ScheduleRoutes, HomeworkRoutes, PaymentRoutes,
         FileRoutes, ProxyRoutes, UserHandler
<1>2. /\ Promised(r) = T
      /\ Admitted(r.op) = {"tutor"}
      /\ NamedBy(r.op) = {}
  BY DEF Promised, Admitted, Entitled, Account, NamedBy, OpenRoutes, SignUpRoutes, ProxyRoutes
<1>3. s.who = r.who /\ s.form = IF r.form = "good" THEN "empty" ELSE r.form
  BY DEF Request
<1>4. Writer(p, T)
  BY RpcUpdateTutorProfileDoes
<1>5. r.who \notin {"tutor"} => Bars(p)
  BY <1>3, RpcUpdateTutorProfileDoes DEF Participants, Role, Request, Caller
<1> HIDE DEF p
<1>6. /\ Served(q, T) /\ AsStrict(p, q)
      /\ r.who \in {"nobody", "unknown"} => Bars(q)
  BY <1>4, Routed
<1> HIDE DEF q, T
<1>7. r.who \in Admitted(r.op) \/ Bars(q)
  BY <1>2, <1>5, <1>6 DEF AsStrict, Bars
<1> QED
  BY <1>1, <1>2, <1>6, <1>7 DEF Guarded

LEMMA ListTutorStudentByTutorRoute ==
  ASSUME NEW r \in Request, r.op = "ListTutorStudentByTutor"
  PROVE  Guarded(r)
<1> DEFINE p == RpcListTutorStudents(r)
           q == authMiddleware(r) \o Handle(r, p)
           T == {}
<1>1. Program(r) = q
  BY DEF Program, SignUpRoutes, UserRoutes, ScheduleRoutes, HomeworkRoutes, PaymentRoutes,
         FileRoutes, ProxyRoutes, UserHandler
<1>2. /\ Promised(r) = T
      /\ Admitted(r.op) = {"tutor"}
      /\ NamedBy(r.op) = {}
  BY DEF Promised, Admitted, Entitled, Account, NamedBy, OpenRoutes, SignUpRoutes, ProxyRoutes
<1>3. Writer(p, T)
  BY RpcListTutorStudentsDoes, WriterReads
<1>4. r.who \notin {"tutor"} => Bars(p)
  BY RpcListTutorStudentsDoes
<1> HIDE DEF p
<1>5. /\ Served(q, T) /\ AsStrict(p, q)
      /\ r.who \in {"nobody", "unknown"} => Bars(q)
  BY <1>3, Routed
<1> HIDE DEF q, T
<1>6. r.who \in Admitted(r.op) \/ Bars(q)
  BY <1>2, <1>4, <1>5 DEF AsStrict, Bars
<1> QED
  BY <1>1, <1>2, <1>5, <1>6 DEF Guarded

LEMMA ListTutorStudentByStudentRoute ==
  ASSUME NEW r \in Request, r.op = "ListTutorStudentByStudent"
  PROVE  Guarded(r)
<1> DEFINE p == RpcListTutorsForStudent(r)
           q == authMiddleware(r) \o Handle(r, p)
           T == {}
<1>1. Program(r) = q
  BY DEF Program, SignUpRoutes, UserRoutes, ScheduleRoutes, HomeworkRoutes, PaymentRoutes,
         FileRoutes, ProxyRoutes, UserHandler
<1>2. /\ Promised(r) = T
      /\ Admitted(r.op) = {"student"}
      /\ NamedBy(r.op) = {}
  BY DEF Promised, Admitted, Entitled, Account, NamedBy, OpenRoutes, SignUpRoutes, ProxyRoutes
<1>3. Writer(p, T)
  BY RpcListTutorsForStudentDoes, WriterReads
<1>4. r.who \notin {"student"} => Bars(p)
  BY RpcListTutorsForStudentDoes
<1> HIDE DEF p
<1>5. /\ Served(q, T) /\ AsStrict(p, q)
      /\ r.who \in {"nobody", "unknown"} => Bars(q)
  BY <1>3, Routed
<1> HIDE DEF q, T
<1>6. r.who \in Admitted(r.op) \/ Bars(q)
  BY <1>2, <1>4, <1>5 DEF AsStrict, Bars
<1> QED
  BY <1>1, <1>2, <1>5, <1>6 DEF Guarded

LEMMA GetTutorStudentRoute ==
  ASSUME NEW r \in Request, r.op = "GetTutorStudent"
  PROVE  Guarded(r)
<1> DEFINE p == RpcGetTutorStudent(r)
           q == authMiddleware(r) \o HandleWithCache(r, p)
           T == {}
<1>1. Program(r) = q
  BY DEF Program, SignUpRoutes, UserRoutes, ScheduleRoutes, HomeworkRoutes, PaymentRoutes,
         FileRoutes, ProxyRoutes, UserHandler
<1>2. /\ Promised(r) = T
      /\ Admitted(r.op) = Participants
      /\ NamedBy(r.op) = {"pair"}
  BY DEF Promised, Admitted, Entitled, Account, NamedBy, OpenRoutes, SignUpRoutes, ProxyRoutes
<1>3. Writer(p, T)
  BY RpcGetTutorStudentDoes, WriterReads
<1>4. r.who \notin Participants => Bars(p)
  BY RpcGetTutorStudentDoes
<1>5. Gate(p, "pair", {"invited", "active"})
  BY RpcGetTutorStudentDoes
<1>6. Needed(r, "pair") = {"invited", "active"}
  BY DEF Needed, UserRoutes
<1> HIDE DEF p
<1>7. /\ ServedOrHit(r, q, T) /\ AsStrict(p, q)
      /\ r.who \in {"nobody", "unknown"} => Bars(q)
  BY <1>3, RoutedWithCache DEF CachedRoutes
<1> HIDE DEF q, T
<1>8. r.who \in Admitted(r.op) \/ Bars(q)
  BY <1>2, <1>4, <1>7 DEF AsStrict, Bars
<1>9. Relies(q, "pair", Needed(r, "pair"))
  BY <1>7, <1>5, <1>6 DEF Relies, AsStrict
<1> QED
  BY <1>1, <1>2, <1>7, <1>8, <1>9 DEF Guarded

LEMMA UpdateTutorStudentRoute ==
  ASSUME NEW r \in Request, r.op = "UpdateTutorStudent"
  PROVE  Guarded(r)
<1> DEFINE p == RpcUpdateTutorStudent(r)
           q == authMiddleware(r) \o Handle(r, p)
           T == {"tutor_students"}
<1>1. Program(r) = q
  BY DEF Program, SignUpRoutes, UserRoutes, ScheduleRoutes, HomeworkRoutes, PaymentRoutes,
         FileRoutes, ProxyRoutes, UserHandler
<1>2. /\ Promised(r) = T
      /\ Admitted(r.op) = {"tutor"}
      /\ NamedBy(r.op) = {"pair"}
  BY DEF Promised, Admitted, Entitled, Account, NamedBy, OpenRoutes, SignUpRoutes, ProxyRoutes
<1>3. Writer(p, T)
  BY RpcUpdateTutorStudentDoes
<1>4. r.who \notin {"tutor"} => Bars(p)
  BY RpcUpdateTutorStudentDoes
<1>5. Gate(p, "pair", {"invited", "active"})
  BY RpcUpdateTutorStudentDoes
<1>6. Needed(r, "pair") = {"invited", "active"}
  BY DEF Needed, UserRoutes
<1> HIDE DEF p
<1>7. /\ Served(q, T) /\ AsStrict(p, q)
      /\ r.who \in {"nobody", "unknown"} => Bars(q)
  BY <1>3, Routed
<1> HIDE DEF q, T
<1>8. r.who \in Admitted(r.op) \/ Bars(q)
  BY <1>2, <1>4, <1>7 DEF AsStrict, Bars
<1>9. Relies(q, "pair", Needed(r, "pair"))
  BY <1>7, <1>5, <1>6 DEF Relies, AsStrict
<1> QED
  BY <1>1, <1>2, <1>7, <1>8, <1>9 DEF Guarded

LEMMA DeleteTutorStudentRoute ==
  ASSUME NEW r \in Request, r.op = "DeleteTutorStudent"
  PROVE  Guarded(r)
<1> DEFINE p == RpcDeleteTutorStudent(r)
           q == authMiddleware(r) \o Handle(r, p)
           T == {"tutor_students"}
<1>1. Program(r) = q
  BY DEF Program, SignUpRoutes, UserRoutes, ScheduleRoutes, HomeworkRoutes, PaymentRoutes,
         FileRoutes, ProxyRoutes, UserHandler
<1>2. /\ Promised(r) = T
      /\ Admitted(r.op) = {"tutor"}
      /\ NamedBy(r.op) = {"pair"}
  BY DEF Promised, Admitted, Entitled, Account, NamedBy, OpenRoutes, SignUpRoutes, ProxyRoutes
<1>3. Writer(p, T)
  BY RpcDeleteTutorStudentDoes
<1>4. r.who \notin {"tutor"} => Bars(p)
  BY RpcDeleteTutorStudentDoes
<1>5. Gate(p, "pair", {"invited", "active"})
  BY RpcDeleteTutorStudentDoes
<1>6. Needed(r, "pair") = {"invited", "active"}
  BY DEF Needed, UserRoutes
<1> HIDE DEF p
<1>7. /\ Served(q, T) /\ AsStrict(p, q)
      /\ r.who \in {"nobody", "unknown"} => Bars(q)
  BY <1>3, Routed
<1> HIDE DEF q, T
<1>8. r.who \in Admitted(r.op) \/ Bars(q)
  BY <1>2, <1>4, <1>7 DEF AsStrict, Bars
<1>9. Relies(q, "pair", Needed(r, "pair"))
  BY <1>7, <1>5, <1>6 DEF Relies, AsStrict
<1> QED
  BY <1>1, <1>2, <1>7, <1>8, <1>9 DEF Guarded

LEMMA CreateTutorStudentRoute ==
  ASSUME NEW r \in Request, r.op = "CreateTutorStudent"
  PROVE  Guarded(r)
<1> DEFINE p == RpcCreateTutorStudent(r)
           q == authMiddleware(r) \o Handle(r, p)
           T == {"tutor_students"}
<1>1. Program(r) = q
  BY DEF Program, SignUpRoutes, UserRoutes, ScheduleRoutes, HomeworkRoutes, PaymentRoutes,
         FileRoutes, ProxyRoutes, UserHandler
<1>2. /\ Promised(r) = T
      /\ Admitted(r.op) = {"tutor"}
      /\ NamedBy(r.op) = {"person", "pair"}
  BY DEF Promised, Admitted, Entitled, Account, NamedBy, OpenRoutes, SignUpRoutes, ProxyRoutes
<1>3. Writer(p, T)
  BY RpcCreateTutorStudentDoes
<1>4. r.who \notin {"tutor"} => Bars(p)
  BY RpcCreateTutorStudentDoes
<1>5. Gate(p, "person", {"present"})
  BY RpcCreateTutorStudentDoes
<1>6. Gate(p, "pair", {"none"})
  BY RpcCreateTutorStudentDoes
<1>7. /\ Needed(r, "person") = {"present"}
      /\ Needed(r, "pair") = {"none"}
  BY DEF Needed, UserRoutes
<1> HIDE DEF p
<1>8. /\ Served(q, T) /\ AsStrict(p, q)
      /\ r.who \in {"nobody", "unknown"} => Bars(q)
  BY <1>3, Routed
<1> HIDE DEF q, T
<1>9. r.who \in Admitted(r.op) \/ Bars(q)
  BY <1>2, <1>4, <1>8 DEF AsStrict, Bars
<1>10. Relies(q, "person", Needed(r, "person"))
  BY <1>8, <1>5, <1>7 DEF Relies, AsStrict
<1>11. Relies(q, "pair", Needed(r, "pair"))
  BY <1>8, <1>6, <1>7 DEF Relies, AsStrict
<1> QED
  BY <1>1, <1>2, <1>8, <1>9, <1>10, <1>11 DEF Guarded

LEMMA AcceptInvitationRoute ==
  ASSUME NEW r \in Request, r.op = "AcceptInvitation"
  PROVE  Guarded(r)
<1> DEFINE p == RpcAcceptInvitationFromTutor(r)
           q == authMiddleware(r) \o Handle(r, p)
           T == {"tutor_students"}
<1>1. Program(r) = q
  BY DEF Program, SignUpRoutes, UserRoutes, ScheduleRoutes, HomeworkRoutes, PaymentRoutes,
         FileRoutes, ProxyRoutes, UserHandler
<1>2. /\ Promised(r) = T
      /\ Admitted(r.op) = {"student"}
      /\ NamedBy(r.op) = {"pair"}
  BY DEF Promised, Admitted, Entitled, Account, NamedBy, OpenRoutes, SignUpRoutes, ProxyRoutes
<1>3. Writer(p, T)
  BY RpcAcceptInvitationFromTutorDoes
<1>4. r.who \notin {"student"} => Bars(p)
  BY RpcAcceptInvitationFromTutorDoes DEF NamesPair, Participants, Role, Request, Caller
<1>5. Gate(p, "pair", {"invited", "active"})
  BY RpcAcceptInvitationFromTutorDoes
<1>6. Needed(r, "pair") = {"invited", "active"}
  BY DEF Needed, UserRoutes
<1> HIDE DEF p
<1>7. /\ Served(q, T) /\ AsStrict(p, q)
      /\ r.who \in {"nobody", "unknown"} => Bars(q)
  BY <1>3, Routed
<1> HIDE DEF q, T
<1>8. r.who \in Admitted(r.op) \/ Bars(q)
  BY <1>2, <1>4, <1>7 DEF AsStrict, Bars
<1>9. Relies(q, "pair", Needed(r, "pair"))
  BY <1>7, <1>5, <1>6 DEF Relies, AsStrict
<1> QED
  BY <1>1, <1>2, <1>7, <1>8, <1>9 DEF Guarded

LEMMA CreateSlotRoute ==
  ASSUME NEW r \in Request, r.op = "CreateSlot"
  PROVE  Guarded(r)
<1> DEFINE p == RpcCreateSlot(r)
           q == authMiddleware(r) \o Handle(r, p)
           T == {"slots"}
<1>1. Program(r) = q
  BY DEF Program, SignUpRoutes, UserRoutes, ScheduleRoutes, HomeworkRoutes, PaymentRoutes,
         FileRoutes, ProxyRoutes, ScheduleHandler
<1>2. /\ Promised(r) = T
      /\ Admitted(r.op) = {"tutor"}
      /\ NamedBy(r.op) = {}
  BY DEF Promised, Admitted, Entitled, Account, NamedBy, OpenRoutes, SignUpRoutes, ProxyRoutes
<1>3. Writer(p, T)
  BY RpcCreateSlotDoes
<1>4. r.who \notin {"tutor"} => Bars(p)
  BY RpcCreateSlotDoes
<1> HIDE DEF p
<1>5. /\ Served(q, T) /\ AsStrict(p, q)
      /\ r.who \in {"nobody", "unknown"} => Bars(q)
  BY <1>3, Routed
<1> HIDE DEF q, T
<1>6. r.who \in Admitted(r.op) \/ Bars(q)
  BY <1>2, <1>4, <1>5 DEF AsStrict, Bars
<1> QED
  BY <1>1, <1>2, <1>5, <1>6 DEF Guarded

LEMMA GetSlotRoute ==
  ASSUME NEW r \in Request, r.op = "GetSlot"
  PROVE  Guarded(r)
<1> DEFINE p == RpcGetSlot(r)
           q == authMiddleware(r) \o Handle(r, p)
           T == {}
<1>1. Program(r) = q
  BY DEF Program, SignUpRoutes, UserRoutes, ScheduleRoutes, HomeworkRoutes, PaymentRoutes,
         FileRoutes, ProxyRoutes, ScheduleHandler
<1>2. /\ Promised(r) = T
      /\ Admitted(r.op) = Participants
      /\ NamedBy(r.op) = {"slot", "pair"}
  BY DEF Promised, Admitted, Entitled, Account, NamedBy, OpenRoutes, SignUpRoutes, ProxyRoutes
<1>3. Writer(p, T)
  BY RpcGetSlotDoes, WriterReads
<1>4. r.who \notin Participants => Bars(p)
  BY RpcGetSlotDoes
<1>5. Gate(p, "slot", {"free", "booked", "used"})
  BY RpcGetSlotDoes
<1>6. r.who # "tutor" => Gate(p, "pair", {"active"})
  BY RpcGetSlotDoes
<1>7. r.who = "tutor" => \A w \in World : w["pair"] \in Needed(r, "pair")
  BY DEF Needed, World, UserRoutes
<1>8. r.who # "tutor" => Needed(r, "pair") = {"active"}
  BY DEF Needed, UserRoutes
<1>9. Needed(r, "slot") = {"free", "booked", "used"}
  BY DEF Needed, SlotState
<1> HIDE DEF p
<1>10. /\ Served(q, T) /\ AsStrict(p, q)
       /\ r.who \in {"nobody", "unknown"} => Bars(q)
  BY <1>3, Routed
<1> HIDE DEF q, T
<1>11. r.who \in Admitted(r.op) \/ Bars(q)
  BY <1>2, <1>4, <1>10 DEF AsStrict, Bars
<1>12. Relies(q, "slot", Needed(r, "slot"))
  BY <1>10, <1>5, <1>9 DEF Relies, AsStrict
<1>13. Relies(q, "pair", Needed(r, "pair"))
  BY <1>10, <1>6, <1>7, <1>8 DEF Relies, AsStrict
<1> QED
  BY <1>1, <1>2, <1>10, <1>11, <1>12, <1>13 DEF Guarded

LEMMA UpdateSlotRoute ==
  ASSUME NEW r \in Request, r.op = "UpdateSlot"
  PROVE  Guarded(r)
<1> DEFINE p == RpcUpdateSlot(r)
           q == authMiddleware(r) \o Handle(r, p)
           T == {"slots"}
<1>1. Program(r) = q
  BY DEF Program, SignUpRoutes, UserRoutes, ScheduleRoutes, HomeworkRoutes, PaymentRoutes,
         FileRoutes, ProxyRoutes, ScheduleHandler
<1>2. /\ Promised(r) = T
      /\ Admitted(r.op) = {"tutor"}
      /\ NamedBy(r.op) = {"slot"}
  BY DEF Promised, Admitted, Entitled, Account, NamedBy, OpenRoutes, SignUpRoutes, ProxyRoutes
<1>3. Writer(p, T)
  BY RpcUpdateSlotDoes
<1>4. r.who \notin {"tutor"} => Bars(p)
  BY RpcUpdateSlotDoes
<1>5. Gate(p, "slot", {"free", "used"})
  BY RpcUpdateSlotDoes
<1>6. Needed(r, "slot") = {"free", "used"}
  BY DEF Needed, SlotState
<1> HIDE DEF p
<1>7. /\ Served(q, T) /\ AsStrict(p, q)
      /\ r.who \in {"nobody", "unknown"} => Bars(q)
  BY <1>3, Routed
<1> HIDE DEF q, T
<1>8. r.who \in Admitted(r.op) \/ Bars(q)
  BY <1>2, <1>4, <1>7 DEF AsStrict, Bars
<1>9. Relies(q, "slot", Needed(r, "slot"))
  BY <1>7, <1>5, <1>6 DEF Relies, AsStrict
<1> QED
  BY <1>1, <1>2, <1>7, <1>8, <1>9 DEF Guarded

LEMMA DeleteSlotRoute ==
  ASSUME NEW r \in Request, r.op = "DeleteSlot"
  PROVE  Guarded(r)
<1> DEFINE p == RpcDeleteSlot(r)
           q == authMiddleware(r) \o Handle(r, p)
           T == {"slots"}
<1>1. Program(r) = q
  BY DEF Program, SignUpRoutes, UserRoutes, ScheduleRoutes, HomeworkRoutes, PaymentRoutes,
         FileRoutes, ProxyRoutes, ScheduleHandler
<1>2. /\ Promised(r) = T
      /\ Admitted(r.op) = {"tutor"}
      /\ NamedBy(r.op) = {"slot"}
  BY DEF Promised, Admitted, Entitled, Account, NamedBy, OpenRoutes, SignUpRoutes, ProxyRoutes
<1>3. Writer(p, T)
  BY RpcDeleteSlotDoes
<1>4. r.who \notin {"tutor"} => Bars(p)
  BY RpcDeleteSlotDoes
<1>5. Gate(p, "slot", {"free"})
  BY RpcDeleteSlotDoes
<1>6. Needed(r, "slot") = {"free"}
  BY DEF Needed, SlotState
<1> HIDE DEF p
<1>7. /\ Served(q, T) /\ AsStrict(p, q)
      /\ r.who \in {"nobody", "unknown"} => Bars(q)
  BY <1>3, Routed
<1> HIDE DEF q, T
<1>8. r.who \in Admitted(r.op) \/ Bars(q)
  BY <1>2, <1>4, <1>7 DEF AsStrict, Bars
<1>9. Relies(q, "slot", Needed(r, "slot"))
  BY <1>7, <1>5, <1>6 DEF Relies, AsStrict
<1> QED
  BY <1>1, <1>2, <1>7, <1>8, <1>9 DEF Guarded

LEMMA ListSlotsByTutorRoute ==
  ASSUME NEW r \in Request, r.op = "ListSlotsByTutor"
  PROVE  Guarded(r)
<1> DEFINE p == RpcListSlotsByTutor(r)
           q == authMiddleware(r) \o Handle(r, p)
           T == {}
<1>1. Program(r) = q
  BY DEF Program, SignUpRoutes, UserRoutes, ScheduleRoutes, HomeworkRoutes, PaymentRoutes,
         FileRoutes, ProxyRoutes, ScheduleHandler
<1>2. /\ Promised(r) = T
      /\ Admitted(r.op) = Participants
      /\ NamedBy(r.op) = {"pair"}
  BY DEF Promised, Admitted, Entitled, Account, NamedBy, OpenRoutes, SignUpRoutes, ProxyRoutes
<1>3. Writer(p, T)
  BY RpcListSlotsByTutorDoes, WriterReads
<1>4. r.who \notin Participants => Bars(p)
  BY RpcListSlotsByTutorDoes
<1>5. r.who # "tutor" => Gate(p, "pair", {"active"})
  BY RpcListSlotsByTutorDoes
<1>6. r.who = "tutor" => \A w \in World : w["pair"] \in Needed(r, "pair")
  BY DEF Needed, World, UserRoutes
<1>7. r.who # "tutor" => Needed(r, "pair") = {"active"}
  BY DEF Needed, UserRoutes
<1> HIDE DEF p
<1>8. /\ Served(q, T) /\ AsStrict(p, q)
      /\ r.who \in {"nobody", "unknown"} => Bars(q)
  BY <1>3, Routed
<1> HIDE DEF q, T
<1>9. r.who \in Admitted(r.op) \/ Bars(q)
  BY <1>2, <1>4, <1>8 DEF AsStrict, Bars
<1>10. Relies(q, "pair", Needed(r, "pair"))
  BY <1>8, <1>5, <1>6, <1>7 DEF Relies, AsStrict
<1> QED
  BY <1>1, <1>2, <1>8, <1>9, <1>10 DEF Guarded

LEMMA ListLessonsByTutorRoute ==
  ASSUME NEW r \in Request, r.op = "ListLessonsByTutor"
  PROVE  Guarded(r)
<1> DEFINE p == RpcListLessonsByTutor(r)
           q == authMiddleware(r) \o (Require(r.form # "empty", "400") \o Handle(r, p))
           T == {}
<1>1. Program(r) = q
  BY DEF Program, SignUpRoutes, UserRoutes, ScheduleRoutes, HomeworkRoutes, PaymentRoutes,
         FileRoutes, ProxyRoutes, ScheduleHandler, ListLessons, parseListLessons
<1>2. /\ Promised(r) = T
      /\ Admitted(r.op) = {"tutor"}
      /\ NamedBy(r.op) = {}
  BY DEF Promised, Admitted, Entitled, Account, NamedBy, OpenRoutes, SignUpRoutes, ProxyRoutes
<1>3. Writer(p, T)
  BY RpcListLessonsByTutorDoes, WriterReads
<1>4. r.who \notin {"tutor"} => Bars(p)
  BY RpcListLessonsByTutorDoes
<1> HIDE DEF p
<1>5. /\ Served(q, T) /\ AsStrict(p, q)
      /\ r.who \in {"nobody", "unknown"} => Bars(q)
  BY <1>3, RoutedList
<1> HIDE DEF q, T
<1>6. r.who \in Admitted(r.op) \/ Bars(q)
  BY <1>2, <1>4, <1>5 DEF AsStrict, Bars
<1> QED
  BY <1>1, <1>2, <1>5, <1>6 DEF Guarded

LEMMA ListLessonsByStudentRoute ==
  ASSUME NEW r \in Request, r.op = "ListLessonsByStudent"
  PROVE  Guarded(r)
<1> DEFINE p == RpcListLessonsByStudent(r)
           q == authMiddleware(r) \o (Require(r.form # "empty", "400") \o Handle(r, p))
           T == {}
<1>1. Program(r) = q
  BY DEF Program, SignUpRoutes, UserRoutes, ScheduleRoutes, HomeworkRoutes, PaymentRoutes,
         FileRoutes, ProxyRoutes, ScheduleHandler, ListLessons, parseListLessons
<1>2. /\ Promised(r) = T
      /\ Admitted(r.op) = {"student"}
      /\ NamedBy(r.op) = {}
  BY DEF Promised, Admitted, Entitled, Account, NamedBy, OpenRoutes, SignUpRoutes, ProxyRoutes
<1>3. Writer(p, T)
  BY RpcListLessonsByStudentDoes, WriterReads
<1>4. r.who \notin {"student"} => Bars(p)
  BY RpcListLessonsByStudentDoes
<1> HIDE DEF p
<1>5. /\ Served(q, T) /\ AsStrict(p, q)
      /\ r.who \in {"nobody", "unknown"} => Bars(q)
  BY <1>3, RoutedList
<1> HIDE DEF q, T
<1>6. r.who \in Admitted(r.op) \/ Bars(q)
  BY <1>2, <1>4, <1>5 DEF AsStrict, Bars
<1> QED
  BY <1>1, <1>2, <1>5, <1>6 DEF Guarded

LEMMA ListLessonsByPairRoute ==
  ASSUME NEW r \in Request, r.op = "ListLessonsByPair"
  PROVE  Guarded(r)
<1> DEFINE p == RpcListLessonsByPair(r)
           q == authMiddleware(r) \o (Require(r.form # "empty", "400") \o Handle(r, p))
           T == {}
<1>1. Program(r) = q
  BY DEF Program, SignUpRoutes, UserRoutes, ScheduleRoutes, HomeworkRoutes, PaymentRoutes,
         FileRoutes, ProxyRoutes, ScheduleHandler, ListLessons, parseListLessons
<1>2. /\ Promised(r) = T
      /\ Admitted(r.op) = Participants
      /\ NamedBy(r.op) = {"pair"}
  BY DEF Promised, Admitted, Entitled, Account, NamedBy, OpenRoutes, SignUpRoutes, ProxyRoutes
<1>3. Writer(p, T)
  BY RpcListLessonsByPairDoes, WriterReads
<1>4. r.who \notin Participants => Bars(p)
  BY RpcListLessonsByPairDoes
<1>5. Gate(p, "pair", {"active"})
  BY RpcListLessonsByPairDoes
<1>6. Needed(r, "pair") = {"active"}
  BY DEF Needed, UserRoutes
<1> HIDE DEF p
<1>7. /\ Served(q, T) /\ AsStrict(p, q)
      /\ r.who \in {"nobody", "unknown"} => Bars(q)
  BY <1>3, RoutedList
<1> HIDE DEF q, T
<1>8. r.who \in Admitted(r.op) \/ Bars(q)
  BY <1>2, <1>4, <1>7 DEF AsStrict, Bars
<1>9. Relies(q, "pair", Needed(r, "pair"))
  BY <1>7, <1>5, <1>6 DEF Relies, AsStrict
<1> QED
  BY <1>1, <1>2, <1>7, <1>8, <1>9 DEF Guarded

LEMMA CreateLessonRoute ==
  ASSUME NEW r \in Request, r.op = "CreateLesson"
  PROVE  Guarded(r)
<1> DEFINE p == RpcCreateLesson(r)
           q == authMiddleware(r) \o Handle(r, p)
           T == {"lessons"}
<1>1. Program(r) = q
  BY DEF Program, SignUpRoutes, UserRoutes, ScheduleRoutes, HomeworkRoutes, PaymentRoutes,
         FileRoutes, ProxyRoutes, ScheduleHandler
<1>2. /\ Promised(r) = T
      /\ Admitted(r.op) = Participants
      /\ NamedBy(r.op) = {"slot", "pair"}
  BY DEF Promised, Admitted, Entitled, Account, NamedBy, OpenRoutes, SignUpRoutes, ProxyRoutes
<1>3. Writer(p, T)
  BY RpcCreateLessonDoes
<1>4. r.who \notin Participants => Bars(p)
  BY RpcCreateLessonDoes
<1>5. Gate(p, "slot", {"free"})
  BY RpcCreateLessonDoes
<1>6. Gate(p, "pair", {"active"})
  BY RpcCreateLessonDoes
<1>7. /\ Needed(r, "slot") = {"free"}
      /\ Needed(r, "pair") = {"active"}
  BY DEF Needed, UserRoutes, SlotState
<1> HIDE DEF p
<1>8. /\ Served(q, T) /\ AsStrict(p, q)
      /\ r.who \in {"nobody", "unknown"} => Bars(q)
  BY <1>3, Routed
<1> HIDE DEF q, T
<1>9. r.who \in Admitted(r.op) \/ Bars(q)
  BY <1>2, <1>4, <1>8 DEF AsStrict, Bars
<1>10. Relies(q, "slot", Needed(r, "slot"))
  BY <1>8, <1>5, <1>7 DEF Relies, AsStrict
<1>11. Relies(q, "pair", Needed(r, "pair"))
  BY <1>8, <1>6, <1>7 DEF Relies, AsStrict
<1> QED
  BY <1>1, <1>2, <1>8, <1>9, <1>10, <1>11 DEF Guarded

LEMMA GetLessonRoute ==
  ASSUME NEW r \in Request, r.op = "GetLesson"
  PROVE  Guarded(r)
<1> DEFINE p == RpcGetLesson(r)
           q == authMiddleware(r) \o Handle(r, p)
           T == {}
<1>1. Program(r) = q
  BY DEF Program, SignUpRoutes, UserRoutes, ScheduleRoutes, HomeworkRoutes, PaymentRoutes,
         FileRoutes, ProxyRoutes, ScheduleHandler
<1>2. /\ Promised(r) = T
      /\ Admitted(r.op) = Participants
      /\ NamedBy(r.op) = {"lesson", "slot"}
  BY DEF Promised, Admitted, Entitled, Account, NamedBy, OpenRoutes, SignUpRoutes, ProxyRoutes
<1>3. Writer(p, T)
  BY RpcGetLessonDoes, WriterReads
<1>4. r.who \notin Participants => Bars(p)
  BY RpcGetLessonDoes
<1>5. Gate(p, "lesson", {"unpaid", "paid"})
  BY RpcGetLessonDoes
<1>6. \A w \in World : w["slot"] \in Needed(r, "slot")
  BY DEF Needed, World
<1>7. Needed(r, "lesson") = {"unpaid", "paid"}
  BY DEF Needed
<1> HIDE DEF p
<1>8. /\ Served(q, T) /\ AsStrict(p, q)
      /\ r.who \in {"nobody", "unknown"} => Bars(q)
  BY <1>3, Routed
<1> HIDE DEF q, T
<1>9. r.who \in Admitted(r.op) \/ Bars(q)
  BY <1>2, <1>4, <1>8 DEF AsStrict, Bars
<1>10. Relies(q, "lesson", Needed(r, "lesson"))
  BY <1>8, <1>5, <1>7 DEF Relies, AsStrict
<1>11. Relies(q, "slot", Needed(r, "slot"))
  BY <1>6 DEF Relies
<1> QED
  BY <1>1, <1>2, <1>8, <1>9, <1>10, <1>11 DEF Guarded

LEMMA UpdateLessonRoute ==
  ASSUME NEW r \in Request, r.op = "UpdateLesson"
  PROVE  Guarded(r)
<1> DEFINE p == RpcUpdateLesson(r)
           q == authMiddleware(r) \o Handle(r, p)
           T == IF r.form = "empty" THEN {} ELSE {"lessons"}
<1>1. Program(r) = q
  BY DEF Program, SignUpRoutes, UserRoutes, ScheduleRoutes, HomeworkRoutes, PaymentRoutes,
         FileRoutes, ProxyRoutes, ScheduleHandler
<1>2. /\ Promised(r) = T
      /\ Admitted(r.op) = {"tutor"}
      /\ NamedBy(r.op) = {"lesson", "slot"}
  BY DEF Promised, Admitted, Entitled, Account, NamedBy, OpenRoutes, SignUpRoutes, ProxyRoutes
<1>3. Writer(p, T)
  BY RpcUpdateLessonDoes, WriterReads
<1>4. r.who \notin {"tutor"} => Bars(p)
  BY RpcUpdateLessonDoes
<1>5. Gate(p, "lesson", {"unpaid", "paid"})
  BY RpcUpdateLessonDoes
<1>6. \A w \in World : w["slot"] \in Needed(r, "slot")
  BY DEF Needed, World
<1>7. Needed(r, "lesson") = {"unpaid", "paid"}
  BY DEF Needed
<1> HIDE DEF p
<1>8. /\ Served(q, T) /\ AsStrict(p, q)
      /\ r.who \in {"nobody", "unknown"} => Bars(q)
  BY <1>3, Routed
<1> HIDE DEF q, T
<1>9. r.who \in Admitted(r.op) \/ Bars(q)
  BY <1>2, <1>4, <1>8 DEF AsStrict, Bars
<1>10. Relies(q, "lesson", Needed(r, "lesson"))
  BY <1>8, <1>5, <1>7 DEF Relies, AsStrict
<1>11. Relies(q, "slot", Needed(r, "slot"))
  BY <1>6 DEF Relies
<1> QED
  BY <1>1, <1>2, <1>8, <1>9, <1>10, <1>11 DEF Guarded

LEMMA CancelLessonRoute ==
  ASSUME NEW r \in Request, r.op = "CancelLesson"
  PROVE  Guarded(r)
<1> DEFINE p == RpcCancelLesson(r)
           q == authMiddleware(r) \o Handle(r, p)
           T == {"lessons"}
<1>1. Program(r) = q
  BY DEF Program, SignUpRoutes, UserRoutes, ScheduleRoutes, HomeworkRoutes, PaymentRoutes,
         FileRoutes, ProxyRoutes, ScheduleHandler
<1>2. /\ Promised(r) = T
      /\ Admitted(r.op) = Participants
      /\ NamedBy(r.op) = {"lesson", "slot"}
  BY DEF Promised, Admitted, Entitled, Account, NamedBy, OpenRoutes, SignUpRoutes, ProxyRoutes
<1>3. Writer(p, T)
  BY RpcCancelLessonDoes
<1>4. r.who \notin Participants => Bars(p)
  BY RpcCancelLessonDoes
<1>5. Gate(p, "lesson", {"unpaid", "paid"})
  BY RpcCancelLessonDoes
<1>6. \A w \in World : w["slot"] \in Needed(r, "slot")
  BY DEF Needed, World
<1>7. Needed(r, "lesson") = {"unpaid", "paid"}
  BY DEF Needed
<1> HIDE DEF p
<1>8. /\ Served(q, T) /\ AsStrict(p, q)
      /\ r.who \in {"nobody", "unknown"} => Bars(q)
  BY <1>3, Routed
<1> HIDE DEF q, T
<1>9. r.who \in Admitted(r.op) \/ Bars(q)
  BY <1>2, <1>4, <1>8 DEF AsStrict, Bars
<1>10. Relies(q, "lesson", Needed(r, "lesson"))
  BY <1>8, <1>5, <1>7 DEF Relies, AsStrict
<1>11. Relies(q, "slot", Needed(r, "slot"))
  BY <1>6 DEF Relies
<1> QED
  BY <1>1, <1>2, <1>8, <1>9, <1>10, <1>11 DEF Guarded

LEMMA CreateAssignmentRoute ==
  ASSUME NEW r \in Request, r.op = "CreateAssignment"
  PROVE  Guarded(r)
<1> DEFINE p == RpcCreateAssignment(r)
           q == authMiddleware(r) \o Handle(r, p)
           T == {"assignments"}
<1>1. Program(r) = q
  BY DEF Program, SignUpRoutes, UserRoutes, ScheduleRoutes, HomeworkRoutes, PaymentRoutes,
         FileRoutes, ProxyRoutes, HomeworkHandler
<1>2. /\ Promised(r) = T
      /\ Admitted(r.op) = {"tutor"}
      /\ NamedBy(r.op) = {"pair"}
  BY DEF Promised, Admitted, Entitled, Account, NamedBy, OpenRoutes, SignUpRoutes, ProxyRoutes
<1>3. Writer(p, T)
  BY RpcCreateAssignmentDoes
<1>4. r.who \notin {"tutor"} => Bars(p)
  BY RpcCreateAssignmentDoes DEF Participants, Role, Request, Caller
<1>5. Gate(p, "pair", {"active"})
  BY RpcCreateAssignmentDoes
<1>6. Needed(r, "pair") = {"active"}
  BY DEF Needed, UserRoutes
<1> HIDE DEF p
<1>7. /\ Served(q, T) /\ AsStrict(p, q)
      /\ r.who \in {"nobody", "unknown"} => Bars(q)
  BY <1>3, Routed
<1> HIDE DEF q, T
<1>8. r.who \in Admitted(r.op) \/ Bars(q)
  BY <1>2, <1>4, <1>7 DEF AsStrict, Bars
<1>9. Relies(q, "pair", Needed(r, "pair"))
  BY <1>7, <1>5, <1>6 DEF Relies, AsStrict
<1> QED
  BY <1>1, <1>2, <1>7, <1>8, <1>9 DEF Guarded

LEMMA ListAssignmentsByTutorRoute ==
  ASSUME NEW r \in Request, r.op = "ListAssignmentsByTutor"
  PROVE  Guarded(r)
<1> DEFINE s == [r EXCEPT !.form = "bad_id"]
           p == RpcListAssignmentsByTutor(s)
           q == authMiddleware(r) \o (Require(r.form # "empty", "400") \o Handle(r, p))
           T == {}
<1>1. Program(r) = q
  BY DEF Program, SignUpRoutes, UserRoutes, ScheduleRoutes, HomeworkRoutes, PaymentRoutes,
         FileRoutes, ProxyRoutes, HomeworkHandler, ListAssignments, parseAssignmentQuery
<1>2. /\ Promised(r) = T
      /\ Admitted(r.op) = {"tutor"}
      /\ NamedBy(r.op) = {}
  BY DEF Promised, Admitted, Entitled, Account, NamedBy, OpenRoutes, SignUpRoutes, ProxyRoutes
<1>3. s.who = r.who /\ s.form = "bad_id"
  BY DEF Request
<1>4. Writer(p, T)
  BY RpcListAssignmentsByTutorDoes, WriterReads
<1>5. Bars(p)
  BY <1>3, RpcListAssignmentsByTutorDoes
<1> HIDE DEF p
<1>6. /\ Served(q, T) /\ AsStrict(p, q)
      /\ r.who \in {"nobody", "unknown"} => Bars(q)
  BY <1>4, RoutedList
<1> HIDE DEF q, T
<1>7. r.who \in Admitted(r.op) \/ Bars(q)
  BY <1>2, <1>5, <1>6 DEF AsStrict, Bars
<1> QED
  BY <1>1, <1>2, <1>6, <1>7 DEF Guarded

LEMMA ListAssignmentsByStudentRoute ==
  ASSUME NEW r \in Request, r.op = "ListAssignmentsByStudent"
  PROVE  Guarded(r)
<1> DEFINE s == [r EXCEPT !.form = "bad_id"]
           p == RpcListAssignmentsByStudent(s)
           q == authMiddleware(r) \o (Require(r.form # "empty", "400") \o Handle(r, p))
           T == {}
<1>1. Program(r) = q
  BY DEF Program, SignUpRoutes, UserRoutes, ScheduleRoutes, HomeworkRoutes, PaymentRoutes,
         FileRoutes, ProxyRoutes, HomeworkHandler, ListAssignments, parseAssignmentQuery
<1>2. /\ Promised(r) = T
      /\ Admitted(r.op) = {"student"}
      /\ NamedBy(r.op) = {}
  BY DEF Promised, Admitted, Entitled, Account, NamedBy, OpenRoutes, SignUpRoutes, ProxyRoutes
<1>3. s.who = r.who /\ s.form = "bad_id"
  BY DEF Request
<1>4. Writer(p, T)
  BY RpcListAssignmentsByStudentDoes, WriterReads
<1>5. Bars(p)
  BY <1>3, RpcListAssignmentsByStudentDoes
<1> HIDE DEF p
<1>6. /\ Served(q, T) /\ AsStrict(p, q)
      /\ r.who \in {"nobody", "unknown"} => Bars(q)
  BY <1>4, RoutedList
<1> HIDE DEF q, T
<1>7. r.who \in Admitted(r.op) \/ Bars(q)
  BY <1>2, <1>5, <1>6 DEF AsStrict, Bars
<1> QED
  BY <1>1, <1>2, <1>6, <1>7 DEF Guarded

LEMMA ListAssignmentsByPairRoute ==
  ASSUME NEW r \in Request, r.op = "ListAssignmentsByPair"
  PROVE  Guarded(r)
<1> DEFINE s == [r EXCEPT !.form = "bad_id"]
           p == RpcListAssignmentsByPair(s)
           q == authMiddleware(r) \o (Require(r.form # "empty", "400") \o Handle(r, p))
           T == {}
<1>1. Program(r) = q
  BY DEF Program, SignUpRoutes, UserRoutes, ScheduleRoutes, HomeworkRoutes, PaymentRoutes,
         FileRoutes, ProxyRoutes, HomeworkHandler, ListAssignments, parseAssignmentQuery
<1>2. /\ Promised(r) = T
      /\ Admitted(r.op) = Participants
      /\ NamedBy(r.op) = {}
  BY DEF Promised, Admitted, Entitled, Account, NamedBy, OpenRoutes, SignUpRoutes, ProxyRoutes
<1>3. s.who = r.who /\ s.form = "bad_id"
  BY DEF Request
<1>4. Writer(p, T)
  BY RpcListAssignmentsByPairDoes, WriterReads
<1>5. Bars(p)
  BY <1>3, RpcListAssignmentsByPairDoes
<1> HIDE DEF p
<1>6. /\ Served(q, T) /\ AsStrict(p, q)
      /\ r.who \in {"nobody", "unknown"} => Bars(q)
  BY <1>4, RoutedList
<1> HIDE DEF q, T
<1>7. r.who \in Admitted(r.op) \/ Bars(q)
  BY <1>2, <1>5, <1>6 DEF AsStrict, Bars
<1> QED
  BY <1>1, <1>2, <1>6, <1>7 DEF Guarded

LEMMA UpdateAssignmentRoute ==
  ASSUME NEW r \in Request, r.op = "UpdateAssignment"
  PROVE  Guarded(r)
<1> DEFINE p == RpcUpdateAssignment(r)
           q == authMiddleware(r) \o Handle(r, p)
           T == {"assignments"}
<1>1. Program(r) = q
  BY DEF Program, SignUpRoutes, UserRoutes, ScheduleRoutes, HomeworkRoutes, PaymentRoutes,
         FileRoutes, ProxyRoutes, HomeworkHandler
<1>2. /\ Promised(r) = T
      /\ Admitted(r.op) = {"tutor"}
      /\ NamedBy(r.op) = {"assignment"}
  BY DEF Promised, Admitted, Entitled, Account, NamedBy, OpenRoutes, SignUpRoutes, ProxyRoutes
<1>3. Writer(p, T)
  BY RpcUpdateAssignmentDoes
<1>4. r.who \notin {"tutor"} => Bars(p)
  BY RpcUpdateAssignmentDoes
<1>5. Gate(p, "assignment", {"bare", "filed"})
  BY RpcUpdateAssignmentDoes
<1>6. Needed(r, "assignment") = {"bare", "filed"}
  BY DEF Needed
<1> HIDE DEF p
<1>7. /\ Served(q, T) /\ AsStrict(p, q)
      /\ r.who \in {"nobody", "unknown"} => Bars(q)
  BY <1>3, Routed
<1> HIDE DEF q, T
<1>8. r.who \in Admitted(r.op) \/ Bars(q)
  BY <1>2, <1>4, <1>7 DEF AsStrict, Bars
<1>9. Relies(q, "assignment", Needed(r, "assignment"))
  BY <1>7, <1>5, <1>6 DEF Relies, AsStrict
<1> QED
  BY <1>1, <1>2, <1>7, <1>8, <1>9 DEF Guarded

LEMMA DeleteAssignmentRoute ==
  ASSUME NEW r \in Request, r.op = "DeleteAssignment"
  PROVE  Guarded(r)
<1> DEFINE p == RpcDeleteAssignment(r)
           q == authMiddleware(r) \o Handle(r, p)
           T == {"assignments"}
<1>1. Program(r) = q
  BY DEF Program, SignUpRoutes, UserRoutes, ScheduleRoutes, HomeworkRoutes, PaymentRoutes,
         FileRoutes, ProxyRoutes, HomeworkHandler
<1>2. /\ Promised(r) = T
      /\ Admitted(r.op) = {"tutor"}
      /\ NamedBy(r.op) = {"assignment"}
  BY DEF Promised, Admitted, Entitled, Account, NamedBy, OpenRoutes, SignUpRoutes, ProxyRoutes
<1>3. Writer(p, T)
  BY RpcDeleteAssignmentDoes
<1>4. r.who \notin {"tutor"} => Bars(p)
  BY RpcDeleteAssignmentDoes
<1>5. Gate(p, "assignment", {"bare", "filed"})
  BY RpcDeleteAssignmentDoes
<1>6. Needed(r, "assignment") = {"bare", "filed"}
  BY DEF Needed
<1> HIDE DEF p
<1>7. /\ Served(q, T) /\ AsStrict(p, q)
      /\ r.who \in {"nobody", "unknown"} => Bars(q)
  BY <1>3, Routed
<1> HIDE DEF q, T
<1>8. r.who \in Admitted(r.op) \/ Bars(q)
  BY <1>2, <1>4, <1>7 DEF AsStrict, Bars
<1>9. Relies(q, "assignment", Needed(r, "assignment"))
  BY <1>7, <1>5, <1>6 DEF Relies, AsStrict
<1> QED
  BY <1>1, <1>2, <1>7, <1>8, <1>9 DEF Guarded

LEMMA GetAssignmentFileRoute ==
  ASSUME NEW r \in Request, r.op = "GetAssignmentFile"
  PROVE  Guarded(r)
<1> DEFINE p == RpcGetAssignmentFile(r)
           q == authMiddleware(r) \o Handle(r, p)
           T == {}
<1>1. Program(r) = q
  BY DEF Program, SignUpRoutes, UserRoutes, ScheduleRoutes, HomeworkRoutes, PaymentRoutes,
         FileRoutes, ProxyRoutes, HomeworkHandler
<1>2. /\ Promised(r) = T
      /\ Admitted(r.op) = Caller \ {"nobody", "unknown"}
      /\ NamedBy(r.op) = {"assignment", "file"}
  BY DEF Promised, Admitted, Entitled, Account, NamedBy, OpenRoutes, SignUpRoutes, ProxyRoutes
<1>3. Writer(p, T)
  BY RpcGetAssignmentFileDoes, WriterReads
<1>4. Gate(p, "assignment", {"filed"})
  BY RpcGetAssignmentFileDoes
<1>5. Gate(p, "file", {"present"})
  BY RpcGetAssignmentFileDoes
<1>6. /\ Needed(r, "assignment") = {"filed"}
      /\ Needed(r, "file") = {"present"}
  BY DEF Needed
<1> HIDE DEF p
<1>7. /\ Served(q, T) /\ AsStrict(p, q)
      /\ r.who \in {"nobody", "unknown"} => Bars(q)
  BY <1>3, Routed
<1> HIDE DEF q, T
<1>8. r.who \in Admitted(r.op) \/ Bars(q)
  BY <1>2, <1>7 DEF Request
<1>9. Relies(q, "assignment", Needed(r, "assignment"))
  BY <1>7, <1>4, <1>6 DEF Relies, AsStrict
<1>10. Relies(q, "file", Needed(r, "file"))
  BY <1>7, <1>5, <1>6 DEF Relies, AsStrict
<1> QED
  BY <1>1, <1>2, <1>7, <1>8, <1>9, <1>10 DEF Guarded

LEMMA ListSubmissionsRoute ==
  ASSUME NEW r \in Request, r.op = "ListSubmissions"
  PROVE  Guarded(r)
<1> DEFINE p == RpcListSubmissionsByAssignment(r)
           q == authMiddleware(r) \o Handle(r, p)
           T == {}
<1>1. Program(r) = q
  BY DEF Program, SignUpRoutes, UserRoutes, ScheduleRoutes, HomeworkRoutes, PaymentRoutes,
         FileRoutes, ProxyRoutes, HomeworkHandler
<1>2. /\ Promised(r) = T
      /\ Admitted(r.op) = Participants
      /\ NamedBy(r.op) = {"assignment"}
  BY DEF Promised, Admitted, Entitled, Account, NamedBy, OpenRoutes, SignUpRoutes, ProxyRoutes
<1>3. Writer(p, T)
  BY RpcListSubmissionsByAssignmentDoes, WriterReads
<1>4. r.who \notin Participants => Bars(p)
  BY RpcListSubmissionsByAssignmentDoes
<1>5. Gate(p, "assignment", {"bare", "filed"})
  BY RpcListSubmissionsByAssignmentDoes
<1>6. Needed(r, "assignment") = {"bare", "filed"}
  BY DEF Needed
<1> HIDE DEF p
<1>7. /\ Served(q, T) /\ AsStrict(p, q)
      /\ r.who \in {"nobody", "unknown"} => Bars(q)
  BY <1>3, Routed
<1> HIDE DEF q, T
<1>8. r.who \in Admitted(r.op) \/ Bars(q)
  BY <1>2, <1>4, <1>7 DEF AsStrict, Bars
<1>9. Relies(q, "assignment", Needed(r, "assignment"))
  BY <1>7, <1>5, <1>6 DEF Relies, AsStrict
<1> QED
  BY <1>1, <1>2, <1>7, <1>8, <1>9 DEF Guarded

LEMMA ListFeedbacksRoute ==
  ASSUME NEW r \in Request, r.op = "ListFeedbacks"
  PROVE  Guarded(r)
<1> DEFINE p == RpcListFeedbacksByAssignment(r)
           q == authMiddleware(r) \o Handle(r, p)
           T == {}
<1>1. Program(r) = q
  BY DEF Program, SignUpRoutes, UserRoutes, ScheduleRoutes, HomeworkRoutes, PaymentRoutes,
         FileRoutes, ProxyRoutes, HomeworkHandler
<1>2. /\ Promised(r) = T
      /\ Admitted(r.op) = Participants
      /\ NamedBy(r.op) = {"assignment"}
  BY DEF Promised, Admitted, Entitled, Account, NamedBy, OpenRoutes, SignUpRoutes, ProxyRoutes
<1>3. Writer(p, T)
  BY RpcListFeedbacksByAssignmentDoes, WriterReads
<1>4. r.who \notin Participants => Bars(p)
  BY RpcListFeedbacksByAssignmentDoes
<1>5. Gate(p, "assignment", {"bare", "filed"})
  BY RpcListFeedbacksByAssignmentDoes
<1>6. Needed(r, "assignment") = {"bare", "filed"}
  BY DEF Needed
<1> HIDE DEF p
<1>7. /\ Served(q, T) /\ AsStrict(p, q)
      /\ r.who \in {"nobody", "unknown"} => Bars(q)
  BY <1>3, Routed
<1> HIDE DEF q, T
<1>8. r.who \in Admitted(r.op) \/ Bars(q)
  BY <1>2, <1>4, <1>7 DEF AsStrict, Bars
<1>9. Relies(q, "assignment", Needed(r, "assignment"))
  BY <1>7, <1>5, <1>6 DEF Relies, AsStrict
<1> QED
  BY <1>1, <1>2, <1>7, <1>8, <1>9 DEF Guarded

LEMMA CreateSubmissionRoute ==
  ASSUME NEW r \in Request, r.op = "CreateSubmission"
  PROVE  Guarded(r)
<1> DEFINE p == RpcCreateSubmission(r)
           q == authMiddleware(r) \o Handle(r, p)
           T == {"submissions"}
<1>1. Program(r) = q
  BY DEF Program, SignUpRoutes, UserRoutes, ScheduleRoutes, HomeworkRoutes, PaymentRoutes,
         FileRoutes, ProxyRoutes, HomeworkHandler
<1>2. /\ Promised(r) = T
      /\ Admitted(r.op) = {"student"}
      /\ NamedBy(r.op) = {"assignment"}
  BY DEF Promised, Admitted, Entitled, Account, NamedBy, OpenRoutes, SignUpRoutes, ProxyRoutes
<1>3. Writer(p, T)
  BY RpcCreateSubmissionDoes
<1>4. r.who \notin {"student"} => Bars(p)
  BY RpcCreateSubmissionDoes
<1>5. Gate(p, "assignment", {"bare", "filed"})
  BY RpcCreateSubmissionDoes
<1>6. Needed(r, "assignment") = {"bare", "filed"}
  BY DEF Needed
<1> HIDE DEF p
<1>7. /\ Served(q, T) /\ AsStrict(p, q)
      /\ r.who \in {"nobody", "unknown"} => Bars(q)
  BY <1>3, Routed
<1> HIDE DEF q, T
<1>8. r.who \in Admitted(r.op) \/ Bars(q)
  BY <1>2, <1>4, <1>7 DEF AsStrict, Bars
<1>9. Relies(q, "assignment", Needed(r, "assignment"))
  BY <1>7, <1>5, <1>6 DEF Relies, AsStrict
<1> QED
  BY <1>1, <1>2, <1>7, <1>8, <1>9 DEF Guarded

LEMMA GetSubmissionFileRoute ==
  ASSUME NEW r \in Request, r.op = "GetSubmissionFile"
  PROVE  Guarded(r)
<1> DEFINE p == RpcGetSubmissionFile(r)
           q == authMiddleware(r) \o Handle(r, p)
           T == {}
<1>1. Program(r) = q
  BY DEF Program, SignUpRoutes, UserRoutes, ScheduleRoutes, HomeworkRoutes, PaymentRoutes,
         FileRoutes, ProxyRoutes, HomeworkHandler
<1>2. /\ Promised(r) = T
      /\ Admitted(r.op) = Participants
      /\ NamedBy(r.op) = {"assignment", "submission", "file"}
  BY DEF Promised, Admitted, Entitled, Account, NamedBy, OpenRoutes, SignUpRoutes, ProxyRoutes
<1>3. Writer(p, T)
  BY RpcGetSubmissionFileDoes, WriterReads
<1>4. r.who \notin Participants => Bars(p)
  BY RpcGetSubmissionFileDoes
<1>5. Gate(p, "assignment", {"bare", "filed"})
  BY RpcGetSubmissionFileDoes
<1>6. Gate(p, "submission", {"filed"})
  BY RpcGetSubmissionFileDoes
<1>7. Gate(p, "file", {"present"})
  BY RpcGetSubmissionFileDoes
<1>8. /\ Needed(r, "assignment") = {"bare", "filed"}
      /\ Needed(r, "submission") = {"filed"}
      /\ Needed(r, "file") = {"present"}
  BY DEF Needed
<1> HIDE DEF p
<1>9. /\ Served(q, T) /\ AsStrict(p, q)
      /\ r.who \in {"nobody", "unknown"} => Bars(q)
  BY <1>3, Routed
<1> HIDE DEF q, T
<1>10. r.who \in Admitted(r.op) \/ Bars(q)
  BY <1>2, <1>4, <1>9 DEF AsStrict, Bars
<1>11. Relies(q, "assignment", Needed(r, "assignment"))
  BY <1>9, <1>5, <1>8 DEF Relies, AsStrict
<1>12. Relies(q, "submission", Needed(r, "submission"))
  BY <1>9, <1>6, <1>8 DEF Relies, AsStrict
<1>13. Relies(q, "file", Needed(r, "file"))
  BY <1>9, <1>7, <1>8 DEF Relies, AsStrict
<1> QED
  BY <1>1, <1>2, <1>9, <1>10, <1>11, <1>12, <1>13 DEF Guarded

LEMMA CreateFeedbackRoute ==
  ASSUME NEW r \in Request, r.op = "CreateFeedback"
  PROVE  Guarded(r)
<1> DEFINE p == RpcCreateFeedback(r)
           q == authMiddleware(r) \o Handle(r, p)
           T == {"feedbacks"}
<1>1. Program(r) = q
  BY DEF Program, SignUpRoutes, UserRoutes, ScheduleRoutes, HomeworkRoutes, PaymentRoutes,
         FileRoutes, ProxyRoutes, HomeworkHandler
<1>2. /\ Promised(r) = T
      /\ Admitted(r.op) = {"tutor"}
      /\ NamedBy(r.op) = {"assignment", "submission"}
  BY DEF Promised, Admitted, Entitled, Account, NamedBy, OpenRoutes, SignUpRoutes, ProxyRoutes
<1>3. Writer(p, T)
  BY RpcCreateFeedbackDoes
<1>4. r.who \notin {"tutor"} => Bars(p)
  BY RpcCreateFeedbackDoes
<1>5. Gate(p, "assignment", {"bare", "filed"})
  BY RpcCreateFeedbackDoes
<1>6. Gate(p, "submission", {"bare", "filed"})
  BY RpcCreateFeedbackDoes
<1>7. /\ Needed(r, "assignment") = {"bare", "filed"}
      /\ Needed(r, "submission") = {"bare", "filed"}
  BY DEF Needed
<1> HIDE DEF p
<1>8. /\ Served(q, T) /\ AsStrict(p, q)
      /\ r.who \in {"nobody", "unknown"} => Bars(q)
  BY <1>3, Routed
<1> HIDE DEF q, T
<1>9. r.who \in Admitted(r.op) \/ Bars(q)
  BY <1>2, <1>4, <1>8 DEF AsStrict, Bars
<1>10. Relies(q, "assignment", Needed(r, "assignment"))
  BY <1>8, <1>5, <1>7 DEF Relies, AsStrict
<1>11. Relies(q, "submission", Needed(r, "submission"))
  BY <1>8, <1>6, <1>7 DEF Relies, AsStrict
<1> QED
  BY <1>1, <1>2, <1>8, <1>9, <1>10, <1>11 DEF Guarded

LEMMA UpdateFeedbackRoute ==
  ASSUME NEW r \in Request, r.op = "UpdateFeedback"
  PROVE  Guarded(r)
<1> DEFINE p == RpcUpdateFeedback(r)
           q == authMiddleware(r) \o Handle(r, p)
           T == {"feedbacks"}
<1>1. Program(r) = q
  BY DEF Program, SignUpRoutes, UserRoutes, ScheduleRoutes, HomeworkRoutes, PaymentRoutes,
         FileRoutes, ProxyRoutes, HomeworkHandler
<1>2. /\ Promised(r) = T
      /\ Admitted(r.op) = {"tutor"}
      /\ NamedBy(r.op) = {"assignment", "submission", "feedback"}
  BY DEF Promised, Admitted, Entitled, Account, NamedBy, OpenRoutes, SignUpRoutes, ProxyRoutes
<1>3. Writer(p, T)
  BY RpcUpdateFeedbackDoes
<1>4. r.who \notin {"tutor"} => Bars(p)
  BY RpcUpdateFeedbackDoes
<1>5. Gate(p, "assignment", {"bare", "filed"})
  BY RpcUpdateFeedbackDoes
<1>6. Gate(p, "submission", {"bare", "filed"})
  BY RpcUpdateFeedbackDoes
<1>7. Gate(p, "feedback", {"bare", "filed"})
  BY RpcUpdateFeedbackDoes
<1>8. /\ Needed(r, "assignment") = {"bare", "filed"}
      /\ Needed(r, "submission") = {"bare", "filed"}
      /\ Needed(r, "feedback") = {"bare", "filed"}
  BY DEF Needed
<1> HIDE DEF p
<1>9. /\ Served(q, T) /\ AsStrict(p, q)
      /\ r.who \in {"nobody", "unknown"} => Bars(q)
  BY <1>3, Routed
<1> HIDE DEF q, T
<1>10. r.who \in Admitted(r.op) \/ Bars(q)
  BY <1>2, <1>4, <1>9 DEF AsStrict, Bars
<1>11. Relies(q, "assignment", Needed(r, "assignment"))
  BY <1>9, <1>5, <1>8 DEF Relies, AsStrict
<1>12. Relies(q, "submission", Needed(r, "submission"))
  BY <1>9, <1>6, <1>8 DEF Relies, AsStrict
<1>13. Relies(q, "feedback", Needed(r, "feedback"))
  BY <1>9, <1>7, <1>8 DEF Relies, AsStrict
<1> QED
  BY <1>1, <1>2, <1>9, <1>10, <1>11, <1>12, <1>13 DEF Guarded

LEMMA GetFeedbackFileRoute ==
  ASSUME NEW r \in Request, r.op = "GetFeedbackFile"
  PROVE  Guarded(r)
<1> DEFINE p == RpcGetFeedbackFile(r)
           q == authMiddleware(r) \o Handle(r, p)
           T == {}
<1>1. Program(r) = q
  BY DEF Program, SignUpRoutes, UserRoutes, ScheduleRoutes, HomeworkRoutes, PaymentRoutes,
         FileRoutes, ProxyRoutes, HomeworkHandler
<1>2. /\ Promised(r) = T
      /\ Admitted(r.op) = Participants
      /\ NamedBy(r.op) = {"assignment", "submission", "feedback", "file"}
  BY DEF Promised, Admitted, Entitled, Account, NamedBy, OpenRoutes, SignUpRoutes, ProxyRoutes
<1>3. Writer(p, T)
  BY RpcGetFeedbackFileDoes, WriterReads
<1>4. r.who \notin Participants => Bars(p)
  BY RpcGetFeedbackFileDoes
<1>5. Gate(p, "assignment", {"bare", "filed"})
  BY RpcGetFeedbackFileDoes
<1>6. Gate(p, "submission", {"bare", "filed"})
  BY RpcGetFeedbackFileDoes
<1>7. Gate(p, "feedback", {"filed"})
  BY RpcGetFeedbackFileDoes
<1>8. Gate(p, "file", {"present"})
  BY RpcGetFeedbackFileDoes
<1>9. /\ Needed(r, "assignment") = {"bare", "filed"}
      /\ Needed(r, "submission") = {"bare", "filed"}
      /\ Needed(r, "feedback") = {"filed"}
      /\ Needed(r, "file") = {"present"}
  BY DEF Needed
<1> HIDE DEF p
<1>10. /\ Served(q, T) /\ AsStrict(p, q)
       /\ r.who \in {"nobody", "unknown"} => Bars(q)
  BY <1>3, Routed
<1> HIDE DEF q, T
<1>11. r.who \in Admitted(r.op) \/ Bars(q)
  BY <1>2, <1>4, <1>10 DEF AsStrict, Bars
<1>12. Relies(q, "assignment", Needed(r, "assignment"))
  BY <1>10, <1>5, <1>9 DEF Relies, AsStrict
<1>13. Relies(q, "submission", Needed(r, "submission"))
  BY <1>10, <1>6, <1>9 DEF Relies, AsStrict
<1>14. Relies(q, "feedback", Needed(r, "feedback"))
  BY <1>10, <1>7, <1>9 DEF Relies, AsStrict
<1>15. Relies(q, "file", Needed(r, "file"))
  BY <1>10, <1>8, <1>9 DEF Relies, AsStrict
<1> QED
  BY <1>1, <1>2, <1>10, <1>11, <1>12, <1>13, <1>14, <1>15 DEF Guarded

LEMMA GetPaymentInfoRoute ==
  ASSUME NEW r \in Request, r.op = "GetPaymentInfo"
  PROVE  Guarded(r)
<1> DEFINE p == RpcGetPaymentInfo(r)
           q == authMiddleware(r) \o Handle(r, p)
           T == {}
<1>1. Program(r) = q
  BY DEF Program, SignUpRoutes, UserRoutes, ScheduleRoutes, HomeworkRoutes, PaymentRoutes,
         FileRoutes, ProxyRoutes, PaymentHandler
<1>2. /\ Promised(r) = T
      /\ Admitted(r.op) = Participants
      /\ NamedBy(r.op) = {"lesson", "slot"}
  BY DEF Promised, Admitted, Entitled, Account, NamedBy, OpenRoutes, SignUpRoutes, ProxyRoutes
<1>3. Writer(p, T)
  BY RpcGetPaymentInfoDoes, WriterReads
<1>4. r.who \notin Participants => Bars(p)
  BY RpcGetPaymentInfoDoes
<1>5. Gate(p, "lesson", {"unpaid", "paid"})
  BY RpcGetPaymentInfoDoes
<1>6. \A w \in World : w["slot"] \in Needed(r, "slot")
  BY DEF Needed, World
<1>7. Needed(r, "lesson") = {"unpaid", "paid"}
  BY DEF Needed
<1> HIDE DEF p
<1>8. /\ Served(q, T) /\ AsStrict(p, q)
      /\ r.who \in {"nobody", "unknown"} => Bars(q)
  BY <1>3, Routed
<1> HIDE DEF q, T
<1>9. r.who \in Admitted(r.op) \/ Bars(q)
  BY <1>2, <1>4, <1>8 DEF AsStrict, Bars
<1>10. Relies(q, "lesson", Needed(r, "lesson"))
  BY <1>8, <1>5, <1>7 DEF Relies, AsStrict
<1>11. Relies(q, "slot", Needed(r, "slot"))
  BY <1>6 DEF Relies
<1> QED
  BY <1>1, <1>2, <1>8, <1>9, <1>10, <1>11 DEF Guarded

LEMMA SubmitReceiptRoute ==
  ASSUME NEW r \in Request, r.op = "SubmitReceipt"
  PROVE  Guarded(r)
<1> DEFINE p == RpcSubmitPaymentReceipt(r)
           q == authMiddleware(r) \o Handle(r, p)
           T == {"receipts", "lessons"}
<1>1. Program(r) = q
  BY DEF Program, SignUpRoutes, UserRoutes, ScheduleRoutes, HomeworkRoutes, PaymentRoutes,
         FileRoutes, ProxyRoutes, PaymentHandler
<1>2. /\ Promised(r) = T
      /\ Admitted(r.op) = {"student"}
      /\ NamedBy(r.op) = {"lesson", "slot"}
  BY DEF Promised, Admitted, Entitled, Account, NamedBy, OpenRoutes, SignUpRoutes, ProxyRoutes
<1>3. Writer(p, T)
  BY RpcSubmitPaymentReceiptDoes
<1>4. r.who \notin {"student"} => Bars(p)
  BY RpcSubmitPaymentReceiptDoes DEF Participants, Role, Request, Caller
<1>5. Twice(p)
  BY RpcSubmitPaymentReceiptDoes
<1>6. \A w \in World : w["slot"] \in Needed(r, "slot")
  BY DEF Needed, World
<1>7. Needed(r, "lesson") = {"unpaid"}
  BY DEF Needed
<1> HIDE DEF p
<1>8. /\ Served(q, T) /\ AsStrict(p, q)
      /\ r.who \in {"nobody", "unknown"} => Bars(q)
  BY <1>3, Routed
<1> HIDE DEF q, T
<1>9. r.who \in Admitted(r.op) \/ Bars(q)
  BY <1>2, <1>4, <1>8 DEF AsStrict, Bars
<1>10. Relies(q, "lesson", Needed(r, "lesson"))
  BY <1>8, <1>5, <1>7 DEF Relies, AsStrict
<1>11. Relies(q, "slot", Needed(r, "slot"))
  BY <1>6 DEF Relies
<1> QED
  BY <1>1, <1>2, <1>8, <1>9, <1>10, <1>11 DEF Guarded

LEMMA GetReceiptRoute ==
  ASSUME NEW r \in Request, r.op = "GetReceipt"
  PROVE  Guarded(r)
<1> DEFINE p == RpcGetReceipt(r)
           q == authMiddleware(r) \o Handle(r, p)
           T == {}
<1>1. Program(r) = q
  BY DEF Program, SignUpRoutes, UserRoutes, ScheduleRoutes, HomeworkRoutes, PaymentRoutes,
         FileRoutes, ProxyRoutes, PaymentHandler
<1>2. /\ Promised(r) = T
      /\ Admitted(r.op) = Caller \ {"nobody", "unknown"}
      /\ NamedBy(r.op) = {"receipt"}
  BY DEF Promised, Admitted, Entitled, Account, NamedBy, OpenRoutes, SignUpRoutes, ProxyRoutes
<1>3. Writer(p, T)
  BY RpcGetReceiptDoes, WriterReads
<1>4. Gate(p, "receipt", {"present"})
  BY RpcGetReceiptDoes
<1>5. Needed(r, "receipt") = {"present"}
  BY DEF Needed
<1> HIDE DEF p
<1>6. /\ Served(q, T) /\ AsStrict(p, q)
      /\ r.who \in {"nobody", "unknown"} => Bars(q)
  BY <1>3, Routed
<1> HIDE DEF q, T
<1>7. r.who \in Admitted(r.op) \/ Bars(q)
  BY <1>2, <1>6 DEF Request
<1>8. Relies(q, "receipt", Needed(r, "receipt"))
  BY <1>6, <1>4, <1>5 DEF Relies, AsStrict
<1> QED
  BY <1>1, <1>2, <1>6, <1>7, <1>8 DEF Guarded

LEMMA VerifyReceiptRoute ==
  ASSUME NEW r \in Request, r.op = "VerifyReceipt"
  PROVE  Guarded(r)
<1> DEFINE p == RpcVerifyReceipt(r)
           q == authMiddleware(r) \o Handle(r, p)
           T == {"receipts"}
<1>1. Program(r) = q
  BY DEF Program, SignUpRoutes, UserRoutes, ScheduleRoutes, HomeworkRoutes, PaymentRoutes,
         FileRoutes, ProxyRoutes, PaymentHandler
<1>2. /\ Promised(r) = T
      /\ Admitted(r.op) = {"tutor", "other_tutor"}
      /\ NamedBy(r.op) = {"receipt"}
  BY DEF Promised, Admitted, Entitled, Account, NamedBy, OpenRoutes, SignUpRoutes, ProxyRoutes
<1>3. Writer(p, T)
  BY RpcVerifyReceiptDoes
<1>4. r.who \notin {"tutor", "other_tutor"} => Bars(p)
  BY RpcVerifyReceiptDoes DEF Role
<1>5. Gate(p, "receipt", {"present"})
  BY RpcVerifyReceiptDoes
<1>6. Needed(r, "receipt") = {"present"}
  BY DEF Needed
<1> HIDE DEF p
<1>7. /\ Served(q, T) /\ AsStrict(p, q)
      /\ r.who \in {"nobody", "unknown"} => Bars(q)
  BY <1>3, Routed
<1> HIDE DEF q, T
<1>8. r.who \in Admitted(r.op) \/ Bars(q)
  BY <1>2, <1>4, <1>7 DEF AsStrict, Bars
<1>9. Relies(q, "receipt", Needed(r, "receipt"))
  BY <1>7, <1>5, <1>6 DEF Relies, AsStrict
<1> QED
  BY <1>1, <1>2, <1>7, <1>8, <1>9 DEF Guarded

LEMMA GetReceiptFileRoute ==
  ASSUME NEW r \in Request, r.op = "GetReceiptFile"
  PROVE  Guarded(r)
<1> DEFINE p == RpcGetReceiptFile(r)
           q == authMiddleware(r) \o Handle(r, p)
           T == {}
<1>1. Program(r) = q
  BY DEF Program, SignUpRoutes, UserRoutes, ScheduleRoutes, HomeworkRoutes, PaymentRoutes,
         FileRoutes, ProxyRoutes, PaymentHandler
<1>2. /\ Promised(r) = T
      /\ Admitted(r.op) = Caller \ {"nobody", "unknown"}
      /\ NamedBy(r.op) = {"receipt", "file"}
  BY DEF Promised, Admitted, Entitled, Account, NamedBy, OpenRoutes, SignUpRoutes, ProxyRoutes
<1>3. Writer(p, T)
  BY RpcGetReceiptFileDoes, WriterReads
<1>4. Gate(p, "receipt", {"present"})
  BY RpcGetReceiptFileDoes
<1>5. Gate(p, "file", {"present"})
  BY RpcGetReceiptFileDoes
<1>6. /\ Needed(r, "receipt") = {"present"}
      /\ Needed(r, "file") = {"present"}
  BY DEF Needed
<1> HIDE DEF p
<1>7. /\ Served(q, T) /\ AsStrict(p, q)
      /\ r.who \in {"nobody", "unknown"} => Bars(q)
  BY <1>3, Routed
<1> HIDE DEF q, T
<1>8. r.who \in Admitted(r.op) \/ Bars(q)
  BY <1>2, <1>7 DEF Request
<1>9. Relies(q, "receipt", Needed(r, "receipt"))
  BY <1>7, <1>4, <1>6 DEF Relies, AsStrict
<1>10. Relies(q, "file", Needed(r, "file"))
  BY <1>7, <1>5, <1>6 DEF Relies, AsStrict
<1> QED
  BY <1>1, <1>2, <1>7, <1>8, <1>9, <1>10 DEF Guarded

LEMMA InitUploadRoute ==
  ASSUME NEW r \in Request, r.op = "InitUpload"
  PROVE  Guarded(r)
<1> DEFINE p == RpcInitUpload(r)
           q == authMiddleware(r) \o Handle(r, p)
           T == {"files"}
<1>1. Program(r) = q
  BY DEF Program, SignUpRoutes, UserRoutes, ScheduleRoutes, HomeworkRoutes, PaymentRoutes,
         FileRoutes, ProxyRoutes, FileHandler
<1>2. /\ Promised(r) = T
      /\ Admitted(r.op) = Caller \ {"nobody", "unknown"}
      /\ NamedBy(r.op) = {}
  BY DEF Promised, Admitted, Entitled, Account, NamedBy, OpenRoutes, SignUpRoutes, ProxyRoutes
<1>3. Writer(p, T)
  BY RpcInitUploadDoes
<1> HIDE DEF p
<1>4. /\ Served(q, T) /\ AsStrict(p, q)
      /\ r.who \in {"nobody", "unknown"} => Bars(q)
  BY <1>3, Routed
<1> HIDE DEF q, T
<1>5. r.who \in Admitted(r.op) \/ Bars(q)
  BY <1>2, <1>4 DEF Request
<1> QED
  BY <1>1, <1>2, <1>4, <1>5 DEF Guarded

LEMMA GetFileMetaRoute ==
  ASSUME NEW r \in Request, r.op = "GetFileMeta"
  PROVE  Guarded(r)
<1> DEFINE p == RpcGetFileMeta(r)
           q == authMiddleware(r) \o Handle(r, p)
           T == {}
<1>1. Program(r) = q
  BY DEF Program, SignUpRoutes, UserRoutes, ScheduleRoutes, HomeworkRoutes, PaymentRoutes,
         FileRoutes, ProxyRoutes, FileHandler
<1>2. /\ Promised(r) = T
      /\ Admitted(r.op) = Caller \ {"nobody", "unknown"}
      /\ NamedBy(r.op) = {"file"}
  BY DEF Promised, Admitted, Entitled, Account, NamedBy, OpenRoutes, SignUpRoutes, ProxyRoutes
<1>3. Writer(p, T)
  BY RpcGetFileMetaDoes, WriterReads
<1>4. Gate(p, "file", {"present"})
  BY RpcGetFileMetaDoes
<1>5. Needed(r, "file") = {"present"}
  BY DEF Needed
<1> HIDE DEF p
<1>6. /\ Served(q, T) /\ AsStrict(p, q)
      /\ r.who \in {"nobody", "unknown"} => Bars(q)
  BY <1>3, Routed
<1> HIDE DEF q, T
<1>7. r.who \in Admitted(r.op) \/ Bars(q)
  BY <1>2, <1>6 DEF Request
<1>8. Relies(q, "file", Needed(r, "file"))
  BY <1>6, <1>4, <1>5 DEF Relies, AsStrict
<1> QED
  BY <1>1, <1>2, <1>6, <1>7, <1>8 DEF Guarded

\* So it is for every request there can be.
LEMMA EveryRequestGuarded ==
  ASSUME NEW r \in Request, r.who \in CallersOf(r.op)
  PROVE  Guarded(r)
<1>1. ASSUME r.op \in UserRoutes
      PROVE  Guarded(r)
  BY <1>1, GetMeRoute, GetUserRoute, UpdateUserRoute, GetTutorProfileRoute,
     UpdateTutorProfileRoute, ListTutorStudentByTutorRoute,
     ListTutorStudentByStudentRoute, GetTutorStudentRoute, UpdateTutorStudentRoute,
     DeleteTutorStudentRoute, CreateTutorStudentRoute, AcceptInvitationRoute DEF
     UserRoutes
<1>2. ASSUME r.op \in ScheduleRoutes
      PROVE  Guarded(r)
  BY <1>2, CreateSlotRoute, GetSlotRoute, UpdateSlotRoute, DeleteSlotRoute,
     ListSlotsByTutorRoute, ListLessonsByTutorRoute, ListLessonsByStudentRoute,
     ListLessonsByPairRoute, CreateLessonRoute, GetLessonRoute, UpdateLessonRoute,
     CancelLessonRoute DEF ScheduleRoutes
<1>3. ASSUME r.op \in HomeworkRoutes
      PROVE  Guarded(r)
  BY <1>3, CreateAssignmentRoute, ListAssignmentsByTutorRoute,
     ListAssignmentsByStudentRoute, ListAssignmentsByPairRoute, UpdateAssignmentRoute,
     DeleteAssignmentRoute, GetAssignmentFileRoute, ListSubmissionsRoute,
     ListFeedbacksRoute, CreateSubmissionRoute, GetSubmissionFileRoute,
     CreateFeedbackRoute, UpdateFeedbackRoute, GetFeedbackFileRoute DEF HomeworkRoutes
<1>4. ASSUME r.op \in PaymentRoutes
      PROVE  Guarded(r)
  BY <1>4, GetPaymentInfoRoute, SubmitReceiptRoute, GetReceiptRoute, VerifyReceiptRoute,
     GetReceiptFileRoute DEF PaymentRoutes
<1>5. ASSUME r.op \in FileRoutes
      PROVE  Guarded(r)
  BY <1>5, InitUploadRoute, GetFileMetaRoute DEF FileRoutes
<1>6. r.op \in SignUpRoutes => Guarded(r)
  BY SignUpRoute DEF SignUpRoutes
<1> QED
  BY <1>1, <1>2, <1>3, <1>4, <1>5, <1>6, ProxyRoute DEF Request, Route

-----------------------------------------------------------------------------
(* The state machine *)

\* What the steps of a request have written after each of them.
Planned(r, x) == CHOOSE d : Plan(d, Program(r), Promised(r), x)

\* The steps that have been passed.
Passed == {i \in 1 .. pc : i < pc \/ (answer = "200" /\ pc = Len(Program(request)))}

\* The step i lets by only who holds what he has read of a lesson.
HoldsAt(p, i) ==
  \A w, o : Makes(p, i, w, o) /\ o.err = "ok" => o.world.held # "none"

\* The step i was passed from rows to rows that have been seen.
PassedBy(p, i, w, o, s) ==
  /\ Makes(p, i, w, o) /\ o.err = "ok"
  /\ \A t \in Table : w[t] \in s[t] /\ o.world[t] \in s[t]
  /\ o.world.held \in s["lesson"] \cup {"none"}
  /\ \A k \in 1 .. i - 1 : HoldsAt(p, k) => o.world.held # "none"

\* Somebody else's answer to the same question is in the cache, and who asks has
\* an account.
Hitting ==
  /\ op \in CachedRoutes
  /\ request.who \in Account
  /\ world.cached \in SameKey(request) \ {"nobody"}

\* The request in service is one of the route, and there is none at first.
Serving ==
  /\ request.op = op
  /\ request.who \in CallersOf(op)
  /\ pc = 0 => answer = "none" /\ did = {} /\ world.held = "none"
  /\ answer = "200" => pc = Len(Program(request)) \/ Hitting

\* What it has written is what its steps write.
Effects ==
  /\ answer = "none" =>
       \A t : t \in did <=> \E j \in 1 .. pc - 1 : t \in Planned(request, world.receipt)[j]
  /\ RefusedHasNoEffect
  /\ SuccessTookEffect

\* Each step it has passed was passed in states of the rows it has seen.
Rows ==
  pc > 0 =>
    /\ \A t \in Table : world[t] \in seen[t]
    /\ world.held \in seen["lesson"] \cup {"none"}
    /\ \A i \in Passed :
         /\ HoldsAt(Program(request), i) => world.held # "none"
         /\ \E w, o : PassedBy(Program(request), i, w, o, seen)

\* What is in the cache was answered to somebody who may have it.
CacheIsGranted == world.cached # "nobody" => world.cached \in Entitled(op)

\* The inductive invariant.
Inv == TypeOK /\ Serving /\ Effects /\ Rows /\ CacheIsGranted

\* What the state machine needs to know of the steps of a request.
LEMMA Programs ==
  ASSUME NEW r \in Request, r.who \in CallersOf(r.op)
  PROVE  /\ Program(r) \in Code
         /\ Len(Program(r)) \in Nat /\ Len(Program(r)) > 0
         /\ DOMAIN Program(r) = 1 .. Len(Program(r))
         /\ \A i, w, o : Makes(Program(r), i, w, o) =>
              o.err \in Statuses \cup {"ok"} \/ Hit(r, Program(r), i, w, o)
         /\ \A x : Plan(Planned(r, x), Program(r), Promised(r), x)
<1>1. ServedOrHit(r, Program(r), Promised(r))
  <2>1. Served(Program(r), Promised(r)) \/ ServedOrHit(r, Program(r), Promised(r))
    BY EveryRequestGuarded DEF Guarded
  <2> QED
    BY <2>1 DEF Served, ServedOrHit, Final, Yields
<1>2. \A x : \E d : Plan(d, Program(r), Promised(r), x)
  BY <1>1 DEF ServedOrHit, Writer, Serves
<1>3. \A x : Plan(Planned(r, x), Program(r), Promised(r), x)
  BY <1>2 DEF Planned
<1>4. Program(r) \in Code
  BY <1>1 DEF ServedOrHit, Writer
<1>5. Len(Program(r)) \in Nat /\ DOMAIN Program(r) = 1 .. Len(Program(r))
  BY <1>4 DEF Code
<1> QED
  BY <1>1, <1>3, <1>4, <1>5 DEF ServedOrHit

\* What other requests write are statements like any other.
LEMMA OtherWritesAreCode == OtherWrites \in Code
<1> DEFINE r == [op |-> op, who |-> "tutor", form |-> "good"]
           a == DbUpdateTutorStudent(r, {"invited", "active"})
           b == DbDeleteTutorStudent(r)
<1>1. a \in Code
  <2>1. {"invited", "active"} \in SUBSET PairState
    BY DEF PairState
  <2>2. Writer(UpdatesTutorStudent(r, {"invited", "active"}), {"tutor_students"})
    BY <2>1, WriteStatements
  <2>3. a = SetsSomething(r) \o UpdatesTutorStudent(r, {"invited", "active"})
    BY DEF DbUpdateTutorStudent, UpdatesTutorStudent
  <2> HIDE DEF a, r
  <2>4. Writer(a, {"tutor_students"})
    BY <2>2, <2>3, Checks, WriterJoined
  <2> QED
    BY <2>4, AreCode
<1>2. b \in Code
  BY WriteStatements, AreCode
<1>3. /\ DbRegister \in Code /\ DbCreateTutorStudent \in Code /\ DbDeleteSlot \in Code
      /\ DbCreateLessonAndBookSlot \in Code /\ DbUpdateLesson \in Code
      /\ DbCancelLessonAndFreeSlot \in Code /\ DbMarkAsPaid \in Code
      /\ DbUpdateAssignment \in Code /\ DbDeleteAssignment \in Code /\ DbUpdateFeedback \in Code
  BY WriteStatements, AreCode
<1>4. OtherWrites =
        DbRegister \o DbCreateTutorStudent \o a \o b \o DbDeleteSlot
        \o DbCreateLessonAndBookSlot \o DbUpdateLesson \o DbCancelLessonAndFreeSlot
        \o DbMarkAsPaid \o DbUpdateAssignment \o DbDeleteAssignment \o DbUpdateFeedback
  BY DEF OtherWrites
<1> HIDE DEF a, b
<1>5. \A p, q \in Code : p \o q \in Code
  BY Joined
<1> QED
  BY <1>1, <1>2, <1>3, <1>4, <1>5

\* A write of another request leaves these rows in their states, and the
\* receipt as it is.
LEMMA OthersFollow ==
  ASSUME TypeOK, NEW i \in DOMAIN OtherWrites, NEW held \in {"unpaid", "paid"},
         NEW o \in OtherWrites[i][[world EXCEPT !.held = held]]
  PROVE  /\ o.world \in World
         /\ o.world.receipt = world.receipt /\ o.world.cached = world.cached
         /\ [o.world EXCEPT !.held = world.held] \in World
<1> DEFINE w == [world EXCEPT !.held = held]
<1>1. w \in World /\ w.receipt = world.receipt /\ w.cached = world.cached
  BY DEF TypeOK, World, LessonState
<1> HIDE DEF w
<1>2. Makes(OtherWrites, i, w, o)
  BY <1>1 DEF Makes, w
<1>3. o \in Outcome /\ Follows(w, o)
  BY <1>2, OtherWritesAreCode, Made
<1> QED
  BY <1>1, <1>3 DEF Follows, Outcome, World, TypeOK

\* The request in service is one that can be made.
LEMMA OfTheRoute ==
  ASSUME TypeOK, Serving
  PROVE  request \in Request /\ request.who \in CallersOf(request.op)
  BY DEF TypeOK, Serving

\* The step that is made.
LEMMA StepMakes ==
  ASSUME TypeOK, Serving, Step
  PROVE  \E o : /\ Makes(Program(request), pc, world, o)
                /\ world' = o.world
                /\ did' = did \cup o.did
                /\ failed' = (failed \/ o.down)
                /\ seen' = Watched(o.world)
                /\ \/ /\ o.err # "ok"
                      /\ answer' = o.err
                      /\ pc' = pc
                   \/ /\ o.err = "ok"
                      /\ pc = Len(Program(request))
                      /\ answer' = "200"
                      /\ pc' = pc
                   \/ /\ o.err = "ok"
                      /\ pc < Len(Program(request))
                      /\ answer' = answer
                      /\ pc' = pc + 1
                /\ o \in Outcome /\ Follows(world, o)
                /\ \/ o.err \in Statuses \cup {"ok"}
                   \/ Hit(request, Program(request), pc, world, o)
<1>1. /\ Program(request) \in Code
      /\ \A i, w, o : Makes(Program(request), i, w, o) =>
           \/ o.err \in Statuses \cup {"ok"}
           \/ Hit(request, Program(request), i, w, o)
      /\ DOMAIN Program(request) = 1 .. Len(Program(request))
  BY OfTheRoute, Programs
<1>2. pc \in DOMAIN Program(request) /\ world \in World
  <2>1. pc > 0 /\ pc \in 0 .. Len(Program(request)) /\ world \in World
    BY DEF Step, TypeOK
  <2>2. Len(Program(request)) \in Nat
    BY OfTheRoute, Programs
  <2> QED
    BY <1>1, <2>1, <2>2
<1>3. \A o \in Program(request)[pc][world] : Makes(Program(request), pc, world, o)
  BY <1>2 DEF Makes
<1>4. \A o : Makes(Program(request), pc, world, o) =>
        /\ o \in Outcome /\ Follows(world, o)
        /\ \/ o.err \in Statuses \cup {"ok"}
           \/ Hit(request, Program(request), pc, world, o)
  BY <1>1, Made
<1> QED
  BY <1>3, <1>4 DEF Step

\* Where the invariant begins, and what keeps it.
LEMMA Initially == ASSUME Init PROVE Inv
<1>1. op \in Route
  BY RoutesAssumption DEF Init
<1>2. world \in World /\ world.held = "none" /\ world.cached = "nobody"
  BY DEF Init, Worlds, Varying, World, RowState, PairState, SlotState, LessonState, WorkState,
         Caller
<1>3. /\ request = NoRequest /\ pc = 0 /\ answer = "none" /\ did = {} /\ failed = FALSE
      /\ seen = [t \in Table |-> {}] /\ op \in Routes
  BY DEF Init
<1>4. request \in Request /\ request.op = op /\ request.who \in CallersOf(op)
  BY <1>1, <1>3 DEF Request, NoRequest, Caller, Form, CallersOf
<1>5. Len(Program(request)) \in Nat
  BY <1>4, Programs
<1>6. TypeOK
  <2>1. seen \in [Table -> SUBSET (RowState \cup PairState \cup SlotState \cup LessonState
                                   \cup WorkState)]
    BY <1>3
  <2>2. pc \in 0 .. Len(Program(request))
    BY <1>3, <1>5
  <2> QED
    BY <1>2, <1>3, <1>4, <2>1, <2>2 DEF TypeOK
<1>7. Serving
  BY <1>2, <1>3, <1>4 DEF Serving
<1>8. Effects
  <2>1. 1 .. pc - 1 = {}
    BY <1>3
  <2> QED
    BY <1>3, <2>1 DEF Effects, RefusedHasNoEffect, SuccessTookEffect, Refusals
<1>9. Rows
  BY <1>3 DEF Rows
<1> QED
  BY <1>2, <1>6, <1>7, <1>8, <1>9 DEF Inv, CacheIsGranted

LEMMA ArriveKeeps == ASSUME Inv, Arrive PROVE Inv'
<1>1. /\ TypeOK /\ CacheIsGranted
      /\ pc = 0 /\ answer = "none" /\ did = {} /\ world.held = "none"
  BY DEF Inv, Serving, Arrive
<1>2. PICK who \in CallersOf(op), form \in FormsOf(op) :
        request' = [op |-> op, who |-> who, form |-> form]
  BY DEF Arrive
<1>3. /\ pc' = 1 /\ seen' = [t \in Table |-> {world[t]}]
      /\ op' = op /\ world' = world /\ answer' = answer /\ did' = did /\ failed' = failed
  BY DEF Arrive
<1>4. who \in Caller /\ form \in Form
  BY DEF CallersOf, Caller, FormsOf
<1>5. op \in Route
  BY <1>1, RoutesAssumption DEF TypeOK
<1>6. request' \in Request /\ request'.op = op' /\ request'.who \in CallersOf(op')
  BY <1>2, <1>3, <1>4, <1>5 DEF Request
<1>7. Len(Program(request')) \in Nat /\ Len(Program(request')) > 0
  BY <1>6, Programs
<1>8. TypeOK'
  <2>1. \A t \in Table : world[t] \in RowState \cup PairState \cup SlotState \cup LessonState
                                      \cup WorkState
    BY <1>1 DEF TypeOK, World, Table
  <2>2. seen' \in [Table -> SUBSET (RowState \cup PairState \cup SlotState \cup LessonState
                                    \cup WorkState)]
    BY <1>3, <2>1
  <2>3. pc' \in 0 .. Len(Program(request'))
    BY <1>3, <1>7
  <2> QED
    BY <1>1, <1>3, <1>6, <2>2, <2>3 DEF TypeOK
<1>9. Serving'
  BY <1>1, <1>3, <1>6 DEF Serving
<1>10. Effects'
  <2>1. 1 .. pc' - 1 = {}
    BY <1>3
  <2> QED
    BY <1>1, <1>3, <2>1 DEF Effects, RefusedHasNoEffect, SuccessTookEffect, Refusals
<1>11. Rows'
  <2>1. Passed' = {}
    BY <1>1, <1>3 DEF Passed
  <2>2. /\ \A t \in Table : world'[t] \in seen'[t]
        /\ world'.held \in seen'["lesson"] \cup {"none"}
    BY <1>1, <1>3
  <2> QED
    BY <2>1, <2>2 DEF Rows
<1>12. CacheIsGranted'
  BY <1>1, <1>3 DEF CacheIsGranted
<1> QED
  BY <1>8, <1>9, <1>10, <1>11, <1>12 DEF Inv

LEMMA LeaveKeeps == ASSUME Inv, Leave PROVE Inv'
<1>1. TypeOK /\ CacheIsGranted
  BY DEF Inv
<1>2. /\ world' = [world EXCEPT !.held = "none"]
      /\ pc' = 0 /\ answer' = "none" /\ did' = {} /\ seen' = [t \in Table |-> {}]
      /\ failed' = FALSE /\ op' = op
      /\ request' = [op |-> op, who |-> "nobody", form |-> "good"]
  BY DEF Leave, NoRequest
<1>3. op \in Route
  BY <1>1, RoutesAssumption DEF TypeOK
<1>4. request' \in Request /\ request'.op = op' /\ request'.who \in CallersOf(op')
  BY <1>2, <1>3 DEF Request, Caller, Form, CallersOf
<1>5. world' \in World /\ world'.held = "none" /\ world'.cached = world.cached
  BY <1>1, <1>2 DEF TypeOK, World, LessonState
<1>6. TypeOK'
  <2>1. Len(Program(request')) \in Nat
    BY <1>4, Programs
  <2>2. pc' \in 0 .. Len(Program(request'))
    BY <1>2, <2>1
  <2>3. seen' \in [Table -> SUBSET (RowState \cup PairState \cup SlotState \cup LessonState
                                    \cup WorkState)]
    BY <1>2
  <2> QED
    BY <1>1, <1>2, <1>4, <1>5, <2>2, <2>3 DEF TypeOK
<1>7. Serving'
  BY <1>2, <1>4, <1>5 DEF Serving
<1>8. Effects'
  <2>1. 1 .. pc' - 1 = {}
    BY <1>2
  <2> QED
    BY <1>2, <2>1 DEF Effects, RefusedHasNoEffect, SuccessTookEffect, Refusals
<1>9. Rows'
  BY <1>2 DEF Rows
<1>10. CacheIsGranted'
  BY <1>1, <1>2, <1>5 DEF CacheIsGranted
<1> QED
  BY <1>6, <1>7, <1>8, <1>9, <1>10 DEF Inv

\* Other requests add to what is seen, and take nothing from it.
LEMMA OthersKeep == ASSUME Inv, Others PROVE Inv'
<1>1. /\ TypeOK /\ Serving /\ Effects /\ Rows /\ CacheIsGranted
      /\ pc > 0 /\ answer = "none"
      /\ op' = op /\ request' = request /\ pc' = pc /\ answer' = answer /\ did' = did
      /\ failed' = failed
  BY DEF Inv, Others
<1>2. PICK i \in DOMAIN OtherWrites, held \in {"unpaid", "paid"} :
        \E o \in OtherWrites[i][[world EXCEPT !.held = held]] :
          /\ world' = [o.world EXCEPT !.held = world.held]
          /\ seen' = Watched(o.world)
  BY DEF Others
<1>3. PICK o \in OtherWrites[i][[world EXCEPT !.held = held]] :
        /\ world' = [o.world EXCEPT !.held = world.held]
        /\ seen' = Watched(o.world)
  BY <1>2
<1>4. /\ o.world \in World /\ world' \in World
      /\ o.world.receipt = world.receipt /\ o.world.cached = world.cached
  BY <1>1, <1>3, OthersFollow
<1>5. /\ world'.receipt = world.receipt /\ world'.held = world.held
      /\ world'.cached = world.cached
      /\ \A t \in Table : world'[t] = o.world[t]
  BY <1>3, <1>4 DEF World, Table
<1>6. \A t \in Table : seen'[t] = seen[t] \cup {o.world[t]}
  BY <1>3 DEF Watched
<1>7. TypeOK'
  <2>1. \A t \in Table : o.world[t] \in RowState \cup PairState \cup SlotState \cup LessonState
                                        \cup WorkState
    BY <1>4 DEF World, Table
  <2>2. seen' \in [Table -> SUBSET (RowState \cup PairState \cup SlotState \cup LessonState
                                    \cup WorkState)]
    BY <1>1, <1>3, <2>1 DEF Watched, TypeOK
  <2> QED
    BY <1>1, <1>4, <2>2 DEF TypeOK
<1>8. Serving'
  BY <1>1, <1>5 DEF Serving
<1>9. Effects'
  BY <1>1, <1>5 DEF Effects, RefusedHasNoEffect, SuccessTookEffect
<1>10. Rows'
  <2>1. Passed' = Passed
    BY <1>1 DEF Passed
  <2>2. "lesson" \in Table /\ \A t \in Table : seen[t] \subseteq seen'[t]
    BY <1>6 DEF Table
  <2>3. /\ \A t \in Table : world'[t] \in seen'[t]
        /\ world'.held \in seen'["lesson"] \cup {"none"}
    BY <1>1, <1>5, <1>6, <2>2 DEF Rows
  <2>4. ASSUME NEW k \in Passed
        PROVE  /\ HoldsAt(Program(request), k) => world'.held # "none"
               /\ \E w, v : PassedBy(Program(request), k, w, v, seen')
    <3>1. PICK w, v : PassedBy(Program(request), k, w, v, seen)
      BY <1>1, <2>4 DEF Rows
    <3>2. PassedBy(Program(request), k, w, v, seen')
      BY <2>2, <3>1 DEF PassedBy
    <3> QED
      BY <1>1, <1>5, <2>4, <3>2 DEF Rows
  <2> QED
    BY <1>1, <2>1, <2>3, <2>4 DEF Rows
<1>11. CacheIsGranted'
  BY <1>1, <1>5 DEF CacheIsGranted
<1> QED
  BY <1>7, <1>8, <1>9, <1>10, <1>11 DEF Inv

LEMMA StutterKeeps == ASSUME Inv, UNCHANGED vars PROVE Inv'
<1>1. /\ op' = op /\ world' = world /\ request' = request /\ pc' = pc /\ answer' = answer
      /\ did' = did /\ seen' = seen /\ failed' = failed
  BY DEF vars
<1>2. Passed' = Passed
  BY <1>1 DEF Passed
<1> QED
  BY <1>1, <1>2
  DEF Inv, TypeOK, Serving, Hitting, Effects, RefusedHasNoEffect, SuccessTookEffect, Rows,
      CacheIsGranted

\* A step that fails fatally is answered with 500 or 502.
LEMMA FatalIsNoRefusal == Fatal \cap Refusals = {}
  BY DEF Fatal, Refusals

LEMMA StepKeepsTypes == ASSUME Inv, Step PROVE TypeOK' /\ Serving' /\ CacheIsGranted'
<1> DEFINE p == Program(request)
<1>1. /\ TypeOK /\ Serving /\ Rows /\ CacheIsGranted
      /\ pc > 0 /\ op' = op /\ request' = request
  BY DEF Inv, Step
<1>2. PICK o : /\ world' = o.world
               /\ did' = did \cup o.did
               /\ failed' = (failed \/ o.down)
               /\ seen' = Watched(o.world)
               /\ \/ /\ o.err # "ok"
                     /\ answer' = o.err
                     /\ pc' = pc
                  \/ /\ o.err = "ok"
                     /\ pc = Len(p)
                     /\ answer' = "200"
                     /\ pc' = pc
                  \/ /\ o.err = "ok"
                     /\ pc < Len(p)
                     /\ answer' = answer
                     /\ pc' = pc + 1
               /\ o \in Outcome /\ Follows(world, o)
               /\ o.err \in Statuses \cup {"ok"} \/ Hit(request, p, pc, world, o)
  BY <1>1, StepMakes
<1>3. Hit(request, p, pc, world, o) => o.err = "200" /\ pc' = pc /\ Hitting'
  <2>1. SUFFICES ASSUME Hit(request, p, pc, world, o)
                 PROVE  o.err = "200" /\ pc' = pc /\ Hitting'
    OBVIOUS
  <2>2. /\ request.op \in CachedRoutes /\ o.err = "200"
        /\ world.cached \in SameKey(request) \ {"nobody"}
        /\ request.who \in {"nobody", "unknown"} => \E j \in 1 .. pc - 1 : Stops(p, j)
    BY <2>1 DEF Hit, Hits
  <2>3. request.who \notin {"nobody", "unknown"}
    <3>1. SUFFICES ASSUME NEW j \in 1 .. pc - 1, Stops(p, j)
                   PROVE  FALSE
      BY <2>2
    <3>2. pc \in Nat
      <4>1. Len(p) \in Nat /\ pc \in 0 .. Len(p)
        BY <1>1, OfTheRoute, Programs DEF TypeOK
      <4> QED
        BY <4>1
    <3>3. j \in Passed
      BY <3>1, <3>2 DEF Passed
    <3>4. \E w, v : PassedBy(p, j, w, v, seen)
      BY <1>1, <3>3 DEF Rows
    <3> QED
      BY <3>1, <3>4 DEF Stops, PassedBy
  <2>4. request.who \in Account
    BY <1>1, <2>3 DEF TypeOK, Request, Account
  <2>5. world'.cached = world.cached
    BY <1>2 DEF Follows
  <2>6. op' \in CachedRoutes
    BY <1>1, <2>2 DEF Serving
  <2>7. pc' = pc
    BY <1>2, <2>2
  <2> QED
    BY <1>1, <2>2, <2>4, <2>5, <2>6, <2>7 DEF Hitting
<1> HIDE DEF p
<1>4. o.world \in World /\ o.did \subseteq Written /\ o.down \in BOOLEAN
  BY <1>2 DEF Outcome
<1>5. Len(p) \in Nat /\ pc \in 0 .. Len(p) /\ p = Program(request')
  BY <1>1, OfTheRoute, Programs DEF TypeOK, p
<1>6. pc' \in 0 .. Len(p) /\ pc' > 0
  BY <1>1, <1>2, <1>5
<1>7. answer = "none"
  BY DEF Step
<1>8. /\ answer' \in Statuses \cup {"none", "200"}
      /\ answer' = "200" => pc' = Len(p) \/ Hitting'
  BY <1>2, <1>7, <1>3 DEF Statuses, Refusals
<1>9. TypeOK'
  <2>1. \A t \in Table : o.world[t] \in RowState \cup PairState \cup SlotState \cup LessonState
                                        \cup WorkState
    BY <1>4 DEF World, Table
  <2>2. seen' \in [Table -> SUBSET (RowState \cup PairState \cup SlotState \cup LessonState
                                    \cup WorkState)]
    BY <1>1, <1>2, <2>1 DEF Watched, TypeOK
  <2>3. did' \subseteq Written
    BY <1>1, <1>2, <1>4 DEF TypeOK, Written
  <2>4. failed' \in BOOLEAN
    BY <1>1, <1>2, <1>4, Zenon DEF TypeOK
  <2>5. answer' \in Refusals \cup {"none", "200", "500", "502"}
    BY <1>8 DEF Statuses
  <2>6. op' \in Routes /\ world' \in World /\ request' \in Request
    BY <1>1, <1>2, <1>4 DEF TypeOK
  <2>7. pc' \in 0 .. Len(Program(request'))
    BY <1>5, <1>6
  <2> QED
    BY <2>2, <2>3, <2>4, <2>5, <2>6, <2>7 DEF TypeOK, Written
<1>10. Serving'
  BY <1>1, <1>5, <1>6, <1>8 DEF Serving
<1>11. CacheIsGranted'
  <2>1. world'.cached = world.cached
    BY <1>2 DEF Follows
  <2> QED
    BY <1>1, <2>1 DEF CacheIsGranted
<1> QED
  BY <1>9, <1>10, <1>11

\* A refusal comes from a step before which nothing was written.
LEMMA StepKeepsEffects == ASSUME Inv, Step PROVE Effects'
<1> DEFINE p == Program(request)
           d == Planned(request, world.receipt)
<1>1. TypeOK /\ Serving /\ Effects /\ pc > 0 /\ answer = "none" /\ request' = request
  BY DEF Inv, Step
<1>2. PICK o : /\ Makes(p, pc, world, o)
               /\ world' = o.world
               /\ did' = did \cup o.did
               /\ \/ /\ o.err # "ok"
                     /\ answer' = o.err
                     /\ pc' = pc
                  \/ /\ o.err = "ok"
                     /\ pc = Len(p)
                     /\ answer' = "200"
                     /\ pc' = pc
                  \/ /\ o.err = "ok"
                     /\ pc < Len(p)
                     /\ answer' = answer
                     /\ pc' = pc + 1
               /\ Follows(world, o)
               /\ o.err \in Statuses \cup {"ok"} \/ Hit(request, p, pc, world, o)
  BY <1>1, StepMakes
<1>3. Plan(d, p, Promised(request), world.receipt) /\ Len(p) \in Nat /\ pc \in 1 .. Len(p)
  BY <1>1, OfTheRoute, Programs DEF TypeOK
<1>4. d = Planned(request', world'.receipt)
  BY <1>1, <1>2 DEF Follows
<1>5. \A t : t \in did <=> \E j \in 1 .. pc - 1 : t \in d[j]
  BY <1>1 DEF Effects
<1> HIDE DEF p, d
<1>6. CASE o.err # "ok"
  <2>1. answer' = o.err /\ answer' # "none"
    BY <1>2, <1>6 DEF Statuses, Refusals, Hit, Hits
  <2>3. ASSUME answer' \in Refusals
        PROVE  did' = {}
    <3>1. o.err \notin Fatal \cup {"ok"}
      BY <1>6, <2>1, <2>3, FatalIsNoRefusal
    <3>2. o.did = {} /\ \A j \in 1 .. pc - 1 : d[j] = {}
      BY <1>2, <1>3, <3>1 DEF Plan
    <3>3. did = {}
      BY <1>5, <3>2
    <3> QED
      BY <1>2, <3>2, <3>3
  <2>4. ASSUME answer' = "200"
        PROVE  did' = Promised(request')
    <3>1. o.err = "200" /\ Hit(request, p, pc, world, o)
      BY <1>2, <2>1, <2>4 DEF Statuses, Refusals
    <3>2. o.did = {} /\ \A j \in 1 .. pc - 1 : d[j] = {}
      BY <1>2, <1>3, <3>1 DEF Plan, Fatal
    <3>3. did = {}
      BY <1>5, <3>2
    <3>4. Promised(request) = {}
      BY <3>1 DEF Hit, CachedRoutes, Promised
    <3> QED
      BY <1>1, <1>2, <3>2, <3>3, <3>4
  <2> QED
    BY <2>1, <2>3, <2>4 DEF Effects, RefusedHasNoEffect, SuccessTookEffect
<1>7. CASE o.err = "ok"
  <2>1. o.did = d[pc]
    BY <1>2, <1>3, <1>7 DEF Plan
  <2>2. \A t : t \in did' <=> \E j \in 1 .. pc : t \in d[j]
    <3>1. \A j : j \in 1 .. pc <=> j \in 1 .. pc - 1 \/ j = pc
      BY <1>3
    <3> QED
      BY <1>2, <1>5, <2>1, <3>1
  <2>3. CASE pc = Len(p)
    <3>1. answer' = "200"
      BY <1>2, <1>7, <2>3
    <3>2. \A t : t \in did' <=> t \in Promised(request)
      BY <1>3, <2>2, <2>3 DEF Plan
    <3> QED
      BY <1>1, <3>1, <3>2 DEF Effects, RefusedHasNoEffect, SuccessTookEffect, Refusals
  <2>4. CASE pc < Len(p)
    <3>1. answer' = "none" /\ pc' = pc + 1
      BY <1>1, <1>2, <1>7, <2>4
    <3>2. pc' - 1 = pc
      BY <1>3, <3>1
    <3>3. \A t : t \in did' <=> \E j \in 1 .. pc' - 1 : t \in Planned(request', world'.receipt)[j]
      BY <1>4, <2>2, <3>2
    <3> QED
      BY <3>1, <3>3 DEF Effects, RefusedHasNoEffect, SuccessTookEffect, Refusals
  <2> QED
    BY <1>3, <2>3, <2>4
<1> QED
  BY <1>6, <1>7

\* A step is passed from rows that are seen to rows that are seen from now on.
LEMMA StepKeepsRows == ASSUME Inv, Step PROVE Rows'
<1> DEFINE p == Program(request)
<1>1. TypeOK /\ Serving /\ Rows /\ pc > 0 /\ answer = "none" /\ request' = request
  BY DEF Inv, Step
<1>2. PICK o : /\ Makes(p, pc, world, o)
               /\ world' = o.world
               /\ seen' = Watched(o.world)
               /\ \/ /\ o.err # "ok"
                     /\ answer' = o.err
                     /\ pc' = pc
                  \/ /\ o.err = "ok"
                     /\ pc = Len(p)
                     /\ answer' = "200"
                     /\ pc' = pc
                  \/ /\ o.err = "ok"
                     /\ pc < Len(p)
                     /\ answer' = answer
                     /\ pc' = pc + 1
               /\ Follows(world, o)
               /\ o.err \in Statuses \cup {"ok"} \/ Hit(request, p, pc, world, o)
  BY <1>1, StepMakes
<1>3. Len(p) \in Nat /\ pc \in 1 .. Len(p) /\ p = Program(request')
  BY <1>1, OfTheRoute, Programs DEF TypeOK
<1>4. /\ \A t \in Table : world[t] \in seen[t]
      /\ world.held \in seen["lesson"] \cup {"none"}
      /\ \A i \in Passed :
           /\ HoldsAt(p, i) => world.held # "none"
           /\ \E w, v : PassedBy(p, i, w, v, seen)
  BY <1>1 DEF Rows
<1> HIDE DEF p
<1>5. \A t \in Table : seen'[t] = seen[t] \cup {o.world[t]}
  BY <1>2 DEF Watched
<1>6. "lesson" \in Table
  BY DEF Table
<1>7. o.world.held = world.held \/ (world.lesson # "none" /\ o.world.held = world.lesson)
  BY <1>2 DEF Follows
<1>8. /\ \A t \in Table : world[t] \in seen'[t] /\ o.world[t] \in seen'[t]
      /\ o.world.held \in seen'["lesson"] \cup {"none"}
      /\ world.held # "none" => o.world.held # "none"
  BY <1>4, <1>5, <1>6, <1>7
<1>9. Passed = 1 .. pc - 1
  BY <1>1, <1>3 DEF Passed
<1>10. ASSUME NEW i \in 1 .. pc - 1
       PROVE  /\ HoldsAt(p, i) => o.world.held # "none"
              /\ \E w, v : PassedBy(p, i, w, v, seen')
  <2>1. PICK w, v : PassedBy(p, i, w, v, seen)
    BY <1>4, <1>9, <1>10
  <2>2. PassedBy(p, i, w, v, seen')
    BY <1>5, <1>6, <2>1 DEF PassedBy
  <2> QED
    BY <1>4, <1>8, <1>9, <1>10, <2>2
<1>11. ASSUME o.err = "ok"
       PROVE  /\ HoldsAt(p, pc) => o.world.held # "none"
              /\ \E w, v : PassedBy(p, pc, w, v, seen')
  <2>1. HoldsAt(p, pc) => o.world.held # "none"
    BY <1>2, <1>11 DEF HoldsAt
  <2>2. PassedBy(p, pc, world, o, seen')
    BY <1>2, <1>8, <1>10, <1>11 DEF PassedBy
  <2> QED
    BY <2>1, <2>2
<1>12. \A i \in Passed' : i \in 1 .. pc - 1 \/ (i = pc /\ o.err = "ok")
  <2>1. CASE o.err # "ok"
    <3>1. ~(answer' = "200" /\ pc' = Len(p)) /\ pc' = pc
      BY <1>2, <1>3, <2>1 DEF Statuses, Refusals, Hit
    <3> QED
      BY <1>3, <3>1 DEF Passed
  <2>2. CASE o.err = "ok"
    <3>1. pc' = pc \/ (pc' = pc + 1 /\ answer' = "none")
      BY <1>1, <1>2, <2>2
    <3> QED
      BY <1>3, <2>2, <3>1 DEF Passed
  <2> QED
    BY <2>1, <2>2
<1>13. \A i \in Passed' :
         /\ HoldsAt(p, i) => world'.held # "none"
         /\ \E w, v : PassedBy(p, i, w, v, seen')
  BY <1>2, <1>10, <1>11, <1>12
<1>14. /\ \A t \in Table : world'[t] \in seen'[t]
       /\ world'.held \in seen'["lesson"] \cup {"none"}
  BY <1>2, <1>8
<1> QED
  BY <1>3, <1>13, <1>14 DEF Rows

\* A step that lets nobody by is not passed.
LEMMA NobodyPassesBars ==
  ASSUME NEW p, Bars(p), NEW s, \A i \in DOMAIN p : \E w, o : PassedBy(p, i, w, o, s)
  PROVE  FALSE
<1>1. PICK i \in DOMAIN p : \A w, o :
        Makes(p, i, w, o) /\ o.err = "ok" => w["person"] \in {} \/ o.world["person"] \in {}
  BY DEF Bars, Gate
<1>2. PICK w, o : PassedBy(p, i, w, o, s)
  OBVIOUS
<1> QED
  BY <1>1, <1>2 DEF PassedBy

\* What the steps rely on has been seen once all of them are passed.
LEMMA ReliedOnIsSeen ==
  ASSUME NEW p \in Code, NEW s, NEW t \in Table, NEW S, Relies(p, t, S),
         \A i \in DOMAIN p : \E w, o : PassedBy(p, i, w, o, s),
         NEW w0 \in World, w0[t] \in s[t]
  PROVE  s[t] \cap S # {}
<1>1. CASE Gate(p, t, S)
  <2>1. PICK i \in DOMAIN p : \A w, o :
          Makes(p, i, w, o) /\ o.err = "ok" => w[t] \in S \/ o.world[t] \in S
    BY <1>1 DEF Gate
  <2>2. PICK w, o : PassedBy(p, i, w, o, s)
    OBVIOUS
  <2>3. w[t] \in s[t] /\ o.world[t] \in s[t] /\ (w[t] \in S \/ o.world[t] \in S)
    BY <2>1, <2>2 DEF PassedBy
  <2> QED
    BY <2>3
<1>2. CASE \A w \in World : w[t] \in S
  BY <1>2
<1>3. CASE t = "lesson" /\ S = {"unpaid"} /\ Twice(p)
  <2>1. PICK i \in DOMAIN p, j \in DOMAIN p :
          /\ i < j
          /\ \A w, o : Makes(p, i, w, o) /\ o.err = "ok" => o.world.held # "none"
          /\ \A w, o : Makes(p, j, w, o) /\ o.err = "ok" => o.world.held # "paid"
    BY <1>3 DEF Twice
  <2>2. HoldsAt(p, i) /\ i \in 1 .. j - 1
    BY <2>1 DEF HoldsAt, Code
  <2>3. PICK w, o : PassedBy(p, j, w, o, s)
    OBVIOUS
  <2>4. /\ o.world.held # "none" /\ o.world.held # "paid"
        /\ o.world.held \in s["lesson"] \cup {"none"}
    BY <2>1, <2>2, <2>3 DEF PassedBy
  <2>5. o.world \in World
    BY <2>3, Made DEF PassedBy, Outcome
  <2>6. o.world.held = "unpaid"
    BY <2>4, <2>5 DEF World, LessonState
  <2> QED
    BY <1>3, <2>4, <2>6
<1> QED
  BY <1>1, <1>2, <1>3 DEF Relies

\* A request that passed all its steps has seen the rows it relied on.
LEMMA RowsAreHad == ASSUME Inv PROVE SuccessHadItsRows
<1> DEFINE p == Program(request)
<1>1. SUFFICES ASSUME answer = "200", ~FromCache
               PROVE  /\ request.who \in Admitted(op)
                      /\ \A t \in NamedBy(op) : seen[t] \cap Needed(request, t) # {}
  BY DEF SuccessHadItsRows
<1>2. /\ request \in Request /\ request.op = op /\ request.who \in CallersOf(request.op)
      /\ world \in World /\ pc \in 0 .. Len(p)
  BY <1>1 DEF Inv, TypeOK, Serving
<1>3. p \in Code /\ Len(p) \in Nat /\ Len(p) > 0 /\ DOMAIN p = 1 .. Len(p)
  BY <1>2, Programs
<1>4. /\ request.who \in Admitted(op) \/ Bars(p)
      /\ \A t \in NamedBy(op) : Relies(p, t, Needed(request, t))
  BY <1>2, EveryRequestGuarded DEF Guarded
<1>5. pc \in 0 .. Len(p) /\ Len(p) \in Nat /\ ~(pc < Len(p))
  BY <1>1, <1>2, <1>3, Zenon DEF FromCache
<1>6. p = Program(request)
  OBVIOUS
<1> HIDE DEF p
<1>7. pc = Len(p)
  BY <1>5
<1>8. Passed = DOMAIN p
  BY <1>1, <1>3, <1>6, <1>7 DEF Passed
<1>9. /\ \A t \in Table : world[t] \in seen[t]
      /\ \A i \in DOMAIN p : \E w, o : PassedBy(p, i, w, o, seen)
  BY <1>3, <1>6, <1>7, <1>8 DEF Inv, Rows
<1>10. request.who \in Admitted(op)
  BY <1>4, <1>9, NobodyPassesBars
<1>11. \A t \in NamedBy(op) : t \in Table
  BY DEF NamedBy, Table
<1>12. ASSUME NEW t \in NamedBy(op)
       PROVE  seen[t] \cap Needed(request, t) # {}
  <2>1. t \in Table /\ Relies(p, t, Needed(request, t)) /\ world[t] \in seen[t]
    BY <1>4, <1>9, <1>11
  <2> QED
    BY <1>2, <1>3, <1>9, <2>1, ReliedOnIsSeen
<1> QED
  BY <1>10, <1>12

\* What is stored was answered by a service, so to somebody it lets by.
LEMMA CacheSetKeeps == ASSUME Inv, CacheSet PROVE Inv'
<1>1. TypeOK /\ Serving /\ Effects /\ Rows /\ SuccessHadItsRows
  BY RowsAreHad DEF Inv
<1>2. /\ op \in CachedRoutes /\ answer = "200" /\ pc = Len(Program(request))
      /\ world' = [world EXCEPT !.cached = request.who]
      /\ op' = op /\ request' = request /\ pc' = pc /\ answer' = answer /\ did' = did
      /\ seen' = seen /\ failed' = failed
  BY DEF CacheSet
<1>3. /\ world \in World /\ request.who \in Caller
      /\ Len(Program(request)) \in Nat /\ Len(Program(request)) > 0
  BY <1>1, OfTheRoute, Programs DEF TypeOK, Request
<1>4. /\ world' \in World /\ world'.cached = request.who
      /\ world'.held = world.held /\ world'.receipt = world.receipt
      /\ \A t \in Table : world'[t] = world[t]
  BY <1>2, <1>3 DEF World, Table
<1>5. TypeOK'
  BY <1>1, <1>2, <1>4 DEF TypeOK
<1>6. Serving'
  BY <1>1, <1>2, <1>3, <1>4 DEF Serving
<1>7. Effects'
  BY <1>1, <1>2 DEF Effects, RefusedHasNoEffect, SuccessTookEffect
<1>8. Rows'
  <2>1. Passed' = Passed
    BY <1>2 DEF Passed
  <2> QED
    BY <1>1, <1>2, <1>4, <2>1 DEF Rows
<1>9. CacheIsGranted'
  <2>1. ~FromCache
    BY <1>2, <1>3 DEF FromCache
  <2>2. request.who \in Admitted(op)
    BY <1>1, <1>2, <2>1 DEF SuccessHadItsRows
  <2>3. Admitted(op) = Entitled(op)
    BY <1>2 DEF Admitted, CachedRoutes
  <2> QED
    BY <1>2, <1>4, <2>2, <2>3 DEF CacheIsGranted
<1> QED
  BY <1>5, <1>6, <1>7, <1>8, <1>9 DEF Inv

\* Every step keeps the invariant.
LEMMA InvStep == ASSUME Inv, [Next]_vars PROVE Inv'
<1>1. CASE Arrive
  BY <1>1, ArriveKeeps
<1>2. CASE Step
  <2>1. TypeOK' /\ Serving' /\ CacheIsGranted'
    BY <1>2, StepKeepsTypes
  <2>2. Effects'
    BY <1>2, StepKeepsEffects
  <2>3. Rows'
    BY <1>2, StepKeepsRows
  <2> QED
    BY <2>1, <2>2, <2>3 DEF Inv
<1>3. CASE Others
  BY <1>3, OthersKeep
<1>4. CASE Leave
  BY <1>4, LeaveKeeps
<1>5. CASE UNCHANGED vars
  BY <1>5, StutterKeeps
<1>6. CASE CacheSet
  BY <1>6, CacheSetKeeps
<1> QED
  BY <1>1, <1>2, <1>3, <1>4, <1>5, <1>6 DEF Next

THEOREM InvAlways == Spec => []Inv
<1>1. Init => Inv
  BY Initially
<1>2. Inv /\ [Next]_vars => Inv'
  BY InvStep
<1> QED
  BY <1>1, <1>2, PTL DEF Spec

\* Every request is at a step its program has, every answer is one of the
\* gateway's statuses, and rows stay in states the tables have.
THEOREM RequestsTypeCorrect == Spec => []TypeOK
<1>1. Inv => TypeOK
  BY DEF Inv
<1> QED
  BY <1>1, InvAlways, PTL

\* A request that is refused, by whichever service, has written nothing in any:
\* of SubmitReceipt, too, whose receipt and whose payment are in two services.
THEOREM RefusedHadNoEffect == Spec => []RefusedHasNoEffect
<1>1. Inv => RefusedHasNoEffect
  BY DEF Inv, Effects
<1> QED
  BY <1>1, InvAlways, PTL

\* A request that is answered with 200 has written all its route promises: no
\* error is lost on the way through the layers.
THEOREM SuccessTookItsEffect == Spec => []SuccessTookEffect
<1>1. Inv => SuccessTookEffect
  BY DEF Inv, Effects
<1> QED
  BY <1>1, InvAlways, PTL

\* A request that a service answered with 200 came from somebody the service lets
\* by, and each row it names was as it has to be at some moment since it came,
\* whatever other requests did between two of its steps.
THEOREM SuccessHadAllItsRows == Spec => []SuccessHadItsRows
<1>1. Inv => SuccessHadItsRows
  BY RowsAreHad
<1> QED
  BY <1>1, InvAlways, PTL


\* A request that is answered from the cache, past the checks of the services,
\* came from somebody with an account and gets what somebody entitled was given.
THEOREM CachedAnswersWereGranted == Spec => []CachedAnswerWasGranted
<1>1. Inv => CachedAnswerWasGranted
  <2>1. SUFFICES ASSUME Inv, FromCache
                 PROVE  /\ world.cached \in Entitled(op)
                        /\ request.who \in Account
                        /\ op = "GetMe" => request.who = world.cached
    BY DEF CachedAnswerWasGranted
  <2>2. /\ answer = "200" /\ pc < Len(Program(request)) /\ pc \in 0 .. Len(Program(request))
        /\ Serving /\ CacheIsGranted
    BY <2>1 DEF FromCache, Inv, TypeOK
  <2>3. Len(Program(request)) \in Nat
    BY <2>1, OfTheRoute, Programs DEF Inv
  <2>4. Hitting /\ request.op = op
    BY <2>2, <2>3 DEF Serving
  <2>5. op = "GetMe" => SameKey(request) = {request.who}
    BY <2>4 DEF SameKey
  <2> QED
    BY <2>2, <2>4, <2>5 DEF Hitting, CacheIsGranted
<1> QED
  BY <1>1, InvAlways, PTL
=============================================================================
