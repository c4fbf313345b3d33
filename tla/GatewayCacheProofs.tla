------------------------- MODULE GatewayCacheProofs -------------------------
(* Theorems of module GatewayCache: its types, and that an entry which is   *)
(* not its row's content is pending deletion or has one of the three causes. *)
EXTENDS GatewayCache, TLAPS

LEMMA KeyHasRow == ASSUME NEW k \in Key PROVE RowOf(k) \in Row
  BY DEF Key, RowOf, Row

\* What a request holds at each of its calls.
LEMMA ServingTyped ==
  ASSUME TypeOK, NEW r \in Request
  PROVE  /\ At(r, "lookup") \/ At(r, "read") => requests[r].key \in Key
         /\ At(r, "store") => /\ requests[r].key \in Key
                              /\ requests[r].version \in Version
         /\ At(r, "write") => requests[r].row \in Row
         /\ At(r, "invalidate") => /\ requests[r] \in [pc : {"invalidate"}, row : Row,
                                                       answer : Answer, left : SUBSET Key]
                                   /\ requests[r].left \in SUBSET Key
<1>1. requests[r] \in Serving \cup {Idle}
  BY DEF TypeOK
<1> QED
  BY <1>1 DEF At, Serving

-----------------------------------------------------------------------------
LEMMA InitTyped == Init => TypeOK
<1> SUFFICES ASSUME Init PROVE TypeOK
  OBVIOUS
<1>1. 0 \in Version
  BY CacheAssumption DEF Version
<1>2. rows \in [Row -> Version \cup {NoRow}]
  BY <1>1 DEF Init
<1> QED
  BY <1>1, <1>2 DEF Init, TypeOK

LEMMA StepTyped == TypeOK /\ [Next]_vars => TypeOK'
<1> SUFFICES ASSUME TypeOK, [Next]_vars PROVE TypeOK'
  OBVIOUS
<1> USE CacheAssumption DEF TypeOK
<1>1. ASSUME NEW r \in Request, NEW x \in Serving \cup {Idle}, Goto(r, x),
             UNCHANGED <<rows, cache, clock, causes>>
      PROVE  TypeOK'
  BY <1>1 DEF Goto
<1>2. ASSUME NEW row \in Row, WriteRow(row)
      PROVE  rows' \in [Row -> Version \cup {NoRow}] /\ clock' \in Version
  BY <1>2 DEF WriteRow, Version
<1>3. ASSUME NEW r \in Request, At(r, "write"), NEW a \in Answer, Invalidating(r, a)
      PROVE  requests' \in [Request -> Serving \cup {Idle}]
  <2>1. requests[r].row \in Row /\ KeysOf(requests[r].row) \in SUBSET Key
    BY <1>3, ServingTyped DEF KeysOf
  <2> QED
    BY <1>3, <2>1 DEF Invalidating, Goto, Serving
<1>4. ASSUME NEW r \in Request, GetStep(r)
      PROVE  TypeOK'
  <2>1. CASE Hit(r) \/ ReadFails(r) \/ StoreIsLost(r)
    BY <1>1, <2>1 DEF Hit, ReadFails, StoreIsLost, Return
  <2>2. CASE Miss(r)
    <3>1. requests[r].key \in Key
      BY <2>2, ServingTyped DEF Miss
    <3> QED
      BY <1>1, <2>2, <3>1 DEF Miss, Serving
  <2>3. CASE ReadFound(r)
    <3> DEFINE k == requests[r].key
    <3>1. k \in Key /\ RowOf(k) \in Row
      BY <2>3, ServingTyped, KeyHasRow DEF ReadFound
    <3>2. rows[RowOf(k)] \in Version
      BY <2>3, <3>1 DEF ReadFound
    <3> QED
      BY <1>1, <2>3, <3>1, <3>2 DEF ReadFound, Serving
  <2>4. CASE Store(r)
    <3> DEFINE k == requests[r].key
               v == requests[r].version
    <3>1. k \in Key /\ v \in Version
      BY <2>4, ServingTyped DEF Store
    <3>2. [version |-> v, expires |-> TRUE] \in Entry
      BY <3>1 DEF Entry
    <3> QED
      BY <2>4, <3>1, <3>2 DEF Store, Return, Goto, Cause
  <2> QED
    BY <1>4, <2>1, <2>2, <2>3, <2>4 DEF GetStep
<1>5. ASSUME NEW r \in Request, NEW k \in Key, At(r, "invalidate"), Deleted(r, k)
      PROVE  requests' \in [Request -> Serving \cup {Idle}]
  <2> DEFINE left == requests[r].left \ {k}
  <2>1. /\ requests[r] \in [pc : {"invalidate"}, row : Row, answer : Answer, left : SUBSET Key]
        /\ left \in SUBSET Key
    BY <1>5, ServingTyped
  <2>2. [requests[r] EXCEPT !.left = left] \in Serving
    BY <2>1 DEF Serving
  <2>3. CASE left = {}
    BY <1>5, <2>3 DEF Deleted, Return, Goto
  <2>4. CASE left # {}
    BY <1>5, <2>2, <2>4 DEF Deleted
  <2> QED
    BY <2>3, <2>4
<1>6. ASSUME NEW r \in Request, WriteStep(r)
      PROVE  TypeOK'
  <2> DEFINE row == requests[r].row
  <2>1. CASE Update(r)
    <3>1. At(r, "write") /\ row \in Row
      BY <2>1, ServingTyped DEF Update, AtOp
    <3> QED
      BY <1>2, <1>3, <2>1, <3>1 DEF Update, Answer
  <2>2. CASE UpdateProfile(r) \/ NotFound(r) \/ WriteFails(r)
    BY <1>3, <2>2 DEF UpdateProfile, NotFound, WriteFails, AtOp, Answer
  <2>3. CASE Delete(r)
    <3>1. At(r, "write") /\ row \in Row
      BY <2>3, ServingTyped DEF Delete, AtOp
    <3> QED
      BY <1>3, <2>3, <3>1 DEF Delete, Answer
  <2>4. ASSUME NEW k \in Key, Invalidate(r, k) \/ InvalidateFails(r, k)
        PROVE  TypeOK'
    BY <1>5, <2>4 DEF Invalidate, InvalidateFails, Cause
  <2>5. CASE Create(r) \/ Accept(r)
    <3>1. row \in Row
      BY <2>5, ServingTyped DEF Create, Accept, AtOp
    <3> QED
      BY <1>2, <2>5, <3>1 DEF Create, Accept, LeaveCached, Return, Goto, Cause
  <2>6. CASE PostFails(r)
    BY <1>1, <2>6 DEF PostFails, Return
  <2> QED
    BY <1>6, <2>1, <2>2, <2>3, <2>4, <2>5, <2>6 DEF WriteStep
<1>7. ASSUME NEW r \in Request, NEW k \in Key, Get(r, k)
      PROVE  TypeOK'
  BY <1>1, <1>7 DEF Get, Serving
<1>8. ASSUME NEW r \in Request, NEW row \in Row,
             NEW op \in {"update", "delete", "create", "accept"}, Begin(r, op, row)
      PROVE  TypeOK'
  BY <1>1, <1>8 DEF Begin, Serving
<1>9. ASSUME NEW k \in Key, Expire(k)
      PROVE  TypeOK'
  BY <1>9 DEF Expire
<1>10. CASE Restart
  BY <1>10 DEF Restart, Cause
<1>11. CASE UNCHANGED vars
  BY <1>11 DEF vars
<1> QED
  BY <1>4, <1>6, <1>7, <1>8, <1>9, <1>10, <1>11 DEF Next

\* Every variable keeps its type; what is cached is always a row's content,
\* never a failed answer.
THEOREM Typed == Spec => []TypeOK
<1> QED
  BY InitTyped, StepTyped, PTL DEF Spec

-----------------------------------------------------------------------------
\* A request that deletes nothing may go anywhere while tables and cache stay.
LEMMA QuietStep ==
  ASSUME TypeOK, StaleHasCause, NEW r \in Request, ~At(r, "invalidate"),
         NEW x, Goto(r, x), UNCHANGED <<rows, cache, causes>>
  PROVE  StaleHasCause'
<1>1. \A k \in Key : Differs(k)' => Differs(k)
  BY DEF Differs, Cached
<1>2. \A k \in Key : Pending(k) => Pending(k)'
  BY DEF Pending, At, Goto, TypeOK
<1> QED
  BY <1>1, <1>2 DEF StaleHasCause

\* A row is written by a request that goes on to delete all of its keys.
LEMMA WriteThenInvalidate ==
  ASSUME TypeOK, StaleHasCause, NEW r \in Request, At(r, "write"),
         NEW a \in Answer, Invalidating(r, a), NEW v,
         rows' = [rows EXCEPT ![requests[r].row] = v], UNCHANGED <<cache, causes>>
  PROVE  StaleHasCause'
<1> DEFINE row == requests[r].row
<1>1. row \in Row
  BY ServingTyped
<1>2. /\ requests' = [requests EXCEPT ![r] = [pc |-> "invalidate", row |-> row,
                                              answer |-> a, left |-> KeysOf(row)]]
      /\ [pc |-> "invalidate", row |-> row, answer |-> a, left |-> KeysOf(row)] # Idle
  <2>1. [pc |-> "invalidate", row |-> row, answer |-> a, left |-> KeysOf(row)] \in Serving
    BY <1>1 DEF Serving, KeysOf
  <2> QED
    BY <2>1, CacheAssumption DEF Invalidating, Goto
<1> SUFFICES ASSUME NEW k \in Key, Differs(k)' PROVE causes'[k] # {} \/ Pending(k)'
  BY DEF StaleHasCause
<1>3. CASE RowOf(k) = row
  <2>1. k \in KeysOf(row)
    BY <1>3 DEF KeysOf
  <2> QED
    BY <1>2, <2>1 DEF Pending, At, TypeOK
<1>4. CASE RowOf(k) # row
  <2>1. Differs(k)
    BY <1>4, KeyHasRow DEF Differs, Cached, TypeOK
  <2>2. Pending(k) => Pending(k)'
    BY <1>2 DEF Pending, At, TypeOK
  <2> QED
    BY <2>1, <2>2 DEF StaleHasCause
<1> QED
  BY <1>3, <1>4

LEMMA InitStaleHasCause == Init => StaleHasCause
  BY DEF Init, StaleHasCause, Differs, Cached

LEMMA StepStaleHasCause == TypeOK /\ StaleHasCause /\ [Next]_vars => StaleHasCause'
<1> SUFFICES ASSUME TypeOK, StaleHasCause, [Next]_vars PROVE StaleHasCause'
  OBVIOUS
<1>1. ASSUME NEW r \in Request, GetStep(r)
      PROVE  StaleHasCause'
  <2>1. CASE Hit(r) \/ Miss(r) \/ ReadFound(r) \/ ReadFails(r) \/ StoreIsLost(r)
    BY <2>1, QuietStep DEF Hit, Miss, ReadFound, ReadFails, StoreIsLost, Return, At
  <2>2. CASE Store(r)
    <3> DEFINE k0 == requests[r].key
    <3>1. k0 \in Key
      BY <2>2, ServingTyped DEF Store
    <3> SUFFICES ASSUME NEW k \in Key, Differs(k)' PROVE causes'[k] # {} \/ Pending(k)'
      BY DEF StaleHasCause
    <3>2. CASE k = k0
      BY <2>2, <3>1, <3>2 DEF Store, Differs, Cached, TypeOK
    <3>3. CASE k # k0
      <4>1. Differs(k) /\ causes'[k] = causes[k]
        BY <2>2, <3>1, <3>3 DEF Store, Differs, Cached, TypeOK
      <4>2. Pending(k) => Pending(k)'
        BY <2>2 DEF Store, Return, Goto, Pending, At, TypeOK
      <4> QED
        BY <4>1, <4>2 DEF StaleHasCause
    <3> QED
      BY <3>2, <3>3
  <2> QED
    BY <1>1, <2>1, <2>2 DEF GetStep
<1>2. ASSUME NEW r \in Request, NEW k0 \in Key, At(r, "invalidate"), Deleted(r, k0)
      PROVE  \A k \in Key \ {k0} : Pending(k) => Pending(k)'
  <2> DEFINE left == requests[r].left \ {k0}
  <2> SUFFICES ASSUME NEW k \in Key \ {k0}, NEW q \in Request,
                      At(q, "invalidate"), k \in requests[q].left
               PROVE  Pending(k)'
    BY DEF Pending
  <2>1. CASE q # r
    BY <1>2, <2>1 DEF Deleted, Return, Goto, Pending, At, TypeOK
  <2>2. CASE q = r
    <3>1. k \in left
      BY <2>2
    <3>2. requests[r] \in [pc : {"invalidate"}, row : Row, answer : Answer, left : SUBSET Key]
      BY <1>2, ServingTyped
    <3>3. /\ requests'[r] = [requests[r] EXCEPT !.left = left]
          /\ [requests[r] EXCEPT !.left = left] \in Serving
      BY <1>2, <3>1, <3>2 DEF Deleted, TypeOK, Serving
    <3>4. requests'[r].left = left /\ requests'[r].pc = "invalidate" /\ requests'[r] # Idle
      BY <3>2, <3>3, CacheAssumption
    <3> QED
      BY <3>1, <3>4 DEF Pending, At
  <2> QED
    BY <2>1, <2>2
<1>3. ASSUME NEW r \in Request, WriteStep(r)
      PROVE  StaleHasCause'
  <2> DEFINE row == requests[r].row
  <2>1. CASE Update(r)
    BY <2>1, WriteThenInvalidate DEF Update, AtOp, WriteRow, Answer
  <2>2. CASE Delete(r)
    BY <2>2, WriteThenInvalidate DEF Delete, AtOp, Answer
  <2>3. CASE UpdateProfile(r) \/ NotFound(r) \/ WriteFails(r) \/ PostFails(r)
    BY <2>3, QuietStep
       DEF UpdateProfile, NotFound, WriteFails, PostFails, Invalidating, Return, AtOp, At
  <2>4. ASSUME NEW k0 \in Key, Invalidate(r, k0)
        PROVE  StaleHasCause'
    <3>1. \A k \in Key : Differs(k)' => k # k0 /\ Differs(k) /\ causes'[k] = causes[k]
      BY <2>4 DEF Invalidate, Differs, Cached, TypeOK
    <3> QED
      BY <1>2, <2>4, <3>1 DEF Invalidate, StaleHasCause
  <2>5. ASSUME NEW k0 \in Key, InvalidateFails(r, k0)
        PROVE  StaleHasCause'
    <3>1. \A k \in Key : Differs(k)' => Differs(k)
      BY <2>5 DEF InvalidateFails, Differs, Cached
    <3>2. \A k \in Key \ {k0} : causes'[k] = causes[k]
      BY <2>5 DEF InvalidateFails, TypeOK
    <3>3. Cached(k0) => causes'[k0] # {}
      BY <2>5 DEF InvalidateFails, TypeOK
    <3> QED
      BY <1>2, <2>5, <3>1, <3>2, <3>3 DEF InvalidateFails, StaleHasCause, Differs
  <2>6. CASE Create(r) \/ Accept(r)
    <3>1. /\ row \in Row /\ At(r, "write")
          /\ \E v : rows' = [rows EXCEPT ![row] = v]
          /\ UNCHANGED cache
      BY <2>6, ServingTyped DEF Create, Accept, AtOp, WriteRow
    <3>2. \A k \in Key : Pending(k) => Pending(k)'
      BY <2>6, <3>1 DEF Create, Accept, Return, Goto, Pending, At, TypeOK
    <3>3. ASSUME NEW k \in Key, Differs(k)'
          PROVE  causes'[k] # {} \/ Pending(k)'
      <4>1. Cached(k)
        BY <3>1, <3>3 DEF Differs, Cached
      <4>2. CASE RowOf(k) = row
        BY <2>6, <4>1, <4>2 DEF Create, Accept, LeaveCached
      <4>3. CASE RowOf(k) # row
        <5>1. Differs(k)
          BY <3>1, <3>3, <4>3, KeyHasRow DEF Differs, Cached, TypeOK
        <5>2. causes'[k] = causes[k]
          BY <2>6, <4>3 DEF Create, Accept, LeaveCached
        <5> QED
          BY <3>2, <5>1, <5>2 DEF StaleHasCause
      <4> QED
        BY <4>2, <4>3
    <3> QED
      BY <3>3 DEF StaleHasCause
  <2> QED
    BY <1>3, <2>1, <2>2, <2>3, <2>4, <2>5, <2>6 DEF WriteStep
<1>4. ASSUME NEW r \in Request, NEW k \in Key, Get(r, k)
      PROVE  StaleHasCause'
  BY <1>4, QuietStep DEF Get, At
<1>5. ASSUME NEW r \in Request, NEW row \in Row,
             NEW op \in {"update", "delete", "create", "accept"}, Begin(r, op, row)
      PROVE  StaleHasCause'
  BY <1>5, QuietStep DEF Begin, At
<1>6. ASSUME NEW k0 \in Key, Expire(k0)
      PROVE  StaleHasCause'
  <2>1. \A k \in Key : Differs(k)' => Differs(k) /\ causes'[k] = causes[k]
    BY <1>6 DEF Expire, Differs, Cached, TypeOK
  <2>2. \A k \in Key : Pending(k) => Pending(k)'
    BY <1>6 DEF Expire, Pending, At
  <2> QED
    BY <2>1, <2>2 DEF StaleHasCause
<1>7. CASE Restart
  <2> SUFFICES ASSUME NEW k \in Key, Differs(k)' PROVE causes'[k] # {}
    BY DEF StaleHasCause
  <2>1. Cached(k) /\ Differs(k)
    BY <1>7 DEF Restart, Differs, Cached
  <2> QED
    BY <1>7, <2>1 DEF Restart, StaleHasCause
<1>8. CASE UNCHANGED vars
  BY <1>8 DEF vars, StaleHasCause, Differs, Cached, Pending, At
<1> QED
  BY <1>1, <1>3, <1>4, <1>5, <1>6, <1>7, <1>8 DEF Next

\* However GETs, writes, lost deletions and crashes interleave, an entry that
\* is not its row's content is about to be deleted or has one of three causes.
THEOREM StaleEntriesHaveCauses == Spec => []StaleHasCause
<1> QED
  BY Typed, InitStaleHasCause, StepStaleHasCause, PTL DEF Spec
=============================================================================
