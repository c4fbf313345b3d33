---------------------------- MODULE GatewayCache ----------------------------
(***************************************************************************)
(* The gateway's Redis cache in front of the tables of the user service.   *)
(* A GET looks its key up, and on a miss calls the user service and stores *)
(* the answer for five minutes.  A PATCH or DELETE calls the user service  *)
(* and then deletes the keys of the row, whatever the call answered.       *)
(* Creating a pair and accepting an invitation leave the cache alone.      *)
(*                                                                         *)
(* Nothing orders requests: a GET may hold an answer while the row is      *)
(* changed and its keys are deleted, and store it afterwards.              *)
(*                                                                         *)
(* A row stands for the number of the write that gave it its content, as   *)
(* edited_at does.  Users and profiles are there from the start, pairs may *)
(* be.                                                                     *)
(***************************************************************************)
EXTENDS Naturals

CONSTANTS
  User, Pair,        \* ids of users; (tutor, student) pairs
  Request,           \* goroutines of the gateway
  MaxWrites,         \* bound: the writes a behaviour may do
  NoRow,             \* no row with this key
  Absent,            \* no entry under this key
  Idle               \* a goroutine serving no request

VARIABLES
  rows,              \* the user service's tables
  cache,             \* Redis
  requests,          \* what each goroutine of the gateway is doing
  clock,             \* the number of the last write
  causes             \* history: what may have made an entry differ from its row

vars == <<rows, cache, requests, clock, causes>>

-----------------------------------------------------------------------------
(* Types *)

Version == 0..MaxWrites

Row == ({"users", "tutor_profiles"} \X User) \cup ({"tutor_students"} \X Pair)

\* user:id, user-public:id, tutor-profile:id, tutor-student:tutor:student.
Key == ({"user", "user-public", "tutor-profile"} \X User)
         \cup ({"tutor-student"} \X Pair)

\* The row the answer under a key is made from.
RowOf(k) ==
  << CASE k[1] \in {"user", "user-public"} -> "users"
       [] k[1] = "tutor-profile" -> "tutor_profiles"
       [] k[1] = "tutor-student" -> "tutor_students", k[2] >>

KeysOf(row) == {k \in Key : RowOf(k) = row}

Entry == [version : Version, expires : BOOLEAN]

\* What a PATCH or DELETE is answered: no_fields is the user service's error
\* for an update of nothing.
Answer == {"ok", "not_found", "no_fields", "error"}

\* pc names the next call: to Redis (lookup, store, invalidate) or to the
\* user service (read, write).
Serving ==
       [pc : {"lookup", "read"}, key : Key]
  \cup [pc : {"store"}, key : Key, version : Version]
  \cup [pc : {"write"}, op : {"update", "delete", "create", "accept"}, row : Row]
  \cup [pc : {"invalidate"}, row : Row, answer : Answer, left : SUBSET Key]

Cause == {"not_invalidated", "lost_delete", "overlap"}

ASSUME CacheAssumption ==
  /\ MaxWrites \in Nat
  /\ NoRow \notin Version
  /\ Absent \notin Entry
  /\ Idle \notin Serving

\* In particular, what is cached is a row's content: never a failed answer.
TypeOK ==
  /\ rows \in [Row -> Version \cup {NoRow}]
  /\ cache \in [Key -> Entry \cup {Absent}]
  /\ requests \in [Request -> Serving \cup {Idle}]
  /\ clock \in Version
  /\ causes \in [Key -> SUBSET Cause]

-----------------------------------------------------------------------------
(* Helpers *)

At(r, pc) == requests[r] # Idle /\ requests[r].pc = pc

AtOp(r, op) == At(r, "write") /\ requests[r].op = op

Goto(r, serving) == requests' = [requests EXCEPT ![r] = serving]
Return(r)        == Goto(r, Idle)

Cached(k) == cache[k] # Absent

Differs(k) == Cached(k) /\ cache[k].version # rows[RowOf(k)]

\* A row is inserted or updated: it has the content of the newest write.
WriteRow(row) ==
  /\ clock < MaxWrites
  /\ clock' = clock + 1
  /\ rows' = [rows EXCEPT ![row] = clock + 1]

-----------------------------------------------------------------------------
(* GET: HandleWithCache *)

Get(r, k) ==
  /\ requests[r] = Idle
  /\ Goto(r, [pc |-> "lookup", key |-> k])
  /\ UNCHANGED <<rows, cache, clock, causes>>

\* The entry is the answer.
Hit(r) ==
  /\ At(r, "lookup")
  /\ Cached(requests[r].key)
  /\ Return(r)
  /\ UNCHANGED <<rows, cache, clock, causes>>

\* No entry, or an error of Redis, which Get reports as none.
Miss(r) ==
  /\ At(r, "lookup")
  /\ Goto(r, [pc |-> "read", key |-> requests[r].key])
  /\ UNCHANGED <<rows, cache, clock, causes>>

\* The user service reads the row; its answer will be stored.
ReadFound(r) ==
  /\ At(r, "read")
  /\ LET k == requests[r].key IN
       /\ rows[RowOf(k)] # NoRow
       /\ Goto(r, [pc |-> "store", key |-> k, version |-> rows[RowOf(k)]])
  /\ UNCHANGED <<rows, cache, clock, causes>>

\* No row, or any other error: answered with its status, nothing is stored.
ReadFails(r) ==
  /\ At(r, "read")
  /\ Return(r)
  /\ UNCHANGED <<rows, cache, clock, causes>>

StoreForGood(r) ==
  /\ At(r, "store")
  /\ LET k == requests[r].key  v == requests[r].version IN
       /\ cache' = [cache EXCEPT ![k] = [version |-> v, expires |-> FALSE]]
       /\ causes' = [causes EXCEPT ![k] =
                       IF v = rows[RowOf(k)] THEN {} ELSE {"overlap"}]
  /\ Return(r)
  /\ UNCHANGED <<rows, clock>>

\* The answer replaces whatever is stored, for five minutes.
Store(r) ==
  /\ At(r, "store")
  /\ LET k == requests[r].key  v == requests[r].version IN
       /\ cache' = [cache EXCEPT ![k] = [version |-> v, expires |-> TRUE]]
       /\ causes' = [causes EXCEPT ![k] =
                       IF v = rows[RowOf(k)] THEN {} ELSE {"overlap"}]
  /\ Return(r)
  /\ UNCHANGED <<rows, clock>>

\* Redis refuses, or the client has gone and its context is cancelled.
StoreIsLost(r) ==
  /\ At(r, "store")
  /\ Return(r)
  /\ UNCHANGED <<rows, cache, clock, causes>>

-----------------------------------------------------------------------------
(* PATCH, DELETE: Handle, then the deletion of the row's keys *)

Begin(r, op, row) ==
  /\ requests[r] = Idle
  /\ row[1] # "tutor_students" => op = "update"
  /\ Goto(r, [pc |-> "write", op |-> op, row |-> row])
  /\ UNCHANGED <<rows, cache, clock, causes>>

\* The call has been answered; the keys of the row are deleted next.
Invalidating(r, answer) ==
  Goto(r, [pc |-> "invalidate", row |-> requests[r].row, answer |-> answer,
           left |-> KeysOf(requests[r].row)])

UpdateThenReturn(r) ==
  /\ AtOp(r, "update")
  /\ requests[r].row[1] # "tutor_profiles"
  /\ WriteRow(requests[r].row)
  /\ Return(r)
  /\ UNCHANGED <<cache, causes>>

\* UpdateUser, UpdateTutorStudent: the UPDATE commits; its answer arrives or
\* is lost.
Update(r) ==
  /\ AtOp(r, "update")
  /\ LET row == requests[r].row IN
       /\ row[1] # "tutor_profiles"
       /\ rows[row] # NoRow
       /\ WriteRow(row)
  /\ \E answer \in {"ok", "error"} : Invalidating(r, answer)
  /\ UNCHANGED <<cache, causes>>

\* UpdateTutorProfile does not parse the body of the PATCH: the user service
\* is sent an update of no field, and refuses it.
UpdateProfile(r) ==
  /\ AtOp(r, "update")
  /\ requests[r].row[1] = "tutor_profiles"
  /\ Invalidating(r, "no_fields")
  /\ UNCHANGED <<rows, cache, clock, causes>>

\* DeleteTutorStudent: the row goes, and may be created anew.
Delete(r) ==
  /\ AtOp(r, "delete")
  /\ LET row == requests[r].row IN
       /\ rows[row] # NoRow
       /\ rows' = [rows EXCEPT ![row] = NoRow]
  /\ \E answer \in {"ok", "error"} : Invalidating(r, answer)
  /\ UNCHANGED <<cache, clock, causes>>

\* No such pair: answered NotFound, and invalidated all the same.
NotFound(r) ==
  /\ AtOp(r, "update") \/ AtOp(r, "delete")
  /\ rows[requests[r].row] = NoRow
  /\ Invalidating(r, "not_found")
  /\ UNCHANGED <<rows, cache, clock, causes>>

\* The call fails with no effect: refused, or the user service is away.
WriteFails(r) ==
  /\ AtOp(r, "update") \/ AtOp(r, "delete")
  /\ Invalidating(r, "error")
  /\ UNCHANGED <<rows, cache, clock, causes>>

\* One DEL: UpdateUser deletes user:id, then user-public:id.
NextToDelete(left, k) ==
  /\ k \in left
  /\ k[1] = "user-public" => <<"user", k[2]>> \notin left

Deleted(r, k) ==
  LET left == requests[r].left \ {k} IN
    IF left = {} THEN Return(r)
                 ELSE requests' = [requests EXCEPT ![r].left = left]

Invalidate(r, k) ==
  /\ At(r, "invalidate")
  /\ NextToDelete(requests[r].left, k)
  /\ cache' = [cache EXCEPT ![k] = Absent]
  /\ causes' = [causes EXCEPT ![k] = {}]
  /\ Deleted(r, k)
  /\ UNCHANGED <<rows, clock>>

\* Redis does not carry the DEL out: logged, and forgotten.
InvalidateFails(r, k) ==
  /\ At(r, "invalidate")
  /\ NextToDelete(requests[r].left, k)
  /\ causes' = [causes EXCEPT ![k] = IF Cached(k) THEN @ \cup {"lost_delete"} ELSE @]
  /\ Deleted(r, k)
  /\ UNCHANGED <<rows, cache, clock>>

-----------------------------------------------------------------------------
(* POST: the cache is left alone *)

\* The entries of a row that no one is going to delete.
LeaveCached(row) ==
  causes' = [k \in Key |-> IF Cached(k) /\ RowOf(k) = row
                             THEN causes[k] \cup {"not_invalidated"}
                             ELSE causes[k]]

\* CreateTutorStudent, when the pair is not there yet.
Create(r) ==
  /\ AtOp(r, "create")
  /\ rows[requests[r].row] = NoRow
  /\ WriteRow(requests[r].row)
  /\ LeaveCached(requests[r].row)
  /\ Return(r)
  /\ UNCHANGED cache

\* AcceptInvitationFromTutor updates the status of the pair.
Accept(r) ==
  /\ AtOp(r, "accept")
  /\ rows[requests[r].row] # NoRow
  /\ WriteRow(requests[r].row)
  /\ LeaveCached(requests[r].row)
  /\ Return(r)
  /\ UNCHANGED cache

\* AlreadyExists, NotFound, or any other error.
PostFails(r) ==
  /\ AtOp(r, "create") \/ AtOp(r, "accept")
  /\ Return(r)
  /\ UNCHANGED <<rows, cache, clock, causes>>

-----------------------------------------------------------------------------
\* The five minutes of an entry are over.
Expire(k) ==
  /\ Cached(k)
  /\ cache[k].expires
  /\ cache' = [cache EXCEPT ![k] = Absent]
  /\ causes' = [causes EXCEPT ![k] = {}]
  /\ UNCHANGED <<rows, requests, clock>>

\* The gateway stops: what it still had to delete stays cached.
Pending(k) == \E r \in Request : At(r, "invalidate") /\ k \in requests[r].left

Restart ==
  /\ requests' = [r \in Request |-> Idle]
  /\ causes' = [k \in Key |-> IF Cached(k) /\ Pending(k)
                             THEN causes[k] \cup {"lost_delete"}
                             ELSE causes[k]]
  /\ UNCHANGED <<rows, cache, clock>>

Init ==
  /\ rows \in [Row -> {0, NoRow}]
  /\ \A row \in Row : row[1] # "tutor_students" => rows[row] = 0
  /\ cache = [k \in Key |-> Absent]
  /\ requests = [r \in Request |-> Idle]
  /\ clock = 0
  /\ causes = [k \in Key |-> {}]

GetStep(r) ==
  \/ Hit(r) \/ Miss(r)
  \/ ReadFound(r) \/ ReadFails(r)
  \/ Store(r) \/ StoreIsLost(r)

WriteStep(r) ==
  \/ Update(r) \/ UpdateProfile(r) \/ Delete(r) \/ NotFound(r) \/ WriteFails(r)
  \/ \E k \in Key : Invalidate(r, k) \/ InvalidateFails(r, k)
  \/ Create(r) \/ Accept(r) \/ PostFails(r)

Next ==
  \/ \E r \in Request :
       \/ \E k \in Key : Get(r, k)
       \/ \E row \in Row, op \in {"update", "delete", "create", "accept"} :
            Begin(r, op, row)
       \/ GetStep(r)
       \/ WriteStep(r)
  \/ \E k \in Key : Expire(k)
  \/ Restart

Spec == Init /\ [][Next]_vars

\* Redis drops an entry once its time is over; nothing else is assumed.
FairSpec == Spec /\ \A k \in Key : WF_vars(Expire(k))

-----------------------------------------------------------------------------
(* Properties *)

\* An entry that is not its row's content is on its way out, or has one of
\* the three causes the handlers leave open: a POST that does not invalidate,
\* a DEL that was lost, a GET overtaken by a write.  In particular every PATCH
\* and DELETE invalidates every key of its row, and after the write.
StaleHasCause ==
  \A k \in Key : Differs(k) => causes[k] # {} \/ Pending(k)

\* Once the tables stay as they are, the cache agrees with them for good,
\* whatever was stored, lost and left undeleted before: an answer stored late
\* expires, and what is read from then on is right.
CacheConverges ==
  <>[][rows' = rows]_vars => <>[](\A k \in Key : ~Differs(k))
=============================================================================
