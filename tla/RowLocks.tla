----------------------------- MODULE RowLocks -----------------------------
(***************************************************************************)
(* The transactions of the schedule service, statement by statement, on    *)
(* one slot and the lesson in it, under the row locks of PostgreSQL (READ  *)
(* COMMITTED).  Schedule has them as single steps; here is why it may.     *)
(*                                                                         *)
(*   booking   SELECT the slot FOR UPDATE, UPDATE slots, INSERT a lesson,  *)
(*             COMMIT                                                      *)
(*   cancel    UPDATE lessons, UPDATE slots, COMMIT                        *)
(*   delete    DELETE the slot                                             *)
(*                                                                         *)
(* They take the two rows in opposite orders: a booking that holds the     *)
(* slot waits at the unique index for whoever holds the lesson's row.      *)
(* Every transaction is about one slot, so that one slot shows it all.     *)
(***************************************************************************)
EXTENDS Naturals

CONSTANT Txn    \* the connections that run transactions

Nobody == "nobody"

ASSUME TxnAssumption == Nobody \notin Txn

VARIABLES
  slot,        \* the slot's row as committed: unborn, free, booked or gone
  lesson,      \* whether a lesson of the slot is committed
  pc,          \* the statement each transaction is at
  slotLock,    \* who holds the row of the slot
  lessonLock   \* who holds the row of the lesson, or its entry in the index

vars == <<slot, lesson, pc, slotLock, lessonLock>>

Booking == {"select", "mark", "insert", "commit_booking"}
Cancel  == {"cancel", "release", "commit_cancel"}

TypeOK ==
  /\ slot \in {"unborn", "free", "booked", "gone"}
  /\ lesson \in BOOLEAN
  /\ pc \in [Txn -> {"idle", "delete"} \cup Booking \cup Cancel]
  /\ slotLock \in Txn \cup {Nobody}
  /\ lessonLock \in Txn \cup {Nobody}

Init ==
  /\ slot = "unborn"
  /\ lesson = FALSE
  /\ pc = [t \in Txn |-> "idle"]
  /\ slotLock = Nobody
  /\ lessonLock = Nobody

-----------------------------------------------------------------------------
Goto(t, s) == pc' = [pc EXCEPT ![t] = s]

\* A row that nobody else has locked.
Free(lock, t) == lock \in {Nobody, t}

\* Commit and rollback alike let go of what the transaction has locked.
Unlock(t) ==
  /\ slotLock' = IF slotLock = t THEN Nobody ELSE slotLock
  /\ lessonLock' = IF lessonLock = t THEN Nobody ELSE lessonLock

\* Mutant: an error returns without the deferred Rollback.
ReturnWithoutRollback(t) ==
  /\ Goto(t, "idle")
  /\ UNCHANGED <<slot, lesson, slotLock, lessonLock>>

\* What an error in the transaction, or of its connection, comes to.
Rollback(t) ==
  /\ Goto(t, "idle")
  /\ Unlock(t)
  /\ UNCHANGED <<slot, lesson>>

CreateSlot ==
  /\ slot = "unborn"
  /\ slot' = "free"
  /\ UNCHANGED <<lesson, pc, slotLock, lessonLock>>

\* The handlers have read the slot, or the lesson and its slot, before.
Begin(t) ==
  /\ pc[t] = "idle"
  /\ slot # "unborn"
  /\ \E s \in {"select", "delete"} \cup (IF lesson THEN {"cancel"} ELSE {}) : Goto(t, s)
  /\ UNCHANGED <<slot, lesson, slotLock, lessonLock>>

-----------------------------------------------------------------------------
(* CreateLessonAndBookSlot *)

\* Mutant: is_booked of the locked row is not looked at.
SelectForUpdateUnchecked(t) ==
  /\ pc[t] = "select"
  /\ Free(slotLock, t)
  /\ IF slot \in {"free", "booked"}
       THEN /\ slotLock' = t
            /\ Goto(t, "mark")
            /\ UNCHANGED <<slot, lesson, lessonLock>>
       ELSE Rollback(t)

\* The lock is waited for, and the row is read as it is then.
SelectForUpdate(t) ==
  /\ pc[t] = "select"
  /\ Free(slotLock, t)
  /\ IF slot = "free"
       THEN /\ slotLock' = t
            /\ Goto(t, "mark")
            /\ UNCHANGED <<slot, lesson, lessonLock>>
       ELSE Rollback(t)

\* Mutant: the statement is run on the pool, outside the transaction.
MarkBookedOutside(t) ==
  /\ pc[t] = "mark"
  /\ Goto(t, "insert")
  /\ slot' = "booked"
  /\ UNCHANGED <<lesson, slotLock, lessonLock>>

\* The row is the transaction's own already; nobody else sees it booked yet.
MarkBooked(t) ==
  /\ pc[t] = "mark"
  /\ Goto(t, "insert")
  /\ UNCHANGED <<slot, lesson, slotLock, lessonLock>>

\* Mutant: the lessons have no unique index.
InsertLessonUnindexed(t) ==
  /\ pc[t] = "insert"
  /\ Free(lessonLock, t)
  /\ lessonLock' = t
  /\ Goto(t, "commit_booking")
  /\ UNCHANGED <<slot, lesson, slotLock>>

\* unique_slot_lesson: the entry of a lesson that another transaction is
\* writing is waited for; an entry that is there is an error.
InsertLesson(t) ==
  /\ pc[t] = "insert"
  /\ Free(lessonLock, t)
  /\ IF lesson
       THEN Rollback(t)
       ELSE /\ lessonLock' = t
            /\ Goto(t, "commit_booking")
            /\ UNCHANGED <<slot, lesson, slotLock>>

CommitBooking(t) ==
  /\ pc[t] = "commit_booking"
  /\ slot' = "booked"
  /\ lesson' = TRUE
  /\ Goto(t, "idle")
  /\ Unlock(t)

-----------------------------------------------------------------------------
(* CancelLessonAndFreeSlot *)

UpdateLessonStatus(t) ==
  /\ pc[t] = "cancel"
  /\ Free(lessonLock, t)
  /\ lessonLock' = t
  /\ Goto(t, "release")
  /\ UNCHANGED <<slot, lesson, slotLock>>

ReleaseSlot(t) ==
  /\ pc[t] = "release"
  /\ Free(slotLock, t)
  /\ slotLock' = t
  /\ Goto(t, "commit_cancel")
  /\ UNCHANGED <<slot, lesson, lessonLock>>

CommitCancel(t) ==
  /\ pc[t] = "commit_cancel"
  /\ slot' = "free"
  /\ Goto(t, "idle")
  /\ Unlock(t)
  /\ UNCHANGED lesson

-----------------------------------------------------------------------------
\* DeleteSlot: a transaction of its own.  The foreign key of a lesson keeps
\* the slot; a slot that is gone is an error, too.
Delete(t) ==
  /\ pc[t] = "delete"
  /\ Free(slotLock, t)
  /\ slot' = IF lesson THEN slot ELSE "gone"
  /\ Goto(t, "idle")
  /\ UNCHANGED <<lesson, slotLock, lessonLock>>

\* PostgreSQL looks for circles of waiters and aborts one of them.
WaitsFor(t, u) ==
  /\ t # u
  /\ \/ pc[t] \in {"select", "release", "delete"} /\ slotLock = u
     \/ pc[t] \in {"insert", "cancel"} /\ lessonLock = u

Deadlocked(t) == \E u \in Txn : WaitsFor(t, u) /\ WaitsFor(u, t)

BreakDeadlock(t) == Deadlocked(t) /\ Rollback(t)

\* The connection is lost, the context is cancelled, or the service stops.
Abort(t) == pc[t] # "idle" /\ Rollback(t)

Statement(t) ==
  \/ SelectForUpdate(t) \/ MarkBooked(t) \/ InsertLesson(t) \/ CommitBooking(t)
  \/ UpdateLessonStatus(t) \/ ReleaseSlot(t) \/ CommitCancel(t)
  \/ Delete(t)

Next ==
  \/ CreateSlot
  \/ \E t \in Txn : Begin(t) \/ Statement(t) \/ BreakDeadlock(t) \/ Abort(t)

\* Waiters for a lock are queued, so that none is passed over for ever; the
\* search for deadlocks starts when a waiter has waited for deadlock_timeout.
Fairness ==
  \A t \in Txn : SF_vars(Statement(t)) /\ WF_vars(BreakDeadlock(t))

Spec == Init /\ [][Next]_vars /\ Fairness

-----------------------------------------------------------------------------
(* Properties *)

\* A row is held from the statement that takes it to the transaction's end.
HeldToTheEnd ==
  \A t \in Txn :
    /\ slotLock = t <=> pc[t] \in {"mark", "insert", "commit_booking", "commit_cancel"}
    /\ lessonLock = t <=> pc[t] \in {"commit_booking", "release", "commit_cancel"}

\* What a transaction goes by is still so when it commits: a booking's slot is
\* free and, once inserted, its lesson the only one; a cancellation's is there.
GroundsStand ==
  \A t \in Txn :
    /\ pc[t] \in {"mark", "insert", "commit_booking"} => slot = "free"
    /\ pc[t] = "commit_booking" => ~lesson
    /\ pc[t] \in Cancel => lesson

\* The row's flag and the lesson go together.
RowsAgree ==
  /\ slot = "booked" => lesson
  /\ slot \in {"unborn", "gone"} => ~lesson
  /\ slot = "unborn" => \A t \in Txn : pc[t] = "idle"

\* The row locks, as two statements in the code take them, are enough for what
\* it reads to hold until it commits, whatever the other transactions do.
LocksAreEnough == TypeOK /\ HeldToTheEnd /\ GroundsStand /\ RowsAgree

\* A deadlock between a booking and a cancellation arises only when the lesson
\* of the slot was cancelled before: whichever PostgreSQL aborts, the slot is
\* as it was, and a booking that goes on is refused by the index.
DeadlockOnlyWhenReleased ==
  (\E t \in Txn : Deadlocked(t)) => slot = "free" /\ lesson

\* Where the slot is in its life; a booked slot without a lesson is nowhere.
SlotPhase ==
  CASE slot = "unborn"           -> "unborn"
    [] slot = "free" /\ ~lesson  -> "free"
    [] slot = "booked" /\ lesson -> "taken"
    [] slot = "free" /\ lesson   -> "released"
    [] slot = "gone" /\ ~lesson  -> "removed"
    [] OTHER                     -> "torn"

Lifecycle == INSTANCE SlotLifecycle
               WITH Slot <- {"slot"}, phase <- [s \in {"slot"} |-> SlotPhase]

\* Statement by statement, with aborts at any of them, the transactions move
\* the slot along SlotLifecycle in single steps: none is seen half done.
TransactionsAreAtomic == Lifecycle!Spec

\* Every transaction ends, the ones that wait for each other too.
EveryTransactionEnds == \A t \in Txn : pc[t] # "idle" ~> pc[t] = "idle"
=============================================================================
