--------------------------- MODULE RowLocksProofs ---------------------------
(***************************************************************************)
(* For any number of connections: LocksAreEnough is inductive as it is,    *)
(* and with it no transaction of the schedule service is seen half done    *)
(* and no other deadlock arises than the harmless one.                     *)
(***************************************************************************)
EXTENDS RowLocks, TLAPS

-----------------------------------------------------------------------------
(* One lemma per kind of step *)

LEMMA RollbackKeeps ==
  ASSUME LocksAreEnough, NEW t \in Txn, pc[t] # "idle", Rollback(t)
  PROVE  LocksAreEnough'
<1> USE TxnAssumption DEF LocksAreEnough, Rollback, Unlock, Goto, Cancel
<1>1. TypeOK'
  BY DEF TypeOK, Booking
<1>2. HeldToTheEnd'
  BY DEF TypeOK, HeldToTheEnd
<1>3. GroundsStand'
  BY DEF TypeOK, GroundsStand
<1>4. RowsAgree'
  BY DEF TypeOK, RowsAgree
<1> QED
  BY <1>1, <1>2, <1>3, <1>4

LEMMA BookingKeeps ==
  ASSUME LocksAreEnough, NEW t \in Txn,
         SelectForUpdate(t) \/ MarkBooked(t) \/ InsertLesson(t) \/ CommitBooking(t)
  PROVE  LocksAreEnough'
<1> USE TxnAssumption DEF LocksAreEnough, Goto, Cancel, Free
<1>1. CASE SelectForUpdate(t)
  <2>1. CASE slot = "free"
    <3> USE <1>1, <2>1 DEF SelectForUpdate
    <3>1. TypeOK'
      BY DEF TypeOK, Booking
    <3>2. HeldToTheEnd'
      BY DEF TypeOK, HeldToTheEnd
    <3>3. GroundsStand'
      BY DEF TypeOK, GroundsStand
    <3>4. RowsAgree'
      BY DEF TypeOK, RowsAgree
    <3> QED
      BY <3>1, <3>2, <3>3, <3>4
  <2>2. CASE slot # "free"
    BY <1>1, <2>2, RollbackKeeps DEF SelectForUpdate
  <2> QED
    BY <2>1, <2>2
<1>2. CASE MarkBooked(t)
  <2> USE <1>2 DEF MarkBooked
  <2>1. TypeOK'
    BY DEF TypeOK, Booking
  <2>2. HeldToTheEnd'
    BY DEF TypeOK, HeldToTheEnd
  <2>3. GroundsStand'
    BY DEF TypeOK, GroundsStand
  <2>4. RowsAgree'
    BY DEF TypeOK, RowsAgree
  <2> QED
    BY <2>1, <2>2, <2>3, <2>4
<1>3. CASE InsertLesson(t)
  <2>1. CASE lesson
    BY <1>3, <2>1, RollbackKeeps DEF InsertLesson
  <2>2. CASE ~lesson
    <3> USE <1>3, <2>2 DEF InsertLesson
    <3>1. TypeOK'
      BY DEF TypeOK, Booking
    <3>2. HeldToTheEnd'
      BY DEF TypeOK, HeldToTheEnd
    <3>3. GroundsStand'
      BY DEF TypeOK, GroundsStand
    <3>4. RowsAgree'
      BY DEF TypeOK, RowsAgree
    <3> QED
      BY <3>1, <3>2, <3>3, <3>4
  <2> QED
    BY <2>1, <2>2
<1>4. CASE CommitBooking(t)
  <2> USE <1>4 DEF CommitBooking, Unlock
  <2>1. TypeOK'
    BY DEF TypeOK, Booking
  <2>2. HeldToTheEnd'
    BY DEF TypeOK, HeldToTheEnd
  \* Whoever else goes by a free slot, or by no lesson, holds a row t holds.
  <2>3. GroundsStand'
    BY DEF TypeOK, GroundsStand, HeldToTheEnd
  <2>4. RowsAgree'
    BY DEF TypeOK, RowsAgree
  <2> QED
    BY <2>1, <2>2, <2>3, <2>4
<1> QED
  BY <1>1, <1>2, <1>3, <1>4

LEMMA CancelKeeps ==
  ASSUME LocksAreEnough, NEW t \in Txn,
         UpdateLessonStatus(t) \/ ReleaseSlot(t) \/ CommitCancel(t)
  PROVE  LocksAreEnough'
<1> USE TxnAssumption DEF LocksAreEnough, Goto, Cancel, Free
<1>1. CASE UpdateLessonStatus(t)
  <2> USE <1>1 DEF UpdateLessonStatus
  <2>1. TypeOK'
    BY DEF TypeOK, Booking
  <2>2. HeldToTheEnd'
    BY DEF TypeOK, HeldToTheEnd
  <2>3. GroundsStand' /\ RowsAgree'
    BY DEF TypeOK, GroundsStand, RowsAgree
  <2> QED
    BY <2>1, <2>2, <2>3
<1>2. CASE ReleaseSlot(t)
  <2> USE <1>2 DEF ReleaseSlot
  <2>1. TypeOK'
    BY DEF TypeOK, Booking
  <2>2. HeldToTheEnd'
    BY DEF TypeOK, HeldToTheEnd
  <2>3. GroundsStand' /\ RowsAgree'
    BY DEF TypeOK, GroundsStand, RowsAgree
  <2> QED
    BY <2>1, <2>2, <2>3
<1>3. CASE CommitCancel(t)
  <2> USE <1>3 DEF CommitCancel, Unlock
  <2>1. TypeOK'
    BY DEF TypeOK, Booking
  <2>2. HeldToTheEnd'
    BY DEF TypeOK, HeldToTheEnd
  <2>3. GroundsStand'
    BY DEF TypeOK, GroundsStand
  <2>4. RowsAgree'
    BY DEF TypeOK, RowsAgree, GroundsStand
  <2> QED
    BY <2>1, <2>2, <2>3, <2>4
<1> QED
  BY <1>1, <1>2, <1>3

LEMMA OthersKeep ==
  ASSUME LocksAreEnough,
         CreateSlot \/ \E t \in Txn : Begin(t) \/ Delete(t)
  PROVE  LocksAreEnough'
<1> USE TxnAssumption DEF LocksAreEnough, Goto, Cancel, Free
<1>1. CASE CreateSlot
  BY <1>1 DEF CreateSlot, TypeOK, HeldToTheEnd, GroundsStand, RowsAgree
<1>2. ASSUME NEW t \in Txn, Begin(t)
      PROVE  LocksAreEnough'
  <2> USE <1>2 DEF Begin
  <2>1. TypeOK'
    BY DEF TypeOK, Booking
  <2>2. HeldToTheEnd'
    BY DEF TypeOK, HeldToTheEnd
  <2>3. GroundsStand' /\ RowsAgree'
    BY DEF TypeOK, GroundsStand, RowsAgree
  <2> QED
    BY <2>1, <2>2, <2>3
<1>3. ASSUME NEW t \in Txn, Delete(t)
      PROVE  LocksAreEnough'
  <2> USE <1>3 DEF Delete
  <2>1. TypeOK'
    BY DEF TypeOK, Booking
  <2>2. HeldToTheEnd'
    BY DEF TypeOK, HeldToTheEnd
  \* A booking under way has the slot's row, which Delete would wait for.
  <2>3. GroundsStand'
    BY DEF TypeOK, GroundsStand, HeldToTheEnd
  <2>4. RowsAgree'
    BY DEF TypeOK, RowsAgree
  <2> QED
    BY <2>1, <2>2, <2>3, <2>4
<1> QED
  BY <1>1, <1>2, <1>3

LEMMA StepKeeps == LocksAreEnough /\ [Next]_vars => LocksAreEnough'
<1> SUFFICES ASSUME LocksAreEnough, [Next]_vars
             PROVE  LocksAreEnough'
  OBVIOUS
<1>1. CASE UNCHANGED vars
  BY <1>1 DEF vars, LocksAreEnough, TypeOK, HeldToTheEnd, GroundsStand, RowsAgree, Cancel
<1>2. ASSUME NEW t \in Txn, BreakDeadlock(t) \/ Abort(t)
      PROVE  LocksAreEnough'
  <2>1. pc[t] # "idle"
    BY <1>2 DEF BreakDeadlock, Abort, Deadlocked, WaitsFor
  <2> QED
    BY <1>2, <2>1, RollbackKeeps DEF BreakDeadlock, Abort
<1> QED
  BY <1>1, <1>2, BookingKeeps, CancelKeeps, OthersKeep DEF Next, Statement

-----------------------------------------------------------------------------
(* Theorems *)

\* The row locks of the two transactions protect what they read until they
\* commit, with any number of connections.
THEOREM LocksSuffice == Spec => []LocksAreEnough
<1>1. Init => LocksAreEnough
  BY TxnAssumption
     DEF Init, LocksAreEnough, TypeOK, HeldToTheEnd, GroundsStand, RowsAgree, Cancel
<1> QED
  BY <1>1, StepKeeps, PTL DEF Spec

LEMMA DeadlockedPair ==
  ASSUME LocksAreEnough, NEW t \in Txn, Deadlocked(t)
  PROVE  slot = "free" /\ lesson
<1>1. PICK u \in Txn : WaitsFor(t, u) /\ WaitsFor(u, t)
  BY DEF Deadlocked
\* One holds the slot and waits for the lesson: it is a booking at its insert;
\* the other holds the lesson and waits for the slot: it is a cancellation.
<1>2. \/ pc[t] = "insert" /\ pc[u] = "release"
      \/ pc[u] = "insert" /\ pc[t] = "release"
  BY <1>1, TxnAssumption DEF WaitsFor, LocksAreEnough, HeldToTheEnd
<1> QED
  BY <1>1, <1>2 DEF LocksAreEnough, GroundsStand, Cancel

\* Only a booking of a slot whose lesson was cancelled can deadlock.
THEOREM DeadlocksAreHarmless == Spec => []DeadlockOnlyWhenReleased
<1>1. LocksAreEnough => DeadlockOnlyWhenReleased
  BY DeadlockedPair DEF DeadlockOnlyWhenReleased
<1> QED
  BY <1>1, LocksSuffice, PTL

-----------------------------------------------------------------------------
(* Refinement *)

Move(from, to) == SlotPhase = from /\ SlotPhase' = to

LEMMA PhaseSteps ==
  ASSUME LocksAreEnough, [Next]_vars
  PROVE  \/ SlotPhase' = SlotPhase
         \/ Move("unborn", "free") \/ Move("free", "taken")
         \/ Move("taken", "released") \/ Move("free", "removed")
<1>1. CASE UNCHANGED <<slot, lesson>>
  BY <1>1 DEF SlotPhase
<1>2. CASE CreateSlot
  BY <1>2 DEF CreateSlot, Move, SlotPhase, LocksAreEnough, RowsAgree
<1>3. ASSUME NEW t \in Txn, CommitBooking(t)
      PROVE  Move("free", "taken")
  BY <1>3 DEF CommitBooking, Move, SlotPhase, LocksAreEnough, GroundsStand
<1>4. ASSUME NEW t \in Txn, CommitCancel(t)
      PROVE  SlotPhase' = SlotPhase \/ Move("taken", "released")
  <2>1. lesson /\ slot \in {"free", "booked"}
    BY <1>4 DEF CommitCancel, LocksAreEnough, TypeOK, GroundsStand, RowsAgree, Cancel
  <2> QED
    BY <1>4, <2>1 DEF CommitCancel, Move, SlotPhase
<1>5. ASSUME NEW t \in Txn, Delete(t)
      PROVE  SlotPhase' = SlotPhase \/ Move("free", "removed")
  <2>1. ~lesson => slot \in {"free", "gone"}
    BY <1>5 DEF Delete, LocksAreEnough, TypeOK, RowsAgree
  <2> QED
    BY <1>5, <2>1 DEF Delete, Move, SlotPhase
<1>6. ASSUME NEW t \in Txn,
             Begin(t) \/ SelectForUpdate(t) \/ MarkBooked(t) \/ InsertLesson(t)
             \/ UpdateLessonStatus(t) \/ ReleaseSlot(t) \/ Rollback(t)
      PROVE  UNCHANGED <<slot, lesson>>
  BY <1>6 DEF Begin, SelectForUpdate, MarkBooked, InsertLesson, UpdateLessonStatus,
              ReleaseSlot, Rollback
<1> QED
  BY <1>1, <1>2, <1>3, <1>4, <1>5, <1>6
     DEF Next, vars, Statement, BreakDeadlock, Abort

\* Statement by statement, the transactions implement the life of a slot.
THEOREM ImplementsLifecycle == Spec => TransactionsAreAtomic
<1> DEFINE Phase == [s \in {"slot"} |-> SlotPhase]
<1>1. Init => Lifecycle!Init
  BY DEF Init, Lifecycle!Init, SlotPhase
<1>2. LocksAreEnough /\ [Next]_vars => [Lifecycle!Next]_Phase
  <2> SUFFICES ASSUME LocksAreEnough, [Next]_vars
               PROVE  Phase' = Phase \/ Lifecycle!Next
    OBVIOUS
  <2>1. ASSUME NEW from, NEW to, Move(from, to)
        PROVE  Lifecycle!Move("slot", from, to)
    BY <2>1 DEF Move, Lifecycle!Move
  <2>2. CASE SlotPhase' = SlotPhase
    BY <2>2
  <2> QED
    BY <2>1, <2>2, PhaseSteps
       DEF Lifecycle!Next, Lifecycle!Offer, Lifecycle!Take, Lifecycle!Release, Lifecycle!Remove
<1> QED
  BY <1>1, <1>2, LocksSuffice, PTL DEF Spec, TransactionsAreAtomic, Lifecycle!Spec
=============================================================================
