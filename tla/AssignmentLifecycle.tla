------------------------ MODULE AssignmentLifecycle ------------------------
(***************************************************************************)
(* What an assignment goes through, whatever requests overlap: it is set,  *)
(* handed in, reviewed, handed in again, and deleted for good.  Handing in *)
(* something older than what was handed in already changes nothing, and    *)
(* neither does a review of anything but the latest.                       *)
(***************************************************************************)
EXTENDS Naturals

CONSTANTS
  Assignment,
  Stamp              \* when something may have been handed in

VARIABLE progress    \* the phase each assignment is in, and when its latest work
                     \* was handed in; 0 before that, and after its deletion

Move(a, phase, latest) ==
  progress' = [progress EXCEPT ![a] = [phase |-> phase, latest |-> latest]]

Create(a) == progress[a].phase = "unborn" /\ Move(a, "open", 0)

\* What is handed in later than the latest so far is the latest from then on.
Submit(a) ==
  /\ progress[a].phase \in {"open", "submitted", "reviewed"}
  /\ \E t \in Stamp : /\ progress[a].phase = "open" \/ progress[a].latest < t
                      /\ Move(a, "submitted", t)

Review(a) ==
  /\ progress[a].phase = "submitted"
  /\ Move(a, "reviewed", progress[a].latest)

Delete(a) ==
  /\ progress[a].phase \in {"open", "submitted", "reviewed"}
  /\ Move(a, "deleted", 0)

Init == progress = [a \in Assignment |-> [phase |-> "unborn", latest |-> 0]]

Next == \E a \in Assignment : Create(a) \/ Submit(a) \/ Review(a) \/ Delete(a)

Spec == Init /\ [][Next]_progress
=============================================================================
