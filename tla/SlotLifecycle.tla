--------------------------- MODULE SlotLifecycle ---------------------------
(***************************************************************************)
(* What the schedule service promises about one slot of a tutor's          *)
(* calendar, whatever its handlers are doing: a slot is offered, may be    *)
(* taken once, and once released it is neither taken again nor removed.    *)
(* "Each slot can be used only once" (schedule_service/README.md:14).      *)
(*                                                                         *)
(*    unborn --Offer--> free --Take--> taken --Release--> released         *)
(*                       |                                                 *)
(*                       +---Remove--> removed                             *)
(***************************************************************************)
CONSTANT Slot

VARIABLE phase

Phase == {"unborn", "free", "taken", "released", "removed"}

Move(s, from, to) == /\ phase[s] = from
                     /\ phase' = [phase EXCEPT ![s] = to]

Init == phase = [s \in Slot |-> "unborn"]

Offer(s)   == Move(s, "unborn", "free")
Take(s)    == Move(s, "free", "taken")
Release(s) == Move(s, "taken", "released")
Remove(s)  == Move(s, "free", "removed")

Next == \E s \in Slot : Offer(s) \/ Take(s) \/ Release(s) \/ Remove(s)

Spec == Init /\ [][Next]_phase
=============================================================================
