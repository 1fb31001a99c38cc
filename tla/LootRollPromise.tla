-------------------------- MODULE LootRollPromise --------------------------
(***************************************************************************)
(* What the rolls for one row promise: they are held one after the other,  *)
(* and each goes forward through its phases, so that it is closed once,    *)
(* drawn once and its item handed out at most once.                        *)
(***************************************************************************)
CONSTANTS RollIds
VARIABLE phase

Init == phase = [r \in RollIds |-> "future"]

Move(r, from, to) == phase[r] = from /\ phase' = [phase EXCEPT ![r] = to]

Start(r) == /\ \A q \in RollIds : phase[q] # "open"
            /\ Move(r, "future", "open")
Cancel(r) == Move(r, "open", "settled")  \* the loot is gone
Close(r) == Move(r, "open", "closed")
Draw(r) == Move(r, "closed", "drawn")
Award(r) == Move(r, "drawn", "awarded")
Release(r) == Move(r, "drawn", "settled")  \* for all, or kept for the winner
Finish(r) == Move(r, "awarded", "settled")

Next == \E r \in RollIds : \/ Start(r) \/ Cancel(r) \/ Close(r) \/ Draw(r)
                            \/ Award(r) \/ Release(r) \/ Finish(r)

Spec == Init /\ [][Next]_phase
=============================================================================
