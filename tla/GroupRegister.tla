---------------------------- MODULE GroupRegister ----------------------------
(* What the table group_member promises across logouts and restarts: each    *)
(* character belongs to at most one group, enters it from no group while it  *)
(* has room, and leaves it alone or together with everybody else in it.      *)
EXTENDS Naturals, FiniteSets

CONSTANTS Players,    \* characters
          MaxMembers, \* maxGroupSize
          Groups      \* ids of stored groups; 0 is no group

VARIABLE member       \* the group that each character is stored in

Free(p) == member[p] = 0
Held(d) == {p \in Players : member[p] = d}

\* A character enters d while there is room.
Join(p, d) ==
  /\ Free(p) /\ Cardinality(Held(d)) < MaxMembers
  /\ member' = [member EXCEPT ![p] = d]

\* A member leaves or is removed.
Leave(p) == member' = [member EXCEPT ![p] = 0]

\* The group is dissolved.
Dissolve(d) == member' = [p \in Players |-> IF member[p] = d THEN 0 ELSE member[p]]

Init == member = [p \in Players |-> 0]

Next == \E d \in Groups : \/ Dissolve(d)
                          \/ \E p \in Players : Leave(p) \/ Join(p, d)

Spec == Init /\ [][Next]_member
=============================================================================
