------------------------- MODULE MCGroupMembership -------------------------
(* Instances of GroupMembership for TLC.                                    *)
EXTENDS GroupMembership, TLC

\* Players are interchangeable, those that invite among themselves.
Symmetry == {f \in Permutations(Players) : \A p \in Inviters : f[p] \in Inviters}
=============================================================================
