------------------------------ MODULE MCTrade ------------------------------
(* Instances of Trade for TLC.                                             *)
EXTENDS Trade, TLC

\* No definition names a session or an item.
Symmetry == Permutations(Racers) \cup Permutations(Sessions \ Racers)
              \cup Permutations(Items)
===========================================================================
