--------------------------- MODULE MCDungeonFinder ---------------------------
(* Instances of DungeonFinder for TLC.                                     *)
EXTENDS DungeonFinder, TLC

CONSTANTS p, q, r, g

PartyOfTwo == [x \in {g} |-> {p, q}]
LedByP == [x \in {g} |-> p]
AnyRole == {Role}

\* The solver against its meaning, for every offer of up to five members.
Five == INSTANCE LFGRoles WITH TanksNeeded <- 1, HealersNeeded <- 1, DPSNeeded <- 3

ASSUME SolverAssumption ==
  \A n \in 1..5 : \A offered \in [1..n -> SUBSET Role] : Five!Solves(1..n, offered)
=============================================================================
