------------------------------ MODULE LFGRoles ------------------------------
(***************************************************************************)
(* The role solver of the dungeon finder (engine/world/lfg.go,             *)
(* lfgCheckGroupRoles): do the roles that the members offer resolve to one *)
(* role each, with no more tanks, healers and damage dealers than a        *)
(* dungeon group takes?  The leader bit takes no part and is left out.     *)
(***************************************************************************)
EXTENDS Integers, FiniteSets

CONSTANTS TanksNeeded, HealersNeeded, DPSNeeded

ASSUME NeededAssumption ==
  TanksNeeded \in Nat /\ HealersNeeded \in Nat /\ DPSNeeded \in Nat

Role == {"tank", "healer", "dps"}
Needed == [tank |-> TanksNeeded, healer |-> HealersNeeded, dps |-> DPSNeeded]
GroupSize == TanksNeeded + HealersNeeded + DPSNeeded

Unresolved == <<>>

\* One call of the solver: the first member that offers more than one role has
\* one of them taken away, damage first, then healer, then tank, and the solver
\* is asked again.  Where no choice serves the first such member none serves
\* the others, so the code's further tries at them come to the same.
Settle(S, roles, solve) ==
  LET settled(r) == {m \in S : roles[m] = {r}}
      several == {m \in S : Cardinality(roles[m]) > 1}
      first == CHOOSE m \in several : TRUE
      without(r) == IF r \in roles[first]
                      THEN solve[[roles EXCEPT ![first] = @ \ {r}]]
                      ELSE Unresolved
  IN IF \/ S = {} \/ \E m \in S : roles[m] = {}
        \/ \E r \in Role : Cardinality(settled(r)) > Needed[r] THEN Unresolved
     ELSE IF several = {} THEN roles
     ELSE IF without("dps") # Unresolved THEN without("dps")
     ELSE IF without("healer") # Unresolved THEN without("healer")
     ELSE without("tank")

\* The members S with what each offers come to one role each.
Resolve(S, offered) ==
  LET solve[roles \in [S -> SUBSET Role]] == Settle(S, roles, solve)
  IN solve[offered]

CheckGroupRoles(S, offered) == Resolve(S, [m \in S |-> offered[m]]) # Unresolved

-----------------------------------------------------------------------------
(* What the solver is for *)

\* The ways to give each member one of the roles it offers.
Legal(S, offered) == {a \in [S -> Role] :
  /\ \A m \in S : a[m] \in offered[m]
  /\ \A r \in Role : Cardinality({m \in S : a[m] = r}) <= Needed[r]}

\* The solver finds one of them wherever there is one.
Solves(S, offered) ==
  IF Legal(S, offered) = {} THEN Resolve(S, offered) = Unresolved
  ELSE \E a \in Legal(S, offered) : Resolve(S, offered) = [m \in S |-> {a[m]}]
=============================================================================
