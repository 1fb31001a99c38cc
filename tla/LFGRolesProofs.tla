--------------------------- MODULE LFGRolesProofs ---------------------------
(***************************************************************************)
(* The role solver is right for any finite number of members, whatever     *)
(* they offer and however many of each role are needed.                    *)
(*                                                                         *)
(* A call of the solver looks at smaller offers only, so that the function *)
(* it is defined by exists, and a smallest offer that it got wrong would   *)
(* be one it gets right.                                                   *)
(***************************************************************************)
EXTENDS LFGRoles, FiniteSetTheorems, WellFoundedInduction, TLAPS

LEMMA SmallestSubset ==
  ASSUME NEW S, IsFiniteSet(S), NEW T, T \subseteq SUBSET S, T # {}
  PROVE  \E A \in T : \A B \in T : B \subseteq A => B = A
<1>1. IsWellFoundedOn(StrictSubsetOrdering(S), SUBSET S)
  BY FS_StrictSubsetOrderingWellFounded, FS_FiniteSubsetsOfFinite
<1>2. PICK A \in T : \A B \in T : <<B, A>> \notin StrictSubsetOrdering(S)
  BY <1>1, WFMin
<1>3. \A B \in T : B \subseteq A => B = A
  BY <1>2 DEF StrictSubsetOrdering
<1> QED  BY <1>3

LEMMA RoleFinite == IsFiniteSet(Role) /\ \A R \in SUBSET Role : IsFiniteSet(R)
<1>1. IsFiniteSet({"tank"})
  BY FS_Singleton
<1>2. IsFiniteSet({"tank"} \cup {"healer"})
  BY <1>1, FS_AddElement
<1>3. IsFiniteSet({"tank"} \cup {"healer"} \cup {"dps"})
  BY <1>2, FS_AddElement
<1>4. Role = {"tank"} \cup {"healer"} \cup {"dps"}
  BY DEF Role
<1>5. IsFiniteSet(Role)
  BY <1>3, <1>4
<1> QED  BY <1>5, FS_Subset

Offers(S) == [S -> SUBSET Role]

\* An offer, as the set of its parts.
Parts(S, roles) == {x \in S \X Role : x[2] \in roles[x[1]]}

Below(S, sub, roles) == Parts(S, sub) \subseteq Parts(S, roles) /\ sub # roles

LEMMA PartsDetermine ==
  ASSUME NEW S, NEW a \in Offers(S), NEW b \in Offers(S), Parts(S, a) = Parts(S, b)
  PROVE  a = b
<1>1. ASSUME NEW m \in S PROVE a[m] = b[m]
  <2>1. \A r \in Role : <<m, r>> \in Parts(S, a) <=> r \in a[m]
    BY DEF Parts
  <2>2. \A r \in Role : <<m, r>> \in Parts(S, b) <=> r \in b[m]
    BY DEF Parts
  <2> QED  BY <2>1, <2>2 DEF Offers
<1> QED  BY <1>1 DEF Offers

\* Of any offers, one has none below it.
LEMMA SmallestOffer ==
  ASSUME NEW S, IsFiniteSet(S), NEW T, T \subseteq Offers(S), T # {}
  PROVE  \E a \in T : \A b \in T : ~Below(S, b, a)
<1> DEFINE U == {Parts(S, a) : a \in T}
<1>1. IsFiniteSet(S \X Role)
  BY RoleFinite, FS_Product
<1>2. U \subseteq SUBSET (S \X Role) /\ U # {}
  <2>1. \A a \in T : Parts(S, a) \subseteq S \X Role
    BY DEF Parts
  <2> QED  BY <2>1
<1>3. PICK A \in U : \A B \in U : B \subseteq A => B = A
  <2> HIDE DEF U
  <2> QED  BY <1>1, <1>2, SmallestSubset
<1>4. PICK a \in T : A = Parts(S, a)
  OBVIOUS
<1>5. \A b \in T : Parts(S, b) \subseteq Parts(S, a) => b = a
  BY <1>3, <1>4, PartsDetermine
<1> QED  BY <1>5 DEF Below

-----------------------------------------------------------------------------
(* A call of the solver *)

Several(S, roles) == {m \in S : Cardinality(roles[m]) > 1}
First(S, roles) == CHOOSE m \in Several(S, roles) : TRUE
Less(roles, m, r) == [roles EXCEPT ![m] = @ \ {r}]
Hopeless(S, roles) ==
  \/ \E m \in S : roles[m] = {}
  \/ \E r \in Role : Cardinality({m \in S : roles[m] = {r}}) > Needed[r]

LEMMA LessBelow ==
  ASSUME NEW S, NEW roles \in Offers(S), NEW m \in S, NEW r \in roles[m]
  PROVE  Less(roles, m, r) \in Offers(S) /\ Below(S, Less(roles, m, r), roles)
<1>1. Less(roles, m, r) \in Offers(S)
  BY DEF Less, Offers
<1>2. \A n \in S : Less(roles, m, r)[n] \subseteq roles[n]
  BY DEF Less, Offers
<1>3. Less(roles, m, r) # roles
  <2>1. r \notin Less(roles, m, r)[m]
    BY DEF Less, Offers
  <2> QED  BY <2>1
<1>4. Parts(S, Less(roles, m, r)) \subseteq Parts(S, roles)
  BY <1>2 DEF Parts
<1> QED  BY <1>1, <1>3, <1>4 DEF Below

\* What a call of the solver comes to.
LEMMA SettleIs ==
  ASSUME NEW S, NEW roles \in Offers(S), NEW solve, S # {}
  PROVE  LET m == First(S, roles)
             without(r) == IF r \in roles[m] THEN solve[Less(roles, m, r)]
                                             ELSE Unresolved
         IN Settle(S, roles, solve) =
              IF Hopeless(S, roles) THEN Unresolved
              ELSE IF Several(S, roles) = {} THEN roles
              ELSE IF without("dps") # Unresolved THEN without("dps")
              ELSE IF without("healer") # Unresolved THEN without("healer")
              ELSE without("tank")
  BY DEF Settle, Hopeless, Several, First, Less

LEMMA FirstIn ==
  ASSUME NEW S, NEW roles, Several(S, roles) # {}
  PROVE  First(S, roles) \in S /\ Cardinality(roles[First(S, roles)]) > 1
  BY DEF First, Several

\* A call asks the solver about smaller offers only.
LEMMA SettleAsksBelow ==
  ASSUME NEW S, NEW roles \in Offers(S), NEW f, NEW g,
         \A sub \in Offers(S) : Below(S, sub, roles) => f[sub] = g[sub]
  PROVE  Settle(S, roles, f) = Settle(S, roles, g)
<1>1. CASE S = {}
  BY <1>1 DEF Settle
<1>2. CASE S # {} /\ (Hopeless(S, roles) \/ Several(S, roles) = {})
  BY <1>2, SettleIs
<1>3. CASE S # {} /\ Several(S, roles) # {}
  <2> DEFINE m == First(S, roles)
  <2>1. m \in S
    BY <1>3, FirstIn
  <2> HIDE DEF m
  <2>2. \A r \in roles[m] : f[Less(roles, m, r)] = g[Less(roles, m, r)]
    BY <2>1, LessBelow
  <2> QED  BY <1>3, <2>2, SettleIs DEF m
<1> QED  BY <1>1, <1>2, <1>3

-----------------------------------------------------------------------------
(* The solver's function exists *)

\* f is the solver on the offer top and on what is below it.
SolvesTo(S, f, top) == \A roles \in Offers(S) :
  roles = top \/ Below(S, roles, top) => f[roles] = Settle(S, roles, f)

LEMMA BelowTransitive ==
  ASSUME NEW S, NEW a \in Offers(S), NEW b \in Offers(S), NEW c \in Offers(S),
         Below(S, a, b), Below(S, b, c)
  PROVE  Below(S, a, c)
  BY PartsDetermine DEF Below

\* Two such functions agree.
LEMMA SolversAgree ==
  ASSUME NEW S, IsFiniteSet(S), NEW top \in Offers(S), NEW f, NEW g,
         SolvesTo(S, f, top), SolvesTo(S, g, top)
  PROVE  \A roles \in Offers(S) : roles = top \/ Below(S, roles, top) => f[roles] = g[roles]
<1> DEFINE T == {roles \in Offers(S) :
                   (roles = top \/ Below(S, roles, top)) /\ f[roles] # g[roles]}
<1> SUFFICES ASSUME T # {} PROVE FALSE
  OBVIOUS
<1>1. PICK a \in T : \A b \in T : ~Below(S, b, a)
  <2>1. T \subseteq Offers(S)
    OBVIOUS
  <2> HIDE DEF T
  <2> QED  BY <2>1, SmallestOffer
<1>2. \A b \in Offers(S) : Below(S, b, a) => f[b] = g[b]
  BY <1>1, BelowTransitive
<1>3. Settle(S, a, f) = Settle(S, a, g)
  BY <1>2, SettleAsksBelow
<1> QED  BY <1>1, <1>3 DEF SolvesTo

\* f is a solver of all the offers of S.
IsSolver(S, f) == f = [roles \in Offers(S) |-> Settle(S, roles, f)]

LEMMA SolversToEach ==
  ASSUME NEW S, IsFiniteSet(S), NEW top \in Offers(S)
  PROVE  \E f : SolvesTo(S, f, top)
<1> DEFINE T == {roles \in Offers(S) : ~\E f : SolvesTo(S, f, roles)}
<1> SUFFICES ASSUME T # {} PROVE FALSE
  OBVIOUS
<1>1. PICK a \in T : \A b \in T : ~Below(S, b, a)
  <2>1. T \subseteq Offers(S)
    OBVIOUS
  <2> HIDE DEF T
  <2> QED  BY <2>1, SmallestOffer
<1>2. \A b \in Offers(S) : Below(S, b, a) => \E f : SolvesTo(S, f, b)
  BY <1>1
<1> DEFINE part(b) == CHOOSE f : SolvesTo(S, f, b)
           under == [b \in Offers(S) |-> part(b)[b]]
           f == [b \in Offers(S) |-> IF b = a THEN Settle(S, a, under) ELSE under[b]]
<1>3. \A b \in Offers(S) : Below(S, b, a) => SolvesTo(S, part(b), b)
  BY <1>2
<1> HIDE DEF part
<1>4. \A b \in Offers(S) : under[b] = part(b)[b]
  OBVIOUS
<1>5. \A b \in Offers(S) : b # a => f[b] = under[b]
  OBVIOUS
<1>6. f[a] = Settle(S, a, under)
  OBVIOUS
<1> HIDE DEF f, under
<1>7. ASSUME NEW b \in Offers(S), Below(S, b, a)
      PROVE  /\ under[b] = Settle(S, b, part(b))
             /\ \A c \in Offers(S) : Below(S, c, b) => part(b)[c] = under[c]
  <2>1. under[b] = Settle(S, b, part(b))
    BY <1>3, <1>4, <1>7 DEF SolvesTo
  <2>2. ASSUME NEW c \in Offers(S), Below(S, c, b) PROVE part(b)[c] = part(c)[c]
    <3>1. Below(S, c, a)
      BY <1>7, <2>2, BelowTransitive
    <3>2. SolvesTo(S, part(c), c) /\ SolvesTo(S, part(b), b)
      BY <1>3, <1>7, <3>1
    <3>3. SolvesTo(S, part(b), c)
      BY <2>2, <3>2, BelowTransitive DEF SolvesTo
    <3> QED  BY <3>2, <3>3, SolversAgree
  <2> QED  BY <1>4, <2>1, <2>2
<1>8. \A b \in Offers(S) : Below(S, b, a) => under[b] = Settle(S, b, under)
  <2> SUFFICES ASSUME NEW b \in Offers(S), Below(S, b, a)
               PROVE  under[b] = Settle(S, b, under)
    OBVIOUS
  <2>1. Settle(S, b, part(b)) = Settle(S, b, under)
    BY <1>7, SettleAsksBelow
  <2> QED  BY <1>7, <2>1
<1>9. SolvesTo(S, f, a)
  <2> SUFFICES ASSUME NEW b \in Offers(S), b = a \/ Below(S, b, a)
               PROVE  f[b] = Settle(S, b, f)
    BY DEF SolvesTo
  <2>1. \A c \in Offers(S) : Below(S, c, b) => f[c] = under[c]
    BY <1>5, BelowTransitive DEF Below
  <2>2. Settle(S, b, f) = Settle(S, b, under)
    BY <2>1, SettleAsksBelow
  <2>3. b # a => b \in Offers(S) /\ Below(S, b, a)
    OBVIOUS
  <2> QED  BY <1>5, <1>6, <1>8, <2>2, <2>3
<1> QED  BY <1>1, <1>9

LEMMA SolverExists ==
  ASSUME NEW S, IsFiniteSet(S)
  PROVE  \E f : IsSolver(S, f)
<1> DEFINE part(b) == CHOOSE f : SolvesTo(S, f, b)
           f == [b \in Offers(S) |-> part(b)[b]]
<1>1. \A b \in Offers(S) : SolvesTo(S, part(b), b)
  BY SolversToEach
<1> HIDE DEF part
<1>2. ASSUME NEW b \in Offers(S) PROVE f[b] = Settle(S, b, f)
  <2>1. f[b] = Settle(S, b, part(b))
    BY <1>1 DEF SolvesTo
  <2>2. ASSUME NEW c \in Offers(S), Below(S, c, b) PROVE part(b)[c] = f[c]
    <3>1. SolvesTo(S, part(b), c)
      BY <1>1, <2>2, BelowTransitive DEF SolvesTo
    <3>2. part(b)[c] = part(c)[c]
      BY <1>1, <3>1, SolversAgree
    <3> QED  BY <3>2
  <2> HIDE DEF f
  <2>3. Settle(S, b, part(b)) = Settle(S, b, f)
    BY <2>2, SettleAsksBelow
  <2> QED  BY <2>1, <2>3
<1>3. f = [b \in Offers(S) |-> f[b]]
  OBVIOUS
<1> HIDE DEF f
<1>4. [b \in Offers(S) |-> f[b]] = [b \in Offers(S) |-> Settle(S, b, f)]
  BY <1>2
<1> QED  BY <1>3, <1>4 DEF IsSolver

LEMMA ResolveIs ==
  ASSUME NEW S, IsFiniteSet(S)
  PROVE  \E f : /\ \A roles \in Offers(S) : f[roles] = Settle(S, roles, f)
                /\ \A offered : Resolve(S, offered) = f[offered]
<1> DEFINE f == CHOOSE g : IsSolver(S, g)
<1>1. IsSolver(S, f)
  BY SolverExists
<1>2. \A offered : Resolve(S, offered) = f[offered]
  BY DEF Resolve, IsSolver, Offers
<1> HIDE DEF f
<1>3. \A roles \in Offers(S) : f[roles] = Settle(S, roles, f)
  BY <1>1 DEF IsSolver
<1> QED  BY <1>2, <1>3
-----------------------------------------------------------------------------
(* The solver is right *)

LEMMA HopelessNone ==
  ASSUME NEW S, IsFiniteSet(S), NEW roles \in Offers(S), Hopeless(S, roles)
  PROVE  Legal(S, roles) = {}
<1> SUFFICES ASSUME NEW a \in Legal(S, roles) PROVE FALSE
  OBVIOUS
<1>1. a \in [S -> Role] /\ \A m \in S : a[m] \in roles[m]
  BY DEF Legal
<1>2. PICK r \in Role : Cardinality({m \in S : roles[m] = {r}}) > Needed[r]
  BY <1>1 DEF Hopeless
<1> DEFINE settled == {m \in S : roles[m] = {r}}
           given == {m \in S : a[m] = r}
<1>3. settled \subseteq given
  BY <1>1
<1>4. IsFiniteSet(given) /\ IsFiniteSet(settled)
  BY FS_Subset
<1>5. Cardinality(given) <= Needed[r]
  BY DEF Legal
<1>6. Cardinality(settled) > Needed[r]
  BY <1>2
<1>7. Needed[r] \in Nat
  BY NeededAssumption DEF Needed, Role
<1> HIDE DEF settled, given
<1>8. /\ Cardinality(settled) <= Cardinality(given)
      /\ Cardinality(settled) \in Nat /\ Cardinality(given) \in Nat
  BY <1>3, <1>4, FS_Subset, FS_CardinalityType
<1> QED  BY <1>5, <1>6, <1>7, <1>8

LEMMA OneMember ==
  ASSUME NEW R, IsFiniteSet(R), NEW x \in R, ~(Cardinality(R) > 1)
  PROVE  R = {x}
<1>1. IsFiniteSet(R \ {x}) /\ Cardinality(R \ {x}) = Cardinality(R) - 1
  BY FS_RemoveElement
<1>2. Cardinality(R) \in Nat /\ Cardinality(R \ {x}) \in Nat
  BY <1>1, FS_CardinalityType
<1>3. Cardinality(R \ {x}) = 0
  BY <1>1, <1>2
<1>4. R \ {x} = {}
  BY <1>1, <1>3, FS_EmptySet
<1> QED  BY <1>4

LEMMA AnotherMember ==
  ASSUME NEW R, Cardinality(R) > 1, NEW x
  PROVE  \E y \in R : y # x
<1> SUFFICES ASSUME R \subseteq {x} PROVE FALSE
  OBVIOUS
<1>1. R = {} \/ R = {x}
  OBVIOUS
<1>2. Cardinality({}) = 0 /\ Cardinality({x}) = 1
  BY FS_EmptySet, FS_Singleton
<1> QED  BY <1>1, <1>2

\* Where every member offers one role, it gets that role.
LEMMA SettledLegal ==
  ASSUME NEW S, IsFiniteSet(S), NEW roles \in Offers(S),
         ~Hopeless(S, roles), Several(S, roles) = {}
  PROVE  \E a \in Legal(S, roles) : roles = [m \in S |-> {a[m]}]
<1> DEFINE a == [m \in S |-> CHOOSE r \in roles[m] : TRUE]
<1>1. \A m \in S : roles[m] # {} /\ roles[m] \subseteq Role
  BY DEF Hopeless, Offers
<1>2. \A m \in S : a[m] \in roles[m]
  BY <1>1
<1>3. a \in [S -> Role]
  BY <1>1, <1>2
<1>4. ASSUME NEW m \in S PROVE roles[m] = {a[m]}
  <2>1. ~(Cardinality(roles[m]) > 1) /\ IsFiniteSet(roles[m])
    BY <1>1, RoleFinite DEF Several
  <2> HIDE DEF a
  <2> QED  BY <1>2, <2>1, OneMember
<1> HIDE DEF a
<1>5. ASSUME NEW r \in Role PROVE Cardinality({m \in S : a[m] = r}) <= Needed[r]
  <2>1. {m \in S : a[m] = r} = {m \in S : roles[m] = {r}}
    BY <1>4
  <2>2. Cardinality({m \in S : roles[m] = {r}}) \in Nat
    BY FS_Subset, FS_CardinalityType
  <2>3. ~(Cardinality({m \in S : roles[m] = {r}}) > Needed[r])
    BY DEF Hopeless
  <2>4. Needed[r] \in Nat
    BY NeededAssumption DEF Needed, Role
  <2>5. PICK c, n : c = Cardinality({m \in S : roles[m] = {r}}) /\ n = Needed[r]
    OBVIOUS
  <2>6. c <= n
    BY <2>2, <2>3, <2>4, <2>5
  <2> QED  BY <2>1, <2>5, <2>6
<1>6. a \in Legal(S, roles)
  BY <1>2, <1>3, <1>5 DEF Legal
<1>7. roles = [m \in S |-> {a[m]}]
  BY <1>4 DEF Offers
<1> QED  BY <1>6, <1>7

LEMMA LegalLess ==
  ASSUME NEW S, NEW roles \in Offers(S), NEW m \in S, NEW r
  PROVE  /\ Legal(S, Less(roles, m, r)) \subseteq Legal(S, roles)
         /\ \A a \in Legal(S, roles) : a[m] # r => a \in Legal(S, Less(roles, m, r))
<1>1. \A n \in S : Less(roles, m, r)[n] = IF n = m THEN roles[n] \ {r} ELSE roles[n]
  BY DEF Less, Offers
<1> QED  BY <1>1 DEF Legal

\* f is right about one offer.
Right(S, f, roles) ==
  IF Legal(S, roles) = {} THEN f[roles] = Unresolved
  ELSE \E a \in Legal(S, roles) : f[roles] = [m \in S |-> {a[m]}]

LEMMA ResolvedIs ==
  ASSUME NEW S, S # {}, NEW a
  PROVE  [m \in S |-> {a[m]}] # Unresolved
  BY DEF Unresolved

LEMMA SettleRight ==
  ASSUME NEW S, IsFiniteSet(S), S # {}, NEW f, NEW roles \in Offers(S),
         f[roles] = Settle(S, roles, f),
         \A sub \in Offers(S) : Below(S, sub, roles) => Right(S, f, sub)
  PROVE  Right(S, f, roles)
<1>1. CASE Hopeless(S, roles)
  BY <1>1, HopelessNone, SettleIs DEF Right
<1>2. CASE ~Hopeless(S, roles) /\ Several(S, roles) = {}
  <2>1. f[roles] = roles
    BY <1>2, SettleIs
  <2> QED  BY <1>2, <2>1, SettledLegal DEF Right
<1>3. CASE ~Hopeless(S, roles) /\ Several(S, roles) # {}
  <2>1. PICK m \in S : m = First(S, roles) /\ Cardinality(roles[m]) > 1
    BY <1>3, FirstIn
  <2> DEFINE w(r) == IF r \in roles[m] THEN f[Less(roles, m, r)] ELSE Unresolved
  <2>2. f[roles] = IF w("dps") # Unresolved THEN w("dps")
                   ELSE IF w("healer") # Unresolved THEN w("healer")
                   ELSE w("tank")
    BY <1>3, <2>1, SettleIs
  <2>3. ASSUME NEW r \in roles[m] PROVE Right(S, f, Less(roles, m, r))
    BY LessBelow
  <2>4. ASSUME NEW r, w(r) # Unresolved
        PROVE  \E a \in Legal(S, roles) : w(r) = [n \in S |-> {a[n]}]
    <3>1. r \in roles[m] /\ w(r) = f[Less(roles, m, r)]
      BY <2>4
    <3>2. PICK a \in Legal(S, Less(roles, m, r)) :
            f[Less(roles, m, r)] = [n \in S |-> {a[n]}]
      BY <2>3, <2>4, <3>1 DEF Right
    <3> QED  BY <3>1, <3>2, LegalLess
  <2>5. ASSUME NEW a \in Legal(S, roles) PROVE \E r \in Role : w(r) # Unresolved
    <3>1. PICK r \in roles[m] : r # a[m]
      BY <2>1, AnotherMember
    <3>2. Legal(S, Less(roles, m, r)) # {} /\ r \in Role
      BY <3>1, LegalLess DEF Offers
    <3>3. PICK b : f[Less(roles, m, r)] = [n \in S |-> {b[n]}]
      BY <2>3, <3>1, <3>2 DEF Right
    <3>4. f[Less(roles, m, r)] # Unresolved
      BY <3>3, ResolvedIs
    <3> QED  BY <3>1, <3>2, <3>4
  <2> HIDE DEF w
  <2>6. CASE Legal(S, roles) = {}
    <3>1. w("dps") = Unresolved /\ w("healer") = Unresolved /\ w("tank") = Unresolved
      BY <2>4, <2>6
    <3> QED  BY <2>2, <2>6, <3>1 DEF Right
  <2>7. CASE Legal(S, roles) # {}
    <3>1. w("dps") # Unresolved \/ w("healer") # Unresolved \/ w("tank") # Unresolved
      BY <2>5, <2>7 DEF Role
    <3>2. \E r \in Role : f[roles] = w(r) /\ w(r) # Unresolved
      BY <2>2, <3>1 DEF Role
    <3> QED  BY <2>4, <2>7, <3>2 DEF Right
  <2> QED  BY <2>6, <2>7
<1> QED  BY <1>1, <1>2, <1>3

LEMMA NobodyUnresolved ==
  ASSUME NEW S, S = {}, NEW offered \in Offers(S)
  PROVE  Resolve(S, offered) = Unresolved
<1>1. IsFiniteSet(S)
  BY FS_EmptySet
<1>2. PICK f : /\ \A roles \in Offers(S) : f[roles] = Settle(S, roles, f)
               /\ \A o : Resolve(S, o) = f[o]
  BY <1>1, ResolveIs
<1> QED  BY <1>2 DEF Settle

\* lfgCheckGroupRoles succeeds for exactly the offers that can be served, and
\* what it leaves each member with is a role of those it offered, none taken
\* oftener than a dungeon group needs it (lfg.go:944-1000).
THEOREM SolverCorrect ==
  ASSUME NEW S, IsFiniteSet(S), S # {}, NEW offered \in [S -> SUBSET Role]
  PROVE  Solves(S, offered)
<1>1. PICK f : /\ \A roles \in Offers(S) : f[roles] = Settle(S, roles, f)
               /\ \A o : Resolve(S, o) = f[o]
  BY ResolveIs
<1>2. Right(S, f, offered)
  <2> DEFINE T == {roles \in Offers(S) : ~Right(S, f, roles)}
  <2> SUFFICES ASSUME T # {} PROVE FALSE
    BY DEF Offers
  <2>1. PICK a \in T : \A b \in T : ~Below(S, b, a)
    <3>1. T \subseteq Offers(S)
      OBVIOUS
    <3> HIDE DEF T
    <3> QED  BY <3>1, SmallestOffer
  <2>2. a \in Offers(S) /\ ~Right(S, f, a)
    OBVIOUS
  <2>3. \A b \in Offers(S) : Below(S, b, a) => Right(S, f, b)
    BY <2>1
  <2> HIDE DEF T
  <2> QED  BY <1>1, <2>2, <2>3, SettleRight
<1> QED  BY <1>1, <1>2 DEF Right, Solves
=============================================================================
