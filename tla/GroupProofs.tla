------------------------------ MODULE GroupProofs ------------------------------
(* Theorems of GroupMembership for any finite set of players, any group size   *)
(* of two or more and any number of ids, wherever the process ends between the *)
(* statements of a handler.                                                    *)
EXTENDS GroupMembership, FiniteSetTheorems, SequenceTheorems, TLAPS

GroupsType(G) == /\ DOMAIN G = Ids
                 /\ \A g \in Ids : \/ G[g] = NoGroup
                                   \/ /\ G[g].dbid \in DbIds /\ G[g].leader \in Players
                                      /\ G[g].members \in [Players -> Nat]
TodoType == todo \in Seq(Statements)

LEMMA FewStatements ==
  ASSUME NEW a \in Statements, NEW b \in Statements, NEW c \in Statements
  PROVE  /\ <<>> \in Seq(Statements) /\ <<a>> \in Seq(Statements)
         /\ <<a, b>> \in Seq(Statements) /\ <<a, b, c>> \in Seq(Statements)
<1> DEFINE S == Statements
<1>1. a \in S /\ b \in S /\ c \in S
  OBVIOUS
<1> HIDE DEF S
<1>2. <<>> \in Seq(S) /\ <<a>> \in Seq(S)
  BY <1>1
<1>3. <<a, b>> \in Seq(S)
  BY <1>1
<1>4. <<a, b, c>> \in Seq(S)
  BY <1>1
<1> QED  BY <1>2, <1>3, <1>4 DEF S

LEMMA StatementTypes ==
  ASSUME NEW d \in DbIds, NEW p \in Players
  PROVE  /\ InsGroup(d, p) \in Statements /\ InsMember(d, p) \in Statements
         /\ UpdLeader(d, p) \in Statements /\ DelMember(p) \in Statements
         /\ DelMembers(d) \in Statements /\ DelGroup(d) \in Statements
BY DEF Statements, InsGroup, InsMember, UpdLeader, DelMember, DelMembers, DelGroup

LEMMA DissolvedType ==
  ASSUME NEW d \in DbIds
  PROVE  Dissolved(d) \in Seq(Statements)
<1>1. DelMembers(d) \in Statements /\ DelGroup(d) \in Statements
  BY DEF Statements, DelMembers, DelGroup
<1> QED  BY <1>1, FewStatements DEF Dissolved

LEMMA LiveFacts ==
  ASSUME TypeOK, NEW g \in Live
  PROVE  /\ g \in Ids /\ groups[g].dbid \in DbIds /\ groups[g].leader \in Players
         /\ groups[g].members \in [Players -> Nat]
BY DEF Live, TypeOK, NoGroup

LEMMA FewerEntries ==
  ASSUME NEW s \in [Players -> Nat], NEW p \in Players
  PROVE  Without(s, p) \in [Players -> Nat]
<1>1. (IF s[p] = 0 THEN 0 ELSE s[p] - 1) \in Nat
  OBVIOUS
<1> QED  BY <1>1 DEF Without

LEMMA LeadersArePlayers ==
  ASSUME TypeOK, NEW g \in Live, NEW p \in Players, NEW s, NEW S
  PROVE  LeadersAfter(g, p, In(s) \cap S) \subseteq Players
BY LiveFacts DEF LeadersAfter, In

LEMMA SetGroup ==
  ASSUME TypeOK, NEW g \in Ids, NEW r,
         \/ r = NoGroup
         \/ r.dbid \in DbIds /\ r.leader \in Players /\ r.members \in [Players -> Nat],
         groups' = [groups EXCEPT ![g] = r]
  PROVE  GroupsType(groups')
BY DEF GroupsType, TypeOK

LEMMA ReleadType ==
  ASSUME TypeOK, NEW g \in Live, NEW s \in [Players -> Nat], NEW l \in Players, Relead(g, s, l)
  PROVE  GroupsType(groups')
<1>1. groups' = [groups EXCEPT ![g] = [dbid |-> groups[g].dbid, leader |-> l, members |-> s]]
  BY DEF Relead
<1> QED  BY <1>1, LiveFacts, SetGroup

LEMMA NewLeaderType ==
  ASSUME TypeOK, NEW g \in Live, NEW l \in Players
  PROVE  NewLeader(g, l) \in Seq(Statements)
<1>1. UpdLeader(groups[g].dbid, l) \in Statements
  BY LiveFacts, StatementTypes
<1> QED  BY <1>1, FewStatements DEF NewLeader

LEMMA DisbandType ==
  ASSUME TypeOK, NEW g \in Live, NEW S, NEW D, Disband(g, S, D)
  PROVE  /\ GroupsType(groups')
         /\ groupID' \in [Players -> {0} \cup Ids]
         /\ pending' \in [Players -> Players \cup {NoOne}]
<1>1. GroupsType(groups')
  BY LiveFacts, SetGroup DEF Disband
<1>2. groupID' \in [Players -> {0} \cup Ids]
  BY DEF Disband, TypeOK
<1>3. pending' \in [Players -> Players \cup {NoOne}]
  BY DEF Disband, TypeOK
<1> QED  BY <1>1, <1>2, <1>3

LEMMA RemoveType ==
  ASSUME TypeOK, NEW g \in Live, NEW t \in Players, Remove(g, t)
  PROVE  /\ GroupsType(groups') /\ TodoType'
         /\ groupID' \in [Players -> {0} \cup Ids]
         /\ pending' \in [Players -> Players \cup {NoOne}]
<1> DEFINE s == Without(groups[g].members, t)
<1>0. s \in [Players -> Nat] /\ groups[g].dbid \in DbIds
  BY LiveFacts, FewerEntries
<1>1. CASE Disband(g, In(s) \cup {t}, {t}) /\ todo' = Dissolved(groups[g].dbid)
  BY <1>0, <1>1, DisbandType, DissolvedType DEF TodoType
<1>2. CASE ~ AtMostOne(s)
  <2>0. PICK l \in Players :
          /\ Relead(g, s, l)
          /\ todo' = IF l = groups[g].leader THEN <<DelMember(t)>>
                     ELSE <<DelMember(t), UpdLeader(groups[g].dbid, l)>>
    BY <1>2, LeadersArePlayers DEF Remove
  <2>1. GroupsType(groups')
    BY <2>0, <1>0, ReleadType
  <2>2. TodoType'
    <3>1. DelMember(t) \in Statements /\ UpdLeader(groups[g].dbid, l) \in Statements
      BY <1>0, StatementTypes
    <3> QED  BY <2>0, <3>1, FewStatements DEF TodoType
  <2>3. groupID' \in [Players -> {0} \cup Ids]
    BY <1>2 DEF Remove, TypeOK
  <2>4. pending' \in [Players -> Players \cup {NoOne}]
    BY <1>2 DEF Remove, TypeOK
  <2> QED  BY <2>1, <2>2, <2>3, <2>4
<1> QED  BY <1>1, <1>2 DEF Remove

\* An action that leaves the groups alone.
LEMMA QuietType ==
  ASSUME TypeOK, groups' = groups
  PROVE  GroupsType(groups')
BY DEF TypeOK, GroupsType

LEMMA TypeParts ==
  ASSUME TypeOK, UNCHANGED tables, online' \subseteq Players,
         groupID' \in [Players -> {0} \cup Ids],
         pending' \in [Players -> Players \cup {NoOne}],
         GroupsType(groups'), nextID' \in 1 .. MaxIds + 1, TodoType'
  PROVE  TypeOK'
BY DEF TypeOK, GroupsType, TodoType, tables

LEMMA LoginTypes ==
  ASSUME TypeOK, UNCHANGED tables, NEW p \in Players,
         Attach(p) \/ Load(p) \/ LoginAlone(p) \/ Disconnect(p)
         \/ \E stays \in BOOLEAN : LogoutAlone(p, stays)
  PROVE  TypeOK'
<1>1. CASE Attach(p)
  <2>1. GroupsType(groups')
    BY <1>1, QuietType DEF Attach
  <2>2. groupID' \in [Players -> {0} \cup Ids]
    BY <1>1 DEF Attach, TypeOK, Live
  <2> QED  BY <1>1, <2>1, <2>2, TypeParts DEF TodoType, Attach, TypeOK
<1>2. CASE Load(p)
  <2> DEFINE g == LoadedAs(row[p])
  <2>1. /\ g \in Ids /\ row[p] \in DbIds /\ stored[row[p]] \in Players
        /\ online' = online \cup {p}
        /\ groupID' = [groupID EXCEPT ![p] = g]
        /\ nextID' = IF nextID > g THEN nextID ELSE g + 1
        /\ pending' = pending /\ todo' = todo
    BY <1>2 DEF Load, Loads, TypeOK
  <2>2. GroupsType(groups')
    <3> DEFINE m == [q \in Players |-> IF row[q] = row[p] THEN 1 ELSE 0]
    <3>1. m \in [Players -> Nat]
      OBVIOUS
    <3>2. groups' = [groups EXCEPT ![g] = [dbid |-> row[p], leader |-> stored[row[p]], members |-> m]]
      BY <1>2 DEF Load
    <3> HIDE DEF m, g
    <3> QED  BY <3>1, <3>2, <2>1, SetGroup
  <2>3. nextID' \in 1 .. MaxIds + 1
    <3>1. nextID \in 1 .. MaxIds + 1 /\ g \in 1 .. MaxIds
      BY <2>1 DEF TypeOK, Ids
    <3> HIDE DEF g
    <3> QED  BY <3>1, <2>1, SizeAssumption
  <2>4. groupID' \in [Players -> {0} \cup Ids]
    BY <2>1 DEF TypeOK
  <2> HIDE DEF g
  <2> QED  BY <2>1, <2>2, <2>3, <2>4, TypeParts DEF TodoType, TypeOK
<1>3. CASE LoginAlone(p)
  <2>1. GroupsType(groups')
    BY <1>3, QuietType DEF LoginAlone
  <2> QED  BY <1>3, <2>1, TypeParts DEF TodoType, LoginAlone, TypeOK
<1>4. CASE Disconnect(p)
  <2>1. GroupsType(groups')
    BY <1>4, QuietType DEF Disconnect
  <2>2. pending' \in [Players -> Players \cup {NoOne}]
    BY <1>4 DEF Disconnect, TypeOK
  <2> QED  BY <1>4, <2>1, <2>2, TypeParts DEF TodoType, Disconnect, TypeOK
<1>5. ASSUME NEW stays \in BOOLEAN, LogoutAlone(p, stays)  PROVE TypeOK'
  <2>1. GroupsType(groups')
    BY <1>5, QuietType DEF LogoutAlone
  <2>2. groupID' \in [Players -> {0} \cup Ids]
    BY <1>5 DEF LogoutAlone, TypeOK
  <2>3. pending' \in [Players -> Players \cup {NoOne}]
    BY <1>5 DEF LogoutAlone, TypeOK
  <2> QED  BY <1>5, <2>1, <2>2, <2>3, TypeParts DEF TodoType, LogoutAlone, TypeOK
<1> QED  BY <1>1, <1>2, <1>3, <1>4, <1>5

LEMMA LogoutType ==
  ASSUME TypeOK, UNCHANGED tables, NEW p \in Players, Logout(p)
  PROVE  TypeOK'
<1> DEFINE g == groupID[p]
           s == Without(groups[g].members, p)
<1>0. g \in Live /\ s \in [Players -> Nat]
  BY LiveFacts, FewerEntries DEF Logout
<1>1. GroupsType(groups') /\ TodoType'
  <2>1. CASE s = Nobody
    <3>1. groups' = [groups EXCEPT ![g] = NoGroup] /\ todo' = <<>>
      BY <2>1 DEF Logout
    <3> HIDE DEF g
    <3>2. GroupsType(groups')
      BY <3>1, <1>0, SetGroup DEF Live
    <3> QED  BY <3>1, <3>2 DEF TodoType
  <2>2. CASE s # Nobody
    <3>1. PICK l \in Players : Relead(g, s, l) /\ todo' = NewLeader(g, l)
      BY <2>2, LeadersArePlayers DEF Logout
    <3> HIDE DEF g, s
    <3> QED  BY <3>1, <1>0, ReleadType, NewLeaderType DEF TodoType
  <2> QED  BY <2>1, <2>2
<1>2. groupID' \in [Players -> {0} \cup Ids]
  BY DEF Logout, TypeOK
<1>3. pending' \in [Players -> Players \cup {NoOne}]
  BY DEF Logout, TypeOK
<1>4. /\ online' \subseteq Players /\ nextID' = nextID
  BY DEF Logout, TypeOK
<1> QED  BY <1>1, <1>2, <1>3, <1>4, TypeParts DEF TypeOK

LEMMA AcceptJoinType ==
  ASSUME TypeOK, UNCHANGED tables, NEW q \in Players, NEW g \in Ids, AcceptJoin(q, g)
  PROVE  TypeOK'
<1>0. g \in Live
  BY DEF AcceptJoin, InviteGroups
<1>1. pending' \in [Players -> Players \cup {NoOne}]
  BY DEF AcceptJoin, TypeOK
<1>2. online' = online /\ nextID' = nextID
  BY DEF AcceptJoin
<1>3. CASE Full(row, groups[g]) /\ UNCHANGED <<groups, groupID, todo>>
  <2>1. GroupsType(groups')
    BY <1>3, <1>2, QuietType
  <2> QED  BY <1>1, <1>2, <1>3, <2>1, TypeParts DEF TypeOK, TodoType
<1>4. CASE ~Full(row, groups[g])
  <2> DEFINE m == With(groups[g].members, q)
  <2>1. m \in [Players -> Nat]
    <3>1. groups[g].members \in [Players -> Nat]
      BY <1>0, LiveFacts
    <3>2. groups[g].members[q] + 1 \in Nat
      BY <3>1
    <3> QED  BY <3>1, <3>2 DEF With
  <2>2. /\ groups' = [groups EXCEPT ![g] = [dbid |-> groups[g].dbid, leader |-> groups[g].leader,
                                          members |-> m]]
        /\ groupID' = [groupID EXCEPT ![q] = g]
        /\ todo' = <<InsMember(groups[g].dbid, q)>>
    BY <1>4 DEF AcceptJoin
  <2>3. GroupsType(groups')
    <3> HIDE DEF m
    <3> QED  BY <2>1, <2>2, <1>0, LiveFacts, SetGroup
  <2>4. TodoType'
    <3>1. InsMember(groups[g].dbid, q) \in Statements
      BY <1>0, LiveFacts, StatementTypes
    <3> QED  BY <2>2, <3>1, FewStatements DEF TodoType
  <2>5. groupID' \in [Players -> {0} \cup Ids]
    BY <2>2 DEF TypeOK
  <2> HIDE DEF m
  <2> QED  BY <1>1, <1>2, <2>3, <2>4, <2>5, TypeParts DEF TypeOK
<1> QED  BY <1>3, <1>4 DEF AcceptJoin

LEMMA AcceptFoundType ==
  ASSUME TypeOK, UNCHANGED tables, NEW q \in Players, NEW d \in DbIds, AcceptFound(q, d)
  PROVE  TypeOK'
<1>0. PICK l \in Players : l = pending[q]
  BY NamesAssumption DEF AcceptFound, TypeOK
<1> DEFINE founded == Insert(row, l, d)
           full == Cardinality(RowsOf(founded, d)) >= MaxMembers
<1>3. /\ nextID \in Ids /\ nextID' = nextID + 1 /\ online' = online
      /\ pending' = [pending EXCEPT ![q] = NoOne]
      /\ groups' = [groups EXCEPT ![nextID] = [dbid |-> d, leader |-> l,
           members |-> [p \in Players |-> IF p = l \/ (p = q /\ ~full) THEN 1 ELSE 0]]]
      /\ groupID' = [p \in Players |-> IF p = l \/ (p = q /\ ~full) THEN nextID ELSE groupID[p]]
      /\ todo' = IF full THEN <<InsGroup(d, l), InsMember(d, l)>>
                 ELSE <<InsGroup(d, l), InsMember(d, l), InsMember(d, q)>>
  BY <1>0 DEF AcceptFound
<1> HIDE DEF founded, full
<1>4. GroupsType(groups')
  <2> DEFINE m == [p \in Players |-> IF p = l \/ (p = q /\ ~full) THEN 1 ELSE 0]
  <2>1. m \in [Players -> Nat]
    OBVIOUS
  <2>2. groups' = [groups EXCEPT ![nextID] = [dbid |-> d, leader |-> l, members |-> m]]
    BY <1>3
  <2> HIDE DEF m
  <2> QED  BY <2>1, <2>2, <1>3, SetGroup
<1>5. TodoType'
  <2>1. InsGroup(d, l) \in Statements /\ InsMember(d, l) \in Statements /\ InsMember(d, q) \in Statements
    BY StatementTypes
  <2> QED  BY <1>3, <2>1, FewStatements DEF TodoType
<1>7. groupID' \in [Players -> {0} \cup Ids]
  BY <1>3 DEF TypeOK
<1>8. pending' \in [Players -> Players \cup {NoOne}]
  BY <1>3 DEF TypeOK
<1>9. nextID' \in 1 .. MaxIds + 1
  BY <1>3, SizeAssumption DEF Ids
<1>10. online' \subseteq Players
  BY <1>3 DEF TypeOK
<1> QED  BY <1>4, <1>5, <1>7, <1>8, <1>9, <1>10, TypeParts

\* The other answers to an invitation, and the invitation itself.
LEMMA InvitationTypes ==
  ASSUME TypeOK, UNCHANGED tables, NEW p \in Players, NEW q \in Players,
         Invite(p, q) \/ AcceptLate(p) \/ Forget(p) \/ Withdraw(p) \/ UninviteInvitee(p, q)
  PROVE  TypeOK'
<1>1. groups' = groups /\ nextID' = nextID /\ online' = online /\ todo' = todo
  BY DEF Invite, AcceptLate, Forget, Withdraw, UninviteInvitee
<1>2. GroupsType(groups')
  BY <1>1, QuietType
<1>3. groupID' \in [Players -> {0} \cup Ids]
  BY DEF Invite, AcceptLate, Forget, Withdraw, UninviteInvitee, TypeOK
<1>4. pending' \in [Players -> Players \cup {NoOne}]
  BY DEF Invite, AcceptLate, Forget, Withdraw, UninviteInvitee, TypeOK
<1> QED  BY <1>1, <1>2, <1>3, <1>4, TypeParts DEF TypeOK, TodoType

LEMMA DeclineType ==
  ASSUME TypeOK, UNCHANGED tables, NEW q \in Players, Decline(q)
  PROVE  TypeOK'
<1>0. online' = online /\ nextID' = nextID
  BY DEF Decline
<1>1. ASSUME NEW g \in DeclinedGroups(pending[q]), Disband(g, In(groups[g].members), {q}),
             todo' = Dissolved(groups[g].dbid)
      PROVE  TypeOK'
  <2>1. g \in Live
    BY <1>1 DEF DeclinedGroups
  <2>2. TodoType'
    BY <1>1, <2>1, LiveFacts, DissolvedType DEF TodoType
  <2> QED  BY <2>1, <2>2, <1>0, <1>1, DisbandType, TypeParts DEF TypeOK
<1>2. CASE pending' = [pending EXCEPT ![q] = NoOne] /\ UNCHANGED <<groupID, groups, todo>>
  <2>1. GroupsType(groups')
    BY <1>2, QuietType
  <2>2. pending' \in [Players -> Players \cup {NoOne}]
    BY <1>2 DEF TypeOK
  <2> QED  BY <1>0, <1>2, <2>1, <2>2, TypeParts DEF TypeOK, TodoType
<1> QED  BY <1>1, <1>2 DEF Decline

LEMMA RemovalTypes ==
  ASSUME TypeOK, UNCHANGED tables, NEW p \in Players, NEW t \in Players,
         Leave(p) \/ Uninvite(p, t) \/ KickOffline(p, t) \/ SetLeader(p, t)
  PROVE  TypeOK'
<1> DEFINE g == groupID[p]
           d == groups[g].dbid
<1>0. g \in Live /\ d \in DbIds /\ online' = online /\ nextID' = nextID
  BY LiveFacts DEF Leave, Uninvite, KickOffline, SetLeader, Leads
<1>1. CASE Leave(p)
  BY <1>0, <1>1, RemoveType, TypeParts DEF Leave, TypeOK
<1>2. CASE Uninvite(p, t)
  BY <1>0, <1>2, RemoveType, TypeParts DEF Uninvite, TypeOK
<1>3. CASE KickOffline(p, t)
  <2>0. DelMember(t) \in Statements /\ DelMembers(d) \in Statements /\ DelGroup(d) \in Statements
    BY <1>0, StatementTypes
  <2>1. CASE /\ Disband(g, In(groups[g].members), {})
             /\ todo' = <<DelMember(t), DelMembers(d), DelGroup(d)>>
    <3>1. TodoType'
      BY <2>0, <2>1, FewStatements DEF TodoType
    <3> QED  BY <1>0, <2>1, <3>1, DisbandType, TypeParts DEF TypeOK
  <2>2. CASE todo' = <<DelMember(t)>> /\ UNCHANGED <<groupID, pending, groups>>
    <3>1. GroupsType(groups') /\ TodoType'
      BY <2>0, <2>2, QuietType, FewStatements DEF TodoType
    <3> QED  BY <1>0, <2>2, <3>1, TypeParts DEF TypeOK
  <2> QED  BY <1>3, <2>1, <2>2 DEF KickOffline
<1>4. CASE SetLeader(p, t)
  <2>1. GroupsType(groups')
    BY <1>0, <1>4, LiveFacts, ReleadType DEF SetLeader
  <2>2. TodoType'
    <3>1. todo' = <<UpdLeader(d, t)>> /\ UpdLeader(d, t) \in Statements
      BY <1>0, <1>4, StatementTypes DEF SetLeader
    <3> QED  BY <3>1, FewStatements DEF TodoType
  <2> QED  BY <1>0, <1>4, <2>1, <2>2, TypeParts DEF SetLeader, TypeOK
<1> QED  BY <1>1, <1>2, <1>3, <1>4

LEMMA WriteType ==
  ASSUME TypeOK, Write
  PROVE  TypeOK'
<1>1. TodoType' /\ Head(todo) \in Statements
  BY HeadTailProperties DEF Write, TypeOK, TodoType
<1> DEFINE w == Head(todo)
<1>2. /\ w.op \in {"insGroup", "insMember", "updLeader"} => w.group \in DbIds /\ w.player \in Players
      /\ w.op = "delMember" => w.player \in Players
      /\ w.op \in {"delMembers", "delGroup"} => w.group \in DbIds
  <2> HIDE DEF w
  <2>1. w \in Statements
    BY <1>1 DEF w
  <2> QED  BY <2>1 DEF Statements
<1>3. row' \in [Players -> {0} \cup DbIds]
  <2>1. CASE w.op \in {"insGroup", "updLeader", "delGroup"}
    BY <2>1 DEF Write, TypeOK
  <2>2. CASE w.op = "insMember"
    <3>1. row' = Insert(row, w.player, w.group)
      BY <2>2 DEF Write
    <3> QED  BY <1>2, <2>2, <3>1 DEF Insert, TypeOK
  <2>3. CASE w.op \in {"delMember", "delMembers"}
    BY <2>3 DEF Write, TypeOK
  <2> QED  BY <2>1, <2>2, <2>3 DEF Write
<1>4. stored' \in [DbIds -> Players \cup {NoOne}]
  <2>1. CASE w.op \in {"insMember", "delMember", "delMembers"}
    BY <2>1 DEF Write, TypeOK
  <2>2. CASE w.op = "insGroup"
    BY <1>2, <2>2 DEF Write, TypeOK
  <2>3. CASE w.op = "updLeader"
    BY <1>2, <2>3 DEF Write, TypeOK
  <2>4. CASE w.op = "delGroup"
    BY <2>4 DEF Write, TypeOK
  <2> QED  BY <2>1, <2>2, <2>3, <2>4 DEF Write
<1> QED  BY <1>1, <1>3, <1>4 DEF Write, memory, TypeOK, TodoType

LEMMA RestartType ==
  ASSUME TypeOK, Restart
  PROVE  TypeOK'
<1>1. GroupsType(groups') /\ TodoType'
  BY DEF Restart, TypeOK, GroupsType, TodoType
<1>2. nextID' \in 1 .. MaxIds + 1
  BY SizeAssumption DEF Restart
<1> QED  BY <1>1, <1>2, TypeParts DEF Restart, TypeOK

\* Sessions, groups and tables keep their types, and what a handler has still to
\* write are statements about players and stored groups.
THEOREM TypeCorrect == Spec => []TypeOK
<1>1. Init => TypeOK
  BY SizeAssumption DEF Init, TypeOK, NoGroup
<1>2. TypeOK /\ [Next]_vars => TypeOK'
  <2> SUFFICES ASSUME TypeOK, [Next]_vars  PROVE TypeOK'
    OBVIOUS
  <2>1. CASE UNCHANGED vars
    BY <2>1 DEF vars, memory, tables, TypeOK
  <2>2. CASE Restart
    BY <2>2, RestartType
  <2>3. CASE Write
    BY <2>3, WriteType
  <2>4. ASSUME NEW p \in Players, Step(p), UNCHANGED tables  PROVE TypeOK'
    <3>1. CASE \/ Login(p) \/ Logout(p) \/ Disconnect(p)
               \/ \E stays \in BOOLEAN : LogoutAlone(p, stays)
      BY <2>4, <3>1, LoginTypes, LogoutType DEF Login
    <3>2. CASE Answer(p)
      BY <2>4, <3>2, AcceptJoinType, AcceptFoundType, InvitationTypes, DeclineType DEF Answer
    <3>3. CASE Leave(p) \/ Forget(p) \/ Withdraw(p)
      BY <2>4, <3>3, InvitationTypes, RemovalTypes
    <3>4. CASE \E q \in Players : Invite(p, q) \/ Removal(p, q)
      BY <2>4, <3>4, InvitationTypes, RemovalTypes DEF Removal
    <3> QED  BY <2>4, <3>1, <3>2, <3>3, <3>4 DEF Step
  <2> QED  BY <2>1, <2>2, <2>3, <2>4 DEF Next, Handle
<1> QED  BY <1>1, <1>2, PTL DEF Spec

-----------------------------------------------------------------------------
(* The statements that are still to be written                               *)

\* A group d founded by l with q: its row, the founder's and the member's.
Founds(d, l, q) == /\ todo = <<InsGroup(d, l), InsMember(d, l), InsMember(d, q)>>
                   /\ RowsOf(row, d) = {}
Peoples(d, l, q) == /\ todo = <<InsMember(d, l), InsMember(d, q)>>
                    /\ stored[d] # NoOne /\ RowsOf(row, d) = {}
Joins(d, q) == /\ todo = <<InsMember(d, q)>>
               /\ stored[d] # NoOne /\ Cardinality(RowsOf(row, d)) < MaxMembers

\* No group in memory is the one that goes from the tables.
Gone(d) == \A g \in Live : groups[g].dbid # d

Kicks(d, q) == todo = <<DelMember(q), DelMembers(d), DelGroup(d)>> /\ Gone(d)
Empties(d) == todo = Dissolved(d) /\ Gone(d)
Drops(d) == todo = <<DelGroup(d)>> /\ Gone(d) /\ RowsOf(row, d) = {}

Removes(d, l, q) == todo = <<DelMember(q)>> \/ todo = <<DelMember(q), UpdLeader(d, l)>>
Promotes(d, l) == todo = <<UpdLeader(d, l)>>

Shape(d, l, q) ==
  \/ Founds(d, l, q) \/ Peoples(d, l, q) \/ Joins(d, q)
  \/ Kicks(d, q) \/ Empties(d) \/ Drops(d)
  \/ Removes(d, l, q) \/ Promotes(d, l)

Pending == todo = <<>> \/ \E d \in DbIds, l \in Players, q \in Players : Shape(d, l, q)

\* A group in memory is stored, or about to be.
AboutToStore(d) == todo # <<>> /\ Head(todo).op = "insGroup" /\ Head(todo).group = d
Backed == \A g \in Live : stored[groups[g].dbid] # NoOne \/ AboutToStore(groups[g].dbid)
Distinct == \A g, h \in Live : g # h => groups[g].dbid # groups[h].dbid

MInv == Backed /\ Distinct /\ Pending
RInv == TypeOK /\ MInv /\ RowsStored

LEMMA HeadsTails ==
  ASSUME NEW a, NEW b, NEW c
  PROVE  /\ Head(<<a>>) = a /\ Tail(<<a>>) = <<>> /\ <<a>> # <<>>
         /\ Head(<<a, b>>) = a /\ Tail(<<a, b>>) = <<b>> /\ <<a, b>> # <<>>
         /\ Head(<<a, b, c>>) = a /\ Tail(<<a, b, c>>) = <<b, c>> /\ <<a, b, c>> # <<>>
<1>1. Head(<<a>>) = a /\ Tail(<<a>>) = <<>> /\ <<a>> # <<>>
  OBVIOUS
<1>2. Head(<<a, b>>) = a /\ Tail(<<a, b>>) = <<b>> /\ <<a, b>> # <<>>
  OBVIOUS
<1>3. Head(<<a, b, c>>) = a /\ Tail(<<a, b, c>>) = <<b, c>> /\ <<a, b, c>> # <<>>
  OBVIOUS
<1> QED  BY <1>1, <1>2, <1>3

\* Between two handlers every group in memory is stored.
LEMMA Once ==
  ASSUME MInv
  PROVE  InMemoryOnce
BY DEF MInv, Backed, AboutToStore, Distinct, InMemoryOnce

-----------------------------------------------------------------------------
(* What each statement does                                                  *)

LEMMA Ops ==
  ASSUME NEW d, NEW p
  PROVE  /\ InsGroup(d, p).op = "insGroup" /\ InsGroup(d, p).group = d /\ InsGroup(d, p).player = p
         /\ InsMember(d, p).op = "insMember" /\ InsMember(d, p).group = d
         /\ InsMember(d, p).player = p
         /\ UpdLeader(d, p).op = "updLeader" /\ UpdLeader(d, p).group = d
         /\ UpdLeader(d, p).player = p
         /\ DelMember(p).op = "delMember" /\ DelMember(p).player = p
         /\ DelMembers(d).op = "delMembers" /\ DelMembers(d).group = d
         /\ DelGroup(d).op = "delGroup" /\ DelGroup(d).group = d
BY DEF InsGroup, InsMember, UpdLeader, DelMember, DelMembers, DelGroup

LEMMA InsGroupWrites ==
  ASSUME Write, NEW d, NEW l, Head(todo) = InsGroup(d, l)
  PROVE  row' = row /\ stored' = [stored EXCEPT ![d] = l]
BY Ops DEF Write

LEMMA InsMemberWrites ==
  ASSUME Write, NEW d, NEW q, Head(todo) = InsMember(d, q)
  PROVE  row' = Insert(row, q, d) /\ stored' = stored
BY Ops DEF Write

LEMMA UpdLeaderWrites ==
  ASSUME TypeOK, Write, NEW d \in DbIds, NEW l \in Players, Head(todo) = UpdLeader(d, l)
  PROVE  row' = row /\ \A e \in DbIds : stored[e] # NoOne => stored'[e] # NoOne
<1>1. row' = row /\ stored' = [stored EXCEPT ![d] = IF @ = NoOne THEN NoOne ELSE l]
  BY Ops DEF Write
<1> QED  BY <1>1, NamesAssumption DEF TypeOK

LEMMA DelMemberWrites ==
  ASSUME Write, NEW q, Head(todo) = DelMember(q)
  PROVE  row' = [row EXCEPT ![q] = 0] /\ stored' = stored
BY Ops DEF Write

LEMMA DelMembersWrites ==
  ASSUME Write, NEW d, Head(todo) = DelMembers(d)
  PROVE  row' = [p \in Players |-> IF row[p] = d THEN 0 ELSE row[p]] /\ stored' = stored
BY Ops DEF Write

LEMMA DelGroupWrites ==
  ASSUME Write, NEW d, Head(todo) = DelGroup(d)
  PROVE  row' = row /\ stored' = [stored EXCEPT ![d] = NoOne]
BY Ops DEF Write

LEMMA WriteLeaves ==
  ASSUME Write
  PROVE  /\ groups' = groups /\ Live' = Live /\ todo' = Tail(todo)
         /\ \A d : Gone(d)' <=> Gone(d)
<1>1. groups' = groups /\ todo' = Tail(todo)
  BY DEF Write, memory
<1>2. Live' = Live
  BY <1>1 DEF Live
<1>3. \A d : Gone(d)' <=> Gone(d)
  BY <1>1, <1>2 DEF Gone
<1> QED  BY <1>1, <1>2, <1>3

\* Statements that remove no group's row keep the memory stored.
LEMMA StillBacked ==
  ASSUME TypeOK, MInv, Write, Head(todo).op # "insGroup",
         \A e \in DbIds : stored[e] # NoOne => stored'[e] # NoOne
  PROVE  Backed' /\ Distinct'
<1>1. \A g \in Live : groups[g].dbid \in DbIds /\ stored[groups[g].dbid] # NoOne
  BY LiveFacts DEF MInv, Backed, AboutToStore
<1>2. groups' = groups /\ Live' = Live
  BY WriteLeaves
<1> QED  BY <1>1, <1>2 DEF Backed, Distinct, MInv

\* What a statement does to the rows: nothing, or a move of the register.
RowMove ==
  \/ row' = row
  \/ \E q \in Players : row' = [row EXCEPT ![q] = 0]
  \/ \E d \in DbIds : row' = [p \in Players |-> IF row[p] = d THEN 0 ELSE row[p]]
  \/ \E d \in DbIds, q \in Players : /\ Cardinality(RowsOf(row, d)) < MaxMembers
                                     /\ row' = Insert(row, q, d)

\* Rows that stay or go.
LEMMA FewerRows ==
  ASSUME TypeOK, RowsStored, \A p \in Players : row'[p] \in {0, row[p]},
         \A e \in DbIds : stored[e] # NoOne => stored'[e] # NoOne
  PROVE  RowsStored'
BY DEF RowsStored, TypeOK

LEMMA OneMore ==
  ASSUME TypeOK, RowsStored, NEW d \in DbIds, NEW q \in Players, stored[d] # NoOne,
         row' = Insert(row, q, d), stored' = stored
  PROVE  RowsStored'
<1>1. \A p \in Players : row'[p] \in {row[p], d}
  BY DEF Insert, TypeOK
<1> QED  BY <1>1 DEF RowsStored

LEMMA SmallSet ==
  ASSUME NEW S, NEW x, S \subseteq {x}
  PROVE  Cardinality(S) \in {0, 1}
<1>1. S = {} \/ S = {x}
  OBVIOUS
<1> QED  BY <1>1, FS_EmptySet, FS_Singleton

\* The founder's row alone does not fill a group.
LEMMA RoomForOne ==
  ASSUME TypeOK, NEW d \in DbIds, NEW l \in Players, RowsOf(row, d) = {},
         row' = Insert(row, l, d)
  PROVE  Cardinality(RowsOf(row', d)) < MaxMembers
<1>1. RowsOf(row', d) \subseteq {l}
  BY DEF RowsOf, Insert, TypeOK
<1>2. Cardinality(RowsOf(row', d)) \in {0, 1}
  BY <1>1, SmallSet
<1> QED  BY <1>2, SizeAssumption

-----------------------------------------------------------------------------
(* Writing                                                                   *)

\* A step that keeps the invariant moves the rows as the register allows.
WellWritten == Backed' /\ Distinct' /\ Pending' /\ RowsStored' /\ RowMove

LEMMA WriteFounding ==
  ASSUME RInv, Write, NEW d \in DbIds, NEW l \in Players, NEW q \in Players,
         Founds(d, l, q) \/ Peoples(d, l, q) \/ Joins(d, q)
  PROVE  WellWritten
<1>0. TypeOK /\ MInv /\ RowsStored
  BY DEF RInv
<1>1. CASE Founds(d, l, q)
  <2>1. /\ Head(todo) = InsGroup(d, l) /\ todo' = <<InsMember(d, l), InsMember(d, q)>>
        /\ RowsOf(row, d) = {}
    BY <1>1, HeadsTails, WriteLeaves DEF Founds
  <2>2. row' = row /\ stored' = [stored EXCEPT ![d] = l]
    BY <2>1, InsGroupWrites
  <2>3. stored'[d] # NoOne /\ \A e \in DbIds : stored[e] # NoOne => stored'[e] # NoOne
    BY <1>0, <2>2, NamesAssumption DEF TypeOK
  <2>4. Peoples(d, l, q)'
    BY <2>1, <2>2, <2>3 DEF Peoples, RowsOf
  <2>5. \A g \in Live : /\ groups[g].dbid \in DbIds
                        /\ stored[groups[g].dbid] # NoOne \/ groups[g].dbid = d
    BY <1>0, <2>1, LiveFacts, Ops DEF MInv, Backed, AboutToStore
  <2>6. Backed' /\ Distinct'
    BY <1>0, <2>3, <2>5, WriteLeaves DEF Backed, Distinct, MInv
  <2>7. RowsStored'
    BY <1>0, <2>2, <2>3, FewerRows
  <2> QED  BY <2>2, <2>4, <2>6, <2>7 DEF WellWritten, Pending, Shape, RowMove
<1>2. CASE Peoples(d, l, q)
  <2>1. /\ Head(todo) = InsMember(d, l) /\ todo' = <<InsMember(d, q)>>
        /\ RowsOf(row, d) = {} /\ stored[d] # NoOne
    BY <1>2, HeadsTails, WriteLeaves DEF Peoples
  <2>2. row' = Insert(row, l, d) /\ stored' = stored
    BY <2>1, InsMemberWrites
  <2>3. Joins(d, q)'
    BY <1>0, <2>1, <2>2, RoomForOne DEF Joins
  <2>4. Backed' /\ Distinct'
    BY <1>0, <2>1, <2>2, Ops, StillBacked
  <2>5. RowsStored'
    BY <1>0, <2>1, <2>2, OneMore
  <2>6. Cardinality(RowsOf(row, d)) < MaxMembers
    BY <2>1, FS_EmptySet, SizeAssumption
  <2> QED  BY <2>2, <2>3, <2>4, <2>5, <2>6 DEF WellWritten, Pending, Shape, RowMove
<1>3. CASE Joins(d, q)
  <2>1. /\ Head(todo) = InsMember(d, q) /\ todo' = <<>> /\ stored[d] # NoOne
        /\ Cardinality(RowsOf(row, d)) < MaxMembers
    BY <1>3, HeadsTails, WriteLeaves DEF Joins
  <2>2. row' = Insert(row, q, d) /\ stored' = stored
    BY <2>1, InsMemberWrites
  <2>3. Backed' /\ Distinct'
    BY <1>0, <2>1, <2>2, Ops, StillBacked
  <2>4. RowsStored'
    BY <1>0, <2>1, <2>2, OneMore
  <2> QED  BY <2>1, <2>2, <2>3, <2>4 DEF WellWritten, Pending, RowMove
<1> QED  BY <1>1, <1>2, <1>3

LEMMA WriteDissolution ==
  ASSUME RInv, Write, NEW d \in DbIds, NEW l \in Players, NEW q \in Players,
         Kicks(d, q) \/ Empties(d) \/ Drops(d)
  PROVE  WellWritten
<1>0. TypeOK /\ MInv /\ RowsStored
  BY DEF RInv
<1>1. CASE Kicks(d, q)
  <2>1. Head(todo) = DelMember(q) /\ todo' = Dissolved(d) /\ Gone(d)
    BY <1>1, HeadsTails, WriteLeaves DEF Kicks, Dissolved
  <2>2. row' = [row EXCEPT ![q] = 0] /\ stored' = stored
    BY <2>1, DelMemberWrites
  <2>3. Empties(d)'
    BY <2>1, WriteLeaves DEF Empties
  <2>4. Backed' /\ Distinct'
    BY <1>0, <2>1, <2>2, Ops, StillBacked
  <2>5. \A p \in Players : row'[p] \in {0, row[p]}
    BY <1>0, <2>2 DEF TypeOK
  <2>6. RowsStored'
    BY <1>0, <2>2, <2>5, FewerRows
  <2> QED  BY <2>2, <2>3, <2>4, <2>6 DEF WellWritten, Pending, Shape, RowMove
<1>2. CASE Empties(d)
  <2>1. Head(todo) = DelMembers(d) /\ todo' = <<DelGroup(d)>> /\ Gone(d)
    BY <1>2, HeadsTails, WriteLeaves DEF Empties, Dissolved
  <2>2. row' = [p \in Players |-> IF row[p] = d THEN 0 ELSE row[p]] /\ stored' = stored
    BY <2>1, DelMembersWrites
  <2>3. RowsOf(row', d) = {}
    BY <2>2 DEF RowsOf, DbIds
  <2>4. Drops(d)'
    BY <2>1, <2>3, WriteLeaves DEF Drops
  <2>5. Backed' /\ Distinct'
    BY <1>0, <2>1, <2>2, Ops, StillBacked
  <2>6. RowsStored'
    BY <1>0, <2>2, FewerRows
  <2> QED  BY <2>2, <2>4, <2>5, <2>6 DEF WellWritten, Pending, Shape, RowMove
<1>3. CASE Drops(d)
  <2>1. Head(todo) = DelGroup(d) /\ todo' = <<>> /\ Gone(d) /\ RowsOf(row, d) = {}
    BY <1>3, HeadsTails, WriteLeaves DEF Drops
  <2>2. row' = row /\ stored' = [stored EXCEPT ![d] = NoOne]
    BY <2>1, DelGroupWrites
  <2>3. \A e \in DbIds : e # d => stored'[e] = stored[e]
    BY <1>0, <2>2 DEF TypeOK
  <2>4. \A g \in Live : groups[g].dbid \in DbIds /\ stored[groups[g].dbid] # NoOne
    BY <1>0, <2>1, LiveFacts, Ops DEF MInv, Backed, AboutToStore
  <2>5. Backed' /\ Distinct'
    BY <1>0, <2>1, <2>3, <2>4, WriteLeaves DEF Backed, Distinct, MInv, Gone
  <2>6. RowsStored'
    BY <1>0, <2>1, <2>2, <2>3 DEF RowsStored, RowsOf, TypeOK
  <2> QED  BY <2>1, <2>2, <2>5, <2>6 DEF WellWritten, Pending, RowMove
<1> QED  BY <1>1, <1>2, <1>3

LEMMA WriteRemoval ==
  ASSUME RInv, Write, NEW d \in DbIds, NEW l \in Players, NEW q \in Players,
         Removes(d, l, q) \/ Promotes(d, l)
  PROVE  WellWritten
<1>0. TypeOK /\ MInv /\ RowsStored
  BY DEF RInv
<1>1. CASE Removes(d, l, q)
  <2>1. Head(todo) = DelMember(q) /\ (todo' = <<>> \/ todo' = <<UpdLeader(d, l)>>)
    <3>1. CASE todo = <<DelMember(q)>>
      BY <3>1, HeadsTails, WriteLeaves
    <3>2. CASE todo = <<DelMember(q), UpdLeader(d, l)>>
      BY <3>2, HeadsTails, WriteLeaves
    <3> QED  BY <1>1, <3>1, <3>2 DEF Removes
  <2>2. row' = [row EXCEPT ![q] = 0] /\ stored' = stored
    BY <2>1, DelMemberWrites
  <2>3. Pending'
    BY <2>1 DEF Pending, Shape, Promotes
  <2>4. Backed' /\ Distinct'
    BY <1>0, <2>1, <2>2, Ops, StillBacked
  <2>5. \A p \in Players : row'[p] \in {0, row[p]}
    BY <1>0, <2>2 DEF TypeOK
  <2>6. RowsStored'
    BY <1>0, <2>2, <2>5, FewerRows
  <2> QED  BY <2>2, <2>3, <2>4, <2>6 DEF WellWritten, RowMove
<1>2. CASE Promotes(d, l)
  <2>1. Head(todo) = UpdLeader(d, l) /\ todo' = <<>>
    BY <1>2, HeadsTails, WriteLeaves DEF Promotes
  <2>2. row' = row /\ \A e \in DbIds : stored[e] # NoOne => stored'[e] # NoOne
    BY <1>0, <2>1, UpdLeaderWrites
  <2>3. Backed' /\ Distinct'
    BY <1>0, <2>1, <2>2, Ops, StillBacked
  <2>4. RowsStored'
    BY <1>0, <2>2, FewerRows
  <2> QED  BY <2>1, <2>2, <2>3, <2>4 DEF WellWritten, Pending, RowMove
<1> QED  BY <1>1, <1>2

LEMMA WriteKeeps ==
  ASSUME RInv, Write
  PROVE  WellWritten
<1>1. todo # <<>>
  BY DEF Write
<1>2. PICK d \in DbIds, l \in Players, q \in Players : Shape(d, l, q)
  BY <1>1 DEF RInv, MInv, Pending
<1> QED  BY <1>2, WriteFounding, WriteDissolution, WriteRemoval DEF Shape

-----------------------------------------------------------------------------
(* Handling                                                                  *)

\* A handler that starts finds every group in memory stored, and itself stores none.
Quiet == todo = <<>> /\ UNCHANGED tables

LEMMA AtRest ==
  ASSUME RInv, Quiet
  PROVE  /\ \A g \in Live : groups[g].dbid \in DbIds /\ stored[groups[g].dbid] # NoOne
         /\ stored' = stored /\ row' = row /\ Distinct
BY LiveFacts DEF RInv, MInv, Backed, AboutToStore, Quiet, tables

\* No group enters memory, and what is to be written has a known shape.
LEMMA NoNewGroup ==
  ASSUME RInv, Quiet, \A h \in Ids : groups'[h].dbid \in {0, groups[h].dbid}, Pending'
  PROVE  MInv'
<1>1. \A g \in Live' : g \in Live /\ groups'[g].dbid = groups[g].dbid
  BY DEF Live
<1>2. Backed'
  BY <1>1, AtRest DEF Backed
<1>3. Distinct'
  BY <1>1, AtRest DEF Distinct
<1> QED  BY <1>2, <1>3 DEF MInv

LEMMA SameGroups ==
  ASSUME RInv, Quiet, groups' = groups, Pending'
  PROVE  MInv'
BY NoNewGroup

LEMMA ReleadKeeps ==
  ASSUME TypeOK, NEW g \in Live, NEW s \in [Players -> Nat], NEW l \in Players, Relead(g, s, l)
  PROVE  \A h \in Ids : groups'[h].dbid = groups[h].dbid
BY LiveFacts DEF Relead, TypeOK

LEMMA DisbandLeaves ==
  ASSUME TypeOK, Distinct, NEW g \in Live, NEW S, NEW D, Disband(g, S, D),
         NEW d, d = groups[g].dbid
  PROVE  /\ \A h \in Ids : groups'[h].dbid \in {0, groups[h].dbid}
         /\ Gone(d)'
<1>1. groups'[g].dbid = 0 /\ \A h \in Ids : h # g => groups'[h].dbid = groups[h].dbid
  BY LiveFacts DEF Disband, NoGroup, TypeOK
<1>2. \A h \in Live' : h \in Live /\ h # g /\ groups'[h].dbid = groups[h].dbid
  BY <1>1 DEF Live
<1>3. Gone(d)'
  BY <1>2 DEF Gone, Distinct
<1> QED  BY <1>1, <1>3

LEMMA DisbandMInv ==
  ASSUME RInv, Quiet, NEW g \in Live, NEW S, NEW D, Disband(g, S, D),
         NEW q \in Players, NEW d, d = groups[g].dbid,
         todo' = Dissolved(d) \/ todo' = <<DelMember(q), DelMembers(d), DelGroup(d)>>
  PROVE  MInv'
<1>1. TypeOK /\ Distinct /\ d \in DbIds
  BY LiveFacts DEF RInv, MInv
<1>2. (\A h \in Ids : groups'[h].dbid \in {0, groups[h].dbid}) /\ Gone(d)'
  BY <1>1, DisbandLeaves
<1>3. Empties(d)' \/ Kicks(d, q)'
  BY <1>2 DEF Empties, Kicks
<1>4. Pending'
  BY <1>1, <1>3 DEF Pending, Shape
<1> QED  BY <1>2, <1>4, NoNewGroup

LEMMA RemoveMInv ==
  ASSUME RInv, Quiet, NEW g \in Live, NEW t \in Players, Remove(g, t)
  PROVE  MInv'
<1> DEFINE s == Without(groups[g].members, t)
<1>0. TypeOK /\ s \in [Players -> Nat] /\ groups[g].dbid \in DbIds
  BY LiveFacts, FewerEntries DEF RInv
<1>1. CASE Disband(g, In(s) \cup {t}, {t}) /\ todo' = Dissolved(groups[g].dbid)
  BY <1>1, DisbandMInv
<1>2. CASE ~ AtMostOne(s)
  <2>0. PICK l \in Players :
          /\ Relead(g, s, l)
          /\ todo' = IF l = groups[g].leader THEN <<DelMember(t)>>
                     ELSE <<DelMember(t), UpdLeader(groups[g].dbid, l)>>
    BY <1>0, <1>2, LeadersArePlayers DEF Remove
  <2> HIDE DEF s
  <2>1. Pending'
    BY <1>0, <2>0 DEF Pending, Shape, Removes
  <2> QED  BY <1>0, <2>0, <2>1, ReleadKeeps, NoNewGroup
<1> QED  BY <1>1, <1>2 DEF Remove

LEMMA LoginMInv ==
  ASSUME RInv, Quiet, NEW p \in Players, Login(p)
  PROVE  MInv'
<1>0. todo' = <<>>
  BY DEF Quiet, Login, Attach, Load, LoginAlone
<1>1. CASE Attach(p) \/ LoginAlone(p)
  <2>1. groups' = groups /\ Pending'
    BY <1>0, <1>1 DEF Attach, LoginAlone, Pending
  <2> QED  BY <2>1, SameGroups
<1>2. CASE Load(p)
  <2>0. PICK g \in Ids : g = LoadedAs(row[p])
    BY <1>2 DEF Load
  <2>1. /\ \A h \in Live : groups[h].dbid # row[p]
        /\ row[p] \in DbIds /\ stored[row[p]] # NoOne
        /\ groups'[g].dbid = row[p] /\ \A h \in Ids : h # g => groups'[h] = groups[h]
    BY <1>2, <2>0 DEF Load, Loads, RInv, TypeOK
  <2>2. \A h \in Live' : h = g \/ (h \in Live /\ groups'[h] = groups[h])
    BY <2>1 DEF Live
  <2>3. Backed'
    BY <2>1, <2>2, AtRest DEF Backed
  <2>4. Distinct'
    BY <2>1, <2>2, AtRest DEF Distinct
  <2> QED  BY <1>0, <2>3, <2>4 DEF MInv, Pending
<1> QED  BY <1>1, <1>2 DEF Login

LEMMA LogoutMInv ==
  ASSUME RInv, Quiet, NEW p \in Players, Logout(p)
  PROVE  MInv'
<1> DEFINE s == Without(groups[groupID[p]].members, p)
<1>0. PICK g \in Live : g = groupID[p]
  BY DEF Logout
<1>1. TypeOK /\ s \in [Players -> Nat] /\ groups[g].dbid \in DbIds
  BY <1>0, LiveFacts, FewerEntries DEF RInv
<1>2. CASE s = Nobody
  <2>1. groups' = [groups EXCEPT ![g] = NoGroup] /\ todo' = <<>>
    BY <1>2, <1>0 DEF Logout
  <2>2. \A h \in Ids : groups'[h].dbid \in {0, groups[h].dbid}
    BY <1>1, <2>1 DEF NoGroup, TypeOK
  <2> QED  BY <2>1, <2>2, NoNewGroup DEF Pending
<1>3. CASE s # Nobody
  <2>1. PICK l \in Players : Relead(g, s, l) /\ todo' = NewLeader(g, l)
    BY <1>3, <1>0, <1>1, LeadersArePlayers DEF Logout
  <2> HIDE DEF s
  <2>2. Pending'
    <3>1. todo' = <<>> \/ todo' = <<UpdLeader(groups[g].dbid, l)>>
      BY <2>1 DEF NewLeader
    <3> QED  BY <1>1, <3>1 DEF Pending, Shape, Promotes
  <2> QED  BY <1>1, <2>1, <2>2, ReleadKeeps, NoNewGroup
<1> QED  BY <1>2, <1>3

LEMMA JoinMInv ==
  ASSUME RInv, Quiet, NEW q \in Players, NEW g \in Ids, AcceptJoin(q, g)
  PROVE  MInv'
<1>0. TypeOK /\ g \in Live /\ groups[g].dbid \in DbIds
  BY LiveFacts DEF AcceptJoin, InviteGroups, RInv
<1>1. CASE Full(row, groups[g]) /\ UNCHANGED <<groups, groupID, todo>>
  BY <1>1, SameGroups DEF Pending, Quiet
<1>2. CASE ~Full(row, groups[g])
  <2>0. /\ groups' = [groups EXCEPT ![g] = [dbid |-> groups[g].dbid,
                          leader |-> groups[g].leader, members |-> With(groups[g].members, q)]]
        /\ todo' = <<InsMember(groups[g].dbid, q)>>
    BY <1>2 DEF AcceptJoin
  <2>1. \A h \in Ids : groups'[h].dbid = groups[h].dbid
    BY <1>0, <2>0 DEF TypeOK
  <2>2. PICK d \in DbIds : d = groups[g].dbid
    BY <1>0
  <2>3. stored'[d] # NoOne /\ row' = row
    BY <1>0, <2>2, AtRest
  <2>4. Cardinality(RowsOf(row', d)) < MaxMembers
    <3>1. Cardinality(RowsOf(row, d)) \in Nat
      BY SizeAssumption, FS_Subset, FS_CardinalityType DEF RowsOf
    <3>2. Cardinality(RowsOf(row, d)) < MaxMembers
      BY <1>2, <2>2, <3>1, SizeAssumption DEF Full
    <3> QED  BY <2>3, <3>2
  <2>5. Joins(d, q)'
    BY <2>0, <2>2, <2>3, <2>4 DEF Joins
  <2>6. Pending'
    BY <2>5 DEF Pending, Shape
  <2> QED  BY <2>1, <2>6, NoNewGroup
<1> QED  BY <1>1, <1>2 DEF AcceptJoin

LEMMA FoundMInv ==
  ASSUME RInv, Quiet, NEW q \in Players, NEW d \in DbIds, AcceptFound(q, d)
  PROVE  MInv'
<1>0. PICK l \in Players : l = pending[q]
  BY NamesAssumption DEF AcceptFound, RInv, TypeOK
<1>1. PICK g \in Ids : g = nextID
  BY DEF AcceptFound
<1>2. stored[d] = NoOne /\ RowsOf(row, d) = {}
  <2>1. stored[d] = NoOne /\ d # 0
    BY DEF AcceptFound, IsNext, DbIds
  <2> QED  BY <2>1 DEF RInv, RowsStored, RowsOf
<1> DEFINE founded == Insert(row, l, d)
           full == Cardinality(RowsOf(founded, d)) >= MaxMembers
<1>3. /\ groups'[g].dbid = d /\ \A h \in Ids : h # g => groups'[h] = groups[h]
      /\ todo' = IF full THEN <<InsGroup(d, l), InsMember(d, l)>>
                 ELSE <<InsGroup(d, l), InsMember(d, l), InsMember(d, q)>>
  BY <1>0, <1>1 DEF AcceptFound, RInv, TypeOK
<1>4. ~full
  <2>1. RowsOf(founded, d) \subseteq {l}
    BY <1>2 DEF RowsOf, Insert, RInv, TypeOK
  <2> HIDE DEF founded
  <2>2. Cardinality(RowsOf(founded, d)) \in {0, 1}
    BY <2>1, SmallSet
  <2> QED  BY <2>2, SizeAssumption
<1> HIDE DEF full
<1>5. todo' = <<InsGroup(d, l), InsMember(d, l), InsMember(d, q)>>
  BY <1>3, <1>4
<1>6. Founds(d, l, q)'
  BY <1>2, <1>5, AtRest DEF Founds
<1>7. AboutToStore(d)'
  BY <1>5, HeadsTails, Ops DEF AboutToStore
<1>8. \A h \in Live' : h = g \/ (h \in Live /\ groups'[h] = groups[h])
  BY <1>3 DEF Live
<1>9. Backed'
  BY <1>3, <1>7, <1>8, AtRest DEF Backed
<1>10. Distinct'
  BY <1>2, <1>3, <1>8, AtRest DEF Distinct
<1> QED  BY <1>6, <1>9, <1>10 DEF MInv, Pending, Shape

LEMMA DeclineMInv ==
  ASSUME RInv, Quiet, NEW q \in Players, Decline(q)
  PROVE  MInv'
<1>1. ASSUME NEW g \in DeclinedGroups(pending[q]), Disband(g, In(groups[g].members), {q}),
             todo' = Dissolved(groups[g].dbid)
      PROVE  MInv'
  <2>1. g \in Live
    BY DEF DeclinedGroups
  <2> QED  BY <1>1, <2>1, DisbandMInv
<1>2. CASE groups' = groups /\ todo' = todo
  BY <1>2, SameGroups DEF Pending, Quiet
<1> QED  BY <1>1, <1>2 DEF Decline

LEMMA KickMInv ==
  ASSUME RInv, Quiet, NEW p \in Players, NEW t \in Players, KickOffline(p, t)
  PROVE  MInv'
<1>1. PICK g \in Live : g = groupID[p]
  BY DEF KickOffline, Leads
<1>2. PICK d \in DbIds : d = groups[g].dbid
  BY LiveFacts DEF RInv
<1>3. CASE /\ Disband(g, In(groups[g].members), {})
           /\ todo' = <<DelMember(t), DelMembers(d), DelGroup(d)>>
  BY <1>2, <1>3, DisbandMInv
<1>4. CASE groups' = groups /\ todo' = <<DelMember(t)>>
  <2>1. Pending'
    BY <1>2, <1>4 DEF Pending, Shape, Removes
  <2> QED  BY <1>4, <2>1, SameGroups
<1> QED  BY <1>1, <1>2, <1>3, <1>4 DEF KickOffline

LEMMA StepMInv ==
  ASSUME RInv, Quiet, NEW p \in Players, Step(p)
  PROVE  MInv'
<1>1. CASE \/ Disconnect(p) \/ AcceptLate(p) \/ Forget(p) \/ Withdraw(p)
           \/ \E stays \in BOOLEAN : LogoutAlone(p, stays)
           \/ \E q \in Players : Invite(p, q) \/ UninviteInvitee(p, q)
  <2>1. groups' = groups /\ todo' = <<>>
    BY <1>1 DEF Disconnect, AcceptLate, Forget, Withdraw, LogoutAlone, Invite, UninviteInvitee, Quiet
  <2> QED  BY <2>1, SameGroups DEF Pending
<1>2. CASE Login(p) \/ Logout(p)
  BY <1>2, LoginMInv, LogoutMInv
<1>3. ASSUME NEW g \in Ids, AcceptJoin(p, g)  PROVE MInv'
  BY <1>3, JoinMInv
<1>4. ASSUME NEW d \in DbIds, AcceptFound(p, d)  PROVE MInv'
  BY <1>4, FoundMInv
<1>5. CASE Decline(p)
  BY <1>5, DeclineMInv
<1>6. CASE Leave(p)
  BY <1>6, RemoveMInv DEF Leave
<1>7. ASSUME NEW t \in Players, Uninvite(p, t)  PROVE MInv'
  BY <1>7, RemoveMInv DEF Uninvite, Leads
<1>8. ASSUME NEW t \in Players, KickOffline(p, t)  PROVE MInv'
  BY <1>8, KickMInv
<1>9. ASSUME NEW c \in Players, SetLeader(p, c)  PROVE MInv'
  <2>1. PICK g \in Live : g = groupID[p]
    BY <1>9 DEF SetLeader, Leads
  <2>2. TypeOK /\ groups[g].dbid \in DbIds /\ groups[g].members \in [Players -> Nat]
    BY LiveFacts DEF RInv
  <2>3. Relead(g, groups[g].members, c) /\ todo' = <<UpdLeader(groups[g].dbid, c)>>
    BY <1>9, <2>1 DEF SetLeader
  <2>4. Pending'
    BY <2>2, <2>3 DEF Pending, Shape, Promotes
  <2> QED  BY <2>2, <2>3, <2>4, ReleadKeeps, NoNewGroup
<1> QED  BY <1>1, <1>2, <1>3, <1>4, <1>5, <1>6, <1>7, <1>8, <1>9 DEF Step, Answer, Removal

-----------------------------------------------------------------------------
(* The invariant and the refinement                                          *)

LEMMA InitInvariant == Init => RInv
<1>1. Init => TypeOK
  BY SizeAssumption DEF Init, TypeOK, NoGroup
<1>2. Init => MInv /\ RowsStored
  BY DEF Init, MInv, Backed, Distinct, Pending, Live, NoGroup, RowsStored
<1> QED  BY <1>1, <1>2 DEF RInv

LEMMA NextInvariant ==
  ASSUME RInv, TypeOK', [Next]_vars
  PROVE  RInv' /\ RowMove
<1>1. CASE UNCHANGED vars
  <2>1. Live' = Live /\ groups' = groups /\ row' = row /\ stored' = stored /\ todo' = todo
    BY <1>1 DEF vars, memory, tables, Live
  <2>2. MInv'
    <3>1. Backed' /\ Distinct'
      BY <2>1 DEF RInv, MInv, Backed, Distinct, AboutToStore
    <3>2. Pending'
      BY <2>1 DEF RInv, MInv, Pending, Shape, Founds, Peoples, Joins, Kicks, Empties, Drops, Gone,
                  Removes, Promotes
    <3> QED  BY <3>1, <3>2 DEF MInv
  <2>3. RowsStored'
    BY <2>1 DEF RInv, RowsStored
  <2> QED  BY <2>1, <2>2, <2>3 DEF RInv, RowMove
<1>2. CASE Restart
  <2>1. MInv'
    BY <1>2 DEF Restart, MInv, Backed, Distinct, Pending, Live, NoGroup
  <2>2. RowsStored' /\ RowMove
    BY <1>2 DEF Restart, tables, RInv, RowsStored, RowMove
  <2> QED  BY <2>1, <2>2 DEF RInv
<1>3. CASE Write
  BY <1>3, WriteKeeps DEF WellWritten, RInv, MInv
<1>4. CASE Handle
  <2>1. Quiet
    BY <1>4 DEF Handle, Quiet
  <2>2. MInv'
    BY <1>4, <2>1, StepMInv DEF Handle
  <2>3. RowsStored' /\ RowMove
    BY <2>1 DEF Quiet, tables, RInv, RowsStored, RowMove
  <2> QED  BY <2>2, <2>3 DEF RInv
<1> QED  BY <1>1, <1>2, <1>3, <1>4 DEF Next

LEMMA SameCardinality ==
  ASSUME NEW S
  PROVE  Register!Cardinality(S) = Cardinality(S)
BY DEF Cardinality, Register!Cardinality

\* Each move of the rows is one of the register.
LEMMA MovesAreRegister ==
  ASSUME TypeOK, RowMove, row' # row
  PROVE  Register!Next
<1>1. ASSUME NEW q \in Players, row' = [row EXCEPT ![q] = 0]  PROVE Register!Next
  <2>1. Register!Leave(q)
    BY <1>1 DEF Register!Leave
  <2>2. PICK d \in DbIds : row[q] = d
    BY <1>1 DEF TypeOK
  <2> QED  BY <2>1, <2>2 DEF Register!Next
<1>2. ASSUME NEW d \in DbIds, row' = [p \in Players |-> IF row[p] = d THEN 0 ELSE row[p]]
      PROVE  Register!Next
  BY <1>2 DEF Register!Next, Register!Dissolve
<1>3. ASSUME NEW d \in DbIds, NEW q \in Players, Cardinality(RowsOf(row, d)) < MaxMembers,
             row' = Insert(row, q, d)
      PROVE  Register!Next
  <2>1. row[q] = 0 /\ row' = [row EXCEPT ![q] = d]
    BY <1>3 DEF Insert
  <2>2. Register!Held(d) = RowsOf(row, d)
    BY DEF Register!Held, RowsOf
  <2>3. Register!Join(q, d)
    BY <1>3, <2>1, <2>2, SameCardinality DEF Register!Join, Register!Free
  <2> QED  BY <2>3 DEF Register!Next
<1> QED  BY <1>1, <1>2, <1>3 DEF RowMove

\* A stored group is in memory at most once, and between two handlers what is in
\* memory is stored: through logins, foundings, dissolutions, crashes and restarts
\* (loadPlayerGroup, handleGroupAccept, disbandGroup), one handler at a time.
THEOREM GroupsInMemoryOnce == Spec => []InMemoryOnce
<1>1. Init => RInv
  BY InitInvariant
<1>2. RInv /\ TypeOK' /\ [Next]_vars => RInv'
  BY NextInvariant
<1>3. RInv => InMemoryOnce
  BY Once DEF RInv
<1> QED  BY <1>1, <1>2, <1>3, TypeCorrect, PTL DEF Spec

\* No row of a member outlives its group, wherever the process ends between the
\* statements that found or dissolve it (handleGroupAccept, disbandGroup,
\* removeFromGroup, kickOfflineGroupMember).
THEOREM RowsAreStored == Spec => []RowsStored
<1>1. Init => RInv
  BY InitInvariant
<1>2. RInv /\ TypeOK' /\ [Next]_vars => RInv'
  BY NextInvariant
<1>3. RInv => RowsStored
  BY DEF RInv
<1> QED  BY <1>1, <1>2, <1>3, TypeCorrect, PTL DEF Spec

\* The table group_member is a register of memberships across logouts, crashes,
\* restarts and removals.
THEOREM MembersKeepRegister == Spec => KeepsRegister
<1>1. Init => RInv
  BY InitInvariant
<1>2. RInv /\ TypeOK' /\ [Next]_vars => RInv'
  BY NextInvariant
<1>3. Init => Register!Init
  BY DEF Init, Register!Init
<1>4. RInv /\ TypeOK' /\ [Next]_vars => [row' # row => Register!Next]_row
  BY NextInvariant, MovesAreRegister DEF RInv
<1> QED  BY <1>1, <1>2, <1>3, <1>4, TypeCorrect, PTL DEF Spec, KeepsRegister

=============================================================================
