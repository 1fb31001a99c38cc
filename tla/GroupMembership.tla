--------------------------- MODULE GroupMembership ---------------------------
(* Parties of players (engine/world/group.go): invitations, joining, leaving, *)
(* removal, the change of leader, logout and login, and the tables in which   *)
(* groups outlive their members' sessions. A group in memory lists the        *)
(* members whose sessions it has seen; the rows of group_member list them     *)
(* all. Handlers run one at a time, and each writes its database statements   *)
(* one after the other, with no transaction around them: the process may end  *)
(* between two of them. Raids, assistants, battlegrounds and dungeon-finder   *)
(* groups, whose removals are votes, are left out.                            *)
EXTENDS Naturals, FiniteSets, Sequences

CONSTANTS
  Players,    \* characters, each on a session of its own
  NoOne,      \* no player
  Inviters,   \* bound: players who send invitations
  MaxMembers, \* maxGroupSize
  MaxIds,     \* bound: runtime group ids
  MaxStored,  \* bound: ids in the table groups
  MaxEntries, \* bound: entries of one player in a group's list
  MaxOpen     \* bound: open invitations

ASSUME NamesAssumption == NoOne \notin Players /\ Inviters \subseteq Players
ASSUME SizeAssumption == /\ IsFiniteSet(Players)
                         /\ MaxMembers \in Nat /\ MaxMembers >= 2
                         /\ MaxIds \in Nat /\ MaxStored \in Nat
                         /\ MaxEntries \in Nat /\ MaxOpen \in Nat

VARIABLES
  online,   \* sessions that findSessionByGUID finds
  groupID,  \* session.groupID; 0: none
  pending,  \* session.pendingGroupLeader: who invited the player
  groups,   \* Server.groups
  nextID,   \* groupNextID
  row,      \* group_member: the stored group of a character; 0: no row
  stored,   \* groups (table): the leader of a stored group; NoOne: no row
  todo      \* the statements that the handler at work has still to write

memory == <<online, groupID, pending, groups, nextID>>
tables == <<row, stored>>
vars == <<memory, tables, todo>>

Ids == 1 .. MaxIds
DbIds == 1 .. MaxStored
Nobody == [p \in Players |-> 0]
NoGroup == [dbid |-> 0, leader |-> NoOne, members |-> Nobody]
Live == {g \in Ids : groups[g].dbid # 0}

RowsOf(r, d) == {p \in Players : r[p] = d}

\* A member list counts the entries of each player; their order is left out.
In(s) == {p \in Players : s[p] > 0}
AtMostOne(s) == \A p, q \in In(s) : p = q /\ s[p] = 1
With(s, p) == [s EXCEPT ![p] = @ + 1]
Without(s, p) == [s EXCEPT ![p] = IF @ = 0 THEN 0 ELSE @ - 1]

\* Mutant: only the members that are online take a slot.
FullOnline(r, g) == Cardinality(In(g.members)) >= MaxMembers

\* groupSlotFull: the rows of the group, whose members may be offline.
Full(r, g) == Cardinality(RowsOf(r, g.dbid)) >= MaxMembers

\* The statements that a handler writes.
InsGroup(d, l) == [op |-> "insGroup", group |-> d, player |-> l]
InsMember(d, p) == [op |-> "insMember", group |-> d, player |-> p]
UpdLeader(d, l) == [op |-> "updLeader", group |-> d, player |-> l]
DelMember(p) == [op |-> "delMember", player |-> p]
DelMembers(d) == [op |-> "delMembers", group |-> d]
DelGroup(d) == [op |-> "delGroup", group |-> d]

Statements ==
  [op : {"insGroup", "insMember", "updLeader"}, group : DbIds, player : Players]
  \cup [op : {"delMember"}, player : Players]
  \cup [op : {"delMembers", "delGroup"}, group : DbIds]

\* Mutant: the group goes before its members do.
DissolvedFirst(d) == <<DelGroup(d), DelMembers(d)>>

\* The end of disbandGroup and of removeFromGroup.
Dissolved(d) == <<DelMembers(d), DelGroup(d)>>

\* memberGuid is the key of group_member: who has a row keeps it.
Insert(r, p, d) == IF r[p] = 0 THEN [r EXCEPT ![p] = d] ELSE r

\* Mutant: an id from the number of groups.
IsNextByCount(d) == d = Cardinality({e \in DbIds : stored[e] # NoOne}) + 1

\* SELECT COALESCE(MAX(guid), 0) + 1 FROM groups: an id above all others is free again.
IsNext(d) == /\ d = 1 \/ (d - 1 \in DbIds /\ stored[d - 1] # NoOne)
             /\ \A e \in DbIds : e >= d => stored[e] = NoOne

\* Mutant: a leader that goes is forgotten when nobody can follow.
LeadersAfterNobody(g, p, connected) ==
  IF groups[g].leader # p THEN {groups[g].leader}
  ELSE IF connected = {} THEN {NoOne} ELSE connected

\* The leader once p has gone: the first member that is connected, if p led.
LeadersAfter(g, p, connected) ==
  IF groups[g].leader = p /\ connected # {} THEN connected ELSE {groups[g].leader}

TypeOK ==
  /\ online \subseteq Players
  /\ groupID \in [Players -> {0} \cup Ids]
  /\ pending \in [Players -> Players \cup {NoOne}]
  /\ DOMAIN groups = Ids
  /\ \A g \in Ids : \/ groups[g] = NoGroup
                    \/ /\ groups[g].dbid \in DbIds /\ groups[g].leader \in Players
                       /\ groups[g].members \in [Players -> Nat]
  /\ nextID \in 1 .. MaxIds + 1
  /\ row \in [Players -> {0} \cup DbIds]
  /\ stored \in [DbIds -> Players \cup {NoOne}]
  /\ todo \in Seq(Statements)

Init ==
  /\ online = {} /\ nextID = 1
  /\ groupID = [p \in Players |-> 0]
  /\ pending = [p \in Players |-> NoOne]
  /\ groups = [g \in Ids |-> NoGroup]
  /\ row = [p \in Players |-> 0]
  /\ stored = [d \in DbIds |-> NoOne]
  /\ todo = <<>>

\* The group's list and leader (setGroupLeader).
Relead(g, s, l) ==
  groups' = [groups EXCEPT ![g] = [dbid |-> groups[g].dbid, leader |-> l, members |-> s]]

\* What setGroupLeader then writes, if it is called.
NewLeader(g, l) == IF l = groups[g].leader THEN <<>> ELSE <<UpdLeader(groups[g].dbid, l)>>

\* disbandGroup, and the tail of removeFromGroup: S are the players that it walks,
\* whose invitations it withdraws; drop are those whose own invitation it clears.
Disband(g, S, drop) ==
  /\ groups' = [groups EXCEPT ![g] = NoGroup]
  /\ groupID' = [p \in Players |-> IF p \in S \cap online THEN 0 ELSE groupID[p]]
  /\ pending' = [p \in Players |->
                   IF p \in drop \/ pending[p] \in S THEN NoOne ELSE pending[p]]

\* removeFromGroup: a group left with one member or none is dissolved.
Remove(g, t) ==
  LET s == Without(groups[g].members, t)
  IN  \/ /\ AtMostOne(s)
         /\ Disband(g, In(s) \cup {t}, {t})
         /\ todo' = Dissolved(groups[g].dbid)
      \/ /\ ~AtMostOne(s)
         /\ \E l \in LeadersAfter(g, t, In(s) \cap online) :
              /\ Relead(g, s, l)
              /\ todo' = IF l = groups[g].leader THEN <<DelMember(t)>>
                         ELSE <<DelMember(t), UpdLeader(groups[g].dbid, l)>>
         /\ groupID' = [groupID EXCEPT ![t] = 0]
         /\ pending' = [pending EXCEPT ![t] = NoOne]

-----------------------------------------------------------------------------
(* Login and logout                                                           *)

\* loadPlayerGroup: the group is in memory, or its rows make it anew under the
\* number of stored groups of two or more up to it. A row alone loads nothing.
Loads(p) == /\ row[p] # 0 /\ stored[row[p]] # NoOne
            /\ Cardinality(RowsOf(row, row[p])) >= 2

LoadedAs(d) == Cardinality({e \in DbIds : /\ e <= d /\ stored[e] # NoOne
                                          /\ Cardinality(RowsOf(row, e)) > 1})

Attach(p) ==
  /\ p \notin online /\ row[p] # 0
  /\ \E g \in Live : groups[g].dbid = row[p] /\ groupID' = [groupID EXCEPT ![p] = g]
  /\ online' = online \cup {p}
  /\ UNCHANGED <<pending, groups, nextID, todo>>

Load(p) ==
  /\ p \notin online /\ \A g \in Live : groups[g].dbid # row[p]
  /\ Loads(p) /\ LoadedAs(row[p]) \in Ids
  /\ LET g == LoadedAs(row[p])
     IN  /\ groups' = [groups EXCEPT ![g] =
              [dbid |-> row[p], leader |-> stored[row[p]],
               members |-> [q \in Players |-> IF row[q] = row[p] THEN 1 ELSE 0]]]
         /\ groupID' = [groupID EXCEPT ![p] = g]
         /\ nextID' = IF nextID > g THEN nextID ELSE g + 1
  /\ online' = online \cup {p}
  /\ UNCHANGED <<pending, todo>>

LoginAlone(p) ==
  /\ p \notin online /\ ~Loads(p) /\ \A g \in Live : row[p] = 0 \/ groups[g].dbid # row[p]
  /\ online' = online \cup {p}
  /\ UNCHANGED <<groupID, pending, groups, nextID, todo>>

\* removeSessionFromGroup. It returns early without a group, and an invitation
\* then stays with a session that goes back to the character list.
LogoutAlone(p, stays) ==
  /\ p \in online /\ groupID[p] \notin Live
  /\ online' = online \ {p}
  /\ groupID' = [groupID EXCEPT ![p] = 0]
  /\ pending' = IF stays /\ groupID[p] = 0 THEN pending ELSE [pending EXCEPT ![p] = NoOne]
  /\ UNCHANGED <<groups, nextID, todo>>

\* The last member to go takes the group out of memory, not out of the tables.
Logout(p) ==
  /\ p \in online /\ groupID[p] \in Live
  /\ LET g == groupID[p]
         s == Without(groups[g].members, p)
     IN  \/ /\ s = Nobody
            /\ groups' = [groups EXCEPT ![g] = NoGroup]
            /\ todo' = <<>>
         \/ /\ s # Nobody
            /\ \E l \in LeadersAfter(g, p, In(s) \cap (online \ {p})) :
                 Relead(g, s, l) /\ todo' = NewLeader(g, l)
  /\ online' = online \ {p}
  /\ groupID' = [groupID EXCEPT ![p] = 0]
  /\ pending' = [pending EXCEPT ![p] = NoOne]
  /\ UNCHANGED nextID

\* The connection at the character list ends.
Disconnect(p) ==
  /\ p \notin online /\ pending[p] # NoOne
  /\ pending' = [pending EXCEPT ![p] = NoOne]
  /\ UNCHANGED <<online, groupID, groups, nextID, todo>>

-----------------------------------------------------------------------------
(* Invitations                                                                *)

\* handleGroupInvite. A group that is no longer there is forgotten on the way.
Invite(p, q) ==
  /\ p \in online /\ p \in Inviters /\ q \in online \ {p}
  /\ groupID[q] = 0 /\ pending[q] = NoOne
  /\ Cardinality({o \in Players : pending[o] # NoOne}) < MaxOpen
  /\ groupID[p] = 0 => pending[p] = NoOne
  /\ groupID[p] \in Live => /\ groups[groupID[p]].leader = p
                            /\ ~Full(row, groups[groupID[p]])
  /\ groupID' = IF groupID[p] \in Live THEN groupID ELSE [groupID EXCEPT ![p] = 0]
  /\ pending' = [pending EXCEPT ![q] = p]
  /\ UNCHANGED <<online, groups, nextID, todo>>

\* The group that an accepted invitation leads to: the inviter's, else one it leads.
InviteGroups(l) == IF l \in online /\ groupID[l] \in Live THEN {groupID[l]}
                   ELSE {g \in Live : groups[g].leader = l}

\* handleGroupAccept, by where the invitation leads.
AcceptJoin(q, g) ==
  /\ q \in online /\ pending[q] # NoOne /\ g \in InviteGroups(pending[q])
  /\ pending' = [pending EXCEPT ![q] = NoOne]
  /\ \/ /\ Full(row, groups[g])
        /\ UNCHANGED <<groups, groupID, todo>>
     \/ /\ ~Full(row, groups[g]) /\ groups[g].members[q] < MaxEntries
        /\ groups' = [groups EXCEPT ![g] = [dbid |-> groups[g].dbid, leader |-> groups[g].leader,
                                          members |-> With(groups[g].members, q)]]
        /\ groupID' = [groupID EXCEPT ![q] = g]
        /\ todo' = <<InsMember(groups[g].dbid, q)>>
  /\ UNCHANGED <<online, nextID>>

\* The seats are counted when the founder's row is there.
AcceptFound(q, d) ==
  LET l == pending[q]
      founded == Insert(row, l, d)
      full == Cardinality(RowsOf(founded, d)) >= MaxMembers
  IN  /\ q \in online /\ l \in online \ {q} /\ InviteGroups(l) = {}
      /\ IsNext(d) /\ nextID \in Ids /\ nextID' = nextID + 1
      /\ pending' = [pending EXCEPT ![q] = NoOne]
      /\ groups' = [groups EXCEPT ![nextID] = [dbid |-> d, leader |-> l,
           members |-> [p \in Players |-> IF p = l \/ (p = q /\ ~full) THEN 1 ELSE 0]]]
      /\ groupID' = [p \in Players |-> IF p = l \/ (p = q /\ ~full) THEN nextID ELSE groupID[p]]
      /\ todo' = IF full THEN <<InsGroup(d, l), InsMember(d, l)>>
                 ELSE <<InsGroup(d, l), InsMember(d, l), InsMember(d, q)>>
      /\ UNCHANGED online

\* The inviter is gone: all its invitations are dropped.
AcceptLate(q) ==
  /\ q \in online /\ pending[q] # NoOne
  /\ pending[q] \notin online /\ InviteGroups(pending[q]) = {}
  /\ pending' = [p \in Players |-> IF pending[p] = pending[q] THEN NoOne ELSE pending[p]]
  /\ UNCHANGED <<online, groupID, groups, nextID, todo>>

\* handleGroupDecline: the inviter's group goes if it has no second member.
DeclinedGroups(l) == IF l \notin online THEN {}
                     ELSE IF groupID[l] # 0 THEN {groupID[l]} \cap Live
                     ELSE {g \in Live : groups[g].leader = l}

Decline(q) ==
  /\ q \in online /\ pending[q] # NoOne
  /\ LET gs == DeclinedGroups(pending[q])
     IN  \/ /\ \E g \in gs : /\ AtMostOne(groups[g].members)
                             /\ Disband(g, In(groups[g].members), {q})
                             /\ todo' = Dissolved(groups[g].dbid)
         \/ /\ gs = {} \/ \E g \in gs : ~AtMostOne(groups[g].members)
            /\ pending' = [pending EXCEPT ![q] = NoOne]
            /\ UNCHANGED <<groupID, groups, todo>>
  /\ UNCHANGED <<online, nextID>>

-----------------------------------------------------------------------------
(* Leaving and removal                                                        *)

\* handleGroupDisband: a member leaves its group ...
Leave(p) ==
  /\ p \in online /\ groupID[p] \in Live
  /\ Remove(groupID[p], p)
  /\ UNCHANGED <<online, nextID>>

\* ... or forgets a group that is no longer there ...
Forget(p) ==
  /\ p \in online /\ groupID[p] # 0 /\ groupID[p] \notin Live
  /\ groupID' = [groupID EXCEPT ![p] = 0]
  /\ UNCHANGED <<online, pending, groups, nextID, todo>>

\* ... or withdraws the invitations into a group that nobody accepted.
Withdraw(p) ==
  /\ p \in online /\ groupID[p] = 0 /\ pending[p] = NoOne
  /\ \E q \in Players : pending[q] = p
  /\ pending' = [q \in Players |-> IF pending[q] = p THEN NoOne ELSE pending[q]]
  /\ UNCHANGED <<online, groupID, groups, nextID, todo>>

Leads(p) == p \in online /\ groupID[p] \in Live /\ groups[groupID[p]].leader = p

\* handleGroupUninvite, by name or by guid: a member that is online goes, ...
Uninvite(p, t) ==
  /\ Leads(p) /\ t \in (online \ {p}) \cap In(groups[groupID[p]].members)
  /\ Remove(groupID[p], t)
  /\ UNCHANGED <<online, nextID>>

\* ... an invitation into this group is withdrawn (groupInviteeOf), ...
UninviteInvitee(p, t) ==
  /\ Leads(p) /\ t \in (online \ {p}) \ In(groups[groupID[p]].members)
  /\ pending[t] \in online /\ groupID[pending[t]] = groupID[p]
  /\ pending' = [pending EXCEPT ![t] = NoOne]
  /\ UNCHANGED <<online, groupID, groups, nextID, todo>>

\* ... and of a member that is offline only the row (kickOfflineGroupMember).
KickOffline(p, t) ==
  /\ Leads(p) /\ t \in Players \ online
  /\ LET g == groupID[p]
         d == groups[g].dbid
     IN  /\ row[t] = d
         /\ \/ /\ Cardinality(RowsOf(row, d) \ {t}) < 2
               /\ Disband(g, In(groups[g].members), {})
               /\ todo' = <<DelMember(t), DelMembers(d), DelGroup(d)>>
            \/ /\ Cardinality(RowsOf(row, d) \ {t}) >= 2
               /\ todo' = <<DelMember(t)>>
               /\ UNCHANGED <<groupID, pending, groups>>
  /\ UNCHANGED <<online, nextID>>

\* handleGroupSetLeader
SetLeader(p, c) ==
  /\ Leads(p) /\ c \in online \cap In(groups[groupID[p]].members)
  /\ Relead(groupID[p], groups[groupID[p]].members, c)
  /\ todo' = <<UpdLeader(groups[groupID[p]].dbid, c)>>
  /\ UNCHANGED <<online, groupID, pending, nextID>>

-----------------------------------------------------------------------------
(* The database and the process                                               *)

\* The next statement. None fails for a row that is not there.
Write ==
  /\ todo # <<>> /\ todo' = Tail(todo)
  /\ LET w == Head(todo)
     IN  \/ /\ w.op = "insGroup"
            /\ stored' = [stored EXCEPT ![w.group] = w.player] /\ UNCHANGED row
         \/ /\ w.op = "insMember"
            /\ row' = Insert(row, w.player, w.group) /\ UNCHANGED stored
         \/ /\ w.op = "updLeader"
            /\ stored' = [stored EXCEPT ![w.group] = IF @ = NoOne THEN NoOne ELSE w.player]
            /\ UNCHANGED row
         \/ /\ w.op = "delMember"
            /\ row' = [row EXCEPT ![w.player] = 0] /\ UNCHANGED stored
         \/ /\ w.op = "delMembers"
            /\ row' = [p \in Players |-> IF row[p] = w.group THEN 0 ELSE row[p]]
            /\ UNCHANGED stored
         \/ /\ w.op = "delGroup"
            /\ stored' = [stored EXCEPT ![w.group] = NoOne] /\ UNCHANGED row
  /\ UNCHANGED memory

\* The process ends at any moment, between two statements of a handler too, and
\* starts again with the tables.
Restart ==
  /\ online' = {} /\ nextID' = 1
  /\ groupID' = [p \in Players |-> 0]
  /\ pending' = [p \in Players |-> NoOne]
  /\ groups' = [g \in Ids |-> NoGroup]
  /\ todo' = <<>>
  /\ UNCHANGED tables

-----------------------------------------------------------------------------
Login(p) == Attach(p) \/ Load(p) \/ LoginAlone(p)

Answer(p) ==
  \/ \E g \in Ids : AcceptJoin(p, g)
  \/ \E d \in DbIds : AcceptFound(p, d)
  \/ AcceptLate(p) \/ Decline(p)

Removal(p, q) ==
  Uninvite(p, q) \/ UninviteInvitee(p, q) \/ KickOffline(p, q) \/ SetLeader(p, q)

Step(p) ==
  \/ Login(p) \/ Logout(p) \/ Disconnect(p)
  \/ \E stays \in BOOLEAN : LogoutAlone(p, stays)
  \/ Answer(p)
  \/ Leave(p) \/ Forget(p) \/ Withdraw(p)
  \/ \E q \in Players : Invite(p, q) \/ Removal(p, q)

\* A handler's change of the memory. No other handler and no crash tells whether a
\* statement was written before it or after: the one waits, the other clears it.
Handle == todo = <<>> /\ UNCHANGED tables /\ \E p \in Players : Step(p)

Next == Handle \/ Write \/ Restart

Spec == Init /\ [][Next]_vars

-----------------------------------------------------------------------------
(* Properties                                                                 *)

\* No row of group_member is left of a group that was dissolved, wherever the
\* process ends between the statements of a founding, a removal or a dissolution:
\* the id is given to the next group, whose members the player would find itself
\* among at its next login (handleGroupAccept, disbandGroup, loadPlayerGroup).
RowsStored == \A p \in Players : row[p] # 0 => stored[row[p]] # NoOne

\* A group is in memory once, and is stored once its handler has written: a member
\* that logs in finds it by its stored id (findGroupByDBID), and one that is
\* dissolved leaves no list behind, although numbers and ids are used again.
InMemoryOnce ==
  \A g \in Live : /\ todo = <<>> => stored[groups[g].dbid] # NoOne
                  /\ \A h \in Live \ {g} : groups[h].dbid # groups[g].dbid

\* Across logouts, restarts and crashes the table is a register of memberships:
\* entered from no group while there is room, left alone or with all
\* (groupSlotFull, handleGroupAccept, removeFromGroup, disbandGroup).
Register == INSTANCE GroupRegister WITH member <- row, Groups <- DbIds
KeepsRegister == Register!Init /\ [][row' # row => Register!Next]_row

\* What does not hold, as TLC shows. The comment of removeFromGroup: "dissolving if
\* the group goes to 1 member" (group.go:1577). The list that it counts leaves out
\* the members that are offline, and they lose their group.
DissolvedWhenLone ==
  [][\A d \in DbIds : Cardinality(RowsOf(row, d)) > 2 => RowsOf(row', d) # {}]_vars

\* Whoever is online and acts in a group, as a leader, a looter or a voter, is
\* stored as a member of that group and not of another (loadPlayerGroup).
SessionMatchesRow ==
  todo = <<>> => \A p \in online : groupID[p] \in Live => row[p] = groups[groupID[p]].dbid
=============================================================================
