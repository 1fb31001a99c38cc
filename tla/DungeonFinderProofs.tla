------------------------- MODULE DungeonFinderProofs -------------------------
(***************************************************************************)
(* Proofs about DungeonFinder, for any number of players, groups and       *)
(* proposals.  They hold for any callers of the manager.                   *)
(***************************************************************************)
EXTENDS DungeonFinder, LFGRolesProofs

-----------------------------------------------------------------------------
(* Types *)

LEMMA EntryTypes ==
  ASSUME NEW e \in Entry, NEW state \in Settled, NEW roles \in SUBSET Role
  PROVE  /\ NoEntry \in Entry /\ Left(e) \in Entry /\ Set(e, state) \in Entry
         /\ Restored(e) \in Entry /\ Requeued(e) \in Entry
         /\ Queued(e, roles) \in Entry
         /\ [e EXCEPT !.roles = roles] \in Entry
         /\ [e EXCEPT !.state = "proposal"] \in Entry
  BY DEF Entry, Settled, NoEntry, Left, Set, Restored, Requeued, Queued

\* What a step may do to an entry never makes it wait for answers.
LEMMA EntryStates ==
  ASSUME NEW e \in Entry, NEW state \in Settled, NEW roles \in SUBSET Role
  PROVE  /\ NoEntry.state # "proposal"
         /\ Left(e).state = "proposal" => e.state = "proposal"
         /\ Set(e, state).state # "proposal"
         /\ Restored(e).state # "proposal"
         /\ Requeued(e).state # "proposal"
         /\ Queued(e, roles).state # "proposal"
         /\ [e EXCEPT !.roles = roles].state = e.state
  BY DEF Entry, Settled, NoEntry, Left, Set, Restored, Requeued, Queued

LEMMA GroupEntryTypes ==
  ASSUME NEW e \in GroupEntry
  PROVE  /\ NoGroupEntry \in GroupEntry
         /\ [e EXCEPT !.state = "queued"] \in GroupEntry
         /\ [e EXCEPT !.state = "proposal"] \in GroupEntry
         /\ [e EXCEPT !.state = "queued"].roles = e.roles
         /\ [e EXCEPT !.state = "proposal"].roles = e.roles
         /\ [e EXCEPT !.state = "queued"].state = "queued"
         /\ [e EXCEPT !.state = "proposal"].state = "proposal"
         /\ NoGroupEntry.state = "none"
  BY DEF GroupEntry, NoGroupEntry, NoRoles

LEMMA InitTypes == Init => TypeOK
  BY EntryTypes DEF Init, TypeOK, Entry, NoEntry, Settled, GroupEntry,
     NoGroupEntry, NoRoles, RoleCheck, NoCheck, Proposal, NoProposal

\* A step that writes the queue or the role checks alone.
LEMMA QueueStepTypes ==
  ASSUME TypeOK, NEW p \in Players, NEW roles \in SUBSET Role, NEW state \in Settled,
         \/ Leave(p) \/ SetState(p, state) \/ Join(p, roles) \/ SetRoles(p, roles)
  PROVE  TypeOK'
<1>1. queue[p] \in Entry /\ queue \in [Players -> Entry]
  BY DEF TypeOK
<1>2. CASE Leave(p)
  BY <1>1, <1>2, EntryTypes DEF Leave, TypeOK
<1>3. CASE SetState(p, state)
  BY <1>1, <1>3, EntryTypes DEF SetState, TypeOK
<1>4. CASE Join(p, roles)
  <2>1. Queued(Left(queue[p]), roles) \in Entry
    BY <1>1, EntryTypes DEF Settled
  <2> QED  BY <1>1, <1>4, <2>1 DEF Join, TypeOK
<1>5. CASE SetRoles(p, roles)
  <2>1. PICK g \in Groups :
          /\ roleChecks' = [roleChecks EXCEPT ![g] = UpdateRoleCheck(g, p, roles)]
          /\ queue' = [queue EXCEPT ![p] =
                 IF @.state = "none" THEN @ ELSE [@ EXCEPT !.roles = roles]]
          /\ UNCHANGED <<groupQueue, proposals, solo>>
    BY <1>5 DEF SetRoles
  <2>2. UpdateRoleCheck(g, p, roles) \in RoleCheck
    BY DEF UpdateRoleCheck, Answers, TypeOK, RoleCheck, NoCheck, NoRoles
  <2>3. [queue[p] EXCEPT !.roles = roles] \in Entry
    BY <1>1, EntryTypes
  <2>4. roleChecks' \in [Groups -> RoleCheck]
    BY <2>1, <2>2 DEF TypeOK
  <2>5. queue' \in [Players -> Entry]
    BY <1>1, <2>1, <2>3
  <2> QED  BY <2>1, <2>4, <2>5 DEF TypeOK
<1> QED  BY <1>2, <1>3, <1>4, <1>5

LEMMA GroupStepTypes ==
  ASSUME TypeOK, NEW g \in Groups, NEW roles \in SUBSET Role, NEW state \in Settled,
         NEW exclude,
         \/ JoinGroup(g, roles) \/ ExpireRoleCheck(g) \/ LeaveFinder(g, state)
         \/ LeaveQueuedGroup(g, exclude, state)
  PROVE  TypeOK'
<1>1. queue \in [Players -> Entry] /\ groupQueue \in [Groups -> GroupEntry]
  BY DEF TypeOK
<1>2. /\ \A p \in Players : /\ Set(queue[p], state) \in Entry
                            /\ Left(queue[p]) \in Entry
      /\ NoGroupEntry \in GroupEntry
  BY <1>1, EntryTypes, GroupEntryTypes
<1>3. NoCheck \in RoleCheck
  BY DEF NoCheck, RoleCheck, NoRoles
<1>4. CASE JoinGroup(g, roles)
  <2>1. [open |-> TRUE, failed |-> FALSE,
         roles |-> [NoRoles EXCEPT ![Leader[g]] = roles]] \in RoleCheck
    BY DEF RoleCheck, NoRoles
  <2>2. Leader[g] \in Players
    BY GroupsAssumption
  <2> QED  BY <1>1, <1>2, <1>4, <2>1, <2>2 DEF JoinGroup, TypeOK
<1>5. CASE ExpireRoleCheck(g)
  BY <1>3, <1>5 DEF ExpireRoleCheck, TypeOK
<1>6. CASE LeaveFinder(g, state)
  BY <1>1, <1>2, <1>3, <1>6 DEF LeaveFinder, ExpireRoleCheck, TypeOK
<1>7. CASE LeaveQueuedGroup(g, exclude, state)
  BY <1>1, <1>2, <1>7 DEF LeaveQueuedGroup, TypeOK
<1> QED  BY <1>4, <1>5, <1>6, <1>7

LEMMA QueueGroupTypes ==
  ASSUME TypeOK, NEW g \in Groups, NEW roles \in GroupRoles(g), QueueGroup(g, roles)
  PROVE  TypeOK'
<1>1. roles \in [Players -> SUBSET Role]
  BY ChoicesAssumption DEF GroupRoles
<1>2. \A p \in Players : Queued(queue[p], roles[p]) \in Entry
  BY <1>1, EntryTypes DEF TypeOK, Settled
<1>3. [state |-> "queued", roles |-> roles] \in GroupEntry
  BY <1>1 DEF GroupEntry
<1> QED  BY <1>2, <1>3 DEF QueueGroup, TypeOK

\* A proposal takes down one way to serve all the offers.
LEMMA AssignedIs ==
  ASSUME NEW who \in SUBSET Players, NEW offered \in [Players -> SUBSET Role],
         CheckGroupRoles(who, offered)
  PROVE  \E a \in Legal(who, [m \in who |-> offered[m]]) :
           RolesAssigned(who, offered) =
             [p \in Players |-> IF p \in who THEN {a[p]} ELSE {}]
<1> DEFINE o == [m \in who |-> offered[m]]
<1>1. IsFiniteSet(who) /\ o \in Offers(who)
  BY FS_Subset, FiniteAssumption DEF Offers
<1>2. Resolve(who, o) # Unresolved
  BY DEF CheckGroupRoles
<1>3. RolesAssigned(who, offered) =
        [p \in Players |-> IF p \in who THEN Resolve(who, o)[p] ELSE {}]
  BY DEF RolesAssigned
<1> HIDE DEF o
<1>4. who # {}
  BY <1>1, <1>2, NobodyUnresolved
<1>5. Solves(who, o)
  BY <1>1, <1>4, SolverCorrect DEF Offers
<1>6. PICK a \in Legal(who, o) : Resolve(who, o) = [m \in who |-> {a[m]}]
  BY <1>2, <1>5 DEF Solves
<1>7. \A p \in who : Resolve(who, o)[p] = {a[p]}
  BY <1>6
<1>8. RolesAssigned(who, offered) = [p \in Players |-> IF p \in who THEN {a[p]} ELSE {}]
  BY <1>3, <1>7
<1> QED  BY <1>8 DEF o

LEMMA AssignedTypes ==
  ASSUME NEW who \in SUBSET Players, NEW offered \in [Players -> SUBSET Role],
         CheckGroupRoles(who, offered)
  PROVE  RolesAssigned(who, offered) \in [Players -> SUBSET Role]
<1>1. PICK a \in Legal(who, [m \in who |-> offered[m]]) :
        RolesAssigned(who, offered) = [p \in Players |-> IF p \in who THEN {a[p]} ELSE {}]
  BY AssignedIs
<1>2. a \in [who -> Role]
  BY DEF Legal
<1> QED  BY <1>1, <1>2

\* What the units that FindGroups tries to match offer.
Offered(gs, ps) == [p \in Players |-> IF p \in ps THEN queue[p].roles
                      ELSE UNION {groupQueue[g].roles[p] : g \in gs}]

LEMMA OfferedTypes ==
  ASSUME TypeOK, NEW gs \in SUBSET QueuedGroups, NEW ps
  PROVE  Offered(gs, ps) \in [Players -> SUBSET Role]
<1>1. \A p \in Players : queue[p].roles \subseteq Role
  BY DEF TypeOK, Entry
<1>2. gs \subseteq Groups
  BY DEF QueuedGroups
<1>3. \A p \in Players, g \in gs : groupQueue[g].roles[p] \subseteq Role
  BY <1>2 DEF TypeOK, GroupEntry
<1>4. \A p \in Players : UNION {groupQueue[g].roles[p] : g \in gs} \subseteq Role
  BY <1>3
<1> QED  BY <1>1, <1>4 DEF Offered

LEMMA FindGroupsTypes ==
  ASSUME TypeOK, NEW i \in Proposals, NEW gs \in SUBSET QueuedGroups,
         NEW ps \in SUBSET QueuedAlone, FindGroups(i, gs, ps)
  PROVE  TypeOK'
<1> DEFINE party == UNION {Lists(g) : g \in gs}
           group == IF gs = {} THEN NoGroup ELSE CHOOSE g \in gs : TRUE
           roles == RolesAssigned(party \cup ps, Offered(gs, ps))
<1>1. party \in SUBSET Players /\ ps \in SUBSET Players
  BY DEF Lists, QueuedAlone
<1>2. group \in Groups \cup {NoGroup}
  BY DEF QueuedGroups
<1>3. CheckGroupRoles(party \cup ps, Offered(gs, ps))
  BY DEF FindGroups, Offered
<1>4. /\ proposals' = [proposals EXCEPT ![i] =
           [who |-> party \cup ps, agreed |-> {}, roles |-> roles, party |-> party,
            group |-> group]]
      /\ groupQueue' = [g \in Groups |-> IF g \in gs
           THEN [groupQueue[g] EXCEPT !.state = "proposal"] ELSE groupQueue[g]]
      /\ queue' = [p \in Players |-> IF p \in ps
           THEN [queue[p] EXCEPT !.state = "proposal"] ELSE queue[p]]
      /\ UNCHANGED <<roleChecks, solo>>
  BY DEF FindGroups, Offered
<1> HIDE DEF party, group
<1>5. roles \in [Players -> SUBSET Role]
  BY <1>1, <1>3, OfferedTypes, AssignedTypes
<1> HIDE DEF roles
<1>6. [who |-> party \cup ps, agreed |-> {}, roles |-> roles, party |-> party,
       group |-> group] \in Proposal
  BY <1>1, <1>2, <1>5 DEF Proposal
<1>7. /\ \A p \in Players : [queue[p] EXCEPT !.state = "proposal"] \in Entry
      /\ \A g \in Groups : [groupQueue[g] EXCEPT !.state = "proposal"] \in GroupEntry
  BY EntryTypes, GroupEntryTypes DEF TypeOK, Settled
<1>8. proposals' \in [Proposals -> Proposal]
  BY <1>4, <1>6 DEF TypeOK
<1> QED  BY <1>4, <1>7, <1>8 DEF TypeOK

LEMMA FailTypes ==
  ASSUME TypeOK, NEW i \in Proposals, NEW out, NEW gone, Fail(i, out, gone)
  PROVE  TypeOK'
<1>1. \A p \in Players : Restored(queue[p]) \in Entry /\ Requeued(queue[p]) \in Entry
  BY EntryTypes DEF TypeOK, Settled
<1>2. /\ NoGroupEntry \in GroupEntry
      /\ \A g \in Groups : [groupQueue[g] EXCEPT !.state = "queued"] \in GroupEntry
  BY GroupEntryTypes DEF TypeOK, GroupEntry, NoGroupEntry, NoRoles
<1>3. NoProposal \in Proposal
  BY DEF NoProposal, Proposal, NoRoles
<1> QED  BY <1>1, <1>2, <1>3 DEF Fail, TypeOK

LEMMA AnswerTypes ==
  ASSUME TypeOK, NEW i \in Proposals, NEW p \in Players,
         \/ FormSoloProposal(i, p) \/ AcceptProposal(i, p)
  PROVE  TypeOK'
<1>1. CASE FormSoloProposal(i, p)
  <2> DEFINE new == [who |-> {p}, agreed |-> {},
                     roles |-> [NoRoles EXCEPT ![p] = queue[p].roles],
                     party |-> {}, group |-> NoGroup]
  <2>1. new \in Proposal
    BY DEF Proposal, NoRoles, TypeOK, Entry
  <2>2. [queue[p] EXCEPT !.state = "proposal"] \in Entry
    BY EntryTypes DEF TypeOK, Settled
  <2>3. queue' = [queue EXCEPT ![p] = [queue[p] EXCEPT !.state = "proposal"]]
    BY <1>1 DEF FormSoloProposal, TypeOK
  <2>4. proposals' = [proposals EXCEPT ![i] = new]
    BY <1>1 DEF FormSoloProposal
  <2> HIDE DEF new
  <2> QED  BY <1>1, <2>1, <2>2, <2>3, <2>4 DEF FormSoloProposal, TypeOK
<1>2. CASE AcceptProposal(i, p)
  <2>1. \A x \in Players : Set(queue[x], "dungeon") \in Entry
    BY EntryTypes DEF TypeOK, Settled
  <2>2. NoGroupEntry \in GroupEntry /\ NoProposal \in Proposal
    BY DEF NoGroupEntry, GroupEntry, NoRoles, NoProposal, Proposal
  <2>3. [proposals[i] EXCEPT !.agreed = @ \cup {p}] \in Proposal
    BY DEF TypeOK, Proposal
  <2>4. CASE proposals[i].agreed \cup {p} = proposals[i].who \/ solo
    BY <1>2, <2>1, <2>2, <2>4 DEF AcceptProposal, TypeOK
  <2>5. CASE ~(proposals[i].agreed \cup {p} = proposals[i].who \/ solo)
    <3>1. proposals' = [proposals EXCEPT ![i] =
                          [proposals[i] EXCEPT !.agreed = @ \cup {p}]]
      BY <1>2, <2>5 DEF AcceptProposal, TypeOK
    <3> QED  BY <1>2, <2>3, <2>5, <3>1 DEF AcceptProposal, TypeOK
  <2> QED  BY <2>4, <2>5
<1> QED  BY <1>1, <1>2

LEMMA StepTypes == TypeOK /\ [Next]_vars => TypeOK'
<1> SUFFICES ASSUME TypeOK, [Next]_vars PROVE TypeOK'
  OBVIOUS
<1>0. RoleChoices \subseteq SUBSET Role /\ Restores \subseteq Settled
  BY ChoicesAssumption
<1>1. ASSUME NEW p \in Players, Leave(p) PROVE TypeOK'
  BY <1>1, QueueStepTypes DEF Settled, Role
<1>2. ASSUME NEW p \in Players, NEW state \in Restores, SetState(p, state)
      PROVE  TypeOK'
  BY <1>0, <1>2, QueueStepTypes DEF Role
<1>3. ASSUME NEW p \in Players, NEW roles \in RoleChoices,
             Join(p, roles) \/ SetRoles(p, roles)
      PROVE  TypeOK'
  BY <1>0, <1>3, QueueStepTypes DEF Settled
<1>4. ASSUME NEW g \in Groups, NEW roles \in RoleChoices, JoinGroup(g, roles)
      PROVE  TypeOK'
  BY <1>0, <1>4, GroupStepTypes DEF Settled
<1>5. ASSUME NEW g \in Groups, ExpireRoleCheck(g) PROVE TypeOK'
  BY <1>5, GroupStepTypes DEF Settled, Role
<1>6. ASSUME NEW g \in Groups, NEW restore \in Restores, LeaveFinder(g, restore)
      PROVE  TypeOK'
  BY <1>0, <1>6, GroupStepTypes DEF Role
<1>7. ASSUME NEW g \in Groups, NEW exclude, NEW restore \in Restores,
             LeaveQueuedGroup(g, exclude, restore)
      PROVE  TypeOK'
  BY <1>0, <1>7, GroupStepTypes DEF Role
<1>8. ASSUME NEW i \in Proposals, NEW gs \in SUBSET QueuedGroups,
             NEW ps \in SUBSET QueuedAlone, FindGroups(i, gs, ps)
      PROVE  TypeOK'
  BY <1>8, FindGroupsTypes
<1>9. ASSUME NEW i \in Proposals, NEW p \in Players,
             FormSoloProposal(i, p) \/ AcceptProposal(i, p)
      PROVE  TypeOK'
  BY <1>9, AnswerTypes
<1>10. ASSUME NEW i \in Proposals, NEW p \in Players, DeclineProposal(i, p)
       PROVE  TypeOK'
  BY <1>10, FailTypes DEF DeclineProposal
<1>11. ASSUME NEW i \in Proposals, ExpireProposal(i) PROVE TypeOK'
  BY <1>11, FailTypes DEF ExpireProposal
<1>12. ASSUME NEW g \in Groups, NEW roles \in GroupRoles(g), QueueGroup(g, roles)
       PROVE  TypeOK'
  BY <1>12, QueueGroupTypes
<1>13. CASE UNCHANGED vars
  BY <1>13 DEF vars, TypeOK
<1> QED
  BY <1>1, <1>2, <1>3, <1>4, <1>5, <1>6, <1>7, <1>8, <1>9, <1>10, <1>11, <1>12,
     <1>13 DEF Next, ManagerStep

\* Every entry and every proposal of the finder is well formed, whatever the
\* callers of the manager do (lfg.go:169-185).
THEOREM TypeCorrect == Spec => []TypeOK
  BY InitTypes, StepTypes, PTL DEF Spec

-----------------------------------------------------------------------------
(* Nobody is stranded *)

\* An entry of a group lists exactly its members.
Listed == \A g \in Groups :
  Lists(g) = IF groupQueue[g].state = "none" THEN {} ELSE Members[g]

IInv == TypeOK /\ Listed /\ NobodyStranded

LEMMA InitIInv == Init => IInv
  BY InitTypes, GroupsAssumption
  DEF IInv, Init, Listed, NobodyStranded, NoEntry, NoGroupEntry, NoRoles, Lists

\* A step that leaves the proposals, makes no entry wait for answers, and
\* takes group entries away or leaves them, keeps all this.
LEMMA QuietStep ==
  ASSUME IInv, proposals' = proposals,
         \A p \in Players : queue'[p].state = "proposal" => queue[p].state = "proposal",
         \A g \in Groups : groupQueue'[g] = groupQueue[g] \/ groupQueue'[g] = NoGroupEntry
  PROVE  Listed' /\ NobodyStranded'
<1>1. \A g \in Groups :
        \/ groupQueue'[g] = groupQueue[g] /\ Lists(g)' = Lists(g)
        \/ groupQueue'[g].state = "none" /\ Lists(g)' = {}
  BY DEF NoGroupEntry, NoRoles, Lists
<1> QED  BY <1>1 DEF IInv, Listed, NobodyStranded

LEMMA QueueStepIInv ==
  ASSUME IInv, NEW p \in Players, NEW roles \in SUBSET Role, NEW state \in Settled,
         \/ Leave(p) \/ SetState(p, state) \/ Join(p, roles) \/ SetRoles(p, roles)
  PROVE  Listed' /\ NobodyStranded'
<1>1. queue \in [Players -> Entry]
  BY DEF IInv, TypeOK
<1>2. proposals' = proposals /\ groupQueue' = groupQueue
  BY DEF Leave, SetState, Join, SetRoles
<1>3. \A x \in Players : x # p => queue'[x] = queue[x]
  BY <1>1 DEF Leave, SetState, Join, SetRoles
<1>4. queue'[p].state = "proposal" => queue[p].state = "proposal"
  <2>1. queue[p] \in Entry /\ Left(queue[p]) \in Entry
    BY <1>1, EntryTypes DEF Settled
  <2>2. CASE Leave(p)
    BY <1>1, <2>2, EntryStates, <2>1 DEF Leave
  <2>3. CASE SetState(p, state)
    BY <1>1, <2>3, EntryStates, <2>1 DEF SetState
  <2>4. CASE Join(p, roles)
    BY <1>1, <2>4, EntryStates, <2>1 DEF Join
  <2>5. CASE SetRoles(p, roles)
    BY <1>1, <2>5, EntryStates, <2>1 DEF SetRoles
  <2> QED  BY <2>2, <2>3, <2>4, <2>5
<1> QED  BY <1>2, <1>3, <1>4, QuietStep

LEMMA GroupStepIInv ==
  ASSUME IInv, NEW g \in Groups, NEW roles \in SUBSET Role, NEW state \in Settled,
         NEW exclude,
         \/ JoinGroup(g, roles) \/ ExpireRoleCheck(g) \/ LeaveFinder(g, state)
         \/ LeaveQueuedGroup(g, exclude, state)
  PROVE  Listed' /\ NobodyStranded'
<1>1. queue \in [Players -> Entry] /\ groupQueue \in [Groups -> GroupEntry]
  BY DEF IInv, TypeOK
<1>2. proposals' = proposals
  BY DEF JoinGroup, ExpireRoleCheck, LeaveFinder, LeaveQueuedGroup
<1>3. \A h \in Groups : groupQueue'[h] = groupQueue[h] \/ groupQueue'[h] = NoGroupEntry
  BY <1>1 DEF JoinGroup, ExpireRoleCheck, LeaveFinder, LeaveQueuedGroup
<1>4. \A p \in Players : \/ queue'[p] = queue[p] \/ queue'[p] = Left(queue[p])
                       \/ queue'[p] = Set(queue[p], state)
  BY <1>1 DEF JoinGroup, ExpireRoleCheck, LeaveFinder, LeaveQueuedGroup
<1>5. \A p \in Players : queue'[p].state = "proposal" => queue[p].state = "proposal"
  BY <1>1, <1>4, EntryStates
<1> QED  BY <1>2, <1>3, <1>5, QuietStep

LEMMA QueueGroupIInv ==
  ASSUME IInv, NEW g \in Groups, NEW roles \in GroupRoles(g), QueueGroup(g, roles)
  PROVE  Listed' /\ NobodyStranded'
<1>1. queue \in [Players -> Entry] /\ groupQueue \in [Groups -> GroupEntry]
  BY DEF IInv, TypeOK
<1>2. /\ roles \in [Players -> SUBSET Role]
      /\ \A p \in Players : roles[p] # {} <=> p \in Members[g]
      /\ Members[g] \subseteq Players
  BY ChoicesAssumption, GroupsAssumption DEF GroupRoles
<1>3. /\ groupQueue'[g].state = "queued" /\ groupQueue'[g].roles = roles
      /\ \A h \in Groups : h # g => groupQueue'[h] = groupQueue[h]
  BY <1>1 DEF QueueGroup
<1>4. Lists(g)' = Members[g] /\ \A h \in Groups : h # g => Lists(h)' = Lists(h)
  BY <1>2, <1>3 DEF Lists
<1>5. \A p \in Players : queue'[p].state = "proposal" => queue[p].state = "proposal"
  BY <1>1, <1>2, EntryStates DEF QueueGroup, Settled
<1>6. proposals' = proposals
  BY DEF QueueGroup
<1>7. Listed'
  BY <1>3, <1>4 DEF Listed, IInv
<1>8. NobodyStranded'
  BY <1>3, <1>4, <1>5, <1>6 DEF NobodyStranded, IInv
<1> QED  BY <1>7, <1>8

\* A new proposal has the place of none that is live, and holds every player
\* and every group that it makes wait.
LEMMA FindGroupsIInv ==
  ASSUME IInv, NEW i \in Proposals, NEW gs \in SUBSET QueuedGroups,
         NEW ps \in SUBSET QueuedAlone, FindGroups(i, gs, ps)
  PROVE  Listed' /\ NobodyStranded'
<1> DEFINE party == UNION {Lists(g) : g \in gs}
<1>1. /\ queue \in [Players -> Entry] /\ groupQueue \in [Groups -> GroupEntry]
      /\ proposals \in [Proposals -> Proposal]
  BY DEF IInv, TypeOK
<1>2. proposals[i].who = {}
  BY DEF FindGroups, Live
<1>3. /\ proposals'[i].who = party \cup ps
      /\ \A j \in Proposals : j # i => proposals'[j] = proposals[j]
  BY <1>1 DEF FindGroups
<1>4. \A p \in Players : IF p \in ps THEN p \in proposals'[i].who
                                    ELSE queue'[p] = queue[p]
  BY <1>1, <1>3 DEF FindGroups
<1>5. ASSUME NEW g \in Groups
      PROVE  /\ groupQueue'[g].roles = groupQueue[g].roles
             /\ g \in gs => groupQueue'[g].state = "proposal"
             /\ g \notin gs => groupQueue'[g] = groupQueue[g]
  BY <1>1, GroupEntryTypes DEF FindGroups
<1>6. ASSUME NEW g \in Groups PROVE Lists(g)' = Lists(g)
  <2>1. groupQueue'[g].roles = groupQueue[g].roles
    BY <1>5
  <2> QED  BY <2>1 DEF Lists
<1>7. \A g \in gs : groupQueue[g].state = "queued" /\ g \in Groups
  BY DEF QueuedGroups
<1>8. \A g \in gs : Lists(g) = Members[g] /\ Leader[g] \in Lists(g)
  BY <1>7, GroupsAssumption DEF IInv, Listed
<1>9. \A g \in gs : Leader[g] \in proposals'[i].who
  BY <1>3, <1>8
<1>10. Listed'
  <2>1. ASSUME NEW g \in Groups
        PROVE  groupQueue'[g].state = "none" <=> groupQueue[g].state = "none"
    BY <1>5, <1>7
  <2> QED  BY <1>6, <2>1 DEF IInv, Listed
<1>11. ASSUME NEW p \in Players, queue'[p].state = "proposal"
       PROVE  \E j \in Proposals : p \in proposals'[j].who
  BY <1>2, <1>3, <1>4, <1>11 DEF IInv, NobodyStranded
<1>12. ASSUME NEW g \in Groups, groupQueue'[g].state = "proposal"
       PROVE  \E j \in Proposals : proposals'[j].who \cap Lists(g)' # {}
  <2>1. CASE g \in gs
    BY <1>6, <1>8, <1>9, <2>1
  <2>2. CASE g \notin gs
    <3>1. PICK j \in Proposals : proposals[j].who \cap Lists(g) # {}
      BY <1>5, <1>12, <2>2 DEF IInv, NobodyStranded
    <3>2. j # i
      BY <1>2, <3>1
    <3> QED  BY <1>3, <1>6, <3>1, <3>2
  <2> QED  BY <2>1, <2>2
<1> QED  BY <1>10, <1>11, <1>12 DEF NobodyStranded

LEMMA FormSoloIInv ==
  ASSUME IInv, NEW i \in Proposals, NEW p \in Players, FormSoloProposal(i, p)
  PROVE  Listed' /\ NobodyStranded'
<1>1. queue \in [Players -> Entry] /\ proposals \in [Proposals -> Proposal]
  BY DEF IInv, TypeOK
<1>2. proposals[i].who = {} /\ groupQueue' = groupQueue
  BY DEF FormSoloProposal, Live
<1>3. /\ proposals'[i].who = {p}
      /\ \A j \in Proposals : j # i => proposals'[j] = proposals[j]
  BY <1>1 DEF FormSoloProposal
<1>4. \A x \in Players : x # p => queue'[x] = queue[x]
  BY <1>1 DEF FormSoloProposal
<1>5. \A g \in Groups : Lists(g)' = Lists(g)
  BY <1>2 DEF Lists
<1>6. Listed'
  BY <1>2, <1>5 DEF IInv, Listed
<1>7. NobodyStranded'
  BY <1>2, <1>3, <1>4, <1>5 DEF IInv, NobodyStranded
<1> QED  BY <1>6, <1>7

\* However a proposal ends: its players and the groups that list one of them
\* stop to wait for it, and the others wait for another one.
LEMMA EndIInv ==
  ASSUME IInv, NEW i \in Proposals,
         \A j \in Proposals : j # i => proposals'[j] = proposals[j],
         \A p \in Players : IF p \in proposals[i].who
                               THEN queue'[p].state # "proposal"
                               ELSE queue'[p] = queue[p],
         \A g \in Groups :
           \/ groupQueue'[g] = NoGroupEntry
           \/ /\ Lists(g) \cap proposals[i].who # {}
              /\ groupQueue'[g] = [groupQueue[g] EXCEPT !.state = "queued"]
           \/ /\ Lists(g) \cap proposals[i].who = {}
              /\ groupQueue'[g] = groupQueue[g]
  PROVE  Listed' /\ NobodyStranded'
<1>1. groupQueue \in [Groups -> GroupEntry]
  BY DEF IInv, TypeOK
<1>2. \A g \in Groups :
        \/ groupQueue'[g].state = "none" /\ Lists(g)' = {}
        \/ /\ Lists(g)' = Lists(g) /\ Lists(g) \cap proposals[i].who # {}
           /\ groupQueue'[g].state = "queued"
        \/ /\ Lists(g)' = Lists(g) /\ Lists(g) \cap proposals[i].who = {}
           /\ groupQueue'[g] = groupQueue[g]
  <2> SUFFICES ASSUME NEW g \in Groups
               PROVE  \/ groupQueue'[g].state = "none" /\ Lists(g)' = {}
                      \/ /\ Lists(g)' = Lists(g)
                         /\ Lists(g) \cap proposals[i].who # {}
                         /\ groupQueue'[g].state = "queued"
                      \/ /\ Lists(g)' = Lists(g)
                         /\ Lists(g) \cap proposals[i].who = {}
                         /\ groupQueue'[g] = groupQueue[g]
    OBVIOUS
  <2>1. CASE groupQueue'[g] = NoGroupEntry
    BY <2>1 DEF Lists, NoGroupEntry, NoRoles
  <2>2. CASE groupQueue'[g] = [groupQueue[g] EXCEPT !.state = "queued"]
             /\ Lists(g) \cap proposals[i].who # {}
    <3>1. /\ groupQueue'[g].roles = groupQueue[g].roles
          /\ groupQueue'[g].state = "queued"
      BY <1>1, <2>2, GroupEntryTypes
    <3>2. Lists(g)' = Lists(g)
      BY <3>1 DEF Lists
    <3> QED  BY <2>2, <3>1, <3>2
  <2>3. CASE groupQueue'[g] = groupQueue[g] /\ Lists(g) \cap proposals[i].who = {}
    <3>1. Lists(g)' = Lists(g)
      BY <2>3 DEF Lists
    <3> QED  BY <2>3, <3>1
  <2> QED  BY <2>1, <2>2, <2>3
<1>3. \A g \in Groups : groupQueue'[g].state # "none" => groupQueue[g].state # "none"
  BY <1>2 DEF IInv, Listed
<1>4. Listed'
  BY <1>2, <1>3 DEF IInv, Listed
<1>5. ASSUME NEW p \in Players, queue'[p].state = "proposal"
      PROVE  \E j \in Proposals : p \in proposals'[j].who
  BY <1>5 DEF IInv, NobodyStranded
<1>6. ASSUME NEW g \in Groups, groupQueue'[g].state = "proposal"
      PROVE  \E j \in Proposals : proposals'[j].who \cap Lists(g)' # {}
  <2>1. /\ Lists(g)' = Lists(g) /\ Lists(g) \cap proposals[i].who = {}
        /\ groupQueue[g].state = "proposal"
    BY <1>2, <1>6
  <2>2. PICK j \in Proposals : proposals[j].who \cap Lists(g) # {}
    BY <2>1 DEF IInv, NobodyStranded
  <2> QED  BY <2>1, <2>2
<1> QED  BY <1>4, <1>5, <1>6 DEF NobodyStranded

LEMMA FailIInv ==
  ASSUME IInv, NEW i \in Proposals, NEW out, NEW gone, Fail(i, out, gone)
  PROVE  Listed' /\ NobodyStranded'
<1>1. /\ queue \in [Players -> Entry] /\ groupQueue \in [Groups -> GroupEntry]
      /\ proposals \in [Proposals -> Proposal]
  BY DEF IInv, TypeOK
<1>2. ASSUME NEW p \in Players
      PROVE  /\ Restored(queue[p]).state # "proposal"
             /\ Requeued(queue[p]).state # "proposal"
  BY <1>1, EntryStates DEF Settled
<1>3. \A j \in Proposals : j # i => proposals'[j] = proposals[j]
  BY <1>1 DEF Fail
<1>4. \A p \in Players : IF p \in proposals[i].who
                           THEN queue'[p].state # "proposal"
                           ELSE queue'[p] = queue[p]
  BY <1>2 DEF Fail
<1>5. \A g \in Groups :
        \/ groupQueue'[g] = NoGroupEntry
        \/ /\ Lists(g) \cap proposals[i].who # {}
           /\ groupQueue'[g] = [groupQueue[g] EXCEPT !.state = "queued"]
        \/ /\ Lists(g) \cap proposals[i].who = {}
           /\ groupQueue'[g] = groupQueue[g]
  BY DEF Fail
<1> QED  BY <1>3, <1>4, <1>5, EndIInv

LEMMA AcceptIInv ==
  ASSUME IInv, NEW i \in Proposals, NEW p \in Players, AcceptProposal(i, p)
  PROVE  Listed' /\ NobodyStranded'
<1>1. /\ queue \in [Players -> Entry] /\ groupQueue \in [Groups -> GroupEntry]
      /\ proposals \in [Proposals -> Proposal]
  BY DEF IInv, TypeOK
<1>2. CASE proposals[i].agreed \cup {p} = proposals[i].who \/ solo
  <2>1. ASSUME NEW x \in Players PROVE Set(queue[x], "dungeon").state # "proposal"
    BY <1>1, EntryStates DEF Settled
  <2>2. \A j \in Proposals : j # i => proposals'[j] = proposals[j]
    BY <1>1, <1>2 DEF AcceptProposal
  <2>3. \A x \in Players : IF x \in proposals[i].who
                             THEN queue'[x].state # "proposal"
                             ELSE queue'[x] = queue[x]
    BY <1>2, <2>1 DEF AcceptProposal
  <2>4. \A g \in Groups :
          \/ groupQueue'[g] = NoGroupEntry
          \/ /\ Lists(g) \cap proposals[i].who = {}
             /\ groupQueue'[g] = groupQueue[g]
    BY <1>2 DEF AcceptProposal
  <2> QED  BY <2>2, <2>3, <2>4, EndIInv
<1>3. CASE ~(proposals[i].agreed \cup {p} = proposals[i].who \/ solo)
  <2>1. queue' = queue /\ groupQueue' = groupQueue
    BY <1>3 DEF AcceptProposal
  <2>2. \A j \in Proposals : proposals'[j].who = proposals[j].who
    BY <1>1, <1>3 DEF AcceptProposal, Proposal
  <2>3. \A g \in Groups : Lists(g)' = Lists(g)
    BY <2>1 DEF Lists
  <2> QED  BY <2>1, <2>2, <2>3 DEF IInv, Listed, NobodyStranded
<1> QED  BY <1>2, <1>3

LEMMA StepIInv == IInv /\ [Next]_vars => IInv'
<1> SUFFICES ASSUME IInv, [Next]_vars PROVE Listed' /\ NobodyStranded'
  BY StepTypes DEF IInv
<1> DEFINE Kept == Listed' /\ NobodyStranded'
<1>0. RoleChoices \subseteq SUBSET Role /\ Restores \subseteq Settled
  BY ChoicesAssumption
<1>1. ASSUME NEW p \in Players, Leave(p) PROVE Kept
  BY <1>1, QueueStepIInv DEF Settled, Role
<1>2. ASSUME NEW p \in Players, NEW state \in Restores, SetState(p, state)
      PROVE  Kept
  BY <1>0, <1>2, QueueStepIInv DEF Role
<1>3. ASSUME NEW p \in Players, NEW roles \in RoleChoices,
             Join(p, roles) \/ SetRoles(p, roles)
      PROVE  Kept
  BY <1>0, <1>3, QueueStepIInv DEF Settled
<1>4. ASSUME NEW g \in Groups, NEW roles \in RoleChoices, JoinGroup(g, roles)
      PROVE  Kept
  BY <1>0, <1>4, GroupStepIInv DEF Settled
<1>5. ASSUME NEW g \in Groups, ExpireRoleCheck(g) PROVE Kept
  BY <1>5, GroupStepIInv DEF Settled, Role
<1>6. ASSUME NEW g \in Groups, NEW restore \in Restores, LeaveFinder(g, restore)
      PROVE  Kept
  BY <1>0, <1>6, GroupStepIInv DEF Role
<1>7. ASSUME NEW g \in Groups, NEW exclude, NEW restore \in Restores,
             LeaveQueuedGroup(g, exclude, restore)
      PROVE  Kept
  BY <1>0, <1>7, GroupStepIInv DEF Role
<1>8. ASSUME NEW i \in Proposals, NEW gs \in SUBSET QueuedGroups,
             NEW ps \in SUBSET QueuedAlone, FindGroups(i, gs, ps)
      PROVE  Kept
  BY <1>8, FindGroupsIInv
<1>9. ASSUME NEW i \in Proposals, NEW p \in Players, FormSoloProposal(i, p)
      PROVE  Kept
  BY <1>9, FormSoloIInv
<1>10. ASSUME NEW i \in Proposals, NEW p \in Players, AcceptProposal(i, p)
       PROVE  Kept
  BY <1>10, AcceptIInv
<1>11. ASSUME NEW i \in Proposals, NEW p \in Players, DeclineProposal(i, p)
       PROVE  Kept
  BY <1>11, FailIInv DEF DeclineProposal
<1>12. ASSUME NEW i \in Proposals, ExpireProposal(i) PROVE Kept
  BY <1>12, FailIInv DEF ExpireProposal
<1>13. ASSUME NEW g \in Groups, NEW roles \in GroupRoles(g), QueueGroup(g, roles)
       PROVE  Kept
  BY <1>13, QueueGroupIInv
<1>14. CASE UNCHANGED vars
  BY <1>14 DEF vars, IInv, Listed, NobodyStranded, Lists
<1> HIDE DEF Kept
<1>15. Kept
  BY <1>1, <1>2, <1>3, <1>4, <1>5, <1>6, <1>7, <1>8, <1>9, <1>10, <1>11, <1>12,
     <1>13, <1>14 DEF Next, ManagerStep, Kept
<1> QED  BY <1>15 DEF Kept

\* However the manager is called, an entry that waits for the answers to a
\* proposal is of a proposal that is still there (lfg.go:906-924, 1042-1083, 1184).
THEOREM NobodyIsStranded == Spec => []NobodyStranded
<1>1. IInv => NobodyStranded
  BY DEF IInv
<1> QED  BY InitIInv, StepIInv, <1>1, PTL DEF Spec
-----------------------------------------------------------------------------
(* A proposal that ends settles everybody in it *)

\* What a proposal knows of its players: who agreed and who came as a group
\* is in it, and the party is the whole of the group.
PartiesKnown == \A i \in Proposals :
  /\ proposals[i].agreed \subseteq proposals[i].who
  /\ proposals[i].party \subseteq proposals[i].who
  /\ IF proposals[i].group = NoGroup THEN proposals[i].party = {}
     ELSE proposals[i].party = Members[proposals[i].group]

\* A step writes one proposal at most; it is enough to look at what it writes.
LEMMA OneProposal ==
  ASSUME TypeOK, PartiesKnown, NEW i \in Proposals, NEW new,
         proposals' = [proposals EXCEPT ![i] = new],
         new.agreed \subseteq new.who, new.party \subseteq new.who,
         IF new.group = NoGroup THEN new.party = {}
         ELSE new.party = Members[new.group]
  PROVE  PartiesKnown'
  BY DEF TypeOK, PartiesKnown

LEMMA FindGroupsParty ==
  ASSUME IInv, PartiesKnown, NEW i \in Proposals, NEW gs \in SUBSET QueuedGroups,
         NEW ps \in SUBSET QueuedAlone, FindGroups(i, gs, ps)
  PROVE  PartiesKnown'
<1> DEFINE party == UNION {Lists(g) : g \in gs}
           group == IF gs = {} THEN NoGroup ELSE CHOOSE g \in gs : TRUE
           new == [who |-> party \cup ps, agreed |-> {},
                   roles |-> RolesAssigned(party \cup ps, Offered(gs, ps)),
                   party |-> party, group |-> group]
<1>1. proposals' = [proposals EXCEPT ![i] = new] /\ Cardinality(gs) <= 1
  BY DEF FindGroups, Offered
<1>2. new.agreed \subseteq new.who /\ new.party \subseteq new.who
  OBVIOUS
<1>3. CASE gs = {}
  <2>1. new.group = NoGroup /\ new.party = {}
    BY <1>3
  <2> HIDE DEF new
  <2> QED  BY <1>1, <1>2, <2>1, OneProposal DEF IInv
<1>4. ASSUME NEW g \in gs PROVE PartiesKnown'
  <2>1. gs \subseteq Groups /\ groupQueue[g].state = "queued"
    BY DEF QueuedGroups
  <2>2. IsFiniteSet(gs) /\ Cardinality(gs) \in Nat
    BY <2>1, FS_Subset, FS_CardinalityType, FiniteAssumption
  <2>3. gs = {g}
    BY <1>1, <2>2, OneMember
  <2>4. party = Lists(g) /\ group = g
    BY <2>3
  <2>5. Lists(g) = Members[g]
    BY <2>1 DEF IInv, Listed
  <2>6. new.group = g /\ new.party = Members[g] /\ g # NoGroup
    BY <2>1, <2>4, <2>5, GroupsAssumption
  <2> HIDE DEF new
  <2> QED  BY <1>1, <1>2, <2>6, OneProposal DEF IInv
<1> QED  BY <1>3, <1>4

LEMMA StepParties == IInv /\ PartiesKnown /\ [Next]_vars => PartiesKnown'
<1> SUFFICES ASSUME IInv, PartiesKnown, [Next]_vars PROVE PartiesKnown'
  OBVIOUS
<1>0. TypeOK
  BY DEF IInv
<1>1. CASE proposals' = proposals
  BY <1>1 DEF PartiesKnown
<1>2. ASSUME NEW i \in Proposals, proposals' = [proposals EXCEPT ![i] = NoProposal]
      PROVE  PartiesKnown'
  <2>1. /\ NoProposal.agreed = {} /\ NoProposal.who = {} /\ NoProposal.party = {}
        /\ NoProposal.group = NoGroup
    BY DEF NoProposal
  <2> QED  BY <1>0, <1>2, <2>1, OneProposal
<1>3. ASSUME NEW i \in Proposals, NEW gs \in SUBSET QueuedGroups,
             NEW ps \in SUBSET QueuedAlone, FindGroups(i, gs, ps)
      PROVE  PartiesKnown'
  BY <1>3, FindGroupsParty
<1>4. ASSUME NEW i \in Proposals, NEW p \in Players, FormSoloProposal(i, p)
      PROVE  PartiesKnown'
  <2> DEFINE new == [who |-> {p}, agreed |-> {},
                     roles |-> [NoRoles EXCEPT ![p] = queue[p].roles],
                     party |-> {}, group |-> NoGroup]
  <2>1. proposals' = [proposals EXCEPT ![i] = new]
    BY <1>4 DEF FormSoloProposal
  <2>2. new.agreed = {} /\ new.party = {} /\ new.group = NoGroup
    OBVIOUS
  <2> HIDE DEF new
  <2> QED  BY <1>0, <2>1, <2>2, OneProposal
<1>5. ASSUME NEW i \in Proposals, NEW p \in Players, AcceptProposal(i, p)
      PROVE  PartiesKnown'
  <2>1. CASE proposals[i].agreed \cup {p} = proposals[i].who \/ solo
    BY <1>2, <1>5, <2>1 DEF AcceptProposal
  <2>2. CASE ~(proposals[i].agreed \cup {p} = proposals[i].who \/ solo)
    <3>1. proposals[i] \in Proposal /\ p \in proposals[i].who
      BY <1>0, <1>5 DEF TypeOK, AcceptProposal
    <3>2. PICK new : new = [proposals[i] EXCEPT !.agreed = @ \cup {p}]
      OBVIOUS
    <3>3. proposals' = [proposals EXCEPT ![i] = new]
      BY <1>0, <1>5, <2>2, <3>2 DEF AcceptProposal, TypeOK
    <3>4. /\ new.who = proposals[i].who /\ new.party = proposals[i].party
          /\ new.group = proposals[i].group
          /\ new.agreed = proposals[i].agreed \cup {p}
      BY <3>1, <3>2 DEF Proposal
    <3> QED  BY <1>0, <3>1, <3>3, <3>4, OneProposal DEF PartiesKnown
  <2> QED  BY <2>1, <2>2
<1>6. ASSUME NEW i \in Proposals, NEW p \in Players, DeclineProposal(i, p)
      PROVE  PartiesKnown'
  BY <1>2, <1>6 DEF DeclineProposal, Fail
<1>7. ASSUME NEW i \in Proposals, ExpireProposal(i) PROVE PartiesKnown'
  BY <1>2, <1>7 DEF ExpireProposal, Fail
<1>8. CASE UNCHANGED vars
  BY <1>1, <1>8 DEF vars
<1> QED
  BY <1>1, <1>3, <1>4, <1>5, <1>6, <1>7, <1>8
  DEF Next, ManagerStep, Leave, SetState, Join, SetRoles, JoinGroup,
      ExpireRoleCheck, LeaveFinder, LeaveQueuedGroup, QueueGroup
\* Where its proposal fails, a player that has an entry either comes back to
\* what it was before the queue or waits again.
LEMMA FailEntries ==
  ASSUME TypeOK, NEW i \in Proposals, NEW out, NEW gone, Fail(i, out, gone),
         NEW p \in Players, p \in proposals[i].who, queue[p].state # "none"
  PROVE  IF p \in out THEN queue'[p].state # "queued" ELSE queue'[p].state = "queued"
<1>1. queue[p] \in Entry
  BY DEF TypeOK
<1>2. Restored(queue[p]).state # "queued" /\ Requeued(queue[p]).state = "queued"
  BY <1>1 DEF Restored, Requeued, Entry, NoEntry, Settled
<1> QED  BY <1>2 DEF Fail

LEMMA FailGroups ==
  ASSUME TypeOK, NEW i \in Proposals, NEW out, NEW gone, Fail(i, out, gone),
         NEW g \in Groups, Lists(g) \cap proposals[i].who # {}
  PROVE  IF g \in gone THEN groupQueue'[g].state # "queued"
         ELSE groupQueue'[g].state = "queued"
<1>1. groupQueue[g] \in GroupEntry
  BY DEF TypeOK
<1>2. NoGroupEntry.state # "queued" /\ [groupQueue[g] EXCEPT !.state = "queued"].state = "queued"
  BY <1>1, GroupEntryTypes
<1> QED  BY <1>2 DEF Fail

\* What FailureSettles says of one proposal.
Settles(i) ==
  /\ \A p \in proposals[i].agreed \ proposals[i].party :
       /\ queue[p].state # "none"
       /\ ExpireProposal(i) \/ \E x \in Players \ {p} : DeclineProposal(i, x)
       => queue'[p].state = "queued"
  /\ \A g \in Groups \cap {proposals[i].group} : groupQueue[g].state # "none" =>
       \A p \in proposals[i].party : queue[p].state # "none" =>
         (queue'[p].state = "queued" <=> groupQueue'[g].state = "queued")

\* The party has one fate: its group's entry goes when a member of it refused,
\* and then every member comes back to what it was.
LEMMA PartyTogether ==
  ASSUME IInv, PartiesKnown, NEW i \in Proposals,
         NEW deny \in SUBSET proposals[i].who, NEW more \in SUBSET Groups,
         \A g \in more : deny \cap Lists(g) # {},
         Fail(i, Refused(i, deny), RefusedGroup(i, deny) \cup more),
         NEW g \in Groups, g = proposals[i].group, groupQueue[g].state # "none",
         NEW p \in proposals[i].party, queue[p].state # "none"
  PROVE  queue'[p].state = "queued" <=> groupQueue'[g].state = "queued"
<1> DEFINE out == Refused(i, deny)
           gone == RefusedGroup(i, deny) \cup more
<1>0. TypeOK /\ proposals[i] \in Proposal
  BY DEF IInv, TypeOK
<1>1. /\ proposals[i].party = Members[g] /\ Lists(g) = Members[g]
      /\ p \in Players /\ p \in proposals[i].who
  BY <1>0, GroupsAssumption DEF PartiesKnown, IInv, Listed, Proposal
<1>2. Fail(i, out, gone)
  OBVIOUS
<1>3. p \in out <=> g \in gone
  BY <1>1 DEF Refused, RefusedGroup
<1> HIDE DEF out, gone
<1>4. IF p \in out THEN queue'[p].state # "queued" ELSE queue'[p].state = "queued"
  BY <1>0, <1>1, <1>2, FailEntries
<1>5. IF g \in gone THEN groupQueue'[g].state # "queued"
      ELSE groupQueue'[g].state = "queued"
  BY <1>0, <1>1, <1>2, FailGroups
<1> QED  BY <1>3, <1>4, <1>5

\* A failure that somebody else caused.
LEMMA AgreedWaits ==
  ASSUME IInv, PartiesKnown, NEW i \in Proposals,
         NEW deny \in SUBSET proposals[i].who, NEW gone,
         Fail(i, Refused(i, deny), gone),
         NEW p \in proposals[i].agreed \ proposals[i].party, p \notin deny,
         queue[p].state # "none"
  PROVE  queue'[p].state = "queued"
<1>1. TypeOK /\ p \in proposals[i].who /\ p \in Players
  BY DEF IInv, TypeOK, PartiesKnown, Proposal
<1>2. p \notin Refused(i, deny)
  BY DEF Refused
<1> QED  BY <1>1, <1>2, FailEntries

LEMMA FailSettles ==
  ASSUME IInv, PartiesKnown, NEW i \in Proposals, NEW deny \in SUBSET proposals[i].who,
         NEW more \in SUBSET Groups, \A g \in more : deny \cap Lists(g) # {},
         Fail(i, Refused(i, deny), RefusedGroup(i, deny) \cup more)
  PROVE  \A g \in Groups \cap {proposals[i].group} : groupQueue[g].state # "none" =>
           \A p \in proposals[i].party : queue[p].state # "none" =>
             (queue'[p].state = "queued" <=> groupQueue'[g].state = "queued")
  BY PartyTogether

LEMMA ExpireDenies ==
  ASSUME NEW i \in Proposals, ExpireProposal(i)
  PROVE  LET deny == proposals[i].who \ proposals[i].agreed
         IN Fail(i, Refused(i, deny), RefusedGroup(i, deny) \cup {})
  BY DEF ExpireProposal

LEMMA AcceptSettles ==
  ASSUME IInv, PartiesKnown, NEW i \in Proposals, NEW p \in Players,
         AcceptProposal(i, p), Ends(i),
         NEW g \in Groups, g = proposals[i].group, groupQueue[g].state # "none",
         NEW m \in proposals[i].party
  PROVE  queue'[m].state # "queued" /\ groupQueue'[g].state # "queued"
<1>0. TypeOK /\ proposals[i] \in Proposal
  BY DEF IInv, TypeOK
<1>1. /\ proposals[i].party = Members[g] /\ Lists(g) = Members[g]
      /\ m \in Players /\ m \in proposals[i].who
  BY <1>0, GroupsAssumption DEF PartiesKnown, IInv, Listed, Proposal
<1>2. proposals[i].agreed \cup {p} = proposals[i].who \/ solo
  <2> SUFFICES ASSUME ~(proposals[i].agreed \cup {p} = proposals[i].who \/ solo)
               PROVE  FALSE
    OBVIOUS
  <2>1. proposals'[i].who = proposals[i].who
    BY <1>0 DEF AcceptProposal, TypeOK, Proposal
  <2> QED  BY <2>1 DEF Ends, Live
<1>3. queue'[m] = Set(queue[m], "dungeon") /\ groupQueue'[g] = NoGroupEntry
  BY <1>1, <1>2 DEF AcceptProposal
<1>4. Set(queue[m], "dungeon").state = "dungeon" /\ NoGroupEntry.state = "none"
  BY DEF Set, NoGroupEntry
<1> QED  BY <1>3, <1>4

\* Only three steps end a proposal.
LEMMA WhoEnds ==
  ASSUME TypeOK, [Next]_vars, NEW i \in Proposals, Ends(i)
  PROVE  \/ ExpireProposal(i)
         \/ \E x \in Players : DeclineProposal(i, x) \/ AcceptProposal(i, x)
<1>0. proposals \in [Proposals -> Proposal] /\ proposals'[i].who = {} /\ proposals[i].who # {}
  BY DEF TypeOK, Ends, Live
<1>1. proposals' # proposals
  BY <1>0
<1>2. ASSUME NEW j \in Proposals, NEW new, proposals' = [proposals EXCEPT ![j] = new]
      PROVE  j = i
  BY <1>0, <1>2
<1>3. ASSUME NEW j \in Proposals, NEW gs \in SUBSET QueuedGroups,
             NEW ps \in SUBSET QueuedAlone, FindGroups(j, gs, ps)
      PROVE  FALSE
  <2>1. j = i
    BY <1>2, <1>3 DEF FindGroups
  <2> QED  BY <1>0, <1>3, <2>1 DEF FindGroups, Live
<1>4. ASSUME NEW j \in Proposals, NEW p \in Players, FormSoloProposal(j, p)
      PROVE  FALSE
  <2>1. j = i
    BY <1>2, <1>4 DEF FormSoloProposal
  <2> QED  BY <1>0, <1>4, <2>1 DEF FormSoloProposal, Live
<1>5. ASSUME NEW j \in Proposals, NEW p \in Players, AcceptProposal(j, p)
      PROVE  j = i
  <2>1. CASE proposals[j].agreed \cup {p} = proposals[j].who \/ solo
    BY <1>2, <1>5, <2>1 DEF AcceptProposal
  <2>2. CASE ~(proposals[j].agreed \cup {p} = proposals[j].who \/ solo)
    <3>1. proposals' = [proposals EXCEPT ![j] =
                          [proposals[j] EXCEPT !.agreed = @ \cup {p}]]
      BY <1>0, <1>5, <2>2 DEF AcceptProposal
    <3> QED  BY <1>2, <3>1
  <2> QED  BY <2>1, <2>2
<1>6. ASSUME NEW j \in Proposals, NEW p \in Players, DeclineProposal(j, p)
      PROVE  j = i
  BY <1>2, <1>6 DEF DeclineProposal, Fail
<1>7. ASSUME NEW j \in Proposals, ExpireProposal(j) PROVE j = i
  BY <1>2, <1>7 DEF ExpireProposal, Fail
<1> QED
  BY <1>1, <1>3, <1>4, <1>5, <1>6, <1>7
  DEF Next, ManagerStep, Leave, SetState, Join, SetRoles, JoinGroup,
      ExpireRoleCheck, LeaveFinder, LeaveQueuedGroup, QueueGroup, vars

LEMMA StepSettles ==
  ASSUME IInv, PartiesKnown, [Next]_vars, NEW i \in Proposals, Ends(i)
  PROVE  Settles(i)
<1>0. TypeOK /\ proposals[i] \in Proposal
  BY DEF IInv, TypeOK
<1>1. ASSUME NEW p \in proposals[i].agreed \ proposals[i].party, queue[p].state # "none",
             ExpireProposal(i) \/ \E x \in Players \ {p} : DeclineProposal(i, x)
      PROVE  queue'[p].state = "queued"
  <2>1. CASE ExpireProposal(i)
    <3> DEFINE deny == proposals[i].who \ proposals[i].agreed
    <3>1. Fail(i, Refused(i, deny), RefusedGroup(i, deny))
      BY <2>1 DEF ExpireProposal
    <3>2. deny \in SUBSET proposals[i].who /\ p \notin deny
      OBVIOUS
    <3> HIDE DEF deny
    <3> QED  BY <1>1, <3>1, <3>2, AgreedWaits
  <2>2. ASSUME NEW x \in Players \ {p}, DeclineProposal(i, x)
        PROVE  queue'[p].state = "queued"
    <3>1. /\ x \in proposals[i].who
          /\ Fail(i, Refused(i, {x}),
                  RefusedGroup(i, {x}) \cup {g \in Groups : x \in Lists(g)})
      BY <2>2 DEF DeclineProposal
    <3>2. {x} \in SUBSET proposals[i].who /\ p \notin {x}
      BY <3>1
    <3> QED  BY <1>1, <3>1, <3>2, AgreedWaits
  <2> QED  BY <1>1, <2>1, <2>2
<1>2. \A g \in Groups \cap {proposals[i].group} : groupQueue[g].state # "none" =>
        \A p \in proposals[i].party : queue[p].state # "none" =>
          (queue'[p].state = "queued" <=> groupQueue'[g].state = "queued")
  <2>1. CASE ExpireProposal(i)
    <3> DEFINE deny == proposals[i].who \ proposals[i].agreed
    <3>1. Fail(i, Refused(i, deny), RefusedGroup(i, deny) \cup {})
      BY <2>1, ExpireDenies
    <3>2. deny \in SUBSET proposals[i].who
      OBVIOUS
    <3> HIDE DEF deny
    <3> QED  BY <3>1, <3>2, FailSettles
  <2>2. ASSUME NEW x \in Players, DeclineProposal(i, x)
        PROVE  \A g \in Groups \cap {proposals[i].group} : groupQueue[g].state # "none" =>
                 \A p \in proposals[i].party : queue[p].state # "none" =>
                   (queue'[p].state = "queued" <=> groupQueue'[g].state = "queued")
    <3> DEFINE more == {g \in Groups : x \in Lists(g)}
    <3>1. /\ x \in proposals[i].who
          /\ Fail(i, Refused(i, {x}), RefusedGroup(i, {x}) \cup more)
      BY <2>2 DEF DeclineProposal
    <3>2. /\ {x} \in SUBSET proposals[i].who /\ more \in SUBSET Groups
          /\ \A g \in more : {x} \cap Lists(g) # {}
      BY <3>1
    <3> HIDE DEF more
    <3> QED  BY <3>1, <3>2, FailSettles
  <2>3. ASSUME NEW x \in Players, AcceptProposal(i, x)
        PROVE  \A g \in Groups \cap {proposals[i].group} : groupQueue[g].state # "none" =>
                 \A p \in proposals[i].party : queue[p].state # "none" =>
                   (queue'[p].state = "queued" <=> groupQueue'[g].state = "queued")
    BY <2>3, AcceptSettles
  <2> QED  BY <1>0, <2>1, <2>2, <2>3, WhoEnds
<1> QED  BY <1>1, <1>2 DEF Settles

\* However a proposal ends, whoever agreed alone waits again where others let
\* it fail, and a group's entry and those of its members go the same way
\* (lfg.go:906-924, 1042-1083).
THEOREM FailuresSettle == Spec => FailureSettles
<1>1. Init => PartiesKnown
  BY DEF Init, PartiesKnown, NoProposal
<1>2. IInv /\ PartiesKnown /\ [Next]_vars => [\A i \in Proposals : Ends(i) => Settles(i)]_vars
  BY StepSettles
<1>3. FailureSettles <=> [][\A i \in Proposals : Ends(i) => Settles(i)]_vars
  BY DEF FailureSettles, Settles
<1> QED  BY InitIInv, StepIInv, StepParties, <1>1, <1>2, <1>3, PTL DEF Spec
-----------------------------------------------------------------------------
(* A matched group has every role *)

LEMMA SumOfParts ==
  ASSUME NEW S, IsFiniteSet(S), NEW a \in [S -> Role]
  PROVE  LET n(r) == Cardinality({m \in S : a[m] = r})
         IN /\ n("tank") \in Nat /\ n("healer") \in Nat /\ n("dps") \in Nat
            /\ Cardinality(S) = n("tank") + n("healer") + n("dps")
<1> DEFINE T == {m \in S : a[m] = "tank"}
           H == {m \in S : a[m] = "healer"}
           D == {m \in S : a[m] = "dps"}
<1>1. S = (T \cup H) \cup D /\ T \cap H = {} /\ (T \cup H) \cap D = {}
  BY DEF Role
<1>2. IsFiniteSet(T) /\ IsFiniteSet(H) /\ IsFiniteSet(D)
  BY FS_Subset
<1> HIDE DEF T, H, D
<1>3. /\ IsFiniteSet(T \cup H)
      /\ Cardinality(T \cup H) = Cardinality(T) + Cardinality(H) - Cardinality({})
  BY <1>1, <1>2, FS_Union
<1>4. Cardinality(S) = Cardinality(T \cup H) + Cardinality(D) - Cardinality({})
  BY <1>1, <1>2, <1>3, FS_Union
<1>5. /\ Cardinality({}) = 0 /\ Cardinality(T) \in Nat
      /\ Cardinality(H) \in Nat /\ Cardinality(D) \in Nat
  BY <1>2, FS_EmptySet, FS_CardinalityType
<1>6. Cardinality(S) = Cardinality(T) + Cardinality(H) + Cardinality(D)
  BY <1>3, <1>4, <1>5
<1> QED  BY <1>5, <1>6 DEF T, H, D

\* No more of each role than needed, and as many members as all of them: then
\* as many of each as needed.
LEMMA LegalFills ==
  ASSUME NEW S, IsFiniteSet(S), Cardinality(S) = GroupSize,
         NEW offered, NEW a \in Legal(S, offered), NEW r \in Role
  PROVE  Cardinality({m \in S : a[m] = r}) = Needed[r]
<1> DEFINE n(k) == Cardinality({m \in S : a[m] = k})
<1>1. a \in [S -> Role] /\ \A k \in Role : n(k) <= Needed[k]
  BY DEF Legal
<1>2. /\ n("tank") \in Nat /\ n("healer") \in Nat /\ n("dps") \in Nat
      /\ Cardinality(S) = n("tank") + n("healer") + n("dps")
  BY <1>1, SumOfParts
<1>3. n(r) = Needed[r]
  <2> HIDE DEF n
  <2>1. /\ n("tank") <= TanksNeeded /\ n("healer") <= HealersNeeded
        /\ n("dps") <= DPSNeeded
    BY <1>1 DEF Role, Needed
  <2>2. /\ n("tank") = TanksNeeded /\ n("healer") = HealersNeeded
        /\ n("dps") = DPSNeeded
    BY <1>2, <2>1, NeededAssumption DEF GroupSize
  <2> QED  BY <2>2 DEF Role, Needed
<1> QED  BY <1>3

Filled(new) == \A r \in Role :
  Cardinality({p \in new.who : new.roles[p] = {r}}) = Needed[r]

LEMMA OneFilled ==
  ASSUME TypeOK, GroupsFilled, solo' = solo, NEW i \in Proposals, NEW new,
         proposals' = [proposals EXCEPT ![i] = new],
         new.who = {} \/ solo \/ Filled(new)
  PROVE  GroupsFilled'
<1> SUFFICES ASSUME ~solo, NEW j \in Proposals, proposals'[j].who # {}
             PROVE  Filled(proposals'[j])
  BY DEF GroupsFilled, Live, Filled
<1>1. CASE j = i
  BY <1>1 DEF TypeOK
<1>2. CASE j # i
  <2>1. proposals'[j] = proposals[j]
    BY <1>2 DEF TypeOK
  <2> QED  BY <2>1 DEF GroupsFilled, Live, Filled
<1> QED  BY <1>1, <1>2

LEMMA FindGroupsFilled ==
  ASSUME TypeOK, GroupsFilled, NEW i \in Proposals, NEW gs \in SUBSET QueuedGroups,
         NEW ps \in SUBSET QueuedAlone, FindGroups(i, gs, ps)
  PROVE  GroupsFilled'
<1> DEFINE party == UNION {Lists(g) : g \in gs}
           who == party \cup ps
           group == IF gs = {} THEN NoGroup ELSE CHOOSE g \in gs : TRUE
           new == [who |-> who, agreed |-> {},
                   roles |-> RolesAssigned(who, Offered(gs, ps)),
                   party |-> party, group |-> group]
<1>1. proposals' = [proposals EXCEPT ![i] = new] /\ solo' = solo
  BY DEF FindGroups, Offered
<1>2. /\ CheckGroupRoles(who, Offered(gs, ps))
      /\ ~solo => Cardinality(who) = GroupSize
  BY DEF FindGroups, Offered
<1>3. who \in SUBSET Players
  BY DEF Lists, QueuedAlone
<1> HIDE DEF who
<1>4. ASSUME ~solo PROVE Filled(new)
  <2>1. IsFiniteSet(who)
    BY <1>3, FS_Subset, FiniteAssumption
  <2>2. PICK a \in Legal(who, [m \in who |-> Offered(gs, ps)[m]]) :
          RolesAssigned(who, Offered(gs, ps)) =
            [p \in Players |-> IF p \in who THEN {a[p]} ELSE {}]
    BY <1>2, <1>3, OfferedTypes, AssignedIs
  <2>3. ASSUME NEW r \in Role
        PROVE  Cardinality({p \in who : new.roles[p] = {r}}) = Needed[r]
    <3>1. {p \in who : new.roles[p] = {r}} = {p \in who : a[p] = r}
      BY <1>3, <2>2
    <3>2. Cardinality({p \in who : a[p] = r}) = Needed[r]
      BY <1>2, <1>4, <2>1, LegalFills
    <3> QED  BY <3>1, <3>2
  <2> QED  BY <2>3 DEF Filled
<1> HIDE DEF new
<1> QED  BY <1>1, <1>4, OneFilled

LEMMA StepFilled == TypeOK /\ GroupsFilled /\ [Next]_vars => GroupsFilled'
<1> SUFFICES ASSUME TypeOK, GroupsFilled, [Next]_vars PROVE GroupsFilled'
  OBVIOUS
<1>1. CASE proposals' = proposals /\ solo' = solo
  BY <1>1 DEF GroupsFilled, Live
<1>2. ASSUME NEW i \in Proposals, solo' = solo,
             proposals' = [proposals EXCEPT ![i] = NoProposal]
      PROVE  GroupsFilled'
  <2>1. NoProposal.who = {}
    BY DEF NoProposal
  <2> QED  BY <1>2, <2>1, OneFilled
<1>3. ASSUME NEW i \in Proposals, NEW gs \in SUBSET QueuedGroups,
             NEW ps \in SUBSET QueuedAlone, FindGroups(i, gs, ps)
      PROVE  GroupsFilled'
  BY <1>3, FindGroupsFilled
<1>4. ASSUME NEW i \in Proposals, NEW p \in Players, FormSoloProposal(i, p)
      PROVE  GroupsFilled'
  BY <1>4 DEF FormSoloProposal, GroupsFilled
<1>5. ASSUME NEW i \in Proposals, NEW p \in Players, AcceptProposal(i, p)
      PROVE  GroupsFilled'
  <2>1. CASE proposals[i].agreed \cup {p} = proposals[i].who \/ solo
    BY <1>2, <1>5, <2>1 DEF AcceptProposal
  <2>2. CASE ~(proposals[i].agreed \cup {p} = proposals[i].who \/ solo)
    <3>1. proposals[i] \in Proposal /\ proposals[i].who # {} /\ ~solo /\ solo' = solo
      <4>1. proposals[i] \in Proposal
        BY <1>5 DEF TypeOK
      <4>2. p \in proposals[i].who
        BY <1>5 DEF AcceptProposal
      <4>3. ~solo
        BY <2>2
      <4>4. solo' = solo
        BY <1>5 DEF AcceptProposal
      <4> QED  BY <4>1, <4>2, <4>3, <4>4
    <3>2. PICK new : new = [proposals[i] EXCEPT !.agreed = @ \cup {p}]
      OBVIOUS
    <3>3. proposals' = [proposals EXCEPT ![i] = new]
      BY <1>5, <2>2, <3>2 DEF AcceptProposal, TypeOK
    <3>4. new.who = proposals[i].who /\ new.roles = proposals[i].roles
      BY <3>1, <3>2 DEF Proposal
    <3>5. Filled(new)
      <4>1. Filled(proposals[i])
        BY <3>1 DEF GroupsFilled, Live, Filled
      <4>2. ASSUME NEW r \in Role
            PROVE  Cardinality({q \in new.who : new.roles[q] = {r}}) = Needed[r]
        <5>1. {q \in new.who : new.roles[q] = {r}}
                = {q \in proposals[i].who : proposals[i].roles[q] = {r}}
          BY <3>4
        <5>2. Cardinality({q \in proposals[i].who : proposals[i].roles[q] = {r}}) = Needed[r]
          BY <4>1 DEF Filled
        <5> QED  BY <5>1, <5>2
      <4> QED  BY <4>2 DEF Filled
    <3> QED  BY <3>1, <3>3, <3>5, OneFilled
  <2> QED  BY <2>1, <2>2
<1>6. ASSUME NEW i \in Proposals, NEW p \in Players, DeclineProposal(i, p)
      PROVE  GroupsFilled'
  BY <1>2, <1>6 DEF DeclineProposal, Fail
<1>7. ASSUME NEW i \in Proposals, ExpireProposal(i) PROVE GroupsFilled'
  BY <1>2, <1>7 DEF ExpireProposal, Fail
<1>8. CASE UNCHANGED vars
  BY <1>1, <1>8 DEF vars
<1> QED
  BY <1>1, <1>3, <1>4, <1>5, <1>6, <1>7, <1>8
  DEF Next, ManagerStep, Leave, SetState, Join, SetRoles, JoinGroup,
      ExpireRoleCheck, LeaveFinder, LeaveQueuedGroup, QueueGroup

\* Outside the solo mode whoever is asked makes a whole dungeon group, whatever
\* roles each offered and whichever group came along (lfg.go:585-715, 944-1000).
THEOREM MatchedGroupsFilled == Spec => []GroupsFilled
<1>1. Init => GroupsFilled
  BY DEF Init, GroupsFilled, Live, NoProposal
<1> QED  BY InitTypes, StepTypes, StepFilled, <1>1, PTL DEF Spec
-----------------------------------------------------------------------------
(* The handlers alone *)

\* A group that came together to the finder has no entry, its members wait in
\* no queue, and no proposal asks them.
GroupsLeftOut == \A g \in Groups :
  /\ groupQueue[g] = NoGroupEntry
  /\ \A p \in Members[g] : /\ queue[p].state \in Settled
                           /\ \A i \in Proposals : p \notin proposals[i].who

LEMMA NobodyListed == ASSUME GroupsLeftOut PROVE QueuedGroups = {} /\ \A g \in Groups : Lists(g) = {}
  BY DEF GroupsLeftOut, QueuedGroups, Lists, NoGroupEntry, NoRoles

\* The entries of the members of a group change among the settled states.
LEMMA EntriesSettle ==
  ASSUME GroupsLeftOut, UNCHANGED <<groupQueue, proposals>>,
         \A g \in Groups : \A p \in Members[g] : queue'[p].state \in Settled
  PROVE  GroupsLeftOut'
  BY DEF GroupsLeftOut

LEMMA HandlersLeaveOut ==
  ASSUME TypeOK, GroupsLeftOut, [ManagerStep]_vars
  PROVE  GroupsLeftOut'
<1>0. \A p \in Players : queue[p] \in Entry
  BY DEF TypeOK
<1>1. CASE UNCHANGED vars
  BY <1>1 DEF vars, GroupsLeftOut
<1>2. \A g \in Groups : Members[g] \in SUBSET Players /\ Leader[g] \in Members[g]
  BY GroupsAssumption
<1>3. \A g \in Groups : \A p \in Members[g] :
        p \in Players /\ ~Alone(p) /\ queue[p].state \in Settled /\ queue[p] \in Entry
  BY <1>0, <1>2 DEF GroupsLeftOut, Alone
<1>4. ASSUME NEW e \in Entry, e.state \in Settled, NEW state \in Settled, NEW roles
      PROVE  /\ NoEntry.state \in Settled /\ Left(e).state \in Settled
             /\ Set(e, state).state \in Settled /\ [e EXCEPT !.roles = roles].state \in Settled
  BY <1>4 DEF NoEntry, Left, Set, Settled, Entry
<1>5. ASSUME NEW p \in Players, Leave(p) PROVE GroupsLeftOut'
  <2>1. \A x \in Players : queue'[x] = IF x = p THEN NoEntry ELSE queue[x]
    BY <1>5 DEF Leave, TypeOK
  <2>2. UNCHANGED <<groupQueue, proposals>>
    BY <1>5 DEF Leave
  <2> QED  BY <1>3, <1>4, <2>1, <2>2, EntriesSettle
<1>6. ASSUME NEW p \in Players, NEW state \in Restores, SetState(p, state) PROVE GroupsLeftOut'
  <2>1. \A x \in Players : queue'[x] = IF x = p THEN Set(queue[x], state) ELSE queue[x]
    BY <1>6 DEF SetState, TypeOK
  <2>2. UNCHANGED <<groupQueue, proposals>> /\ state \in Settled
    BY <1>6, ChoicesAssumption DEF SetState
  <2> QED  BY <1>3, <1>4, <2>1, <2>2, EntriesSettle
<1>7. ASSUME NEW p \in Players, NEW roles, Join(p, roles) PROVE GroupsLeftOut'
  <2>1. \A x \in Players \ {p} : queue'[x] = queue[x]
    BY <1>7 DEF Join, TypeOK
  <2>2. UNCHANGED <<groupQueue, proposals>> /\ Alone(p)
    BY <1>7 DEF Join
  <2>3. \A g \in Groups : \A x \in Members[g] : x \in Players \ {p}
    BY <1>3, <2>2
  <2> QED  BY <1>3, <2>1, <2>2, <2>3, EntriesSettle
<1>8. ASSUME NEW p \in Players, NEW roles, SetRoles(p, roles) PROVE GroupsLeftOut'
  <2>1. \A x \in Players : queue'[x] =
          IF x = p /\ queue[x].state # "none" THEN [queue[x] EXCEPT !.roles = roles] ELSE queue[x]
    BY <1>8 DEF SetRoles, TypeOK
  <2>2. UNCHANGED <<groupQueue, proposals>>
    BY <1>8 DEF SetRoles
  <2>3. \A g \in Groups : \A x \in Members[g] : [queue[x] EXCEPT !.roles = roles].state \in Settled
    BY <1>3, <1>4
  <2> QED  BY <1>3, <2>1, <2>2, <2>3, EntriesSettle
<1>9. ASSUME NEW g \in Groups, NEW roles, JoinGroup(g, roles) PROVE GroupsLeftOut'
  <2>1. \A x \in Players : queue'[x] = IF x = Leader[g] THEN Left(queue[x]) ELSE queue[x]
    BY <1>9 DEF JoinGroup, TypeOK
  <2>2. UNCHANGED <<groupQueue, proposals>>
    BY <1>9 DEF JoinGroup
  <2> QED  BY <1>3, <1>4, <2>1, <2>2, EntriesSettle
<1>10. ASSUME NEW g \in Groups, ExpireRoleCheck(g) PROVE GroupsLeftOut'
  BY <1>3, <1>10, EntriesSettle DEF ExpireRoleCheck
<1>11. ASSUME NEW g \in Groups, NEW restore \in Restores, LeaveFinder(g, restore)
       PROVE  GroupsLeftOut'
  <2>1. CASE roleChecks[g].open
    BY <1>10, <1>11, <2>1 DEF LeaveFinder
  <2>2. CASE ~roleChecks[g].open
    <3>0. /\ \E online \in SUBSET Members[g] :
               queue' = [p \in Players |->
                           IF p \in online /\ queue[p].state = "queued"
                             THEN Set(queue[p], restore) ELSE queue[p]]
          /\ groupQueue' = [groupQueue EXCEPT ![g] = NoGroupEntry]
          /\ UNCHANGED <<roleChecks, proposals, solo>>
      BY <1>11, <2>2 DEF LeaveFinder, ExpireRoleCheck
    <3>1. \A x \in Players : queue'[x] = queue[x] \/ queue'[x] = Set(queue[x], restore)
      BY <3>0
    <3>2. groupQueue' = [groupQueue EXCEPT ![g] = NoGroupEntry] /\ proposals' = proposals
      BY <3>0
    <3>3. groupQueue' = groupQueue
      BY <3>2 DEF GroupsLeftOut, TypeOK
    <3>4. restore \in Settled
      BY ChoicesAssumption
    <3> QED  BY <1>3, <1>4, <3>1, <3>2, <3>3, <3>4, EntriesSettle
  <2> QED  BY <2>1, <2>2
<1>12. ASSUME NEW g \in Groups, NEW out, NEW restore, LeaveQueuedGroup(g, out, restore) PROVE FALSE
  BY <1>12 DEF LeaveQueuedGroup, GroupsLeftOut, NoGroupEntry
<1>13. ASSUME NEW i \in Proposals, NEW gs \in SUBSET QueuedGroups, NEW ps \in SUBSET QueuedAlone,
              FindGroups(i, gs, ps)
       PROVE  GroupsLeftOut'
  <2>1. gs = {} /\ ps \in SUBSET Players
    BY NobodyListed DEF QueuedAlone
  <2>2. PICK new : proposals' = [proposals EXCEPT ![i] = new] /\ new.who = ps
    <3>1. (UNION {Lists(g) : g \in gs}) \cup ps = ps
      BY <2>1
    <3>2. PICK roles, party, group : proposals' = [proposals EXCEPT ![i] =
            [who |-> (UNION {Lists(g) : g \in gs}) \cup ps, agreed |-> {}, roles |-> roles,
             party |-> party, group |-> group]]
      BY <1>13 DEF FindGroups
    <3>3. PICK new : new = [who |-> (UNION {Lists(g) : g \in gs}) \cup ps, agreed |-> {},
                            roles |-> roles, party |-> party, group |-> group]
      OBVIOUS
    <3>4. proposals' = [proposals EXCEPT ![i] = new]
      BY <3>2, <3>3
    <3>5. new.who = ps
      BY <3>1, <3>3
    <3> QED  BY <3>4, <3>5
  <2>3. \A g \in Groups : \A p \in Members[g] : p \notin ps
    BY <1>3 DEF QueuedAlone, Settled
  <2>4. \A p \in Players \ ps : queue'[p] = queue[p]
    BY <1>13 DEF FindGroups
  <2>5. groupQueue' = groupQueue
    BY <1>13, <2>1 DEF FindGroups, TypeOK
  <2>6. \A j \in Proposals : proposals'[j].who = proposals[j].who \/ proposals'[j].who = ps
    BY <2>2 DEF TypeOK
  <2> QED  BY <1>3, <2>3, <2>4, <2>5, <2>6 DEF GroupsLeftOut
<1>14. ASSUME NEW i \in Proposals, NEW p \in Players, FormSoloProposal(i, p) PROVE GroupsLeftOut'
  <2>1. \A g \in Groups : p \notin Members[g]
    BY <1>3, <1>14 DEF FormSoloProposal, Settled
  <2>2. PICK new : proposals' = [proposals EXCEPT ![i] = new] /\ new.who = {p}
    <3>1. PICK new : new = [who |-> {p}, agreed |-> {}, roles |-> [NoRoles EXCEPT ![p] = queue[p].roles],
                            party |-> {}, group |-> NoGroup]
      OBVIOUS
    <3>2. proposals' = [proposals EXCEPT ![i] = new]
      BY <1>14, <3>1 DEF FormSoloProposal
    <3>3. new.who = {p}
      BY <3>1
    <3> QED  BY <3>2, <3>3
  <2>3. \A x \in Players \ {p} : queue'[x] = queue[x]
    BY <1>14 DEF FormSoloProposal, TypeOK
  <2>4. \A j \in Proposals : proposals'[j].who = proposals[j].who \/ proposals'[j].who = {p}
    BY <2>2 DEF TypeOK
  <2>5. groupQueue' = groupQueue
    BY <1>14 DEF FormSoloProposal
  <2> QED  BY <1>3, <2>1, <2>3, <2>4, <2>5 DEF GroupsLeftOut
<1>15. ASSUME NEW i \in Proposals, proposals' = [proposals EXCEPT ![i] = NoProposal],
              \A p \in Players : p \notin proposals[i].who => queue'[p] = queue[p],
              \A g \in Groups : groupQueue'[g] = NoGroupEntry
       PROVE  GroupsLeftOut'
  <2>1. \A g \in Groups : \A p \in Members[g] : p \notin proposals[i].who
    BY DEF GroupsLeftOut
  <2>2. \A j \in Proposals : \A p : p \in proposals'[j].who => p \in proposals[j].who
    BY <1>15 DEF TypeOK, NoProposal
  <2> QED  BY <1>3, <1>15, <2>1, <2>2 DEF GroupsLeftOut
<1>16. ASSUME NEW i \in Proposals, NEW out, NEW gone, Fail(i, out, gone) PROVE GroupsLeftOut'
  <2>1. \A g \in Groups : groupQueue'[g] = NoGroupEntry
    BY <1>16, NobodyListed DEF Fail, GroupsLeftOut
  <2>2. \A p \in Players : p \notin proposals[i].who => queue'[p] = queue[p]
    BY <1>16 DEF Fail
  <2> QED  BY <1>15, <1>16, <2>1, <2>2 DEF Fail
<1>17. ASSUME NEW i \in Proposals, NEW p \in Players, AcceptProposal(i, p) PROVE GroupsLeftOut'
  <2>1. CASE proposals[i].agreed \cup {p} = proposals[i].who \/ solo
    <3>1. \A g \in Groups : groupQueue'[g] = NoGroupEntry
      BY <1>17, <2>1, NobodyListed DEF AcceptProposal, GroupsLeftOut
    <3>2. \A x \in Players : x \notin proposals[i].who => queue'[x] = queue[x]
      BY <1>17, <2>1 DEF AcceptProposal
    <3> QED  BY <1>15, <1>17, <2>1, <3>1, <3>2 DEF AcceptProposal
  <2>2. CASE ~(proposals[i].agreed \cup {p} = proposals[i].who \/ solo)
    <3>1. PICK agreed : proposals' = [proposals EXCEPT ![i] = [proposals[i] EXCEPT !.agreed = agreed]]
                        /\ UNCHANGED <<queue, groupQueue>>
      BY <1>17, <2>2 DEF AcceptProposal, TypeOK
    <3>2. [proposals[i] EXCEPT !.agreed = agreed].who = proposals[i].who
      BY DEF TypeOK, Proposal
    <3>3. \A j \in Proposals : proposals'[j].who = proposals[j].who
      BY <3>1, <3>2 DEF TypeOK
    <3> QED  BY <3>1, <3>3 DEF GroupsLeftOut
  <2> QED  BY <2>1, <2>2
<1> QED
  BY <1>1, <1>5, <1>6, <1>7, <1>8, <1>9, <1>10, <1>11, <1>12, <1>13, <1>14, <1>16, <1>17
  DEF ManagerStep, DeclineProposal, ExpireProposal

\* With the calls the handlers make, for any groups and any answers: a group that
\* comes together, and all of its members, are in no queue and in no proposal,
\* while "the finished group itself enters the queue" (lfg.go:455, 1724, 4487).
THEOREM GroupsNeverMatched == HandlerSpec => []GroupsLeftOut
<1>1. Init => GroupsLeftOut
  BY GroupsAssumption DEF Init, GroupsLeftOut, NoEntry, NoProposal, Settled
<1>2. TypeOK /\ [ManagerStep]_vars => TypeOK'
  BY StepTypes DEF Next
<1>3. TypeOK /\ GroupsLeftOut /\ [ManagerStep]_vars => GroupsLeftOut'
  BY HandlersLeaveOut
<1> QED  BY InitTypes, <1>1, <1>2, <1>3, PTL DEF HandlerSpec
=============================================================================
