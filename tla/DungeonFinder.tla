---------------------------- MODULE DungeonFinder ----------------------------
(***************************************************************************)
(* The dungeon finder (engine/world/lfg.go).  LFGManager is an object with *)
(* a lock: each method is one atomic step, and the handlers, the world     *)
(* tick and the group code call them in any order, from their own          *)
(* goroutines.  The steps below are the methods, except where a handler    *)
(* does more than call one (Join, JoinGroup, SetRoles, LeaveFinder).       *)
(*                                                                         *)
(* A missing entry of m.queue is an entry in state "none", as every reader *)
(* takes it.  Left out: the dungeons chosen (everybody wants the same),    *)
(* comments, waiting times, the gates of a join (a join may stop after     *)
(* Leave), the votes to kick, and the group that a success makes.          *)
(***************************************************************************)
EXTENDS LFGRoles

CONSTANTS Players,
          Groups,       \* groups made before they come to the finder
          Members,      \* the members of each
          Leader,       \* and its leader
          NoGroup,
          Proposals,    \* bounds the proposals at a time; an id is used again
          RoleChoices,  \* the roles a client may send
          Restores      \* bounds the states the group code puts players in

ASSUME FiniteAssumption == IsFiniteSet(Players) /\ IsFiniteSet(Groups)

ASSUME GroupsAssumption ==
  /\ Members \in [Groups -> SUBSET Players]
  /\ \A g \in Groups : Leader[g] \in Members[g] /\ Cardinality(Members[g]) > 1
  /\ \A g, h \in Groups : g # h => Members[g] \cap Members[h] = {}
  /\ NoGroup \notin Groups

Settled == {"none", "dungeon", "finished"}

ASSUME ChoicesAssumption == RoleChoices \subseteq SUBSET Role /\ Restores \subseteq Settled

VARIABLES
  queue,       \* LFGManager.queue
  groupQueue,  \* LFGManager.groupQueue
  roleChecks,  \* LFGManager.roleChecks
  proposals,   \* LFGManager.proposals
  solo         \* LFGManager.solo, set at the start and kept

vars == <<queue, groupQueue, roleChecks, proposals, solo>>

Entry == [roles : SUBSET Role, state : Settled \cup {"queued", "proposal"},
          old : Settled]
NoEntry == [roles |-> {}, state |-> "none", old |-> "none"]

NoRoles == [p \in Players |-> {}]
GroupEntry == [state : {"none", "queued", "proposal"},
               roles : [Players -> SUBSET Role]]
NoGroupEntry == [state |-> "none", roles |-> NoRoles]
Lists(g) == {p \in Players : groupQueue[g].roles[p] # {}}

RoleCheck == [open : BOOLEAN, failed : BOOLEAN,
              roles : [Players -> SUBSET Role]]
NoCheck == [open |-> FALSE, failed |-> FALSE, roles |-> NoRoles]

Proposal == [who : SUBSET Players, agreed : SUBSET Players,
             roles : [Players -> SUBSET Role],  \* what each is to be there
             party : SUBSET Players, group : Groups \cup {NoGroup}]
NoProposal == [who |-> {}, agreed |-> {}, roles |-> NoRoles, party |-> {},
               group |-> NoGroup]
Live(i) == proposals[i].who # {}

TypeOK ==
  /\ queue \in [Players -> Entry]
  /\ groupQueue \in [Groups -> GroupEntry]
  /\ roleChecks \in [Groups -> RoleCheck]
  /\ proposals \in [Proposals -> Proposal]
  /\ solo \in BOOLEAN

Init ==
  /\ queue = [p \in Players |-> NoEntry]
  /\ groupQueue = [g \in Groups |-> NoGroupEntry]
  /\ roleChecks = [g \in Groups |-> NoCheck]
  /\ proposals = [i \in Proposals |-> NoProposal]
  /\ solo \in BOOLEAN

-----------------------------------------------------------------------------
(* Entries of one player *)

Left(e) == IF e.state = "queued" THEN NoEntry ELSE e

\* setStateLocked: NONE deletes the entry, FINISHED clears the roles.
Set(e, state) ==
  IF state = "none" THEN NoEntry
  ELSE [roles |-> IF state = "finished" THEN {} ELSE e.roles,
        state |-> state, old |-> state]

Restored(e) == IF e.old = "none" THEN NoEntry ELSE [e EXCEPT !.state = e.old]

Requeued(e) == IF e.state = "none" THEN e ELSE [e EXCEPT !.state = "queued"]

\* Mutant: the state before a join is recorded as the one to come back to.
QueuedKeepsState(e, roles) == [roles |-> roles, state |-> "queued", old |-> e.state]

Queued(e, roles) == [roles |-> roles, state |-> "queued", old |-> e.old]

Leave(p) ==
  /\ queue[p].state = "queued"
  /\ queue' = [queue EXCEPT ![p] = NoEntry]
  /\ UNCHANGED <<groupQueue, roleChecks, proposals, solo>>

SetState(p, state) ==
  /\ queue' = [queue EXCEPT ![p] = Set(@, state)]
  /\ UNCHANGED <<groupQueue, roleChecks, proposals, solo>>

-----------------------------------------------------------------------------
(* Joining: a player alone, or a group through a role check *)

Alone(p) == \A g \in Groups : p \notin Members[g]

\* Nothing asks whether the player is in a proposal or in a dungeon.
Join(p, roles) ==
  /\ Alone(p) /\ roles # {}
  /\ queue' = [queue EXCEPT ![p] = Queued(Left(@), roles)]
  /\ UNCHANGED <<groupQueue, roleChecks, proposals, solo>>

\* The leader's own answer is in the check from the start, so that the
\* UpdateRoleCheck that follows never ends a check of more than one member.
JoinGroup(g, roles) ==
  /\ roles # {}
  /\ queue' = [queue EXCEPT ![Leader[g]] = Left(@)]
  /\ roleChecks' = [roleChecks EXCEPT ![g] =
       [open |-> TRUE, failed |-> FALSE,
        roles |-> [NoRoles EXCEPT ![Leader[g]] = roles]]]
  /\ UNCHANGED <<groupQueue, proposals, solo>>

Answers(g, p, roles) == [roleChecks[g].roles EXCEPT ![p] = roles]

AllAnswered(g, p, roles) ==
  \A m \in Members[g] : Answers(g, p, roles)[m] # {}

\* A check that failed for want of a role stays until the next answer.
UpdateRoleCheck(g, p, roles) ==
  IF ~roleChecks[g].open THEN NoCheck
  ELSE IF roles = {} THEN [roleChecks[g] EXCEPT !.failed = TRUE]
  ELSE IF AllAnswered(g, p, roles) \/ roleChecks[g].failed THEN NoCheck
  ELSE [roleChecks[g] EXCEPT !.roles = Answers(g, p, roles)]

Finishes(g, p, roles) ==
  /\ roleChecks[g].open /\ roles # {}
  /\ AllAnswered(g, p, roles)
  /\ CheckGroupRoles(Members[g], Answers(g, p, roles))

\* A finished check is announced to the group as queued.
SetRoles(p, roles) == \E g \in Groups :
  /\ p \in Members[g]
  /\ roleChecks' = [roleChecks EXCEPT ![g] = UpdateRoleCheck(g, p, roles)]
  /\ queue' = [queue EXCEPT ![p] =
                 IF @.state = "none" THEN @ ELSE [@ EXCEPT !.roles = roles]]
  /\ UNCHANGED <<groupQueue, proposals, solo>>

ExpireRoleCheck(g) ==
  /\ roleChecks[g].open
  /\ roleChecks' = [roleChecks EXCEPT ![g] = NoCheck]
  /\ UNCHANGED <<queue, groupQueue, proposals, solo>>

\* handleLFGJoin has it for a check that ends with the joiner's own answer; here
\* it is taken for any answers that resolve.
QueueGroup(g, roles) ==
  /\ CheckGroupRoles(Members[g], roles)
  /\ groupQueue' = [groupQueue EXCEPT ![g] = [state |-> "queued", roles |-> roles]]
  /\ queue' = [p \in Players |-> IF p \in Members[g]
                                   THEN Queued(queue[p], roles[p]) ELSE queue[p]]
  /\ UNCHANGED <<roleChecks, proposals, solo>>

-----------------------------------------------------------------------------
(* Leaving as a group; a group that comes from a dungeon goes back to it *)

\* handleLFGLeave: the entries of the members that are online, and the group's.
LeaveFinder(g, restore) ==
  \/ ExpireRoleCheck(g)
  \/ /\ ~roleChecks[g].open
     /\ \E online \in SUBSET Members[g] :
          queue' = [p \in Players |->
                      IF p \in online /\ queue[p].state = "queued"
                        THEN Set(queue[p], restore) ELSE queue[p]]
     /\ groupQueue' = [groupQueue EXCEPT ![g] = NoGroupEntry]
     /\ UNCHANGED <<roleChecks, proposals, solo>>

LeaveQueuedGroup(g, exclude, restore) ==
  /\ groupQueue[g].state = "queued"
  /\ groupQueue' = [groupQueue EXCEPT ![g] = NoGroupEntry]
  /\ queue' = [p \in Players |->
                 IF p \in Lists(g) \ exclude /\ queue[p].state = "queued"
                   THEN Set(queue[p], restore) ELSE queue[p]]
  /\ UNCHANGED <<roleChecks, proposals, solo>>

-----------------------------------------------------------------------------
(* Proposals *)

QueuedGroups == {g \in Groups : groupQueue[g].state = "queued"}
QueuedAlone == {p \in Players : /\ queue[p].state = "queued"
                                /\ \A g \in QueuedGroups : p \notin Lists(g)}

\* Mutant: a proposal takes down what each offered.
RolesOffered(who, offered) == [p \in Players |-> IF p \in who THEN offered[p] ELSE {}]

\* What the solver left each of the players with.
RolesAssigned(who, offered) ==
  LET assigned == Resolve(who, [p \in who |-> offered[p]])
  IN [p \in Players |-> IF p \in who THEN assigned[p] ELSE {}]

\* One round of FindGroups: which of the units that fit are taken is the
\* order of their ids, and any is allowed here.
FindGroups(i, gs, ps) ==
  LET party == UNION {Lists(g) : g \in gs}
      who == party \cup ps
      offered == [p \in Players |-> IF p \in ps THEN queue[p].roles
                    ELSE UNION {groupQueue[g].roles[p] : g \in gs}]
  IN /\ ~Live(i)
     /\ Cardinality(gs) <= 1
     /\ IF solo THEN Cardinality(who) \in 1..GroupSize
                ELSE Cardinality(who) = GroupSize
     /\ CheckGroupRoles(who, offered)
     /\ proposals' = [proposals EXCEPT ![i] =
          [who |-> who, agreed |-> {}, roles |-> RolesAssigned(who, offered),
           party |-> party,
           group |-> IF gs = {} THEN NoGroup ELSE CHOOSE g \in gs : TRUE]]
     /\ groupQueue' = [g \in Groups |-> IF g \in gs
          THEN [groupQueue[g] EXCEPT !.state = "proposal"] ELSE groupQueue[g]]
     /\ queue' = [p \in Players |-> IF p \in ps
          THEN [queue[p] EXCEPT !.state = "proposal"] ELSE queue[p]]
     /\ UNCHANGED <<roleChecks, solo>>

\* The proposal of one player, right after its join, asks no role solver.
FormSoloProposal(i, p) ==
  /\ solo /\ ~Live(i)
  /\ queue[p].state = "queued"
  /\ proposals' = [proposals EXCEPT ![i] =
       [who |-> {p}, agreed |-> {}, roles |-> [NoRoles EXCEPT ![p] = queue[p].roles],
        party |-> {}, group |-> NoGroup]]
  /\ queue' = [queue EXCEPT ![p].state = "proposal"]
  /\ UNCHANGED <<groupQueue, roleChecks, solo>>

\* Mutant: only those who agreed wait again.
FailAgreed(i, out, gone) ==
  /\ queue' = [p \in Players |->
       IF p \notin proposals[i].agreed THEN queue[p]
       ELSE IF p \in out THEN Restored(queue[p])
       ELSE Requeued(queue[p])]
  /\ groupQueue' = [g \in Groups |->
       IF g \in gone THEN NoGroupEntry
       ELSE IF Lists(g) \cap proposals[i].who # {}
              THEN [groupQueue[g] EXCEPT !.state = "queued"]
       ELSE groupQueue[g]]
  /\ proposals' = [proposals EXCEPT ![i] = NoProposal]
  /\ UNCHANGED <<roleChecks, solo>>

\* Of a proposal that failed the players in out lose their place, the others
\* that have an entry wait again; a group entry outside gone that lists one of
\* them waits again too.
Fail(i, out, gone) ==
  /\ queue' = [p \in Players |->
       IF p \notin proposals[i].who THEN queue[p]
       ELSE IF p \in out THEN Restored(queue[p])
       ELSE Requeued(queue[p])]
  /\ groupQueue' = [g \in Groups |->
       IF g \in gone THEN NoGroupEntry
       ELSE IF Lists(g) \cap proposals[i].who # {}
              THEN [groupQueue[g] EXCEPT !.state = "queued"]
       ELSE groupQueue[g]]
  /\ proposals' = [proposals EXCEPT ![i] = NoProposal]
  /\ UNCHANGED <<roleChecks, solo>>

\* Mutant: only who refuses loses its place.
RefusedAlone(i, deny) == deny

\* The party of somebody who refuses goes with it.
Refused(i, deny) ==
  deny \cup (IF deny \cap proposals[i].party = {} THEN {} ELSE proposals[i].party)
RefusedGroup(i, deny) ==
  IF deny \cap proposals[i].party = {} THEN {} ELSE {proposals[i].group}

DeclineProposal(i, p) ==
  /\ p \in proposals[i].who
  /\ Fail(i, Refused(i, {p}),
          RefusedGroup(i, {p}) \cup {g \in Groups : p \in Lists(g)})

\* Mutant: the time is not up for a proposal that somebody agreed to.
ExpireUnanswered(i) ==
  /\ Live(i) /\ proposals[i].agreed = {}
  /\ Fail(i, Refused(i, proposals[i].who), RefusedGroup(i, proposals[i].who))

\* Who has not answered in time has refused.
ExpireProposal(i) ==
  LET deny == proposals[i].who \ proposals[i].agreed
  IN /\ Live(i)
     /\ Fail(i, Refused(i, deny), RefusedGroup(i, deny))

AcceptProposal(i, p) ==
  LET who == proposals[i].who
      agreed == proposals[i].agreed \cup {p}
  IN /\ p \in who
     /\ IF agreed = who \/ solo
          THEN /\ queue' = [x \in Players |->
                              IF x \in who THEN Set(queue[x], "dungeon") ELSE queue[x]]
               /\ groupQueue' = [g \in Groups |->
                    IF Lists(g) \cap who # {} THEN NoGroupEntry ELSE groupQueue[g]]
               /\ proposals' = [proposals EXCEPT ![i] = NoProposal]
          ELSE /\ proposals' = [proposals EXCEPT ![i].agreed = agreed]
               /\ UNCHANGED <<queue, groupQueue>>
     /\ UNCHANGED <<roleChecks, solo>>

-----------------------------------------------------------------------------
ManagerStep ==
  \/ \E p \in Players : Leave(p)
  \/ \E p \in Players, state \in Restores : SetState(p, state)
  \/ \E p \in Players, roles \in RoleChoices : Join(p, roles) \/ SetRoles(p, roles)
  \/ \E g \in Groups, roles \in RoleChoices : JoinGroup(g, roles)
  \/ \E g \in Groups : ExpireRoleCheck(g)
  \/ \E g \in Groups, restore \in Restores : LeaveFinder(g, restore)
  \/ \E g \in Groups, p \in Players, restore \in Restores :
       LeaveQueuedGroup(g, {}, restore) \/ LeaveQueuedGroup(g, {p}, restore)
  \/ \E i \in Proposals, gs \in SUBSET QueuedGroups, ps \in SUBSET QueuedAlone :
       FindGroups(i, gs, ps)
  \/ \E i \in Proposals, p \in Players :
       FormSoloProposal(i, p) \/ AcceptProposal(i, p) \/ DeclineProposal(i, p)
  \/ \E i \in Proposals : ExpireProposal(i)

GroupRoles(g) == {roles \in [Players -> {{}} \cup RoleChoices] :
                    \A p \in Players : (roles[p] # {}) <=> (p \in Members[g])}

Next ==
  \/ ManagerStep
  \/ \E g \in Groups : \E roles \in GroupRoles(g) : QueueGroup(g, roles)

\* updateLFGProposalExpiry runs on every world tick, and a proposal is due
\* 45 seconds after it was made.
Spec == /\ Init /\ [][Next]_vars
        /\ \A i \in Proposals : WF_vars(ExpireProposal(i))

\* The handlers alone: no step of theirs reaches QueueGroup.
HandlerSpec == Init /\ [][ManagerStep]_vars

-----------------------------------------------------------------------------
(* Properties *)

\* An entry that waits for the answers to a proposal is of a proposal that
\* is still there, a player's as well as a group's: every way a proposal ends
\* takes all its entries out of that state (lfg.go:906-924, 1042-1083, 1184).
NobodyStranded ==
  /\ \A p \in Players : queue[p].state = "proposal" =>
       \E i \in Proposals : p \in proposals[i].who
  /\ \A g \in Groups : groupQueue[g].state = "proposal" =>
       \E i \in Proposals : proposals[i].who \cap Lists(g) # {}

\* Outside the solo mode whoever is asked makes a whole dungeon group, with as
\* many of each role as one takes, whatever roles each offered and whichever
\* group came along (lfg.go:585-715, 944-1000).
GroupsFilled == ~solo => \A i \in Proposals : Live(i) => \A r \in Role :
  Cardinality({p \in proposals[i].who : proposals[i].roles[p] = {r}}) = Needed[r]

Ends(i) == Live(i) /\ ~Live(i)'

\* Whoever agreed, alone, waits again when others let the proposal fail; and a
\* group's entry and the entries of its members go the same way, whether
\* a refusal ended the proposal or the time (lfg.go:906-924, 1042-1083).
FailureSettles == [][\A i \in Proposals : Ends(i) =>
  /\ \A p \in proposals[i].agreed \ proposals[i].party :
       /\ queue[p].state # "none"
       /\ ExpireProposal(i) \/ \E x \in Players \ {p} : DeclineProposal(i, x)
       => queue'[p].state = "queued"
  /\ \A g \in Groups \cap {proposals[i].group} : groupQueue[g].state # "none" =>
       \A p \in proposals[i].party : queue[p].state # "none" =>
         (queue'[p].state = "queued" <=> groupQueue'[g].state = "queued")]_vars

\* Nobody waits for the answers to a proposal forever.
WaitingEnds == \A p \in Players :
  queue[p].state = "proposal" ~> queue[p].state # "proposal"

\* "the finished group itself enters the queue" (lfg.go:455): a role check that
\* the answer of a member finishes has its group in the queue.
FinishedGroupQueued == [][\A g \in Groups, p \in Players, roles \in RoleChoices :
  p \in Members[g] /\ Finishes(g, p, roles) /\ SetRoles(p, roles)
    => groupQueue'[g].state = "queued"]_vars
=============================================================================
