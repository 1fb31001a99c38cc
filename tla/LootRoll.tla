------------------------------ MODULE LootRoll ------------------------------
(***************************************************************************)
(* Group loot rolls over one row of one corpse (engine/world/loot.go): a   *)
(* member's window starts a roll, members vote, the completing vote or the *)
(* 60 s timer resolves it, the winner is given the item; meanwhile members *)
(* take the row, leave the group, travel, and the corpse is cleared.       *)
(*                                                                         *)
(* An actor is a session goroutine or the timer goroutine of a roll.  at[a]*)
(* is its place between two critical sections.  Server.lootMu and          *)
(* Server.groupsMu are variables because two operations nest them; every   *)
(* other section under one of them is one action guarded by its being free.*)
(* The row is over the loot threshold and not free for all, the window has *)
(* normal rows, and everyone is in one group at the start.                 *)
(***************************************************************************)
EXTENDS Integers, FiniteSets

CONSTANTS Players,     \* group members, one session each
          Nobody,      \* guid 0, a free mutex
          MaxRolls,    \* bound: rolls started for the row
          MaxBallots,  \* bound: votes counted in one roll
          CannotRoll,  \* members failing canRollOnItem
          PassOnLoot,  \* members with player.PassOnGroupLoot
          GroupLoot,   \* grp.LootMethod = 3; FALSE: 4, need before greed
          QuestRow,    \* a follow_loot_rules row of QuestItems
          Events       \* the outside events an instance considers

RollIds == 1..MaxRolls
Actors == Players \cup RollIds
NoRoll == 0

ASSUME BoundAssumption == MaxRolls \in Nat \ {0} /\ MaxBallots \in Nat
ASSUME FiniteAssumption == IsFiniteSet(Players)
ASSUME NamesAssumption == /\ Nobody \notin Actors
                          /\ Players \cap RollIds = {}
ASSUME RowAssumption == /\ CannotRoll \subseteq Players
                        /\ PassOnLoot \subseteq Players
                        /\ GroupLoot \in BOOLEAN /\ QuestRow \in BOOLEAN
ASSUME EventAssumption ==
  Events \subseteq {"reopen", "take", "leave", "travel", "clear", "objectGuid", "revote"}

VARIABLES
  row,        \* the lootItem: present, IsBlocked, RollWinner
  corpse,     \* Server.creatureLoot has the object
  active,     \* Server.groupRolls at the row's key
  roll,       \* every activeGroupRoll made
  used,       \* how many were made
  grouped,    \* sessions whose groupID is the group's
  place,      \* "here" on the loot's map, "away", or "off" line
  window,     \* sessions whose activeLoot is this loot
  lootMu, groupsMu,
  at,         \* place of each actor
  mine,       \* roll a resolver or starter works on
  who,        \* winner in a resolver's hands, member a leaver removes
  list,       \* eligible members computed by a starter
  got,        \* copies of the row's item each member was given
  sealed      \* history: the row was blocked without a roll, all failing

shared == <<row, corpse, active, roll, used>>
people == <<grouped, place, window>>
locks == <<lootMu, groupsMu>>
history == <<got, sealed>>
locals == <<mine, who, list>>
vars == <<shared, people, locks, at, locals, history>>

Ballots == {"none", "pass", "need", "greed"}  \* disenchant votes as greed
NewRoll == [eligible |-> {}, votes |-> [p \in Players |-> "none"],
            asked |-> {}, pass |-> 0, need |-> 0, greed |-> 0, rolling |-> 0,
            timer |-> "unarmed"]

Starting == {"opened", "listed", "locked", "seeding", "arming"}
Settling == {"tallying", "decided", "awarded", "refused"}
Places == {"idle", "resolving", "taking", "barred", "storing", "taken",
           "withdrawing"}
            \cup Starting \cup Settling

RowType == [present : BOOLEAN, blocked : BOOLEAN, claim : Players \cup {Nobody}]
RollType == [eligible : SUBSET Players, votes : [Players -> Ballots],
             asked : SUBSET Players, pass : Int, need : Int, greed : Int,
             rolling : Int, timer : {"unarmed", "running", "stopped", "fired"}]

TypeOK ==
  /\ row \in RowType
  /\ corpse \in BOOLEAN
  /\ active \in RollIds \cup {NoRoll}
  /\ roll \in [RollIds -> RollType]
  /\ used \in 0..MaxRolls
  /\ grouped \subseteq Players
  /\ place \in [Players -> {"here", "away", "off"}]
  /\ window \subseteq Players
  /\ lootMu \in Players \cup {Nobody}
  /\ groupsMu \in Players \cup {Nobody}
  /\ at \in [Actors -> Places]
  /\ mine \in [Actors -> RollIds \cup {NoRoll}]
  /\ who \in [Actors -> Players \cup {Nobody}]
  /\ list \in [Players -> SUBSET Players]
  /\ got \in [Players -> Nat]
  /\ sealed \in BOOLEAN

Init ==
  /\ row = [present |-> TRUE, blocked |-> FALSE, claim |-> Nobody]
  /\ corpse = TRUE
  /\ active = NoRoll
  /\ roll = [r \in RollIds |-> NewRoll]
  /\ used = 0
  /\ grouped = Players
  /\ place = [p \in Players |-> "here"]
  /\ window = {}
  /\ lootMu = Nobody /\ groupsMu = Nobody
  /\ at = [a \in Actors |-> "idle"]
  /\ mine = [a \in Actors |-> NoRoll]
  /\ who = [a \in Actors |-> Nobody]
  /\ list = [p \in Players |-> {}]
  /\ got = [p \in Players |-> 0]
  /\ sealed = FALSE

Go(a, from, to) == at[a] = from /\ at' = [at EXCEPT ![a] = to]
LootFree == lootMu = Nobody
GroupsFree == groupsMu = Nobody
Forget(a) == /\ mine' = [mine EXCEPT ![a] = NoRoll]
             /\ who' = [who EXCEPT ![a] = Nobody]
             /\ UNCHANGED list

\* The row as code that first finds the loot under lootMu sees it.
RowThere == corpse /\ row.present

-----------------------------------------------------------------------------
(* Starting a roll.                                                         *)

\* sendLootResponse: groupsMu is read, and every over-threshold row of the
\* window, whatever its IsBlocked or RollWinner, goes to startGroupLootRoll.
Open(p) ==
  /\ "reopen" \in Events \/ p \notin window
  /\ p \in grouped /\ place[p] = "here"
  /\ RowThere /\ used < MaxRolls
  /\ GroupsFree
  /\ Go(p, "idle", "opened")
  /\ window' = window \cup {p}
  /\ UNCHANGED <<shared, grouped, place, locks, locals, history>>

\* The members at reward distance, listed before lootMu is taken.
ListEligible(p) ==
  /\ list' = [list EXCEPT ![p] = {m \in grouped : place[m] = "here"}]
  /\ IF list'[p] = {} THEN Go(p, "opened", "idle") ELSE Go(p, "opened", "listed")
  /\ UNCHANGED <<shared, people, locks, mine, who, history>>

\* startGroupLootRoll takes lootMu and, unless the key has a roll, goes on to
\* take groupsMu with lootMu held.  Past MaxRolls the start is dropped.
LockLoot(p) ==
  /\ ~QuestRow /\ LootFree
  /\ IF active # NoRoll \/ used = MaxRolls
       THEN /\ Go(p, "listed", "idle")
            /\ list' = [list EXCEPT ![p] = {}]
            /\ UNCHANGED lootMu
       ELSE /\ Go(p, "listed", "locked")
            /\ lootMu' = p
            /\ UNCHANGED list
  /\ UNCHANGED <<shared, people, groupsMu, mine, who, history>>

\* A fresh activeGroupRoll under the key; the row, when the loot is still there,
\* is blocked.  Only canRollOnItem failures are counted as passes.
NewActive(p) ==
  LET E == list[p] IN
  /\ used' = used + 1
  /\ active' = used + 1
  /\ roll' = [roll EXCEPT ![used + 1] =
                [NewRoll EXCEPT !.eligible = E, !.rolling = Cardinality(E),
                                !.pass = Cardinality(E \cap CannotRoll)]]
  /\ mine' = [mine EXCEPT ![p] = used + 1]
  /\ row' = IF RowThere THEN [row EXCEPT !.blocked = TRUE] ELSE row
  /\ sealed' = FALSE

\* When no eligible member may roll, group loot blocks the row and starts nothing.
AllFail(p) == GroupLoot /\ list[p] \subseteq CannotRoll

Register(p) ==
  /\ GroupsFree
  /\ ~AllFail(p)
  /\ Go(p, "locked", "seeding")
  /\ lootMu' = Nobody
  /\ NewActive(p)
  /\ UNCHANGED <<corpse, people, groupsMu, who, list, got>>

BlockOnly(p) ==
  /\ GroupsFree
  /\ AllFail(p)
  /\ Go(p, "locked", "idle")
  /\ lootMu' = Nobody
  /\ row' = IF RowThere THEN [row EXCEPT !.blocked = TRUE] ELSE row
  /\ sealed' = TRUE
  /\ list' = [list EXCEPT ![p] = {}]
  /\ UNCHANGED <<corpse, active, roll, used, people, groupsMu, mine, who, got>>

\* startGroupQuestLootRoll: groupsMu is read and released before lootMu is taken.
RegisterQuest(p) ==
  /\ QuestRow /\ LootFree /\ GroupsFree
  /\ IF active # NoRoll \/ used = MaxRolls
       THEN /\ Go(p, "listed", "idle")
            /\ list' = [list EXCEPT ![p] = {}]
            /\ UNCHANGED <<row, active, roll, used, mine, sealed>>
       ELSE /\ Go(p, "listed", "seeding")
            /\ NewActive(p)
            /\ UNCHANGED list
  /\ UNCHANGED <<corpse, people, locks, who, got>>

\* Members whose pass is recorded for them.
AutoPass(E) == E \cap (CannotRoll \cup PassOnLoot)
QuestAutoPass(E) == E \cap CannotRoll

Seeded(r, A, E) ==
  [r EXCEPT !.votes = [m \in Players |-> IF m \in A THEN "pass" ELSE @[m]],
            !.asked = E \ A]

\* After the unlock: the automatic passes are written, the others are asked.
Seed(p) ==
  LET r == mine[p]
      A == IF QuestRow THEN QuestAutoPass(list[p]) ELSE AutoPass(list[p])
  IN /\ Go(p, "seeding", "arming")
     /\ roll' = [roll EXCEPT ![r] = Seeded(@, A, list[p])]
     /\ UNCHANGED <<row, corpse, active, used, people, locks, locals, history>>

\* Mutant of Arm: the timer is never started.
ArmForgets(p) ==
  /\ Go(p, "arming", "idle")
  /\ mine' = [mine EXCEPT ![p] = NoRoll]
  /\ list' = [list EXCEPT ![p] = {}]
  /\ UNCHANGED <<shared, people, locks, who, history>>

\* Last of all the timer; the roll may be over by now.
Arm(p) ==
  /\ Go(p, "arming", "idle")
  /\ roll' = [roll EXCEPT ![mine[p]].timer = "running"]
  /\ mine' = [mine EXCEPT ![p] = NoRoll]
  /\ list' = [list EXCEPT ![p] = {}]
  /\ UNCHANGED <<row, corpse, active, used, people, locks, who, history>>

-----------------------------------------------------------------------------
(* Voting and leaving.                                                      *)

Complete(r) == r.pass + r.need + r.greed >= r.rolling

\* A ballot the switch does not know ("none") is not recorded.
Counted(r, p, ballot) ==
  [r EXCEPT !.votes = IF ballot = "none" THEN @ ELSE [@ EXCEPT ![p] = ballot],
            !.pass = @ + (IF ballot = "pass" THEN 1 ELSE 0),
            !.need = @ + (IF ballot = "need" THEN 1 ELSE 0),
            !.greed = @ + (IF ballot = "greed" THEN 1 ELSE 0)]

\* handleLootRoll by a member whose client was asked, naming the roll's item
\* guid as the start packet did, or the looted object's guid, which the first
\* lookup accepts from the map of the loot.  The roll found is counted either
\* way, but the key handed to resolveGroupLootRoll is made of the guid named:
\* only byObject does it lead to the roll.  Nothing stops a second vote, and an
\* unknown ballot still reaches the completion check; "revote" has both.
Vote(p, ballot, byObject) ==
  LET counted == Counted(roll[active], p, ballot)
  IN /\ LootFree
     /\ at[p] = "idle" /\ place[p] # "off"
     /\ p \in grouped
     /\ active # NoRoll /\ corpse
     /\ p \in roll[active].eligible \cap roll[active].asked
     /\ "revote" \in Events \/ (roll[active].votes[p] = "none" /\ ballot # "none")
     /\ roll[active].pass + roll[active].need + roll[active].greed < MaxBallots
     /\ byObject => "objectGuid" \in Events /\ place[p] = "here"
     /\ roll' = [roll EXCEPT ![active] = counted]
     /\ at' = IF Complete(counted) THEN [at EXCEPT ![p] = "resolving"] ELSE at
     /\ mine' = IF Complete(counted) /\ byObject THEN [mine EXCEPT ![p] = active] ELSE mine
     /\ UNCHANGED <<row, corpse, active, used, people, locks, who, list, history>>

\* removeFromGroup: with groupsMu held, the member's groupID is cleared.  Bound:
\* two members stay, a group of one would be disbanded.
Remove(p, m) ==
  /\ "leave" \in Events
  /\ place[p] # "off" /\ p \in grouped
  /\ m \in grouped /\ Cardinality(grouped) > 2
  /\ GroupsFree
  /\ Go(p, "idle", "withdrawing")
  /\ groupsMu' = p
  /\ grouped' = grouped \ {m}
  /\ who' = [who EXCEPT ![p] = m]
  /\ UNCHANGED <<shared, place, window, lootMu, mine, list, history>>

\* Mutants of Without: the vote stays; a need vote stays counted.
WithoutSeat(r, m) == [r EXCEPT !.eligible = @ \ {m}, !.rolling = @ - 1]
WithoutKeepsNeed(r, m) ==
  [r EXCEPT !.eligible = @ \ {m}, !.votes = [@ EXCEPT ![m] = "none"],
            !.rolling = @ - 1,
            !.pass = @ - (IF r.votes[m] = "pass" THEN 1 ELSE 0),
            !.greed = @ - (IF r.votes[m] = "greed" THEN 1 ELSE 0)]

\* The roll without the leaver: a cast vote is taken out of its total.
Without(r, m) ==
  [r EXCEPT !.eligible = @ \ {m}, !.votes = [@ EXCEPT ![m] = "none"],
            !.rolling = @ - 1,
            !.pass = @ - (IF r.votes[m] = "pass" THEN 1 ELSE 0),
            !.need = @ - (IF r.votes[m] = "need" THEN 1 ELSE 0),
            !.greed = @ - (IF r.votes[m] = "greed" THEN 1 ELSE 0)]

\* onPlayerLeaveGroupRolls, lootMu inside groupsMu; nothing is resolved here.
Withdraw(p) ==
  /\ LootFree
  /\ Go(p, "withdrawing", "idle")
  /\ roll' = IF active # NoRoll /\ who[p] \in roll[active].eligible
               THEN [roll EXCEPT ![active] = Without(@, who[p])]
               ELSE roll
  /\ groupsMu' = Nobody
  /\ Forget(p)
  /\ UNCHANGED <<row, corpse, active, used, people, lootMu, history>>

-----------------------------------------------------------------------------
(* Resolving.                                                               *)

\* time.AfterFunc calls resolveGroupLootRoll(rollKey, true) on its own goroutine.
Fire(r) ==
  /\ roll[r].timer = "running"
  /\ Go(r, "idle", "resolving")
  /\ roll' = [roll EXCEPT ![r].timer = "fired"]
  /\ mine' = [mine EXCEPT ![r] = r]
  /\ UNCHANGED <<row, corpse, active, used, people, locks, who, list, history>>

\* Mutant of StopTimer: the timer field is cleared.
ClearTimer(r) == [r EXCEPT !.timer = "nil"]
StopTimer(r) == [r EXCEPT !.timer = IF @ = "running" THEN "stopped" ELSE @]

\* Mutant of Close: the roll stays in the table.
CloseKeeps(a) ==
  /\ LootFree
  /\ Go(a, "resolving", IF active # NoRoll /\ corpse THEN "tallying" ELSE "idle")
  /\ mine' = [mine EXCEPT ![a] = IF corpse THEN active ELSE NoRoll]
  /\ UNCHANGED <<shared, people, locks, who, list, history>>

\* The key is looked up again, not the roll the caller saw: whatever roll the
\* row has now is taken out and its timer stopped.  A vote by item guid has a
\* key that finds none (mine is then NoRoll).
Close(a) ==
  /\ LootFree
  /\ IF active = NoRoll \/ mine[a] = NoRoll
       THEN /\ Go(a, "resolving", "idle")
            /\ UNCHANGED <<active, roll>>
            /\ Forget(a)
       ELSE /\ Go(a, "resolving", IF corpse THEN "tallying" ELSE "idle")
            /\ active' = NoRoll
            /\ roll' = [roll EXCEPT ![active] = StopTimer(@)]
            /\ mine' = [mine EXCEPT ![a] = IF corpse THEN active ELSE NoRoll]
            /\ UNCHANGED <<who, list>>
  /\ UNCHANGED <<row, corpse, used, people, locks, history>>

\* Voters found on line and, when a timer resolves, on the loot's map.
Present(a) == {p \in Players : /\ place[p] # "off"
                               /\ a \in RollIds => place[p] = "here"}
Tier(a, ballot) == {p \in Present(a) : roll[mine[a]].votes[p] = ballot}
Winners(a) == IF Tier(a, "need") # {} THEN Tier(a, "need") ELSE Tier(a, "greed")

\* The draw, from the votes as they are now, without the lock.
Tally(a) ==
  /\ Go(a, "tallying", "decided")
  /\ IF Winners(a) = {}
       THEN who' = who
       ELSE \E w \in Winners(a) : who' = [who EXCEPT ![a] = w]
  /\ UNCHANGED <<shared, people, locks, mine, list, history>>

\* Mutant of Unblock: the row stays blocked.
UnblockForgets == UNCHANGED row
Unblock == row' = IF RowThere THEN [row EXCEPT !.blocked = FALSE] ELSE row

\* Everyone passed: the row is for all.
AllPassed(a) ==
  /\ who[a] = Nobody /\ LootFree
  /\ Go(a, "decided", "idle")
  /\ Unblock
  /\ Forget(a)
  /\ UNCHANGED <<corpse, active, roll, used, people, locks, history>>

\* deliverGroupLootItem: the item, or what disenchanting it yields, goes into the
\* winner's bags, unless the winner is gone or the bags are full.
Deliver(a) ==
  /\ who[a] # Nobody
  /\ \/ /\ place[who[a]] = "here"
        /\ Go(a, "decided", "awarded")
        /\ got' = [got EXCEPT ![who[a]] = @ + 1]
     \/ /\ Go(a, "decided", "refused")
        /\ UNCHANGED got
  /\ UNCHANGED <<shared, people, locks, locals, sealed>>

\* The delivered row leaves the loot.
DropRow(a) ==
  /\ LootFree
  /\ Go(a, "awarded", "idle")
  /\ row' = IF corpse THEN [row EXCEPT !.present = FALSE] ELSE row
  /\ Forget(a)
  /\ UNCHANGED <<corpse, active, roll, used, people, locks, history>>

\* The undelivered row is unblocked and kept for its winner.
KeepForWinner(a) ==
  /\ LootFree
  /\ Go(a, "refused", "idle")
  /\ row' = IF RowThere THEN [row EXCEPT !.blocked = FALSE, !.claim = who[a]] ELSE row
  /\ Forget(a)
  /\ UNCHANGED <<corpse, active, roll, used, people, locks, history>>

-----------------------------------------------------------------------------
(* Taking the row by hand, and the surroundings.                            *)

Blocked(p) == row.blocked \/ (row.claim # Nobody /\ row.claim # p)

\* handleAutostoreLootItem copies the row; in a group the copy decides, together
\* with the roll table; outside of a group nothing does.
TakeRow(p) ==
  /\ "take" \in Events /\ ~QuestRow
  /\ p \in window /\ place[p] = "here" /\ RowThere
  /\ Go(p, "idle", IF Blocked(p) THEN "barred" ELSE "taking")
  /\ UNCHANGED <<shared, people, locks, locals, history>>

TakeGate(p) ==
  /\ p \in grouped => GroupsFree /\ LootFree
  /\ \/ Go(p, "taking", IF p \in grouped /\ active # NoRoll THEN "idle" ELSE "storing")
     \/ Go(p, "barred", IF p \in grouped THEN "idle" ELSE "storing")
  /\ UNCHANGED <<shared, people, locks, locals, history>>

\* storeTakenLootRow: first the inventory, which may be full, ...
TakeStore(p) ==
  /\ \/ Go(p, "storing", "taken") /\ got' = [got EXCEPT ![p] = @ + 1]
     \/ Go(p, "storing", "idle") /\ UNCHANGED got
  /\ UNCHANGED <<shared, people, locks, locals, sealed>>

\* ... then the row, without lootMu.
TakeDelete(p) ==
  /\ Go(p, "taken", "idle")
  /\ row' = [row EXCEPT !.present = FALSE]
  /\ UNCHANGED <<corpse, active, roll, used, people, locks, locals, history>>

\* clearLootState: the corpse decays, respawns, or was emptied and released.
ClearLoot ==
  /\ "clear" \in Events
  /\ LootFree /\ corpse
  /\ corpse' = FALSE
  /\ active' = NoRoll
  /\ roll' = IF active = NoRoll THEN roll ELSE [roll EXCEPT ![active] = StopTimer(@)]
  /\ UNCHANGED <<row, used, people, locks, at, locals, history>>

\* A member changes maps, or logs out after leaving the group.
Travel(p) ==
  /\ "travel" \in Events
  /\ at[p] = "idle"
  /\ \/ place[p] = "here" /\ place' = [place EXCEPT ![p] = "away"]
     \/ p \notin grouped /\ place[p] # "off" /\ place' = [place EXCEPT ![p] = "off"]
  /\ UNCHANGED <<shared, grouped, window, locks, at, locals, history>>

-----------------------------------------------------------------------------
StartStep(p) == \/ ListEligible(p) \/ LockLoot(p) \/ Register(p) \/ BlockOnly(p)
                \/ RegisterQuest(p) \/ Seed(p) \/ Arm(p)
ResolveStep(a) == \/ Close(a) \/ Tally(a) \/ AllPassed(a) \/ Deliver(a)
                  \/ DropRow(a) \/ KeepForWinner(a)
TakeStep(p) == TakeGate(p) \/ TakeStore(p) \/ TakeDelete(p)
ClientStep(p) == \/ Open(p)
                 \/ \E b \in Ballots, o \in BOOLEAN : Vote(p, b, o)
                 \/ \E m \in Players : Remove(p, m)
                 \/ TakeRow(p)
                 \/ Travel(p)

Next ==
  \/ \E p \in Players : ClientStep(p) \/ StartStep(p) \/ TakeStep(p) \/ Withdraw(p)
  \/ \E r \in RollIds : Fire(r)
  \/ \E a \in Actors : ResolveStep(a)
  \/ ClearLoot

Spec == Init /\ [][Next]_vars

\* Goroutines run on, timers expire; clients need do nothing.
Fairness == /\ \A p \in Players : /\ WF_vars(StartStep(p))
                                  /\ WF_vars(TakeStep(p))
                                  /\ WF_vars(Withdraw(p))
            /\ \A r \in RollIds : WF_vars(Fire(r))
            /\ \A a \in Actors : WF_vars(ResolveStep(a))

FairSpec == Spec /\ Fairness

-----------------------------------------------------------------------------
(* What holds.                                                              *)

RowBlocked == RowThere /\ row.blocked

\* A blocked row is never forgotten: there is a roll for it, or an actor that
\* took the roll out and will unblock or remove the row, or nobody may roll
\* (resolveGroupLootRoll, deliverGroupLootItem).
BlockedHasKeeper ==
  RowBlocked => active # NoRoll \/ sealed \/ \E a \in Actors : at[a] \in Settling

Voters(r, ballot) == {p \in Players : r.votes[p] = ballot}

\* The counters of the open roll agree with the votes that are still in it,
\* whoever voted and left in the meantime (handleLootRoll,
\* onPlayerLeaveGroupRolls).
RollBooks ==
  LET r == roll[active] IN
  active # NoRoll =>
    /\ r.need = Cardinality(Voters(r, "need"))
    /\ r.greed = Cardinality(Voters(r, "greed"))
    /\ r.rolling = Cardinality(r.eligible)

\* A winner voted for the item, and had not been withdrawn from the roll when it
\* was taken out of the table (resolveGroupLootRoll).
WinnerEntitled ==
  \A a \in Actors :
    LET r == roll[mine[a]] IN
    at[a] \in Settling /\ who[a] # Nobody =>
      /\ who[a] \in r.eligible
      /\ r.votes[who[a]] \in {"need", "greed"}

\* Every roll is closed once, drawn once and awarded at most once, one roll at a
\* time, although votes, its timer and timers of earlier rolls race to close it.
Working(r, places) == \E a \in Actors : mine[a] = r /\ at[a] \in places
Phase == [r \in RollIds |->
            CASE r > used -> "future"
              [] Working(r, {"tallying"}) -> "closed"
              [] Working(r, {"decided", "refused"}) -> "drawn"
              [] Working(r, {"awarded"}) -> "awarded"
              [] r = active -> "open"
              [] OTHER -> "settled"]
Promise == INSTANCE LootRollPromise WITH phase <- Phase
KeepsPromise == Promise!Spec

\* A blocked row is unblocked or removed in the end: every roll is resolved by
\* its votes or its timer, and its outcome is carried out.
RowSettles == RowBlocked ~> (~RowBlocked \/ sealed)

-----------------------------------------------------------------------------
(* What the comments say and the code does not do.                          *)

\* "a missing or already taken slot answers EQUIP_ERR_ALREADY_LOOTED"
\* (handleAutostoreLootItem): one row, one item.
OneCopy == \A p, q \in Players : got[p] + (IF p = q THEN 0 ELSE got[q]) <= 1

\* "full bags unblock the item and record the winner for a later take"
\* (deliverGroupLootItem): nobody but the recorded winner gets the item.
ClaimKept == [][\A p \in Players :
                  got'[p] > got[p] /\ row.claim # Nobody => p = row.claim]_vars

\* "CMSG_LOOT_ROLL echoes the roll item guid" and "resolve it against the
\* registered rolls" (handleLootRoll): the vote that completes a roll ends it.
VoteCompletes ==
  [][\A p \in Players :
       at[p] = "resolving" /\ at'[p] # "resolving" /\ active # NoRoll
         /\ Complete(roll[active]) => active' = NoRoll]_vars

\* "Erasing also keeps a kicked (still-online) member's need/greed vote out of
\* the winner tiers at resolution" (onPlayerLeaveGroupRolls).
LeaverNeverDrawn ==
  [][\A a \in Actors : at[a] = "tallying" /\ at'[a] = "decided"
        => \/ who'[a] \in grouped \cup {Nobody}
           \/ \E p \in Players : at[p] = "withdrawing" /\ who[p] = who'[a]]_vars

\* "the hooks fire after the lock is released" (removeFromGroup): a removal
\* that has begun comes to its end.
RemovalEnds == \A p \in Players : at[p] = "withdrawing" ~> at[p] # "withdrawing"
=============================================================================
