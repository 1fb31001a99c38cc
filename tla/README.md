# A verification project for MorenoCore

MorenoCore (`src/`) is a World of Warcraft 3.3.5a server written in Go: an
authentication server, a world server, a Lua script runtime and their tools.
This directory holds TLA+ modules translated from its Go source, the TLC
configurations that check them on small instances, and theorems about them that
TLAPS checks for every size of instance. `PROJECT.json` maps each definition to
the lines it models.

    tlasany SessionAdmission.tla
    tlc -workers 2 -config MCSessionAdmission_queue.cfg MCSessionAdmission
    tlapm SessionQueueProofs.tla

Sections 2 to 7 describe the modelled components: session admission, group loot
rolls, the trade window, the dungeon finder, the auction house and groups.
Section 8 is the plan, section 9 what is not modelled.

## 1. Inventory

The world server runs one goroutine per TCP connection (`Server.Handle`), some
timers, and the goroutine that calls `Server.Stop`. Nothing serialises two
connections: a packet handler runs in the goroutine of its own connection and
reads, and often writes, the `session` objects of other players. The shared maps
have one mutex each, fields of a session mostly none. A critical section is
often short (copy under a lock, act after the unlock), so what was read is
often old when it is used. The character and account databases are the second
shared store; a statement, or a `RunTransaction`, is its unit of atomicity.

| Component | State it keeps | Operations | Interacts through | What makes it correct |
|---|---|---|---|---|
| Session admission and login queue (`server.go`, `movement.go`) | `Server.sessions`, `queuedSessions`, `disconnectTimes`; `accountID`, `authed`, `inQueue`, `superseded`, `playerLoading` of a session; `account.online` | connect, auth, duplicate kick, queue, promote, log out, remove, kick, idle sweep, Stop | `sessionsMu`, unguarded session fields, the auth database | one session per account; a sound queue; no free slot left idle; a replaced session ends; Stop drains |
| Character login, logout and save (`characters.go`, `player_state.go`) | `player`, `playerLoaded`, `worldReady`, `logoutAt`; the rows of a character | load, save, log out with a countdown, leave | the characters database, the session map | the newest session's save is the last one |
| Pre-login requeue, transfer window (`server.go`, `worldport_instance.go`) | `preLoginQueue`, `worldReady` | hold, replay, drop | the read loop | arrival order is kept |
| Trade (`trade.go`, section 4) | two `playerTradeState` objects pointing to each other, `tradeInTrade` | initiate, offer, accept, unaccept, cancel, complete | both sessions' goroutines, one transaction | what is exchanged is what both accepted; money is conserved |
| Groups (`group.go`, section 7) | lists, leader, invitations; rows of `groups` and `group_member` | invite, accept, leave, remove, promote, log in and out | `groupsMu`, sessions, the characters database | the rows are a register of memberships |
| Loot rolls (`loot.go`, section 3) | the row, rolls and votes | open, vote, expire, deliver, take | `lootMu`, `groupsMu`, timers | one winner, who voted; no row blocked for ever |
| Dungeon finder (`lfg.go`, section 5) | queue, role checks, proposals | join, answer, time out, teleport | one mutex and timers | a proposal is answered once |
| Battleground and arena queue (`battleground*.go`) | queues, invitations, instances | join, invite, enter, expire, leave | registry mutexes and timers | a free place is held for one player |
| Auctions (section 6), mail, guild (`guild.go`, `mail.go`, `auctionhouse.go`) | rows, cached guild state | deposit, withdraw, send, take, bid, expire | transactions, small mutexes | gold and items are conserved |
| Instances (`instance_*.go`, `map_admission.go`) | binds, save ids, lock times | bind, extend, reset, admit | the database and a mutex | nobody is inside a reset instance |
| Channels, calendar, tickets, social | lists and rows | join, leave, invite, edit | mutexes, rows | an owner is a member |
| Shutdown timer (`shutdown.go`) | the pending shutdown, its timer | arm, cancel, expire | a mutex | a cancelled shutdown does not happen |
| Runtime (`engine/runtime`, `database/pool.go`) | a task channel, an event heap | submit, close, work; add, cancel, run | an `RWMutex`, a channel | accepted work is done, Close returns |
| Script runtime (`engine/scripting`) | the Lua state, a reentrant mutex | call, hook, nested hook | goroutine identity | one goroutine in the Lua state |
| Database (`engine/database`) | stores, migrations | run a transaction, migrate | MySQL or SQLite | all of a transaction or nothing |
| Authentication server (`engine/auth`) | a connection's stage, session keys | challenge, proof, reconnect, realm list | the auth database | a proof follows its challenge |
| Combat, spells, AI, content | large per-unit state | casts, ticks, moves | session and creature locks | game rules |

`PROJECT.json` lists all components with what is modelled of each, and, under
`hazards`, the places where the code is hard to test.

## 2. Session admission

`SessionAdmission.tla` is one connection's life, from `addSession` to the end of
`removeSession`, for any number of connections that share the server.

* `pc[s]` is where the goroutine of connection `s` is between two of its
  critical sections. An action is one section under `sessionsMu`, one unguarded
  access to a field that another goroutine reads or writes, or one statement on
  `account.online`. So the interleavings are those the locks of the code allow.
* Handshake: `Connect` -> `ReceiveAuth` (the checks of `handleAuthSession` up to
  the duplicate scan, and the database work between) -> `ClaimAccount` (all of
  the locked part of `kickDuplicateAccountSessions`, which sets `accountID`) or
  `RejectNewLogin` (the older login is loading its player) -> `CloseDuplicates`
  -> `SetAuthed` -> `MarkOnline` -> `CountSessions` (count under the read lock)
  -> `CheckSkips` -> `Enqueue` (append under the write lock), or
  `InitializeSelf` when there is room.
* Serving: `BeginPlayerLogin` and `EndPlayerLogin` stand for `handlePlayerLogin`;
  admission needs of it only `playerLoading`.
* Teardown: `LogoutDecides` and `MarkOffline` (the online flag in
  `completeLogoutWithPacket`), `ReadWasQueued`, then `RemoveQueued` or
  `RemoveActive`, then the promotion loop `PopQueueFront` -> `LoadPromoted` ->
  `Welcome` (or `RequeueFront` when the account fails to load), which runs in the
  goroutine that is leaving. `CloseOwnConnection` is the deferred close.
* Others: `KickSession`, `SweepIdle`, `StopBegins`, `StopSnapshot`, and
  `ClosePending` for the closes they do after their unlock.

What is abstracted: packet contents, the checks of a handshake (one outcome:
accepted or refused), times (a recorded disconnect counts as recent), and the
queue position packets. A Go close of a socket makes the next read of its
goroutine fail; a write to it may fail or not.

`AccountDirectory.tla` is what `kickDuplicateAccountSessions` promises: a map from
account to its one session, as the C++ original keeps it. A claim replaces the
old holder in one step, a spent session never comes back.

### Runs

| Run | Instance | Shows |
|---|---|---|
| `admission_queue` | 3 connections, 2 accounts, limit 1, load failures, kicks, drops, logins | `TypeOK`, `UniqueAccount`, `QueueSound`, `NoForgottenWaiter`, `QueuedDropEarnsNoSkip`; every step implements `AccountDirectory` |
| `admission_live` | 2 connections of 1 account, every event, fairness | `NobodyEscapes`; `SupersededLeaves`, `StopDrains` |

Two more configurations of the same modules keep counterexamples; they are not
among the runs of `PROJECT.json`, and TLC is expected to report the violation:

    tlc -config MCSessionAdmission_idle_slot.cfg MCSessionAdmission
    tlc -config MCSessionAdmission_online.cfg MCSessionAdmission

Bounds. Each element of `Sessions` is one connection and is used once; an
account that reconnects is another element. Three connections are the least with
which a third login replaces a second that is still replacing a first, and with
which two promoters and a waiter coexist; limit 1 makes every login contend for
the slot. `Events` names the outside events an instance considers, so that the
cost of each run goes to the question it asks; `admission_live` has them all.

Fairness. `FairSpec` assumes weak fairness of the next step of each goroutine,
of the closes after an unlock, and of `Stop`'s second half: the Go scheduler runs
what can run, and statements and writes return. Clients and operators are not
assumed to do anything, so a connection may stay idle for ever.

### What the counterexamples say

1. `NoIdleSlot`: `authed` is set before `checkQueue` counts, and the count and
   the append are two critical sections. Two logins that overlap on an empty
   realm for one player each count the other, both queue, and no step of either
   promotes anybody. The comment of `tryPromoteQueueFront` says that while a slot
   is free the queue head is initialised.
2. `OnlineWhileServing`: the teardown reads `superseded` without a lock and
   clears `account.online` in a later statement. A newer login can set both in
   between; it then plays with `online = 0`.

The model also reaches states with more served sessions than the limit: a popped
session has `inQueue` set until its response is written, so a second promoter does
not count it. It is listed as a hazard; no property is claimed for it.

### Proofs

`SessionAdmissionProofs.tla` and `SessionQueueProofs.tla` hold for any sets of
connections and accounts and any limit, under the named assumptions on the
constants only.

* `TypeCorrect`: `TypeOK`, strengthened by what a place of a goroutine says of its
  locals (a promoter between pop and welcome has a session in its hands; one in
  the handshake has a `login`).
* `OneSessionPerAccount`: `UniqueAccount` is inductive with the type invariant,
  because `ClaimAccount` sets `accountID` in the same critical section that takes
  the duplicates out of the map. The mutant that sets it later breaks it.
* `AdmissionImplementsDirectory`: a step is a claim, a release, or a stutter of
  the directory; `HolderIs`, `HolderNone`, `HolderSame` compute the mapped state.
* `LoginQueueSound`: `QueueSound`, strengthened by: a session that is queued or
  popped has finished its handshake up to `serving`, and a session whose own
  goroutine is still before `Enqueue` is in no queue and in no promoter's hands.
  Lemmas about append, prepend, tail and `Splice` carry the sequence reasoning.
* `NobodyForgotten`, `QueuedDropsEarnNothing`: consequences of the same invariant
  and `NextWaiter`, which says where a session can be after each step that takes
  the head of the queue or puts it back.

* `NobodyEscapesTheMap`: `NobodyEscapes`, the part of "a replaced session ends" and
  "Stop drains" that is about safety: the locked sections lose nobody. A step that
  takes another's session out of the map names it in `victims` or `pendingCloses` in the
  same section; only the closes take a name out again (`StaysCondemned`). For `Stop` the
  argument needs `ClaimInv`: one between the closed check and its claim is still
  registered, so the copy of the map has it.

Only model-checked: that the named sockets are closed and the goroutines then end
(liveness, outside TLAPS), and the counterexamples.

## 3. Group loot rolls

`LootRoll.tla` is the life of one over-threshold row of one corpse. The actors are
the sessions of the group members and one timer goroutine for each roll; `at[a]`
is the place of an actor between two critical sections. `lootMu` and `groupsMu`
are variables, since a starting roll takes `groupsMu` inside `lootMu` and a
removal takes `lootMu` inside `groupsMu`; a section that holds only one of them is
one action guarded by that mutex being free.

* State: `row` is the `lootItem` (`IsBlocked`, `RollWinner`, and whether it is
  still in the loot), `active` is `groupRolls` at the row's key, and `roll` keeps
  every `activeGroupRoll` ever made, because resolvers and timers hold pointers to
  rolls that have left the table.
* Start: `Open` (`sendLootResponse`) -> `ListEligible` -> `LockLoot` -> `Register`,
  or `BlockOnly` when nobody may roll -> `Seed` (automatic passes and start
  packets, after the unlock) -> `Arm` (the timer). Quest rows go from
  `ListEligible` to `RegisterQuest`.
* Votes: `Vote` counts and, when the totals are complete, goes on to resolve with
  the key it was called with; `Remove` -> `Withdraw` take a member out.
* End: `Fire` or a completing vote -> `Close` -> `Tally` -> `AllPassed`, or
  `Deliver` -> `DropRow` or `KeepForWinner`.
* By hand: `TakeRow` (copy of the row) -> `TakeGate` -> `TakeStore` -> `TakeDelete`.
  `ClearLoot` is `clearLootState`, `Travel` a change of map or a logout.

What is abstracted: dice (any voter of the tier may win), packets, achievements,
distances (`place`: on the loot's map or not), and whether bags are full (either).
Disenchanting counts as greed. The automatic passes are written in one step.
Clients vote on rolls they were asked about; `revote` lets them vote again, or
with a ballot the switch does not know. `LootRollPromise.tla` says what the rolls of
a row promise: one open at a time, each closed, drawn and handed out at most once.

| Run | Instance | Shows |
|---|---|---|
| `loot_votes` | 3 members, one unable to roll, 1 roll; they open again, leave, take, travel | `TypeOK`, `BlockedHasKeeper`, `RollBooks`, `WinnerEntitled` |
| `loot_settles` | 2 members, a quest row, 2 rolls, windows opened again, corpse cleared, repeated and unknown ballots, fairness | every step implements `LootRollPromise`; `RowSettles` |
| `loot_removal` | 3 members, 1 roll | a finding: `RemovalEnds` |

`MCLootRoll_copies.cfg`, `_claim.cfg`, `_echo.cfg` and `_leaver.cfg` keep the
other counterexamples below, and `MCLootRoll_rolls.cfg` checks two rolls for a
normal row; they are not among the runs of `PROJECT.json`.

Bounds. Two rolls are the least in which a timer of an earlier roll can meet a
later one, and a claim can meet a second roll; three members the least with which
one can leave and two remain (`Remove` keeps two, since a group of one is
disbanded, which is not modelled). `MaxBallots` bounds the votes counted in one
roll. `Symmetry` permutes members that roll alike; the liveness runs do not use it.

Fairness. Weak fairness of each session's pending step of a start, a take or a
withdrawal, of each timer, and of each resolver: goroutines run on and
`time.AfterFunc` fires. No fairness for clients.

What the counterexamples say:

1. `OneCopy`: a take copies the row, stores the item by a database call and only
   then deletes the row, all without `lootMu`; two takers both get it.
2. `ClaimKept`: a window opened on a row that is kept for its winner starts another
   roll for it, because only `groupRolls` is asked.
3. `VoteCompletes`: the completing vote resolves by a key made of the guid in the
   packet, which is the roll item's; nothing is found, and the roll waits for its
   timer.
4. `LeaverNeverDrawn`: votes are read after the unlock that takes the roll out of
   the table, so a removal in between no longer withdraws the vote.
5. `RemovalEnds`: `lootMu` and `groupsMu` are taken in both orders; a start and a
   removal can block each other, and everyone else, for good.

Two more are visible in the model and only noted as hazards: the blocked gate is
skipped for a taker without a group, so a member that left with the window open can
take the row; and a timer resolves whatever its key holds when it runs, which after
a roll resolved early by a vote may be the next roll.

### Proofs

`LootRollProofs.tla` holds for any finite group, any number of rolls, every row
and every set of outside events; finiteness of `Players` is the one assumption
that is not about names and bounds (`Cardinality` of a group is a number).

* `LootTypeCorrect`: `IInv`, that is `TypeOK` with `LockInv` (a starter between its
  two mutexes holds `lootMu` and has seen no roll), `HandsInv` (a roll in
  somebody's hands was made, and a withdrawal has a member) and `TimerInv` (only a
  roll that was made has a running timer). Without the last, the timer of an
  unmade roll could fire and take a roll number that does not exist.
* `BlockedRowsKept`: `BlockedHasKeeper` is inductive over `IInv`. `Close` hands the
  row from the table to its resolver in one critical section; `AllPassed` unblocks
  it as it lets go.
* `WinnersAreVoters`: `WInv` = `VoterInv` (a need or greed vote is of a member that
  was asked and is still eligible), `SeedInv` (a roll has one starter, and nobody is
  asked before it has seeded the automatic passes), `SettleInv` (a resolver's roll
  has left the table, and no winner is set before the draw) and the property
  itself. The removal between closing and drawing, which breaks `LeaverNeverDrawn`,
  does not break this one: entitlement is as of the closing.
* `RollsKeepPromise`: with `AloneInv`, no two resolvers share a roll.
  `PhaseFacts` computes the mapped phase of a roll from the concrete state;
  `PhaseMoves` turns a step that touches one roll into a move of the promise and
  `QuietStep` the others into stutters.

* `BooksBalance`: `RollBooks`, if `"revote" \notin Events`. The condition is the
  code's: `handleLootRoll` counts a second ballot of a member again. `BooksInv` says
  that every roll ever made keeps its books, not only the one in the table; the step
  that needs the other invariants is the seeding of the automatic passes, which would
  overwrite a counted vote if a member could vote before it (`SeedInv`, `VoterInv`).

Only model-checked: `RowSettles` (liveness), and the counterexamples.

## 4. The trade window

`Trade.tla` has the `playerTradeState` of each session (`trade`, `Closed` when
nil), the gold and the items of the players, the items that `tradeInTrade` marks,
and `job`, the handler of each session between two of its database calls. A
handler of one session writes the state of both, and no lock is involved.

* `InitiateTrade` -> `OpenWindows` or `RefuseTrade`; `SetTradeGold`; `SetTradeItem`
  -> `PlaceItem` or `RefuseItem`; `ClearTradeItem`; `UnacceptTrade`; `CancelTrade`.
  `Retabled` is what every change of a table does: both acceptances are taken back.
* `AcceptTrade` -> `FailCheck`, or `WaitForPartner` when the partner has not
  accepted, or `SetAcceptMode` -> `FailFit`, `FailMoney`, or `Pay` -> `Store` or
  `FailStore` -> `CloseWindows`. The gold moves in memory (`Less`, `More` are
  `applyMoneyDelta` with its floor at zero and its cap) before the transaction that
  moves the items. The fit check counts slots, not items (`HasSlots`): what lies on
  the table when the transaction runs is stored, as long as it is not more.
* `Dereference` is a handler that finds `s.trade` gone after its database call, or more
  items than slots: no handler has a `recover()`, so the process ends (`up`).
* `Spend` and `SendMail` stand for the other handlers, which do not ask whether gold
  or an item is on a table.

`racers`, chosen at the start, is `{}` or `Racers`. With `{}` a handler runs to its
end before another starts: the discipline of the world thread that the comments
compare with. With `Racers` the handlers of two sessions overlap, which is how the
server runs. `Mutual`, `MarksEnd` and `AsAgreed` are about the first; `consent`
remembers both tables as they were at the last acceptance.

| Run | Instance | Shows |
|---|---|---|
| `trade_window` | 2 sessions, 2 items, 1 gold each, a cap of 2, serial and overlapping | `TypeOK`; serially `Mutual`, `MarksEnd`, `AsAgreed` |
| `trade_overlap` | the same with a cap of 3 | a finding: `TableLocked` |

Bounds. Two sessions are all that a trade has; a third could only be refused. Two
items let both sides offer one, or one side two. A purse of 1 with a cap of 2 has
the floor and the cap both in reach. In overlapping behaviours gold may be made or
lost, within the cap.

`TableLocked`: the comment says that accepting locks the table. The acceptor sets
its flag, waits for the database and then asks for the partner's flag alone, not
whether its own acceptance still stands. The partner can change a table and accept
in that time, and the changed table is exchanged.

### Proofs

`TradeProofs.tla` holds for any sessions, any finite set of items, any purse and
cap; it uses the assumptions that `Trade.tla` states on them. The `...Does` lemmas say once
what each handler does, field by field, so that the rest speaks of effects only.

* `TypeCorrect`: `TypeOK` with `WithInv`, that nobody trades with himself and that a
  handler at work knows whom it deals with. It holds of overlapping handlers too: no
  amount leaves `0..MaxMoney`.
* `WindowsInPairs`, `NoPanic`: `PInv`, one handler is at work, windows come in pairs,
  and what a handler found before its database call still holds after it
  (`StandsAt`). The last part is what overlapping handlers break, and why then
  `Dereference` happens.
* `MarksComeBack`: `MInv`, the marks are those of the exchange under way.
* `ExchangedAsAgreed`: `BInv`. `Books`: an acceptance stands for the two tables as they
  are; `AgreesAt`: between the acceptance and the payment neither purse falls short
  or overflows, so the floor and the cap of `applyMoneyDelta` are never met;
  `Owned` and `Apart`: what is on a table is its player's or in the mail, and on no
  other table, so the transaction moves exactly the offered items.

Only model-checked: that the unlocked handlers break `TableLocked`.

## 5. The dungeon finder

`LFGRoles.tla` is `lfgCheckGroupRoles`: `Settle` is one call of it, `Resolve` the
recursive function that the calls make, `Legal` the assignments of one role each that
a dungeon group can take, and `Solves` says that the solver finds one of them wherever
there is one. `DungeonFinder.tla` is `LFGManager`: `queue` (a player's entry), `groupQueue` (a premade group's),
`roleChecks`, `proposals` and `solo`. Each method of the manager holds its lock
from start to end, so it is one action; handlers that call several methods are
one action per handler where nothing else can tell the difference. A missing
map entry is an entry in state `"none"`, as its readers take it.

* Joining: `Join`, `JoinGroup` (`StartRoleCheck`, which gives the leader's answer
  from the start), `SetRoles` (`UpdateRoleCheck` and what the handler does with its
  result), `ExpireRoleCheck`, `QueueGroup`.
* Leaving: `Leave`, `LeaveFinder` (which takes out those of a group whose sessions are
  online, any of them here), `LeaveQueuedGroup`; `SetState` is what the group
  code and the maps put a player in.
* Matching: `FindGroups` picks queued groups and single players whose roles resolve;
  the order in which the code tries them is left out, any match may come out. A
  proposal keeps the roles that the solver settled on (`RolesAssigned`).
  `FormSoloProposal` is the one-player match that the `solo` setting allows.
* Proposals: `AcceptProposal`, `DeclineProposal`, `ExpireProposal`; `Fail`, `Refused`
  and `RefusedGroup` are the entries after each way to fail.

`Spec` lets every method of the manager be called. `HandlerSpec` has only the calls
that a packet handler, the tick or the group code makes: `QueueGroup` is not among
them for a group of two or more, which is the finding.

| Run | Instance | Shows |
|---|---|---|
| `finder_queue` | 3 players, 2 of them a group, 2 proposals at a time, fairness | `TypeOK`, `NobodyStranded`, `GroupsFilled`, `FailureSettles`, `WaitingEnds` |
| `finder_joins` | the same under `HandlerSpec` | a finding: `FinishedGroupQueued` |

Bounds. A group and a player alone is the least in which a proposal mixes both kinds
of entry, and two proposals at a time let one player be in both. Everyone offers
every role and a dungeon takes one of each, so that matching never hides a state of
the proposals; the solver is compared with its meaning (an assignment exists exactly
when one is found, and it is legal) for every offer of up to five members with the
numbers of the game, by `SolverAssumption`, which TLC evaluates before both runs.
Proposal ids are used again once a proposal has ended: nothing keeps an old id.

Fairness. Weak fairness of `ExpireProposal`: `updateLFGProposalExpiry` runs on every
world tick (`server.go:1629`), and a proposal that nobody ends is due 45 seconds
after it was made. No fairness for answers. `WaitingEnds` needs no more, since
everyone who waits for a live proposal is let go when it ends, and `NobodyStranded`
says that there always is one.

`FinishedGroupQueued`: the comment says that a group whose role check is finished
enters the queue. The call that does it is in the join handler, after the joining
leader's own answer; but that answer is never the last one, because
`StartRoleCheck` has it already. The handler of a member's answer broadcasts
"added to queue" and queues nobody.

### Proofs

`LFGRolesProofs.tla` and `DungeonFinderProofs.tla` hold for finitely many players,
disjoint groups of two or more, any number of proposals and any roles needed; the
assumptions are `NeededAssumption`, `FiniteAssumption`, `GroupsAssumption` and
`ChoicesAssumption`.

* `SolverCorrect`: `Solves` for every finite set of members and every offer. No prover
  here can use the library's induction theorems, so the argument goes by smallest
  counterexamples, which the well-foundedness of the subset order gives
  (`SmallestSubset`). A call asks only about offers that are smaller by one role. First,
  the recursive function exists: the partial solutions that agree with `Settle` can be
  put together. Then a smallest offer that it gets wrong is one that it gets right
  (`SettleRight`): an assignment that is legal for an offer is legal for the offer
  without a role it does not use, and a member with several roles has one to spare.
* `TypeCorrect`: `TypeOK`, with one lemma for each record operator, since an
  entry is changed field by field.
* `NobodyIsStranded`: `NobodyStranded` is not inductive by itself: a group's entry is
  found through the members that it lists, so `Listed` says that an entry lists
  exactly the members of its group. `QuietStep` covers the steps that leave the
  proposals; a proposal that starts puts entries in that state that it holds, and
  one that ends is the only one to hold an entry, or lets the others stand.
* `FailuresSettle`: `FailureSettles`, with `PartiesKnown`: who agreed is in the proposal,
  and its party is the whole of its group. Without it a failed proposal could put back
  part of a group.
* `MatchedGroupsFilled`: `GroupsFilled`. `SolverCorrect` gives at most the needed number
  of each role, `FindGroups` as many players as a dungeon takes; by counting, every role
  has its exact number.
* `GroupsNeverMatched`: under `HandlerSpec` no group of two or more ever has an entry,
  and no proposal asks its members (`GroupsLeftOut`). So `FinishedGroupQueued` fails not
  only in the instance of `finder_joins`: a group never gets out of its role check into
  the queue, whatever the constants.

Only model-checked: `WaitingEnds` (liveness), and the counterexample to
`FinishedGroupQueued` (it is a trace; the theorem above says why there must be one).

## 6. The auction house

`AuctionHouse.tla` has the rows of `auctionhouse`, where each item is (`bag`, `parcel`
for `mail_items`, `owner`), the gold of the players and in their letters, and `job`,
a handler between what it read and what it writes. Nothing is in memory but
`player.Money`; every handler is a row of single statements with no transaction.

* Every handler but that of a sale begins with `expireAuctions`: `Visit` reads what
  is due, `ExpireAuction` settles one such row. Nothing else settles auctions. `Look`
  reads the row and decides; `PlaceBid`, `BuyOut`, `RemoveItem` act on it.
* `SellItem` asks who owns the item (`auctionhouse.go:605`) and that it is not listed,
  not where it lies. It deletes the row in `character_inventory`, if there is one: an
  item that waits in its owner's mailbox is put up too, and stays in its letter. Then
  `NumberAuction` reads `MAX(id) + 1`, and `AddAuction` inserts the row, unless its id or
  item is there already, and charges the deposit.
* `TakeItem` and `TakeMoney` are the mailbox (`mail.go`). `Mailed` is the insert into
  `mail_items`, whose key is the item: a second letter with the item has no row there.
* `FallDue` is time: an auction may fall due at any moment, also between the sweep
  and the bid of one handler.

Left out are the cap on a player's gold, at which a letter keeps its money
(`mail.go:974`), the hour a letter is under way, letters that expire, and stacks.

`AuctionMarket.tla` says what the house promises: goods on sale and the bid on them are
held in trust, and a deal is one step. `Market` maps to it: a player's gold is purse and
mailbox together (`Worth`), the keeper of an item is its owner wherever it lies, and
what is on sale are the terms in the rows (`Offers`); ids, letters of money, due times
and handlers disappear. The market has one letter for an item at a time, as the code
does, and the one who opens it (`Collect`) is the owner. So its promise is the whole one
for goods that come out of a bag, and only what the code does for goods that are still
in a letter: their price is paid, and the older letter decides who gets them.
`ImplementsMarket` is the one property here that asks who owns the goods in the end, and
relates that to who paid.

| Run | Instance | Shows |
|---|---|---|
| `auction_serial` | 3 players, 2 items, 2 auctions at a time, 2 gold each, one handler at a time | `TypeOK`, `NeverLost`, `OnePlace`, `GoldKept`, `StakeReturned`; every step implements `AuctionMarket` |
| `auction_overlap` | two of the three players' handlers overlap | a finding: `StakeReturned` |

Bounds. A seller and two bidders are the least in which somebody is outbid by
another; two auctions, so that one sweep settles two and ids are used again. Prices
1 to 3 with a buyout of 3 or none make each offer a first bid, a raise of one's own
bid, an overbid, a purchase (by the bidder too), or one that is turned down; the gold
of earlier sales pays for the later ones, and a seller may be too poor to cancel. The
cut is half, so that it is not zero at 2; the rates of the game change numbers only. `Goods`
bounds who puts up what: in `auction_serial` two players have an item each, which they
may put up again when it came back.

    tlc -config MCAuctionHouse_resale.cfg MCAuctionHouse

passes too (it is not among the runs): one item, which whoever owns it may put up, the
buyer too and out of the letter. `CHECK_DEADLOCK FALSE`: with every purse and item stuck
nothing need happen.

Serially, each step is still one handler's part, and time passes between them. What
`auction_serial` shows is that the arithmetic and the bookkeeping of all the ways an
auction can end agree with each other:

* `GoldKept` compares all gold before and after every step.
* `NeverLost`: every item is in a bag, a letter, an auction or in the hands of a sale.
* `OnePlace`: an item that is in one of these places stays in one. The exception is the
  sale of an item in its letter (`FromLetter`), which puts it in two.
* `StakeReturned`: who stops being the bidder has the stake in a letter, or is the owner
  and has the item in a letter. The exception is the same: a buyer whose item the seller
  had put up out of a letter owns it and has no letter, since the older one keeps its row.

`StakeReturned`: the comment says the previous bidder is refunded. A bid refunds the
bidder it read and updates the row by its id alone. Two bidders that read the same
row both pay; the later overwrites the earlier, whom nobody refunds. `NeverLost`,
`OnePlace` and `GoldKept` do not hold of overlapping handlers either (two sweeps of one row, two
sales with one id), for the same reason.

### Proofs

`AuctionProofs.tla` holds for any finite set of players, any items, ids, prices and
rates, with no racers; it uses `AuctionAssumption`. The invariant `IInv` has four parts: `TInv`, the
types, with no bid at or above a buyout (so that a purchase never costs a negative
amount); `PInv`, one handler is at work and the row that it read is still the row of
its id, except that it may have fallen due (`StandsAt`); `OneAuction`, no two auctions
of an item; and `Held`, each item is in some place, and its owner carries what is in a
bag and in no letter. `StandsAt` is what overlapping handlers break, and with it
everything else.

* `TypeCorrect`; `ItemsKept`: `NeverLost`; `NoSecondPlace`: `OnePlace`. An item in one place
  is put up out of the bag of its owner (`Held`), which it leaves, or out of a letter,
  which is the exception. `EndsDo` is the common part of the three ways
  in which an auction ends; `NextIdIsNew` needs that a finite set of ids has a greatest,
  which comes from the well-foundedness of `<` in the library.
* `StakesComeBack`: `StakeReturned`, one step per action from the same invariant.
* `GoldIsKept`: `GoldKept`, with one more invariant, `Affords`: from the look at a row to
  the write the player can still pay. Without it the floor at zero of `applyMoneyDelta`
  (`Less`) would cut a payment short and gold would appear. A sum over a set is a fold,
  defined by recursion; `SumCounts` shows that it is the number of elements of a set
  with `f[x]` units for each `x` (`Units`), since both solve the equation of the fold
  (`SumStep`) and two solutions would differ on a smallest set. `SumApart` and `SumChanges`
  are what the proofs of the handlers use of it.
* `HouseImplementsMarket`: `ImplementsMarket`, with `IInv`, `Affords` and `Asked`, that a
  handler's price or buyout is one that a client may ask. Each
  `...Deals` lemma maps a handler to its deal, player by player; `OfferEnds` and `OfferSet`
  say what writing a row does to what is on sale; `HandleQuiet` and `FallDueQuiet` cover
  the steps that the market does not see.

Only model-checked: that overlapping handlers break `StakeReturned`.

## 7. Groups

`GroupMembership.tla` has the two stores in which a party lives. `groups` is
`Server.groups`: under a runtime id a group's stored id, its leader, and the list of
the members whose sessions it has seen. `row` and `stored` are the tables
`group_member` and `groups`, which outlive sessions and the process. `groupID` and
`pending` are the two fields of a session that point from a player to a group and to
the one who invited it; `online` are the players whose session is found by guid.
`todo` are the statements that the handler at work has still to write.

* Login is `loadPlayerGroup`: `Attach` to a group that is in memory, `Load` it from
  its rows under a number counted from the tables, or `LoginAlone`. `Logout` and
  `LogoutAlone` are `removeSessionFromGroup`, which takes the player off the list and
  leaves its row. `Restart` ends the process at any moment, between two statements of a
  handler too, and keeps the tables.
* `Invite`; `AcceptJoin`, `AcceptFound` and `AcceptLate` are `handleGroupAccept` by
  where the invitation leads; `Decline`.
* `Leave`, `Forget` and `Withdraw` are `handleGroupDisband`; `Uninvite`,
  `UninviteInvitee` and `KickOffline` the removals; `SetLeader`. `Remove` and `Disband`
  are `removeFromGroup` and `disbandGroup`, `Relead` is `setGroupLeader`.

A handler changes the memory in one step and leaves its statements in `todo`; `Write`
writes them one by one in the code's order, with no transaction around them; the next
handler starts when all are written. The two orders of a statement and a change of the
memory cannot be told apart with one handler at a time: no other handler sees them, and
`Restart` clears the memory. Handlers do overlap in the server; that is left out here,
see the fifth point below.

What is abstracted: loot rules, difficulties, subgroups and flags, the checks of an
invitation that concern faction, level, instances and ignore lists, the order of a
list (whoever comes first may be promoted), and packets.

`GroupRegister.tla` says what `group_member` promises: a character is in one group at
most, enters it from none while there is room, and leaves it alone or with all.

| Run | Instance | Shows |
|---|---|---|
| `group_tables` | 4 players, one of whom invites, 3 seats, 2 runtime and 2 stored ids, one handler at a time, a crash at any moment | `TypeOK`, `InMemoryOnce`, `RowsStored`; every step implements `GroupRegister` |

`RowsStored` depends on the order of the statements: a founding writes the group before
its members, a dissolution deletes the members before the group, and a crash in between
leaves a stored group with too few members, which nobody loads, but no member of a
group that is gone.

    tlc -config MCGroupMembership_lone.cfg MCGroupMembership
    tlc -config MCGroupMembership_ghost.cfg MCGroupMembership

keep the counterexamples of the first two points below; they are not among the runs
of `PROJECT.json`.

Bounds. Four players and three seats: two online and one offline fill a group, and a
fourth asks for a seat. Two ids of each kind, so that two groups coexist and a stored
id is used again. `MaxEntries` 1 stops a behaviour before a player would be twice in
one list; `MaxOpen` 2 lets two invitations be open at a time; only `Inviters` send
invitations, the rest answers, leads and leaves. The proofs hold for any value of these
bounds. `CHECK_DEADLOCK FALSE`: a bounded instance may run out of ids.

What does not hold:

1. `DissolvedWhenLone`: a removal counts the list, which leaves out the members that
   are offline. With one member left online the whole group is dissolved, and those
   offline lose it; a declined invitation does the same to a leader who is online
   alone. The comments say that a group is dissolved when one member is left, and
   `groupSlotFull` and `kickOfflineGroupMember` count the rows for this very reason.
2. `SessionMatchesRow`: a member that logs in again while its group is in memory gets
   the group's id and no entry in its list. The first invitation that it accepts is
   not stopped by the group it is in, since `handleGroupAccept` does not ask, and its
   session is then in one group and its row in another.
3. `Load` takes its runtime number from a count over the tables and does not ask
   whether a live group has it; the counter is only raised past it. A group under
   that number is replaced in memory, its rows stay.
4. `KickOffline` of a member whose entry is still on the list (a group loaded from
   its rows lists everybody) deletes the row and leaves the entry.
5. Overlapping handlers are not modelled, and nothing is claimed of them. `groupsMu` is
   let go before the statements: a dissolution drops the group from memory (`group.go`
   1635-1637, 1965-1966) and deletes its rows later (1673-1674, 2001-2002); a login looks
   for the group in memory (255), reads the rows without the lock and enters the group
   (338); an accepted member's row is inserted after the unlock (1239-1245); and callers
   hold a group across an unlock (2075-2096). A model of this splits `Disband`, `Load`,
   `AcceptJoin` and `Remove` at these places. It is in the plan.
6. A statement that the database fails is not modelled; the code ignores these errors,
   but for the INSERT of a founding.

### Proofs

`GroupProofs.tla` holds for any finite set of players, any number of seats from two
and any number of ids; it uses the two assumptions of `GroupMembership.tla`. Each
invariant has one lemma for each operation (`...Type`, `...MInv`), and one for each
statement (`...Writes`).

* `TypeCorrect`: `TypeOK`, by itself inductive.
* `GroupsInMemoryOnce`, `RowsAreStored`, `MembersKeepRegister`: `InMemoryOnce`, `RowsStored`
  and `KeepsRegister`, from `RInv`. It is `TypeOK`, `RowsStored` and `MInv`: a group in
  memory is stored or about to be (`Backed`), two groups in memory have two ids
  (`Distinct`), and what is still to be written has one of eight shapes, each with what
  it needs of the tables (`Pending`, `Shape`): a member is only inserted into a group that
  is stored and has room, and rows are only deleted with their group when no group in
  memory is theirs. Without `Pending` a `Write` could do anything.
* `StepMInv` has one lemma for each handler, which runs when nothing is to be written;
  `WriteKeeps` goes through the shapes. About the ids: `IsNext` picks one above all
  stored, and `Load` runs only when no live group has the stored id, so it does not
  matter that it may replace another.
* `RowMove` lists what a step may do to the rows, `MovesAreRegister` maps each to a step
  of the register.

All four are about one handler at a time; the crashes between its statements are
included.

Only model-checked: the counterexamples.

## 8. Plan

Every invariant and action property that a passing run checks is a theorem, and so are
the four refinements. What stays with TLC is liveness (`SupersededLeaves`, `StopDrains`,
`RowSettles`, `WaitingEnds`), since TLAPS has no ENABLED here, and the runs that show a
violation.

In this order; each step adds its module, runs, mutants and theorems.

1. Done: session admission, loot rolls, the trade window, the dungeon finder, the
   auction house, groups, and their proofs.
2. `WorkerPool`, `EventQueue`: the primitives of `engine/runtime`; abstract
   specification: accepted work is done exactly once.
3. `ShutdownTimer`, `RunTransaction`, `ReentrantMutex`: small, fully provable.
4. `CharacterSession`: load, save and logout of one character by an old and a new
   session; abstract specification: a register with the newest session's value.
5. Overlapping handlers of groups (section 7, fifth point), and the group that a
   successful dungeon-finder proposal makes.
6. `BattlegroundQueue`: invitations against places. Guild bank withdrawals.

## 9. Not modelled

Spells, combat, AI, Lua content, cryptography, packet encoding and tools: they are
data and arithmetic of one session, or floating point, where a state machine says
little; together they are most of the repository's lines. Battlegrounds' scripts and
arena ratings are of the same kind. Of the modelled components, `PROJECT.json` says
under each what is left out; common to all are packets and their wording, the
failure of a database statement where the code ignores its error, and, but for
groups (section 7), a crash of the process in the middle of a handler, which no code
here recovers from.
