-------------------------------- MODULE Trade --------------------------------
(***************************************************************************)
(* The trade window (engine/world/trade.go).  Two sessions hold a          *)
(* playerTradeState each, that points to the other; each handler runs in   *)
(* its own session's goroutine and writes both, without a lock.            *)
(*                                                                         *)
(* job[s] is what the handler of s is doing: a handler is cut where it     *)
(* waits for the database.  The handlers of racers may be at work at once; *)
(* where there are none every handler runs to its end, as on the single    *)
(* world thread the comments refer to.  A nil s.trade followed by a        *)
(* handler ends the process: there is no recover().                        *)
(*                                                                         *)
(* Left out: the order of the six slots, the non-traded slot and the spell *)
(* on it, and the answers sent.                                            *)
(***************************************************************************)
EXTENDS Integers, FiniteSets

CONSTANTS Sessions,  \* sessions with a loaded player
          Nobody,    \* a nil partner, no owner
          Items,     \* item instances
          NoItem,
          Purse,     \* gold of every player at the start
          MaxMoney,  \* MAX_MONEY_AMOUNT
          Racers     \* sessions whose handlers may overlap

ASSUME NamesAssumption == Nobody \notin Sessions /\ NoItem \notin Items
ASSUME MoneyAssumption == MaxMoney \in Nat /\ Purse \in 0..MaxMoney
ASSUME ItemsAssumption == IsFiniteSet(Items)
ASSUME RacersAssumption == Racers \subseteq Sessions

VARIABLES
  trade,    \* session.trade, Closed when nil
  gold,     \* player.Money
  inv,      \* character_inventory: who holds the item, Nobody in a mail
  marked,   \* Server.tradeInTrade
  job,      \* the handler of each session between two database calls
  up,       \* the process runs
  racers,   \* no session, or Racers, from the start on
  consent   \* history: both tables when the session last accepted in this window

vars == <<trade, gold, inv, marked, job, up, consent, racers>>

Closed == [partner |-> Nobody, money |-> 0, items |-> {}, accepted |-> FALSE,
           inTrade |-> {}]
NewTrade(t) == [Closed EXCEPT !.partner = t]
Open(s) == trade[s].partner # Nobody

Nothing == [t \in Sessions |-> {}]
Idle == [step |-> "idle", with |-> Nobody, item |-> NoItem, seen |-> Nothing]
Steps == {"idle", "asking", "offering", "checking", "fitting", "storing",
          "closing"}

Table == [money : 0..MaxMoney, items : SUBSET Items]
TradeType == [partner : Sessions \cup {Nobody}, money : 0..MaxMoney,
              items : SUBSET Items, accepted : BOOLEAN, inTrade : SUBSET Items]
JobType == [step : Steps, with : Sessions \cup {Nobody},
            item : Items \cup {NoItem}, seen : [Sessions -> SUBSET Items]]

TypeOK ==
  /\ trade \in [Sessions -> TradeType]
  /\ gold \in [Sessions -> 0..MaxMoney]
  /\ inv \in [Items -> Sessions \cup {Nobody}]
  /\ marked \subseteq Items
  /\ job \in [Sessions -> JobType]
  /\ up \in BOOLEAN
  /\ racers \in {{}, Racers}
  /\ consent \in [Sessions -> [give : Table, get : Table]]

NoConsent == LET none == [money |-> 0, items |-> {}] IN [give |-> none, get |-> none]
TableOf(s) == [money |-> trade[s].money, items |-> trade[s].items]

Init ==
  /\ trade = [s \in Sessions |-> Closed]
  /\ gold = [s \in Sessions |-> Purse]
  /\ inv \in [Items -> Sessions]
  /\ marked = {}
  /\ job = [s \in Sessions |-> Idle]
  /\ up = TRUE
  /\ racers \in {{}, Racers}
  /\ consent = [s \in Sessions |-> NoConsent]

-----------------------------------------------------------------------------
MayStart(s) ==
  /\ up /\ job[s] = Idle
  /\ \A t \in Sessions : job[t] # Idle => {s, t} \subseteq racers

At(s, step) == up /\ job[s].step = step
Begin(s, step, p, i) ==
  job' = [job EXCEPT ![s] = [Idle EXCEPT !.step = step, !.with = p, !.item = i]]
Go(s, step) == job' = [job EXCEPT ![s] = [@ EXCEPT !.step = step]]
Finish(s) == job' = [job EXCEPT ![s] = Idle]
Panic(s) == up' = FALSE /\ Finish(s) /\ UNCHANGED <<trade, gold, inv, marked, consent>>

SetAccepted(tr, who, b) ==
  [t \in Sessions |-> IF t \in who THEN [tr[t] EXCEPT !.accepted = b] ELSE tr[t]]

\* Mutant: only the own acceptance is taken back.
RetabledOwn(s, money, items) ==
  SetAccepted([trade EXCEPT ![s] = [@ EXCEPT !.money = money, !.items = items]], {s}, FALSE)

\* Every change of a table takes back both acceptances.
Retabled(s, money, items) ==
  SetAccepted([trade EXCEPT ![s] = [@ EXCEPT !.money = money, !.items = items]],
              {s, trade[s].partner}, FALSE)

LeaveAccept(s, p) ==
  marked' = marked \ (trade[s].inTrade \cup trade[p].inTrade)

\* Mutant: the partner's window stays.
TearDownOwn(s, p) ==
  /\ LeaveAccept(s, p)
  /\ trade' = [trade EXCEPT ![s] = Closed]
  /\ consent' = [consent EXCEPT ![s] = NoConsent]

TearDown(s, p) ==
  /\ LeaveAccept(s, p)
  /\ trade' = [t \in Sessions |-> IF t \in {s, p} THEN Closed ELSE trade[t]]
  /\ consent' = [t \in Sessions |-> IF t \in {s, p} THEN NoConsent ELSE consent[t]]

-----------------------------------------------------------------------------
InitiateTrade(s) ==
  \E t \in Sessions \ {s} :
    /\ MayStart(s) /\ ~Open(s) /\ ~Open(t)
    /\ Begin(s, "asking", t, NoItem)
    /\ UNCHANGED <<trade, gold, inv, marked, up, consent>>

\* The permission query between the checks and the two assignments.
OpenWindows(s) ==
  LET t == job[s].with IN
  /\ At(s, "asking") /\ Finish(s)
  /\ trade' = [u \in Sessions |-> CASE u = s -> NewTrade(t)
                                    [] u = t -> NewTrade(s)
                                    [] OTHER -> trade[u]]
  /\ UNCHANGED <<gold, inv, marked, up, consent>>

RefuseTrade(s) ==
  /\ At(s, "asking") /\ Finish(s)
  /\ UNCHANGED <<trade, gold, inv, marked, up, consent>>

\* Mutant: the amount is not compared with the purse.
SetTradeGoldUnchecked(s) ==
  \E money \in 0..MaxMoney + 1 :
    /\ MayStart(s) /\ Open(s) /\ money # trade[s].money
    /\ trade' = Retabled(s, money, trade[s].items)
    /\ UNCHANGED <<gold, inv, marked, job, up, consent>>

SetTradeGold(s) ==
  \E money \in 0..gold[s] :
    /\ MayStart(s) /\ Open(s) /\ money # trade[s].money
    /\ trade' = Retabled(s, money, trade[s].items)
    /\ UNCHANGED <<gold, inv, marked, job, up, consent>>

SetTradeItem(s) ==
  \E i \in Items :
    /\ MayStart(s) /\ Open(s) /\ inv[i] = s
    /\ Begin(s, "offering", Nobody, i)
    /\ UNCHANGED <<trade, gold, inv, marked, up, consent>>

\* The item goes to a free slot, or takes the slot of another.
PlaceItem(s) ==
  /\ At(s, "offering") /\ Open(s) /\ job[s].item \notin trade[s].items
  /\ \E old \in {{}} \cup {{i} : i \in trade[s].items} :
       trade' = Retabled(s, trade[s].money, (trade[s].items \ old) \cup {job[s].item})
  /\ Finish(s)
  /\ UNCHANGED <<gold, inv, marked, up, consent>>

\* It is on the table already, or may not be traded.
RefuseItem(s) ==
  /\ At(s, "offering") /\ Open(s) /\ Finish(s)
  /\ UNCHANGED <<trade, gold, inv, marked, up, consent>>

ClearTradeItem(s) ==
  \E i \in trade[s].items :
    /\ MayStart(s)
    /\ trade' = Retabled(s, trade[s].money, trade[s].items \ {i})
    /\ UNCHANGED <<gold, inv, marked, job, up, consent>>

-----------------------------------------------------------------------------
Short(s) == gold[s] < trade[s].money
Overflows(s, p) == gold[s] >= MaxMoney - trade[p].money

Consents(s, p) ==
  consent' = [consent EXCEPT ![s] = [give |-> TableOf(s), get |-> TableOf(p)]]

AcceptTrade(s) ==
  LET p == trade[s].partner IN
  /\ MayStart(s) /\ Open(s) /\ Open(p)
  /\ \/ \* too far away, or the fault is the acceptor's
        /\ trade' = SetAccepted(trade, {s}, FALSE)
        /\ UNCHANGED <<job, consent>>
     \/ \* the fault is the partner's, who alone is no longer accepted
        /\ ~Short(s) /\ (Short(p) \/ (~Overflows(s, p) /\ Overflows(p, s)))
        /\ trade' = SetAccepted(SetAccepted(trade, {s}, TRUE), {p}, FALSE)
        /\ Consents(s, p)
        /\ UNCHANGED job
     \/ /\ ~Short(s) /\ ~Short(p) /\ ~Overflows(s, p) /\ ~Overflows(p, s)
        /\ trade' = SetAccepted(trade, {s}, TRUE)
        /\ Consents(s, p)
        /\ Begin(s, "checking", p, NoItem)
  /\ UNCHANGED <<gold, inv, marked, up>>

\* An item may no longer be traded: the acceptance stays.
FailCheck(s) ==
  /\ At(s, "checking") /\ Finish(s)
  /\ UNCHANGED <<trade, gold, inv, marked, up, consent>>

WaitForPartner(s) ==
  LET p == job[s].with IN
  /\ At(s, "checking") /\ Open(p) /\ ~trade[p].accepted /\ Finish(s)
  /\ UNCHANGED <<trade, gold, inv, marked, up, consent>>

\* Both have accepted: setAcceptTradeMode, and completeTrade collects the items.
SetAcceptMode(s) ==
  LET p == job[s].with
      items == [t \in Sessions |-> IF t \in {s, p} THEN trade[t].items ELSE {}] IN
  /\ At(s, "checking") /\ Open(s) /\ Open(p) /\ trade[p].accepted
  /\ trade' = [t \in Sessions |->
                 IF t \in {s, p} THEN [trade[t] EXCEPT !.inTrade = trade[t].items]
                                 ELSE trade[t]]
  /\ marked' = marked \cup items[s] \cup items[p]
  /\ job' = [job EXCEPT ![s] = [@ EXCEPT !.step = "fitting", !.seen = items]]
  /\ UNCHANGED <<gold, inv, up, consent>>

\* Mutant: the marks stay when the items do not fit.
FailFitMarked(s) ==
  LET p == job[s].with IN
  /\ At(s, "fitting") /\ Open(s) /\ Open(p) /\ Finish(s)
  /\ trade' = [t \in Sessions |->
                 IF t \in {s, p}
                 THEN [trade[t] EXCEPT !.accepted = FALSE, !.inTrade = {}]
                 ELSE trade[t]]
  /\ UNCHANGED <<gold, inv, marked, up, consent>>

\* The items do not fit: back to the table, nobody has accepted.
FailFit(s) ==
  LET p == job[s].with IN
  /\ At(s, "fitting") /\ Open(s) /\ Open(p) /\ Finish(s)
  /\ LeaveAccept(s, p)
  /\ trade' = [t \in Sessions |->
                 IF t \in {s, p}
                 THEN [trade[t] EXCEPT !.accepted = FALSE, !.inTrade = {}]
                 ELSE trade[t]]
  /\ UNCHANGED <<gold, inv, up, consent>>

FailMoney(s) ==
  LET p == job[s].with IN
  /\ At(s, "fitting") /\ Open(s) /\ (Short(s) \/ (Open(p) /\ Short(p)))
  /\ Finish(s) /\ TearDown(s, p)
  /\ UNCHANGED <<gold, inv, up>>

\* applyMoneyDelta: a deduction stops at zero, an addition past the cap is refused.
Less(g, d) == IF g > d THEN g - d ELSE 0
More(g, d) == IF g < MaxMoney - d THEN g + d ELSE g

Paid(s, p) == More(Less(gold[s], trade[s].money), trade[p].money)

Pay(s) ==
  LET p == job[s].with IN
  /\ At(s, "fitting") /\ Open(s) /\ Open(p) /\ ~Short(s) /\ ~Short(p)
  /\ gold' = [t \in Sessions |-> CASE t = s -> Paid(s, p)
                                   [] t = p -> Paid(p, s)
                                   [] OTHER -> gold[t]]
  /\ Go(s, "storing")
  /\ UNCHANGED <<trade, inv, marked, up, consent>>

\* The fit check found an inventory slot for as many items as t had offered then.
HasSlots(s, t) == Cardinality(trade[t].items) <= Cardinality(job[s].seen[t])

\* One transaction: the rows of the givers go, rows of the receivers come; an
\* item that another player holds is a duplicate key.
Store(s) ==
  LET p == job[s].with
      fromS == trade[s].items
      fromP == trade[p].items IN
  /\ At(s, "storing") /\ Open(s) /\ Open(p)
  /\ HasSlots(s, s) /\ HasSlots(s, p)
  /\ \A i \in fromS : inv[i] \in {s, Nobody}
  /\ \A i \in fromP : inv[i] \in {p, Nobody}
  /\ inv' = [i \in Items |-> IF i \in fromS THEN p
                               ELSE IF i \in fromP THEN s ELSE inv[i]]
  /\ Go(s, "closing")
  /\ UNCHANGED <<trade, gold, marked, up, consent>>

\* The database refused the transaction, six times for a deadlock: the rows are
\* rolled back, the gold in memory is not.
FailStore(s) ==
  LET p == job[s].with IN
  /\ At(s, "storing") /\ Open(s) /\ Open(p) /\ Finish(s)
  /\ TearDown(s, p)
  /\ UNCHANGED <<gold, inv, up>>

CloseWindows(s) ==
  /\ At(s, "closing") /\ Finish(s)
  /\ TearDown(s, job[s].with)
  /\ UNCHANGED <<gold, inv, up>>

\* A window of the handler was closed meanwhile, or more items are on a table than
\* slots were found for.
Dereference(s) ==
  LET p == job[s].with
      nil == ~Open(s) \/ ~Open(p) IN
  /\ \/ At(s, "offering") /\ ~Open(s)
     \/ At(s, "checking") /\ ~Open(p)
     \/ At(s, "checking") /\ ~Open(s) /\ Open(p) /\ trade[p].accepted
     \/ At(s, "fitting") /\ nil
     \/ At(s, "storing") /\ (nil \/ ~HasSlots(s, s) \/ ~HasSlots(s, p))
  /\ Panic(s)

-----------------------------------------------------------------------------
UnacceptTrade(s) ==
  /\ MayStart(s) /\ Open(s) /\ trade[s].accepted
  /\ trade' = SetAccepted(trade, {s}, FALSE)
  /\ UNCHANGED <<gold, inv, marked, job, up, consent>>

\* CMSG_CANCEL_TRADE, a taxi, the logout.
CancelTrade(s) ==
  /\ MayStart(s) /\ Open(s)
  /\ TearDown(s, trade[s].partner)
  /\ UNCHANGED <<gold, inv, job, up>>

\* Other handlers of the session: none asks whether gold or item is offered.
Spend(s) ==
  /\ MayStart(s) /\ gold[s] > 0
  /\ gold' = [gold EXCEPT ![s] = @ - 1]
  /\ UNCHANGED <<trade, inv, marked, job, up, consent>>

SendMail(s) ==
  \E i \in Items :
    /\ MayStart(s) /\ inv[i] = s
    /\ inv' = [inv EXCEPT ![i] = Nobody]
    /\ UNCHANGED <<trade, gold, marked, job, up, consent>>

Handle(s) ==
    \/ InitiateTrade(s) \/ OpenWindows(s) \/ RefuseTrade(s)
    \/ SetTradeGold(s) \/ SetTradeItem(s) \/ PlaceItem(s) \/ RefuseItem(s)
    \/ ClearTradeItem(s)
    \/ AcceptTrade(s) \/ FailCheck(s) \/ WaitForPartner(s) \/ SetAcceptMode(s)
    \/ FailFit(s) \/ FailMoney(s) \/ Pay(s) \/ Store(s) \/ FailStore(s)
    \/ CloseWindows(s) \/ Dereference(s)
    \/ UnacceptTrade(s) \/ CancelTrade(s) \/ Spend(s) \/ SendMail(s)

Next == (\E s \in Sessions : Handle(s)) /\ UNCHANGED racers

Spec == Init /\ [][Next]_vars

-----------------------------------------------------------------------------
Serial == racers = {}

\* One handler at a time: windows come in pairs, and nobody looks at the table of
\* a partner who trades with somebody else (handleInitiateTrade, cancelTrade and
\* the ends of completeTrade write both sides).
Mutual == Serial => \A s \in Sessions : Open(s) => trade[trade[s].partner].partner = s

\* An item is marked as being in a trade only while an exchange is under way:
\* each way out of completeTrade takes the marks back.
MarksEnd == Serial /\ (\A s \in Sessions : job[s] = Idle) => marked = {}

Pays(s) == job[s].step = "fitting" /\ job'[s].step = "storing"
Stores(s) == job[s].step = "storing" /\ job'[s].step = "closing"

\* What changes hands is what each of the two had before them when they accepted
\* it last in this window, gold and items: no gold appears at the floor of zero or
\* is lost at the cap, no table changes under an acceptance (handleAcceptTrade,
\* completeTrade, applyMoneyDelta).
Agreed(s) ==
  \A x, y \in {s, job[s].with} :
    x # y =>
      /\ Pays(s) => gold'[x] - gold[x] = consent[x].get.money - consent[x].give.money
      /\ Stores(s) => {i \in Items : inv[i] # inv'[i] /\ inv'[i] = y}
                        = consent[x].give.items
AsAgreed == [][Serial => \A s \in Sessions : Agreed(s)]_vars

\* "Both accepted -> enter the accept process before executing: flags both trades
\* and locks the traded items" (handleAcceptTrade): the same with two handlers
\* at work.
TableLocked == [][\A s \in Sessions : Agreed(s)]_vars
=============================================================================
