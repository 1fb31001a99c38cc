---------------------------- MODULE TradeProofs ----------------------------
(***************************************************************************)
(* Proofs about the trade window, for any sessions, items, gold and cap.   *)
(***************************************************************************)
EXTENDS Trade, FiniteSetTheorems, TLAPS

\* Who a handler at work deals with.
WithInv == \A s \in Sessions :
  /\ trade[s].partner # s
  /\ job[s].step \notin {"idle", "offering"} => job[s].with \in Sessions \ {s}
  /\ job[s].step = "offering" => job[s].item \in Items

TInv == TypeOK /\ WithInv

\* One handler at a time.
OneJob == \A s, t \in Sessions : job[s] # Idle /\ job[t] # Idle => s = t

Paired == \A s \in Sessions : Open(s) => trade[trade[s].partner].partner = s

Exchange == {"checking", "fitting", "storing", "closing"}

\* What a handler found before its database call still holds after it.
StandsAt(s) ==
  /\ job[s].step = "asking" => ~Open(s) /\ ~Open(job[s].with)
  /\ job[s].step = "offering" => Open(s) /\ inv[job[s].item] = s
  /\ job[s].step \in Exchange => trade[s].partner = job[s].with
  /\ job[s].step \in {"fitting", "storing"} =>
       \A t \in {s, job[s].with} : trade[t].items = job[s].seen[t]

PInv == Serial => OneJob /\ Paired /\ (\A s \in Sessions : StandsAt(s)) /\ up

\* The marks are those of the exchange under way.
Marks == marked = {} \/ \E s \in Sessions :
  /\ job[s].step \in {"fitting", "storing", "closing"}
  /\ marked \subseteq trade[s].inTrade \cup trade[job[s].with].inTrade

MInv == Serial => Marks

\* What an acceptance was given for is still on both tables.
Meant(s) == /\ Open(s)
            /\ consent[s] = [give |-> TableOf(s), get |-> TableOf(trade[s].partner)]
Books == \A s \in Sessions : trade[s].accepted => Meant(s)

\* Two players can pay each other.
CanPay(s, p) == ~Short(s) /\ ~Short(p) /\ ~Overflows(s, p) /\ ~Overflows(p, s)

AgreesAt(s) ==
  /\ job[s].step \in Exchange => trade[s].accepted
  /\ job[s].step \in {"checking", "fitting"} => CanPay(s, job[s].with)
  /\ job[s].step \in {"fitting", "storing"} => trade[job[s].with].accepted

\* What is on a table is still its player's, or in the mail, until it is handed over.
Owned == \A s \in Sessions : \A i \in trade[s].items :
  inv[i] \in {s, Nobody} \/ \E u \in Sessions : job[u].step = "closing" /\ s \in {u, job[u].with}

Apart == \A s, t \in Sessions : s # t => trade[s].items \cap trade[t].items = {}

BInv == Serial => Books /\ (\A s \in Sessions : AgreesAt(s)) /\ Owned /\ Apart

-----------------------------------------------------------------------------
(* Types *)

LEMMA ClosedTypes == Closed \in TradeType /\ \A t \in Sessions : NewTrade(t) \in TradeType
<1>1. Closed \in TradeType
  BY MoneyAssumption DEF Closed, TradeType
<1>2. ASSUME NEW t \in Sessions PROVE NewTrade(t) \in TradeType
  BY <1>1 DEF NewTrade, TradeType
<1> QED BY <1>1, <1>2

LEMMA TableTypes ==
  /\ NoConsent \in [give : Table, get : Table]
  /\ TypeOK => \A s \in Sessions : TableOf(s) \in Table
  BY MoneyAssumption DEF NoConsent, Table, TableOf, TypeOK, TradeType

LEMMA JobTypes == Idle \in JobType
  BY DEF Idle, Nothing, JobType, Steps

Acceptances(new, old, who) ==
  /\ new \in [Sessions -> TradeType]
  /\ \A t \in Sessions :
       /\ new[t].partner = old[t].partner /\ new[t].money = old[t].money
       /\ new[t].items = old[t].items /\ new[t].inTrade = old[t].inTrade
       /\ t \notin who => new[t].accepted = old[t].accepted

LEMMA SetAcceptedIs ==
  ASSUME NEW tr \in [Sessions -> TradeType], NEW who
  PROVE  /\ Acceptances(SetAccepted(tr, who, TRUE), tr, who)
         /\ Acceptances(SetAccepted(tr, who, FALSE), tr, who)
         /\ \A t \in Sessions \cap who : /\ SetAccepted(tr, who, TRUE)[t].accepted
                                       /\ ~SetAccepted(tr, who, FALSE)[t].accepted
<1>1. ASSUME NEW b \in BOOLEAN
      PROVE  /\ Acceptances(SetAccepted(tr, who, b), tr, who)
             /\ \A t \in Sessions \cap who : SetAccepted(tr, who, b)[t].accepted = b
  <2>1. PICK new : new = SetAccepted(tr, who, b)
    OBVIOUS
  <2>2. new = [t \in Sessions |-> IF t \in who THEN [tr[t] EXCEPT !.accepted = b] ELSE tr[t]]
    BY <2>1 DEF SetAccepted
  <2>3. ASSUME NEW t \in Sessions
        PROVE  /\ new[t] \in TradeType
               /\ new[t].partner = tr[t].partner /\ new[t].money = tr[t].money
               /\ new[t].items = tr[t].items /\ new[t].inTrade = tr[t].inTrade
               /\ t \in who => new[t].accepted = b
               /\ t \notin who => new[t].accepted = tr[t].accepted
    <3>1. PICK r \in TradeType : r = tr[t]
      OBVIOUS
    <3>2. CASE t \in who
      <4>1. PICK u : u = [r EXCEPT !.accepted = b]
        OBVIOUS
      <4>2. new[t] = u
        BY <2>2, <3>1, <3>2, <4>1
      <4>3. /\ u \in TradeType /\ u.accepted = b /\ u.partner = r.partner
            /\ u.money = r.money /\ u.items = r.items /\ u.inTrade = r.inTrade
        BY <4>1 DEF TradeType
      <4> QED BY <3>1, <3>2, <4>2, <4>3
    <3>3. CASE t \notin who
      <4>1. new[t] = r
        BY <2>2, <3>1, <3>3
      <4> QED BY <3>1, <3>3, <4>1
    <3> QED BY <3>2, <3>3
  <2>4. new \in [Sessions -> TradeType]
    BY <2>2, <2>3
  <2>5. Acceptances(new, tr, who)
    BY <2>3, <2>4 DEF Acceptances
  <2> QED BY <2>1, <2>3, <2>5
<1> QED BY <1>1

LEMMA RetabledIs ==
  ASSUME TypeOK, NEW s \in Sessions, NEW money \in 0..MaxMoney, NEW items \in SUBSET Items
  PROVE  /\ Retabled(s, money, items) \in [Sessions -> TradeType]
         /\ \A t \in Sessions :
              /\ Retabled(s, money, items)[t].partner = trade[t].partner
              /\ Retabled(s, money, items)[t].inTrade = trade[t].inTrade
              /\ Retabled(s, money, items)[t].money = IF t = s THEN money ELSE trade[t].money
              /\ Retabled(s, money, items)[t].items = IF t = s THEN items ELSE trade[t].items
              /\ t \in {s, trade[s].partner} => ~Retabled(s, money, items)[t].accepted
              /\ t \notin {s, trade[s].partner} =>
                   Retabled(s, money, items)[t].accepted = trade[t].accepted
<1> DEFINE tr == [trade EXCEPT ![s] = [@ EXCEPT !.money = money, !.items = items]]
<1>1. /\ tr \in [Sessions -> TradeType]
      /\ \A t \in Sessions :
           /\ tr[t].partner = trade[t].partner /\ tr[t].inTrade = trade[t].inTrade
           /\ tr[t].accepted = trade[t].accepted
           /\ tr[t].money = IF t = s THEN money ELSE trade[t].money
           /\ tr[t].items = IF t = s THEN items ELSE trade[t].items
  <2>1. PICK r \in TradeType : r = trade[s]
    BY DEF TypeOK
  <2>2. PICK new : new = [r EXCEPT !.money = money, !.items = items]
    OBVIOUS
  <2>3. /\ new \in TradeType /\ new.money = money /\ new.items = items
        /\ new.partner = r.partner /\ new.inTrade = r.inTrade /\ new.accepted = r.accepted
    BY <2>2 DEF TradeType
  <2>4. trade \in [Sessions -> TradeType] /\ tr = [trade EXCEPT ![s] = new]
    BY <2>1, <2>2 DEF TypeOK
  <2> HIDE DEF tr
  <2> QED BY <2>1, <2>3, <2>4
<1> HIDE DEF tr
<1>2. Retabled(s, money, items) = SetAccepted(tr, {s, trade[s].partner}, FALSE)
  BY DEF Retabled, tr
<1>3. PICK new : new = Retabled(s, money, items)
  OBVIOUS
<1>4. /\ Acceptances(new, tr, {s, trade[s].partner})
      /\ \A t \in Sessions \cap {s, trade[s].partner} : ~new[t].accepted
  <2>1. PICK old \in [Sessions -> TradeType] : old = tr
    BY <1>1
  <2>2. PICK who : who = {s, trade[s].partner}
    OBVIOUS
  <2>3. new = SetAccepted(old, who, FALSE)
    BY <1>2, <1>3, <2>1, <2>2
  <2>4. /\ Acceptances(SetAccepted(old, who, FALSE), old, who)
        /\ \A t \in Sessions \cap who : ~SetAccepted(old, who, FALSE)[t].accepted
    BY SetAcceptedIs
  <2> QED BY <2>1, <2>2, <2>3, <2>4
<1>5. ASSUME NEW t \in Sessions
      PROVE  /\ new[t].partner = trade[t].partner /\ new[t].inTrade = trade[t].inTrade
             /\ new[t].money = IF t = s THEN money ELSE trade[t].money
             /\ new[t].items = IF t = s THEN items ELSE trade[t].items
             /\ t \in {s, trade[s].partner} => ~new[t].accepted
             /\ t \notin {s, trade[s].partner} => new[t].accepted = trade[t].accepted
  BY <1>1, <1>4 DEF Acceptances
<1>6. new \in [Sessions -> TradeType]
  BY <1>4 DEF Acceptances
<1> QED BY <1>3, <1>5, <1>6

\* What the two kinds of writes to job leave.
LEMMA JobMoves ==
  ASSUME TypeOK, NEW s \in Sessions
  PROVE  /\ Finish(s) => /\ job' \in [Sessions -> JobType]
                         /\ job'[s] = Idle
                         /\ \A t \in Sessions \ {s} : job'[t] = job[t]
         /\ \A step \in Steps : Go(s, step) =>
              /\ job' \in [Sessions -> JobType]
              /\ job'[s].step = step /\ job'[s].with = job[s].with
              /\ job'[s].item = job[s].item /\ job'[s].seen = job[s].seen
              /\ \A t \in Sessions \ {s} : job'[t] = job[t]
         /\ \A step \in Steps, p \in Sessions \cup {Nobody}, i \in Items \cup {NoItem} :
              Begin(s, step, p, i) =>
                /\ job' \in [Sessions -> JobType]
                /\ job'[s].step = step /\ job'[s].with = p /\ job'[s].item = i
                /\ \A t \in Sessions \ {s} : job'[t] = job[t]
<1>1. ASSUME NEW step \in Steps, Go(s, step)
      PROVE  /\ job' \in [Sessions -> JobType]
             /\ job'[s].step = step /\ job'[s].with = job[s].with
             /\ job'[s].item = job[s].item /\ job'[s].seen = job[s].seen
             /\ \A t \in Sessions \ {s} : job'[t] = job[t]
  BY <1>1 DEF Go, TypeOK, JobType
<1>2. ASSUME NEW step \in Steps, NEW p \in Sessions \cup {Nobody},
             NEW i \in Items \cup {NoItem}, Begin(s, step, p, i)
      PROVE  /\ job' \in [Sessions -> JobType]
             /\ job'[s].step = step /\ job'[s].with = p /\ job'[s].item = i
             /\ \A t \in Sessions \ {s} : job'[t] = job[t]
  <2>1. PICK new : new = [Idle EXCEPT !.step = step, !.with = p, !.item = i]
    OBVIOUS
  <2>2. /\ new \in JobType
        /\ new.step = step /\ new.with = p /\ new.item = i
    BY <2>1 DEF Idle, Nothing, JobType
  <2> QED BY <1>2, <2>1, <2>2 DEF Begin, TypeOK
<1>3. ASSUME Finish(s)
      PROVE  /\ job' \in [Sessions -> JobType]
             /\ job'[s] = Idle
             /\ \A t \in Sessions \ {s} : job'[t] = job[t]
  BY <1>3, JobTypes DEF Finish, TypeOK
<1> QED BY <1>1, <1>2, <1>3


LEMMA TearDownIs ==
  ASSUME TypeOK, NEW s \in Sessions, NEW p \in Sessions, TearDown(s, p)
  PROVE  /\ trade' \in [Sessions -> TradeType]
         /\ marked' = marked \ (trade[s].inTrade \cup trade[p].inTrade)
         /\ consent' \in [Sessions -> [give : Table, get : Table]]
         /\ \A t \in {s, p} : trade'[t] = Closed /\ consent'[t] = NoConsent
         /\ \A t \in Sessions \ {s, p} : trade'[t] = trade[t] /\ consent'[t] = consent[t]
<1>1. trade' \in [Sessions -> TradeType]
  BY ClosedTypes DEF TearDown, TypeOK
<1>2. consent' \in [Sessions -> [give : Table, get : Table]]
  BY TableTypes DEF TearDown, TypeOK
<1> QED BY <1>1, <1>2 DEF TearDown, LeaveAccept

LEMMA PaidIs ==
  ASSUME TypeOK, NEW s \in Sessions, NEW p \in Sessions
  PROVE  Paid(s, p) \in 0..MaxMoney
<1>1. /\ gold[s] \in 0..MaxMoney /\ trade[s].money \in 0..MaxMoney
      /\ trade[p].money \in 0..MaxMoney
  BY DEF TypeOK, TradeType
<1> QED BY <1>1, MoneyAssumption DEF Paid, Less, More

LEMMA Fields ==
  ASSUME TypeOK, NEW s \in Sessions
  PROVE  /\ trade[s] \in TradeType /\ job[s] \in JobType
         /\ trade[s].partner \in Sessions \cup {Nobody} /\ trade[s].money \in 0..MaxMoney
         /\ trade[s].items \in SUBSET Items /\ trade[s].inTrade \in SUBSET Items
         /\ trade[s].accepted \in BOOLEAN
         /\ job[s].step \in Steps /\ job[s].with \in Sessions \cup {Nobody}
         /\ job[s].item \in Items \cup {NoItem}
         /\ job[s].seen \in [Sessions -> SUBSET Items]
         /\ gold[s] \in 0..MaxMoney /\ consent[s] \in [give : Table, get : Table]
<1>1. trade[s] \in TradeType /\ job[s] \in JobType /\ gold[s] \in 0..MaxMoney
      /\ consent[s] \in [give : Table, get : Table]
  BY DEF TypeOK
<1> QED BY <1>1 DEF TradeType, JobType

LEMMA Names == /\ Idle.step = "idle" /\ Closed.partner = Nobody /\ ~Closed.accepted
               /\ Closed.items = {} /\ Closed.inTrade = {} /\ Closed.money = 0
               /\ \A t \in Sessions : /\ NewTrade(t).partner = t /\ ~NewTrade(t).accepted
                                      /\ NewTrade(t).items = {} /\ NewTrade(t).inTrade = {}
                                      /\ NewTrade(t).money = 0
               /\ {"idle", "asking", "offering", "checking", "fitting", "storing", "closing"} = Steps
  BY DEF Idle, Closed, NewTrade, Steps

-----------------------------------------------------------------------------
(* What each step does, field by field *)

Others(s) == \A t \in Sessions \ {s} : job'[t] = job[t]
Rested(s) == job' \in [Sessions -> JobType] /\ job'[s] = Idle /\ Others(s)
Went(s, step, p) == /\ job' \in [Sessions -> JobType]
                    /\ job'[s].step = step /\ job'[s].with = p /\ Others(s)

LEMMA Resting == ASSUME TypeOK, NEW s \in Sessions, Finish(s) PROVE Rested(s)
  BY JobMoves DEF Rested, Others

\* A handler at one of its places after "idle" knows whom it deals with.
LEMMA AtWith ==
  ASSUME TInv, NEW s \in Sessions, NEW step \in Steps \ {"idle", "offering"}, At(s, step)
  PROVE  job[s].with \in Sessions \ {s} /\ job[s] # Idle
  BY Names DEF TInv, WithInv, At

\* The ends of a handler that change nothing else.
Rests(s) == RefuseTrade(s) \/ RefuseItem(s) \/ FailCheck(s) \/ WaitForPartner(s)

LEMMA RestsDo ==
  ASSUME TInv, NEW s \in Sessions, Rests(s)
  PROVE  /\ job[s].step \in {"asking", "offering", "checking"} /\ Rested(s)
         /\ UNCHANGED <<trade, gold, inv, marked, up, consent>>
  BY Resting DEF TInv, Rests, RefuseTrade, RefuseItem, FailCheck, WaitForPartner, At

LEMMA InitiateTradeDoes ==
  ASSUME TInv, NEW s \in Sessions, InitiateTrade(s)
  PROVE  /\ MayStart(s) /\ UNCHANGED <<trade, gold, inv, marked, up, consent>>
         /\ \E t \in Sessions \ {s} : ~Open(s) /\ ~Open(t) /\ Went(s, "asking", t)
  BY JobMoves, Names DEF TInv, InitiateTrade, Went, Others

LEMMA SetTradeItemDoes ==
  ASSUME TInv, NEW s \in Sessions, SetTradeItem(s)
  PROVE  /\ MayStart(s) /\ Open(s) /\ UNCHANGED <<trade, gold, inv, marked, up, consent>>
         /\ Went(s, "offering", Nobody)
         /\ job'[s].item \in Items /\ inv[job'[s].item] = s
<1> PICK i \in Items : inv[i] = s /\ Begin(s, "offering", Nobody, i)
  BY DEF SetTradeItem
<1>1. "offering" \in Steps /\ i \in Items \cup {NoItem} /\ TypeOK
  BY DEF Steps, TInv
<1>2. Went(s, "offering", Nobody) /\ job'[s].item = i
  BY <1>1, JobMoves DEF Went, Others
<1> QED BY <1>2 DEF SetTradeItem

LEMMA OpenWindowsDoes ==
  ASSUME TInv, NEW s \in Sessions, OpenWindows(s)
  PROVE  /\ At(s, "asking") /\ Rested(s) /\ UNCHANGED <<gold, inv, marked, up, consent>>
         /\ job[s].with \in Sessions \ {s}
         /\ trade' \in [Sessions -> TradeType]
         /\ trade'[s] = NewTrade(job[s].with) /\ trade'[job[s].with] = NewTrade(s)
         /\ \A t \in Sessions \ {s, job[s].with} : trade'[t] = trade[t]
<1>1. job[s].with \in Sessions \ {s}
  BY AtWith, Names DEF OpenWindows
<1>2. Rested(s)
  BY Resting DEF TInv, OpenWindows
<1> QED BY <1>1, <1>2, ClosedTypes DEF OpenWindows, TInv, TypeOK

\* The changes of a table.
Retables(s) == SetTradeGold(s) \/ PlaceItem(s) \/ ClearTradeItem(s)

Offers(s) == IF job[s].step = "offering" THEN {job[s].item} ELSE {}

RetabledBy(s) ==
  /\ trade' \in [Sessions -> TradeType]
  /\ trade'[s].items \subseteq trade[s].items \cup Offers(s)
  /\ \A t \in Sessions :
       /\ trade'[t].partner = trade[t].partner /\ trade'[t].inTrade = trade[t].inTrade
       /\ t # s => trade'[t].items = trade[t].items /\ trade'[t].money = trade[t].money
       /\ t \in {s, trade[s].partner} => ~trade'[t].accepted
       /\ t \notin {s, trade[s].partner} => trade'[t].accepted = trade[t].accepted

LEMMA RetablesDo ==
  ASSUME TInv, NEW s \in Sessions, Retables(s)
  PROVE  /\ RetabledBy(s) /\ UNCHANGED <<gold, inv, marked, up, consent>>
         /\ \/ MayStart(s) /\ UNCHANGED job
            \/ At(s, "offering") /\ Rested(s)
<1> USE Fields DEF TInv
<1>1. ASSUME NEW money \in 0..MaxMoney, NEW items \in SUBSET Items,
             items \subseteq trade[s].items \cup Offers(s), trade' = Retabled(s, money, items)
      PROVE  RetabledBy(s)
  BY <1>1, RetabledIs DEF RetabledBy
<1>2. CASE SetTradeGold(s)
  <2> PICK money \in 0..gold[s] : trade' = Retabled(s, money, trade[s].items)
    BY <1>2 DEF SetTradeGold
  <2>1. money \in 0..MaxMoney
    BY MoneyAssumption
  <2> QED BY <1>1, <1>2, <2>1 DEF SetTradeGold
<1>3. CASE PlaceItem(s)
  <2> PICK old \in {{}} \cup {{i} : i \in trade[s].items} :
        trade' = Retabled(s, trade[s].money, (trade[s].items \ old) \cup {job[s].item})
    BY <1>3 DEF PlaceItem
  <2>1. job[s].item \in Items /\ Offers(s) = {job[s].item}
    BY <1>3 DEF PlaceItem, At, WithInv, Offers
  <2>2. (trade[s].items \ old) \cup {job[s].item} \in SUBSET Items
    BY <2>1
  <2>3. Rested(s)
    BY <1>3, Resting DEF PlaceItem
  <2> QED BY <1>1, <1>3, <2>1, <2>2, <2>3 DEF PlaceItem
<1>4. CASE ClearTradeItem(s)
  <2> PICK i \in trade[s].items : trade' = Retabled(s, trade[s].money, trade[s].items \ {i})
    BY <1>4 DEF ClearTradeItem
  <2>1. trade[s].items \ {i} \in SUBSET Items
    OBVIOUS
  <2> QED BY <1>1, <1>4, <2>1 DEF ClearTradeItem
<1> QED BY <1>2, <1>3, <1>4 DEF Retables

\* The windows that close, and where.
Closes(s) == FailMoney(s) \/ FailStore(s) \/ CloseWindows(s) \/ CancelTrade(s)

ClosedBy(s, p) ==
  /\ trade' \in [Sessions -> TradeType]
  /\ consent' \in [Sessions -> [give : Table, get : Table]]
  /\ marked' = marked \ (trade[s].inTrade \cup trade[p].inTrade)
  /\ \A t \in {s, p} : trade'[t] = Closed /\ consent'[t] = NoConsent
  /\ \A t \in Sessions \ {s, p} : trade'[t] = trade[t] /\ consent'[t] = consent[t]

LEMMA ClosesDo ==
  ASSUME TInv, NEW s \in Sessions, Closes(s)
  PROVE  /\ UNCHANGED <<gold, inv, up>>
         /\ \/ /\ job[s].step \in {"fitting", "storing", "closing"} /\ Rested(s)
               /\ job[s].with \in Sessions \ {s} /\ ClosedBy(s, job[s].with)
            \/ /\ MayStart(s) /\ Open(s) /\ UNCHANGED job
               /\ trade[s].partner \in Sessions \ {s} /\ ClosedBy(s, trade[s].partner)
<1> USE DEF TInv
<1>1. ASSUME NEW p \in Sessions, TearDown(s, p) PROVE ClosedBy(s, p)
  BY <1>1, TearDownIs DEF ClosedBy
<1>2. CASE CancelTrade(s)
  <2>1. trade[s].partner \in Sessions \ {s}
    BY <1>2, Fields DEF CancelTrade, Open, WithInv
  <2> QED BY <1>1, <1>2, <2>1 DEF CancelTrade
<1>3. CASE FailMoney(s) \/ FailStore(s) \/ CloseWindows(s)
  <2>1. job[s].step \in {"fitting", "storing", "closing"} /\ Finish(s) /\ TearDown(s, job[s].with)
    BY <1>3 DEF FailMoney, FailStore, CloseWindows, At
  <2>2. job[s].with \in Sessions \ {s}
    BY <2>1 DEF WithInv
  <2> QED BY <1>1, <1>3, <2>1, <2>2, Resting DEF FailMoney, FailStore, CloseWindows
<1> QED BY <1>2, <1>3 DEF Closes

\* Acceptances alone.
Keeps(t) == /\ trade'[t].partner = trade[t].partner /\ trade'[t].money = trade[t].money
            /\ trade'[t].items = trade[t].items

ConsentedBy(s, p) ==
  /\ consent' \in [Sessions -> [give : Table, get : Table]]
  /\ consent'[s] = [give |-> TableOf(s), get |-> TableOf(p)]
  /\ \A t \in Sessions \ {s} : consent'[t] = consent[t]

LEMMA Consenting ==
  ASSUME TypeOK, NEW s \in Sessions, NEW p \in Sessions, Consents(s, p)
  PROVE  ConsentedBy(s, p)
<1> DEFINE CT == [give : Table, get : Table]
<1>1. consent \in [Sessions -> CT]
  BY DEF TypeOK
<1>2. [give |-> TableOf(s), get |-> TableOf(p)] \in CT
  BY TableTypes
<1> QED BY <1>1, <1>2 DEF Consents, ConsentedBy

LEMMA UnacceptTradeDoes ==
  ASSUME TInv, NEW s \in Sessions, UnacceptTrade(s)
  PROVE  /\ MayStart(s) /\ UNCHANGED <<gold, inv, marked, job, up, consent>>
         /\ Acceptances(trade', trade, {s}) /\ ~trade'[s].accepted
<1>1. trade \in [Sessions -> TradeType]
  BY DEF TInv, TypeOK
<1> QED BY <1>1, SetAcceptedIs DEF UnacceptTrade

LEMMA AcceptTradeDoes ==
  ASSUME TInv, NEW s \in Sessions, AcceptTrade(s), NEW p, p = trade[s].partner
  PROVE  /\ MayStart(s) /\ Open(s) /\ UNCHANGED <<gold, inv, marked, up>>
         /\ p \in Sessions \ {s} /\ Acceptances(trade', trade, {s, p})
         /\ \/ /\ ~trade'[s].accepted /\ trade'[p].accepted = trade[p].accepted
               /\ UNCHANGED <<job, consent>>
            \/ ~trade'[p].accepted /\ ConsentedBy(s, p) /\ UNCHANGED job
            \/ /\ trade'[s].accepted /\ trade'[p].accepted = trade[p].accepted
               /\ ConsentedBy(s, p) /\ CanPay(s, p) /\ Went(s, "checking", p)
<1>1. trade \in [Sessions -> TradeType] /\ TypeOK
  BY DEF TInv, TypeOK
<1>2. p \in Sessions \ {s} /\ MayStart(s) /\ Open(s) /\ UNCHANGED <<gold, inv, marked, up>>
  BY <1>1, Fields DEF AcceptTrade, Open, TInv, WithInv
<1>3. CASE trade' = SetAccepted(trade, {s}, FALSE) /\ UNCHANGED <<job, consent>>
  <2>1. Acceptances(trade', trade, {s}) /\ ~trade'[s].accepted
    BY <1>1, <1>3, SetAcceptedIs
  <2> QED BY <1>2, <1>3, <2>1 DEF Acceptances
<1>4. CASE /\ trade' = SetAccepted(SetAccepted(trade, {s}, TRUE), {p}, FALSE)
           /\ Consents(s, p) /\ UNCHANGED job
  <2> DEFINE tr == SetAccepted(trade, {s}, TRUE)
  <2>1. Acceptances(tr, trade, {s}) /\ tr \in [Sessions -> TradeType]
    BY <1>1, SetAcceptedIs DEF Acceptances
  <2> HIDE DEF tr
  <2>2. trade' = SetAccepted(tr, {p}, FALSE)
    BY <1>4 DEF tr
  <2>3. ConsentedBy(s, p)
    BY <1>1, <1>2, <1>4, Consenting
  <2>4. Acceptances(trade', tr, {p}) /\ ~trade'[p].accepted
    BY <1>2, <2>1, <2>2, SetAcceptedIs
  <2>5. Acceptances(trade', trade, {s, p})
    BY <2>1, <2>4 DEF Acceptances
  <2> QED BY <1>2, <1>4, <2>3, <2>4, <2>5
<1>5. CASE /\ ~Short(s) /\ ~Short(p) /\ ~Overflows(s, p) /\ ~Overflows(p, s)
           /\ trade' = SetAccepted(trade, {s}, TRUE)
           /\ Consents(s, p) /\ Begin(s, "checking", p, NoItem)
  <2>1. Went(s, "checking", p)
    BY <1>1, <1>2, <1>5, JobMoves, Names DEF Went, Others
  <2>2. ConsentedBy(s, p) /\ CanPay(s, p)
    BY <1>1, <1>2, <1>5, Consenting DEF CanPay
  <2>3. Acceptances(trade', trade, {s}) /\ trade'[s].accepted
    BY <1>1, <1>5, SetAcceptedIs
  <2> QED BY <1>2, <2>1, <2>2, <2>3 DEF Acceptances
<1> QED BY <1>3, <1>4, <1>5 DEF AcceptTrade

LEMMA SetAcceptModeDoes ==
  ASSUME TInv, NEW s \in Sessions, SetAcceptMode(s), NEW p, p = job[s].with
  PROVE  /\ At(s, "checking") /\ Open(s) /\ Open(p) /\ trade[p].accepted
         /\ p \in Sessions \ {s} /\ Went(s, "fitting", p)
         /\ job'[s].seen[s] = trade[s].items /\ job'[s].seen[p] = trade[p].items
         /\ trade' \in [Sessions -> TradeType]
         /\ \A t \in Sessions : Keeps(t) /\ trade'[t].accepted = trade[t].accepted
         /\ trade'[s].inTrade = trade[s].items /\ trade'[p].inTrade = trade[p].items
         /\ \A t \in Sessions \ {s, p} : trade'[t].inTrade = trade[t].inTrade
         /\ marked' = marked \cup trade[s].items \cup trade[p].items
         /\ UNCHANGED <<gold, inv, up, consent>>
<1>1. p \in Sessions \ {s} /\ TypeOK
  BY AtWith, Names DEF TInv, SetAcceptMode
<1>2. trade \in [Sessions -> TradeType] /\ job \in [Sessions -> JobType]
  BY <1>1 DEF TypeOK
<1>3. [t \in Sessions |-> IF t \in {s, p} THEN trade[t].items ELSE {}]
        \in [Sessions -> SUBSET Items]
  BY <1>1, Fields
<1>4. /\ Went(s, "fitting", p)
      /\ job'[s].seen[s] = trade[s].items /\ job'[s].seen[p] = trade[p].items
  <2>1. PICK seen \in [Sessions -> SUBSET Items] :
          seen = [t \in Sessions |-> IF t \in {s, p} THEN trade[t].items ELSE {}]
    BY <1>3
  <2>2. PICK j \in JobType : j = job[s]
    BY <1>2
  <2>3. PICK new : new = [j EXCEPT !.step = "fitting", !.seen = seen]
    OBVIOUS
  <2>4. new \in JobType /\ new.step = "fitting" /\ new.with = j.with /\ new.seen = seen
    BY <2>3 DEF JobType, Steps
  <2>5. job' = [job EXCEPT ![s] = new]
    BY <2>1, <2>2, <2>3 DEF SetAcceptMode
  <2>7. seen[s] = trade[s].items /\ seen[p] = trade[p].items
    BY <1>1, <2>1
  <2>6. job' \in [Sessions -> JobType] /\ job'[s] = new /\ Others(s)
    BY <1>2, <2>4, <2>5 DEF Others
  <2> QED BY <2>2, <2>4, <2>6, <2>7 DEF Went
<1>5. trade' = [t \in Sessions |-> IF t \in {s, p} THEN [trade[t] EXCEPT !.inTrade = trade[t].items]
                                                   ELSE trade[t]]
  BY DEF SetAcceptMode
<1>6. ASSUME NEW t \in Sessions
      PROVE  /\ trade'[t] \in TradeType /\ Keeps(t) /\ trade'[t].accepted = trade[t].accepted
             /\ t \in {s, p} => trade'[t].inTrade = trade[t].items
             /\ t \notin {s, p} => trade'[t].inTrade = trade[t].inTrade
  <2>1. PICK r \in TradeType : r = trade[t]
    BY <1>2
  <2>2. CASE t \in {s, p}
    <3>1. trade'[t] = [r EXCEPT !.inTrade = r.items]
      BY <1>5, <2>1, <2>2
    <3>2. PICK new : new = [r EXCEPT !.inTrade = r.items]
      OBVIOUS
    <3>3. /\ new \in TradeType /\ new.inTrade = r.items /\ new.partner = r.partner
          /\ new.money = r.money /\ new.items = r.items /\ new.accepted = r.accepted
      BY <3>2 DEF TradeType
    <3> QED BY <2>1, <2>2, <3>1, <3>2, <3>3 DEF Keeps
  <2>3. CASE t \notin {s, p}
    <3>1. trade'[t] = r
      BY <1>5, <2>1, <2>3
    <3> QED BY <2>1, <2>3, <3>1 DEF Keeps
  <2> QED BY <2>2, <2>3
<1>7. trade' \in [Sessions -> TradeType]
  BY <1>5, <1>6
<1>8. /\ At(s, "checking") /\ Open(s) /\ Open(p) /\ trade[p].accepted
      /\ marked' = marked \cup trade[s].items \cup trade[p].items
      /\ UNCHANGED <<gold, inv, up, consent>>
  <2> DEFINE items == [t \in Sessions |-> IF t \in {s, p} THEN trade[t].items ELSE {}]
  <2>1. items[s] = trade[s].items /\ items[p] = trade[p].items
    BY <1>1
  <2>2. marked' = marked \cup items[s] \cup items[p]
    BY DEF SetAcceptMode
  <2> QED BY <2>1, <2>2 DEF SetAcceptMode
<1> QED BY <1>1, <1>4, <1>6, <1>7, <1>8

LEMMA FailFitDoes ==
  ASSUME TInv, NEW s \in Sessions, FailFit(s), NEW p, p = job[s].with
  PROVE  /\ At(s, "fitting") /\ Rested(s) /\ p \in Sessions \ {s}
         /\ trade' \in [Sessions -> TradeType]
         /\ \A t \in Sessions : Keeps(t)
         /\ \A t \in {s, p} : ~trade'[t].accepted
         /\ \A t \in Sessions \ {s, p} : trade'[t] = trade[t]
         /\ marked' = marked \ (trade[s].inTrade \cup trade[p].inTrade)
         /\ UNCHANGED <<gold, inv, up, consent>>
<1>1. p \in Sessions \ {s} /\ TypeOK /\ Rested(s)
  BY AtWith, Names, Resting DEF TInv, FailFit
<1>2. trade \in [Sessions -> TradeType]
  BY <1>1 DEF TypeOK
<1>3. trade' = [t \in Sessions |-> IF t \in {s, p}
                                    THEN [trade[t] EXCEPT !.accepted = FALSE, !.inTrade = {}]
                                    ELSE trade[t]]
  BY DEF FailFit
<1>4. ASSUME NEW t \in Sessions
      PROVE  /\ trade'[t] \in TradeType /\ Keeps(t)
             /\ t \in {s, p} => ~trade'[t].accepted
             /\ t \notin {s, p} => trade'[t] = trade[t]
  <2>1. PICK r \in TradeType : r = trade[t]
    BY <1>2
  <2>2. CASE t \in {s, p}
    <3>1. trade'[t] = [r EXCEPT !.accepted = FALSE, !.inTrade = {}]
      BY <1>3, <2>1, <2>2
    <3>2. PICK new : new = [r EXCEPT !.accepted = FALSE, !.inTrade = {}]
      OBVIOUS
    <3>3. /\ new \in TradeType /\ ~new.accepted /\ new.partner = r.partner
          /\ new.money = r.money /\ new.items = r.items
      BY <3>2 DEF TradeType
    <3> QED BY <2>1, <2>2, <3>1, <3>2, <3>3 DEF Keeps
  <2>3. CASE t \notin {s, p}
    <3>1. trade'[t] = r
      BY <1>3, <2>1, <2>3
    <3> QED BY <2>1, <2>3, <3>1 DEF Keeps
  <2> QED BY <2>2, <2>3
<1>5. trade' \in [Sessions -> TradeType]
  BY <1>3, <1>4
<1>6. /\ At(s, "fitting") /\ UNCHANGED <<gold, inv, up, consent>>
      /\ marked' = marked \ (trade[s].inTrade \cup trade[p].inTrade)
  BY DEF FailFit, LeaveAccept
<1> QED BY <1>1, <1>4, <1>5, <1>6

LEMMA PayDoes ==
  ASSUME TInv, NEW s \in Sessions, Pay(s), NEW p, p = job[s].with
  PROVE  /\ At(s, "fitting") /\ Went(s, "storing", p) /\ p \in Sessions \ {s}
         /\ job'[s].seen = job[s].seen
         /\ gold' \in [Sessions -> 0..MaxMoney]
         /\ gold'[s] = Paid(s, p) /\ gold'[p] = Paid(p, s)
         /\ UNCHANGED <<trade, inv, marked, up, consent>>
<1>1. p \in Sessions \ {s} /\ TypeOK
  BY AtWith, Names DEF TInv, Pay
<1>2. Went(s, "storing", p) /\ job'[s].seen = job[s].seen
  BY <1>1, JobMoves, Names DEF Pay, Went, Others
<1>3. gold \in [Sessions -> 0..MaxMoney]
  BY <1>1 DEF TypeOK
<1> QED BY <1>1, <1>2, <1>3, PaidIs DEF Pay

LEMMA StoreDoes ==
  ASSUME TInv, NEW s \in Sessions, Store(s), NEW p, p = job[s].with
  PROVE  /\ At(s, "storing") /\ Went(s, "closing", p) /\ p \in Sessions \ {s}
         /\ \A i \in trade[s].items : inv[i] \in {s, Nobody}
         /\ \A i \in trade[p].items : inv[i] \in {p, Nobody}
         /\ inv' \in [Items -> Sessions \cup {Nobody}]
         /\ \A i \in Items :
              /\ i \in trade[s].items => inv'[i] = p
              /\ i \in trade[p].items \ trade[s].items => inv'[i] = s
              /\ i \notin trade[s].items \cup trade[p].items => inv'[i] = inv[i]
         /\ UNCHANGED <<trade, gold, marked, up, consent>>
<1>1. p \in Sessions \ {s} /\ TypeOK
  BY AtWith, Names DEF TInv, Store
<1>2. Went(s, "closing", p)
  BY <1>1, JobMoves, Names DEF Store, Went, Others
<1>3. inv \in [Items -> Sessions \cup {Nobody}]
  BY <1>1 DEF TypeOK
<1>4. \A i \in Items :
        /\ i \in trade[s].items => inv'[i] = p
        /\ i \in trade[p].items \ trade[s].items => inv'[i] = s
        /\ i \notin trade[s].items \cup trade[p].items => inv'[i] = inv[i]
  BY DEF Store
<1>5. inv' \in [Items -> Sessions \cup {Nobody}]
  BY <1>1, <1>3 DEF Store
<1> QED BY <1>1, <1>2, <1>4, <1>5 DEF Store

\* The other handlers, and the panic.
LEMMA SpendDoes ==
  ASSUME TInv, NEW s \in Sessions, Spend(s)
  PROVE  /\ MayStart(s) /\ UNCHANGED <<trade, inv, marked, job, up, consent>>
         /\ gold' \in [Sessions -> 0..MaxMoney]
<1>1. gold \in [Sessions -> 0..MaxMoney]
  BY DEF TInv, TypeOK
<1> QED BY <1>1, MoneyAssumption DEF Spend

LEMMA SendMailDoes ==
  ASSUME TInv, NEW s \in Sessions, SendMail(s)
  PROVE  /\ MayStart(s) /\ UNCHANGED <<trade, gold, marked, job, up, consent>>
         /\ inv' \in [Items -> Sessions \cup {Nobody}]
         /\ \A i \in Items : inv'[i] \in {inv[i], Nobody}
<1>1. inv \in [Items -> Sessions \cup {Nobody}]
  BY DEF TInv, TypeOK
<1> QED BY <1>1 DEF SendMail

LEMMA DereferenceDoes ==
  ASSUME TInv, NEW s \in Sessions, Dereference(s)
  PROVE  /\ job[s] # Idle /\ Rested(s) /\ up' = FALSE
         /\ UNCHANGED <<trade, gold, inv, marked, consent>>
         /\ \/ job[s].step = "offering" /\ ~Open(s)
            \/ job[s].step \in Exchange /\ (~Open(s) \/ ~Open(job[s].with))
            \/ job[s].step = "storing" /\
                 ~(HasSlots(s, s) /\ HasSlots(s, job[s].with))
<1>1. Rested(s) /\ job[s] # Idle
  BY Resting, Names DEF TInv, Dereference, Panic, At
<1> QED BY <1>1 DEF Dereference, Panic, At, Exchange

-----------------------------------------------------------------------------
(* Type correctness *)

LEMMA InitTypes == Init => TInv
<1> SUFFICES ASSUME Init PROVE TInv
  OBVIOUS
<1>1. trade \in [Sessions -> TradeType] /\ job \in [Sessions -> JobType]
      /\ consent \in [Sessions -> [give : Table, get : Table]]
  BY ClosedTypes, JobTypes, TableTypes DEF Init
<1>2. gold \in [Sessions -> 0..MaxMoney] /\ inv \in [Items -> Sessions \cup {Nobody}]
      /\ marked \subseteq Items /\ up \in BOOLEAN /\ racers \in {{}, Racers}
  BY MoneyAssumption DEF Init
<1>3. WithInv
  BY Names, NamesAssumption DEF Init, WithInv
<1> QED BY <1>1, <1>2, <1>3 DEF TInv, TypeOK

\* With these the partners of windows and of handlers are all that is left to show.
LEMMA Typed ==
  ASSUME TInv, UNCHANGED racers,
         trade' \in [Sessions -> TradeType], job' \in [Sessions -> JobType],
         UNCHANGED gold \/ gold' \in [Sessions -> 0..MaxMoney],
         UNCHANGED inv \/ inv' \in [Items -> Sessions \cup {Nobody}],
         UNCHANGED marked \/ marked' \subseteq Items,
         UNCHANGED up \/ up' \in BOOLEAN,
         UNCHANGED consent \/ consent' \in [Sessions -> [give : Table, get : Table]],
         WithInv'
  PROVE  TInv'
  BY DEF TInv, TypeOK

LEMMA StepTypes ==
  ASSUME TInv, NEW s \in Sessions, Handle(s), UNCHANGED racers
  PROVE  TInv'
<1> USE DEF TInv
<1>0. trade \in [Sessions -> TradeType] /\ job \in [Sessions -> JobType] /\ marked \subseteq Items
  BY DEF TypeOK
<1>a. ASSUME Rested(s), \A t \in Sessions : trade'[t].partner # t PROVE WithInv'
  BY <1>a, Names DEF Rested, Others, WithInv
<1>b. ASSUME UNCHANGED job, \A t \in Sessions : trade'[t].partner # t PROVE WithInv'
  BY <1>b DEF WithInv
<1>c. ASSUME NEW step \in Steps \ {"idle", "offering"}, NEW p \in Sessions \ {s}, Went(s, step, p),
             \A t \in Sessions : trade'[t].partner = trade[t].partner
      PROVE  WithInv' /\ job' \in [Sessions -> JobType]
  BY <1>c DEF Went, Others, WithInv
<1>1. CASE Rests(s)
  BY <1>0, <1>1, <1>a, RestsDo, Typed DEF WithInv, Rested
<1>2. CASE InitiateTrade(s)
  BY <1>0, <1>2, <1>c, InitiateTradeDoes, Typed, Names
<1>3. CASE SetTradeItem(s)
  <2>1. WithInv'
    BY <1>3, SetTradeItemDoes DEF Went, Others, WithInv
  <2> QED BY <1>0, <1>3, <2>1, SetTradeItemDoes, Typed DEF Went
<1>4. CASE OpenWindows(s)
  <2>1. \A t \in Sessions : trade'[t].partner # t
    BY <1>4, OpenWindowsDoes, Names DEF WithInv
  <2> QED BY <1>4, <1>a, <2>1, OpenWindowsDoes, Typed DEF Rested
<1>5. CASE Retables(s)
  <2>1. \A t \in Sessions : trade'[t].partner # t
    BY <1>5, RetablesDo DEF WithInv, RetabledBy
  <2> QED BY <1>0, <1>5, <1>a, <1>b, <2>1, RetablesDo, Typed DEF Rested, RetabledBy
<1>6. CASE Closes(s)
  <2>1. \A t \in Sessions : trade'[t].partner # t
    BY <1>6, ClosesDo, Names, NamesAssumption DEF WithInv, ClosedBy
  <2>2. marked' \subseteq Items
    BY <1>0, <1>6, ClosesDo DEF ClosedBy
  <2> QED BY <1>0, <1>6, <1>a, <1>b, <2>1, <2>2, ClosesDo, Typed DEF Rested, ClosedBy
<1>7. CASE UnacceptTrade(s)
  BY <1>0, <1>7, <1>b, UnacceptTradeDoes, Typed DEF Acceptances, WithInv
<1>8. CASE AcceptTrade(s)
  <2> DEFINE p == trade[s].partner
  <2>1. /\ Acceptances(trade', trade, {s, p}) /\ p \in Sessions \ {s}
        /\ UNCHANGED consent \/ ConsentedBy(s, p)
        /\ UNCHANGED job \/ Went(s, "checking", p)
        /\ UNCHANGED <<gold, inv, marked, up>>
    BY <1>8, AcceptTradeDoes
  <2>2. \A t \in Sessions : trade'[t].partner = trade[t].partner
    BY <2>1 DEF Acceptances
  <2>3. WithInv' /\ job' \in [Sessions -> JobType]
    BY <1>0, <1>b, <1>c, <2>1, <2>2, Names DEF WithInv
  <2> QED BY <2>1, <2>3, Typed DEF Acceptances, ConsentedBy
<1>9. CASE SetAcceptMode(s)
  <2> DEFINE p == job[s].with
  <2>1. /\ Went(s, "fitting", p) /\ p \in Sessions \ {s}
        /\ trade' \in [Sessions -> TradeType]
        /\ \A t \in Sessions : trade'[t].partner = trade[t].partner
        /\ marked' = marked \cup trade[s].items \cup trade[p].items
        /\ UNCHANGED <<gold, inv, up, consent>>
    BY <1>9, SetAcceptModeDoes DEF Keeps
  <2>2. WithInv' /\ job' \in [Sessions -> JobType]
    BY <1>c, <2>1, Names
  <2>3. marked' \subseteq Items
    BY <1>0, <2>1, Fields
  <2> QED BY <2>1, <2>2, <2>3, Typed
<1>10. CASE FailFit(s)
  <2>1. \A t \in Sessions : trade'[t].partner # t
    BY <1>10, FailFitDoes DEF WithInv, Keeps
  <2>2. marked' \subseteq Items
    BY <1>0, <1>10, FailFitDoes
  <2> QED BY <1>10, <1>a, <2>1, <2>2, FailFitDoes, Typed DEF Rested
<1>11. CASE Pay(s)
  <2>1. Went(s, "storing", job[s].with) /\ job[s].with \in Sessions \ {s} /\ UNCHANGED trade
    BY <1>11, PayDoes
  <2>2. WithInv' /\ job' \in [Sessions -> JobType]
    BY <1>c, <2>1, Names
  <2> QED BY <1>0, <1>11, <2>1, <2>2, PayDoes, Typed
<1>12. CASE Store(s)
  <2>1. Went(s, "closing", job[s].with) /\ job[s].with \in Sessions \ {s} /\ UNCHANGED trade
    BY <1>12, StoreDoes
  <2>2. WithInv' /\ job' \in [Sessions -> JobType]
    BY <1>c, <2>1, Names
  <2> QED BY <1>0, <1>12, <2>1, <2>2, StoreDoes, Typed
<1>13. CASE Spend(s)
  BY <1>0, <1>13, <1>b, SpendDoes, Typed DEF WithInv
<1>14. CASE SendMail(s)
  BY <1>0, <1>14, <1>b, SendMailDoes, Typed DEF WithInv
<1>15. CASE Dereference(s)
  BY <1>0, <1>15, <1>a, DereferenceDoes, Typed DEF WithInv, Rested
<1> QED BY <1>1, <1>2, <1>3, <1>4, <1>5, <1>6, <1>7, <1>8, <1>9, <1>10, <1>11, <1>12,
           <1>13, <1>14, <1>15 DEF Handle, Rests, Retables, Closes

LEMMA Stutter == TInv /\ UNCHANGED vars => TInv'
  BY DEF TInv, TypeOK, WithInv, vars, JobType, TradeType, Table

\* Windows, gold, items and handlers are well formed, however the handlers of the two
\* overlap: no amount on a table or in a purse leaves 0..MAX_MONEY_AMOUNT
\* (trade.go:1123-1146, applyMoneyDelta).
THEOREM TypeCorrect == Spec => []TypeOK
<1>1. TInv /\ [Next]_vars => TInv'
  BY StepTypes, Stutter DEF Next
<1>2. TInv => TypeOK
  BY DEF TInv
<1> QED BY InitTypes, <1>1, <1>2, PTL DEF Spec

-----------------------------------------------------------------------------
(* One handler at a time: windows come in pairs *)

LEMMA OthersWait ==
  ASSUME TInv, PInv, Serial, NEW s \in Sessions, Handle(s)
  PROVE  /\ \A t \in Sessions \ {s} : job[t] = Idle /\ job'[t] = Idle
         /\ MayStart(s) => job[s] = Idle
<1>1. \/ MayStart(s)
      \/ job[s] # Idle
  BY Names, RestsDo, InitiateTradeDoes, SetTradeItemDoes, RetablesDo, ClosesDo, DereferenceDoes,
     UnacceptTradeDoes, SpendDoes, SendMailDoes
  DEF Handle, Rests, Retables, Closes, At, OpenWindows, AcceptTrade, SetAcceptMode, FailFit,
      Pay, Store
<1>2. \A t \in Sessions \ {s} : job[t] = Idle
  BY <1>1 DEF PInv, OneJob, MayStart, Serial
<1>3. Others(s) \/ UNCHANGED job
  BY RestsDo, InitiateTradeDoes, SetTradeItemDoes, OpenWindowsDoes, RetablesDo, ClosesDo,
     UnacceptTradeDoes, AcceptTradeDoes, SetAcceptModeDoes, FailFitDoes, PayDoes, StoreDoes,
     SpendDoes, SendMailDoes, DereferenceDoes
  DEF Handle, Rests, Retables, Closes, Rested, Went
<1> QED BY <1>2, <1>3 DEF Others, MayStart

\* So a step has to answer for its own handler and for the windows alone.
\* What has not changed since the fit check has its slots.
LEMMA EnoughSlots ==
  ASSUME TInv, NEW s \in Sessions, NEW t \in Sessions, trade[t].items = job[s].seen[t]
  PROVE  HasSlots(s, t)
<1>1. IsFiniteSet(trade[t].items)
  BY Fields, FS_Subset, ItemsAssumption DEF TInv
<1>2. Cardinality(trade[t].items) \in Nat
  BY <1>1, FS_CardinalityType
<1> QED BY <1>2 DEF HasSlots

LEMMA Alone ==
  ASSUME TInv, PInv, Serial, NEW s \in Sessions, Handle(s), UNCHANGED racers,
         StandsAt(s)', Paired', up'
  PROVE  PInv'
<1>1. \A t \in Sessions \ {s} : job'[t] = Idle
  BY OthersWait
<1>2. OneJob'
  BY <1>1 DEF OneJob
<1>3. \A t \in Sessions \ {s} : StandsAt(t)'
  BY <1>1, Names DEF StandsAt, Exchange
<1> QED BY <1>2, <1>3 DEF PInv, Serial

LEMMA StepPairs ==
  ASSUME TInv, PInv, NEW s \in Sessions, Handle(s), UNCHANGED racers
  PROVE  PInv'
<1> SUFFICES ASSUME Serial PROVE PInv'
  BY DEF PInv, Serial
<1>0. Paired /\ StandsAt(s) /\ up /\ (MayStart(s) => job[s] = Idle)
  BY OthersWait DEF PInv
<1>a. ASSUME job'[s] = Idle PROVE StandsAt(s)'
  BY <1>a, Names DEF StandsAt, Exchange
<1>b. ASSUME \A t \in Sessions : trade'[t].partner = trade[t].partner PROVE Paired'
  BY <1>0, <1>b, Fields DEF TInv, Paired, Open
<1>1. CASE Rests(s)
  BY <1>0, <1>1, <1>a, <1>b, RestsDo, Alone DEF Rested
<1>2. CASE InitiateTrade(s)
  <2>1. StandsAt(s)'
    BY <1>2, InitiateTradeDoes DEF Went, StandsAt, Exchange, Open
  <2> QED BY <1>0, <1>2, <1>b, <2>1, InitiateTradeDoes, Alone
<1>3. CASE SetTradeItem(s)
  <2>1. StandsAt(s)'
    BY <1>3, SetTradeItemDoes DEF Went, StandsAt, Exchange, Open
  <2> QED BY <1>0, <1>3, <1>b, <2>1, SetTradeItemDoes, Alone
<1>4. CASE OpenWindows(s)
  <2> DEFINE p == job[s].with
  <2>1. /\ p \in Sessions \ {s} /\ trade'[s].partner = p /\ trade'[p].partner = s
        /\ \A t \in Sessions \ {s, p} : trade'[t] = trade[t]
        /\ ~Open(s) /\ ~Open(p) /\ Rested(s) /\ UNCHANGED up
    <3>1. /\ At(s, "asking") /\ Rested(s) /\ UNCHANGED up /\ p \in Sessions \ {s}
          /\ trade'[s] = NewTrade(p) /\ trade'[p] = NewTrade(s)
          /\ \A t \in Sessions \ {s, p} : trade'[t] = trade[t]
      BY <1>4, OpenWindowsDoes
    <3>2. NewTrade(p).partner = p /\ NewTrade(s).partner = s
      BY <3>1, Names
    <3>3. ~Open(s) /\ ~Open(p)
      BY <1>0, <3>1 DEF StandsAt, At
    <3> QED BY <3>1, <3>2, <3>3
  <2> HIDE DEF p
  <2>2. ASSUME NEW t \in Sessions \ {s, p}, Open(t)
        PROVE  trade[t].partner \in Sessions \ {s, p} /\ trade[trade[t].partner].partner = t
    BY <1>0, <2>1, <2>2, Fields, NamesAssumption DEF TInv, Paired, Open
  <2>3. Paired'
    BY <2>1, <2>2 DEF Paired, Open
  <2> QED BY <1>0, <1>4, <1>a, <2>1, <2>3, Alone DEF Rested
<1>5. CASE Retables(s)
  BY <1>0, <1>5, <1>a, <1>b, RetablesDo, Alone DEF Rested, RetabledBy
<1>6. CASE Closes(s)
  <2>1. PICK p \in Sessions \ {s} : ClosedBy(s, p) /\ p = trade[s].partner
    <3>1. job[s].step \in Exchange => trade[s].partner = job[s].with
      BY <1>0 DEF StandsAt
    <3>2. CASE job[s].step \in {"fitting", "storing", "closing"} /\ ClosedBy(s, job[s].with)
      BY <1>6, <3>1, <3>2, ClosesDo DEF Exchange, ClosedBy
    <3>3. CASE MayStart(s) /\ ClosedBy(s, trade[s].partner) /\ trade[s].partner \in Sessions \ {s}
      BY <3>3
    <3> QED BY <1>6, <3>2, <3>3, ClosesDo
  <2>2. Paired'
    <3>1. trade[p].partner = s
      BY <1>0, <2>1, NamesAssumption DEF Paired, Open
    <3>2. trade'[s].partner = Nobody /\ trade'[p].partner = Nobody
      BY <2>1, Names DEF ClosedBy
    <3>3. \A t \in Sessions \ {s, p} : trade'[t] = trade[t]
      BY <2>1 DEF ClosedBy
    <3>4. ASSUME NEW t \in Sessions \ {s, p}, Open(t)
          PROVE  trade[t].partner \in Sessions \ {s, p} /\ trade[trade[t].partner].partner = t
      BY <1>0, <2>1, <3>1, <3>4, Fields DEF TInv, Paired, Open
    <3> QED BY <3>2, <3>3, <3>4 DEF Paired, Open
  <2> QED BY <1>0, <1>6, <1>a, <2>2, ClosesDo, Alone DEF Rested
<1>7. CASE UnacceptTrade(s)
  BY <1>0, <1>7, <1>a, <1>b, UnacceptTradeDoes, Alone DEF Acceptances
<1>8. CASE AcceptTrade(s)
  <2> DEFINE p == trade[s].partner
  <2>1. \A t \in Sessions : trade'[t].partner = trade[t].partner
    BY <1>8, AcceptTradeDoes DEF Acceptances
  <2>2. UNCHANGED job \/ Went(s, "checking", p)
    BY <1>8, AcceptTradeDoes
  <2>3. StandsAt(s)'
    <3>1. CASE UNCHANGED job
      BY <1>8, <1>a, <3>1, AcceptTradeDoes, OthersWait
    <3>2. CASE Went(s, "checking", p)
      BY <2>1, <3>2 DEF Went, StandsAt, Exchange
    <3> QED BY <2>2, <3>1, <3>2
  <2> QED BY <1>0, <1>8, <1>b, <2>1, <2>3, AcceptTradeDoes, Alone
<1>9. CASE SetAcceptMode(s)
  <2> DEFINE p == job[s].with
  <2>1. /\ Went(s, "fitting", p)
        /\ job'[s].seen[s] = trade[s].items /\ job'[s].seen[p] = trade[p].items
        /\ At(s, "checking") /\ p \in Sessions \ {s} /\ \A t \in Sessions : Keeps(t)
    BY <1>9, SetAcceptModeDoes
  <2>2. StandsAt(s)'
    BY <1>0, <2>1 DEF Went, StandsAt, Exchange, At, Keeps
  <2> QED BY <1>0, <1>9, <1>b, <2>1, <2>2, SetAcceptModeDoes, Alone DEF Keeps
<1>10. CASE FailFit(s)
  BY <1>0, <1>10, <1>a, <1>b, FailFitDoes, Alone DEF Rested, Keeps
<1>11. CASE Pay(s)
  <2>1. /\ Went(s, "storing", job[s].with) /\ job'[s].seen = job[s].seen
        /\ At(s, "fitting") /\ UNCHANGED <<trade, up>>
    BY <1>11, PayDoes
  <2>2. StandsAt(s)'
    BY <1>0, <2>1 DEF Went, StandsAt, Exchange, At
  <2> QED BY <1>0, <1>b, <2>1, <2>2, Alone
<1>12. CASE Store(s)
  <2>1. Went(s, "closing", job[s].with) /\ At(s, "storing") /\ UNCHANGED <<trade, up>>
    BY <1>12, StoreDoes
  <2>2. StandsAt(s)'
    BY <1>0, <2>1 DEF Went, StandsAt, Exchange, At
  <2> QED BY <1>0, <1>b, <2>1, <2>2, Alone
<1>13. CASE Spend(s)
  BY <1>0, <1>13, <1>a, <1>b, SpendDoes, Alone
<1>14. CASE SendMail(s)
  BY <1>0, <1>14, <1>a, <1>b, SendMailDoes, Alone
<1>15. CASE Dereference(s)
  <2>1. \/ job[s].step = "offering" /\ ~Open(s)
        \/ job[s].step \in Exchange /\ (~Open(s) \/ ~Open(job[s].with))
        \/ job[s].step = "storing" /\
             ~(HasSlots(s, s) /\ HasSlots(s, job[s].with))
    BY <1>15, DereferenceDoes
  <2>2. CASE job[s].step \in Exchange
    <3>1. job[s].with \in Sessions /\ trade[s].partner = job[s].with
      BY <1>0, <2>2 DEF TInv, WithInv, StandsAt, Exchange
    <3>2. Open(s) /\ Open(job[s].with)
      BY <1>0, <3>1, NamesAssumption DEF Open, Paired
    <3>3. job[s].step # "storing" \/ (HasSlots(s, s) /\ HasSlots(s, job[s].with))
      BY <1>0, <3>1, EnoughSlots DEF StandsAt
    <3> QED BY <1>0, <2>1, <2>2, <3>2, <3>3 DEF StandsAt, Exchange
  <2> QED BY <1>0, <2>1, <2>2 DEF StandsAt, Exchange
<1> QED BY <1>1, <1>2, <1>3, <1>4, <1>5, <1>6, <1>7, <1>8, <1>9, <1>10, <1>11, <1>12,
           <1>13, <1>14, <1>15 DEF Handle, Rests, Retables, Closes

LEMMA InitPairs == Init => PInv
<1> SUFFICES ASSUME Init PROVE PInv
  OBVIOUS
<1>1. /\ \A s \in Sessions : trade[s] = Closed /\ job[s] = Idle
      /\ up
  BY DEF Init
<1> QED BY <1>1, Names DEF PInv, OneJob, Paired, StandsAt, Open, Exchange

LEMMA Pairs == Spec => [](TInv /\ PInv)
<1>1. PInv /\ UNCHANGED vars => PInv'
  BY DEF PInv, vars, Serial, OneJob, Paired, StandsAt, Open
<1>2. TInv /\ PInv /\ [Next]_vars => TInv' /\ PInv'
  BY <1>1, StepTypes, StepPairs, Stutter DEF Next
<1> QED BY InitTypes, InitPairs, <1>2, PTL DEF Spec

\* One handler at a time: the windows come in pairs, so that nobody looks at the table
\* of somebody who trades with another (handleInitiateTrade, trade.go:cancelTrade and
\* the ends of completeTrade write both sides).
THEOREM WindowsInPairs == Spec => []Mutual
<1>1. PInv => Mutual
  BY DEF PInv, Mutual, Paired
<1> QED BY Pairs, <1>1, PTL

\* One handler at a time: no handler meets a window that was closed while it waited
\* for the database, or an item that got no slot (completeTrade).
THEOREM NoPanic == Spec => [](Serial => up)
<1>1. PInv => (Serial => up)
  BY DEF PInv
<1> QED BY Pairs, <1>1, PTL

\* So of the handlers, only a panic is out of the question.
LEMMA NoDereference ==
  ASSUME TInv, PInv, Serial, NEW s \in Sessions, Handle(s), UNCHANGED racers
  PROVE  ~Dereference(s)
<1>1. PInv' /\ Serial'
  BY StepPairs DEF Serial
<1> QED BY <1>1, DereferenceDoes DEF PInv

-----------------------------------------------------------------------------
(* One handler at a time: marks are taken back *)

LEMMA MarksOf ==
  ASSUME TInv, PInv, MInv, Serial, NEW s \in Sessions, Handle(s)
  PROVE  \/ marked = {}
         \/ /\ job[s].step \in {"fitting", "storing", "closing"}
            /\ marked \subseteq trade[s].inTrade \cup trade[job[s].with].inTrade
<1>1. \A t \in Sessions \ {s} : job[t].step = "idle"
  BY OthersWait, Names
<1> QED BY <1>1 DEF MInv, Marks

LEMMA StepMarks ==
  ASSUME TInv, PInv, MInv, NEW s \in Sessions, Handle(s), UNCHANGED racers
  PROVE  MInv'
<1> SUFFICES ASSUME Serial PROVE Marks'
  BY DEF MInv, Serial
<1>0. \/ marked = {}
      \/ /\ job[s].step \in {"fitting", "storing", "closing"}
         /\ marked \subseteq trade[s].inTrade \cup trade[job[s].with].inTrade
  BY MarksOf
<1>1. MayStart(s) => job[s].step = "idle"
  BY OthersWait, Names
<1>a. ASSUME UNCHANGED marked, job[s].step \notin {"fitting", "storing", "closing"}
      PROVE  Marks'
  BY <1>0, <1>a DEF Marks
<1>b. ASSUME marked' = {} PROVE Marks'
  BY <1>b DEF Marks
<1>2. CASE Rests(s)
  BY <1>2, <1>a, RestsDo
<1>3. CASE InitiateTrade(s) \/ SetTradeItem(s)
  BY <1>1, <1>3, <1>a, InitiateTradeDoes, SetTradeItemDoes
<1>4. CASE OpenWindows(s)
  BY <1>4, <1>a, OpenWindowsDoes DEF At
<1>5. CASE Retables(s)
  BY <1>1, <1>5, <1>a, RetablesDo DEF At
<1>6. CASE Closes(s)
  <2>1. marked' = {}
    BY <1>0, <1>1, <1>6, ClosesDo DEF ClosedBy
  <2> QED BY <2>1, <1>b
<1>7. CASE UnacceptTrade(s) \/ Spend(s) \/ SendMail(s)
  BY <1>1, <1>7, <1>a, UnacceptTradeDoes, SpendDoes, SendMailDoes
<1>8. CASE AcceptTrade(s)
  BY <1>1, <1>8, <1>a, AcceptTradeDoes
<1>9. CASE SetAcceptMode(s)
  <2> DEFINE p == job[s].with
  <2>1. /\ job[s].step = "checking" /\ Went(s, "fitting", p)
        /\ trade'[s].inTrade = trade[s].items /\ trade'[p].inTrade = trade[p].items
        /\ marked' = marked \cup trade[s].items \cup trade[p].items
    BY <1>9, SetAcceptModeDoes DEF At
  <2>2. /\ job'[s].step = "fitting" /\ job'[s].with = p
        /\ marked' \subseteq trade'[s].inTrade \cup trade'[p].inTrade
    BY <1>0, <2>1 DEF Went
  <2> QED BY <2>2 DEF Marks
<1>10. CASE FailFit(s)
  <2>1. marked' = {}
    BY <1>0, <1>10, FailFitDoes
  <2> QED BY <2>1, <1>b
<1>11. CASE Pay(s) \/ Store(s)
  <2>1. /\ job'[s].step \in {"storing", "closing"} /\ job'[s].with = job[s].with
        /\ UNCHANGED <<trade, marked>>
    BY <1>11, PayDoes, StoreDoes DEF Went
  <2> QED BY <1>0, <2>1 DEF Marks
<1> QED BY <1>2, <1>3, <1>4, <1>5, <1>6, <1>7, <1>8, <1>9, <1>10, <1>11, NoDereference
        DEF Handle, Rests, Retables, Closes

\* One handler at a time: each way out of completeTrade takes back the marks that
\* handleAcceptTrade put on the items (leaveTradeAcceptMode in cancelTrade and in the
\* failures); a mark that stayed would keep its item out of every later trade.
THEOREM MarksComeBack == Spec => []MarksEnd
<1>1. Init => MInv
  BY DEF Init, MInv, Marks
<1>2. MInv /\ UNCHANGED vars => MInv'
  BY DEF MInv, Marks, Serial, vars
<1>3. TInv /\ PInv /\ MInv /\ [Next]_vars => MInv'
  BY <1>2, StepMarks DEF Next
<1>4. MInv => MarksEnd
  BY Names DEF MInv, Marks, MarksEnd
<1> QED BY Pairs, <1>1, <1>3, <1>4, PTL DEF Spec

-----------------------------------------------------------------------------
(* One handler at a time: what was agreed changes hands *)

LEMMA TablesOf ==
  ASSUME NEW t \in Sessions, trade'[t].money = trade[t].money, trade'[t].items = trade[t].items
  PROVE  TableOf(t)' = TableOf(t)
  BY DEF TableOf

\* An acceptance is kept with both tables, or not at all.
KeptOrNot(t) == trade'[t].accepted =>
  /\ trade[t].accepted /\ consent'[t] = consent[t]
  /\ trade'[t].partner = trade[t].partner
  /\ \A u \in {t, trade[t].partner} \cap Sessions :
       trade'[u].money = trade[u].money /\ trade'[u].items = trade[u].items

LEMMA BookKept ==
  ASSUME TInv, Books, NEW t \in Sessions, KeptOrNot(t), trade'[t].accepted
  PROVE  Meant(t)'
<1>1. /\ trade[t].accepted /\ consent'[t] = consent[t]
      /\ trade'[t].partner = trade[t].partner
  BY DEF KeptOrNot
<1>2. /\ Open(t) /\ trade[t].partner \in Sessions
      /\ consent[t] = [give |-> TableOf(t), get |-> TableOf(trade[t].partner)]
  BY <1>1, Fields DEF TInv, Books, Meant, Open
<1>3. TableOf(t)' = TableOf(t) /\ TableOf(trade[t].partner)' = TableOf(trade[t].partner)
  BY <1>2, TablesOf DEF KeptOrNot
<1> QED BY <1>1, <1>2, <1>3 DEF Meant, Open

LEMMA BooksKept ==
  ASSUME TInv, Books, \A t \in Sessions : KeptOrNot(t)
  PROVE  Books'
  BY BookKept DEF Books

LEMMA Elsewhere ==
  ASSUME TInv, Paired, Books, NEW t \in Sessions, trade[t].accepted
  PROVE  trade[t].partner \in Sessions /\ trade[trade[t].partner].partner = t
  BY Fields DEF TInv, Paired, Books, Meant, Open

LEMMA StepBooks ==
  ASSUME TInv, PInv, Serial, Books, NEW s \in Sessions, Handle(s), UNCHANGED racers
  PROVE  Books'
<1>0. Paired /\ StandsAt(s) /\ (MayStart(s) => job[s] = Idle)
  BY OthersWait DEF PInv
<1>a. ASSUME UNCHANGED <<trade, consent>> PROVE Books'
  BY <1>a DEF Books, Meant, Open, TableOf
<1>1. CASE Rests(s) \/ InitiateTrade(s) \/ SetTradeItem(s) \/ Pay(s) \/ Store(s) \/ Spend(s)
           \/ SendMail(s)
  BY <1>1, <1>a, RestsDo, InitiateTradeDoes, SetTradeItemDoes, PayDoes, StoreDoes, SpendDoes,
     SendMailDoes
<1>2. CASE OpenWindows(s)
  <2> DEFINE p == job[s].with
  <2>1. /\ p \in Sessions \ {s} /\ trade'[s] = NewTrade(p) /\ trade'[p] = NewTrade(s)
        /\ \A t \in Sessions \ {s, p} : trade'[t] = trade[t]
        /\ At(s, "asking") /\ UNCHANGED consent
    BY <1>2, OpenWindowsDoes
  <2>2. ~Open(s) /\ ~Open(p)
    BY <1>0, <2>1 DEF StandsAt, At
  <2>3. ~trade'[s].accepted /\ ~trade'[p].accepted
    BY <2>1, Names
  <2> HIDE DEF p
  <2>4. ASSUME NEW t \in Sessions \ {s, p}, trade'[t].accepted PROVE KeptOrNot(t)
    <3>1. trade[t].accepted /\ trade'[t] = trade[t]
      BY <2>1, <2>4
    <3>2. trade[t].partner \in Sessions \ {s, p}
      BY <1>0, <2>2, <3>1, Elsewhere, NamesAssumption DEF Open
    <3> QED BY <2>1, <3>1, <3>2 DEF KeptOrNot
  <2>5. \A t \in Sessions : KeptOrNot(t)
    BY <2>3, <2>4 DEF KeptOrNot
  <2> QED BY <2>5, BooksKept
<1>3. CASE Retables(s)
  <2>1. RetabledBy(s) /\ UNCHANGED consent
    BY <1>3, RetablesDo
  <2>2. ASSUME NEW t \in Sessions, trade'[t].accepted PROVE KeptOrNot(t)
    <3>1. t \notin {s, trade[s].partner} /\ trade[t].accepted
      BY <2>1, <2>2 DEF RetabledBy
    <3>2. trade[t].partner # s
      BY <1>0, <3>1, Elsewhere
    <3> QED BY <2>1, <3>1, <3>2 DEF KeptOrNot, RetabledBy
  <2> QED BY <2>2, BooksKept DEF KeptOrNot
<1>4. CASE Closes(s)
  <2>1. PICK p \in Sessions \ {s} : ClosedBy(s, p) /\ p = trade[s].partner
    BY <1>0, <1>4, ClosesDo DEF StandsAt, Exchange
  <2>2. trade[p].partner = s
    BY <1>0, <2>1, NamesAssumption DEF Paired, Open
  <2>3. ASSUME NEW t \in Sessions, trade'[t].accepted PROVE KeptOrNot(t)
    <3>1. t \notin {s, p} /\ trade'[t] = trade[t] /\ consent'[t] = consent[t]
      BY <2>1, <2>3, Names DEF ClosedBy
    <3>2. trade[t].partner \in Sessions \ {s, p}
      BY <2>1, <2>2, <2>3, <3>1, <1>0, Elsewhere
    <3> QED BY <2>1, <2>3, <3>1, <3>2 DEF KeptOrNot, ClosedBy
  <2> QED BY <2>3, BooksKept DEF KeptOrNot
<1>5. CASE UnacceptTrade(s)
  <2>1. \A t \in Sessions : KeptOrNot(t)
    BY <1>5, UnacceptTradeDoes DEF Acceptances, KeptOrNot
  <2> QED BY <2>1, BooksKept
<1>6. CASE AcceptTrade(s)
  <2> DEFINE p == trade[s].partner
  <2>1. Acceptances(trade', trade, {s, p}) /\ p \in Sessions \ {s} /\ Open(s)
    BY <1>6, AcceptTradeDoes
  <2>2. /\ \A t \in Sessions : /\ TableOf(t)' = TableOf(t)
                              /\ trade'[t].partner = trade[t].partner
    BY <2>1, TablesOf DEF Acceptances
  <2>3. \/ ~trade'[s].accepted /\ trade'[p].accepted = trade[p].accepted /\ UNCHANGED consent
        \/ trade'[p].accepted = trade[p].accepted /\ ConsentedBy(s, p)
        \/ ~trade'[p].accepted /\ ConsentedBy(s, p)
    BY <1>6, AcceptTradeDoes
  <2>4. trade'[s].accepted => Meant(s)'
    BY <2>1, <2>2, <2>3 DEF ConsentedBy, Meant, Open
  <2>5. ASSUME NEW t \in Sessions \ {s} PROVE KeptOrNot(t)
    <3>1. trade'[t].accepted => trade[t].accepted /\ consent'[t] = consent[t]
      BY <2>1, <2>3 DEF ConsentedBy, Acceptances
    <3> QED BY <2>1, <3>1 DEF KeptOrNot, Acceptances
  <2>6. ASSUME NEW t \in Sessions \ {s}, trade'[t].accepted
        PROVE  Meant(t)'
    BY <2>5, <2>6, BookKept
  <2> QED BY <2>4, <2>6 DEF Books
<1>7. CASE SetAcceptMode(s)
  <2>1. \A t \in Sessions : KeptOrNot(t)
    BY <1>7, SetAcceptModeDoes DEF Keeps, KeptOrNot
  <2> QED BY <2>1, BooksKept
<1>8. CASE FailFit(s)
  <2>1. /\ \A t \in Sessions : Keeps(t)
        /\ \A t \in {s, job[s].with} : ~trade'[t].accepted
        /\ \A t \in Sessions \ {s, job[s].with} : trade'[t] = trade[t]
        /\ UNCHANGED consent
    BY <1>8, FailFitDoes
  <2>2. \A t \in Sessions : KeptOrNot(t)
    BY <2>1 DEF Keeps, KeptOrNot
  <2> QED BY <2>2, BooksKept
<1> QED BY <1>1, <1>2, <1>3, <1>4, <1>5, <1>6, <1>7, <1>8, NoDereference
        DEF Handle, Rests, Retables, Closes

LEMMA StepAgrees ==
  ASSUME TInv, PInv, Serial, NEW s \in Sessions, AgreesAt(s), Handle(s), UNCHANGED racers
  PROVE  AgreesAt(s)'
<1>0. MayStart(s) => job[s] = Idle
  BY OthersWait
<1>a. ASSUME job'[s].step \notin Exchange PROVE AgreesAt(s)'
  BY <1>a DEF AgreesAt, Exchange
<1>b. ASSUME UNCHANGED job, MayStart(s) PROVE AgreesAt(s)'
  BY <1>0, <1>a, <1>b, Names DEF Exchange
<1>c. ASSUME Rested(s) PROVE AgreesAt(s)'
  BY <1>a, <1>c, Names DEF Rested, Exchange
<1>1. CASE Rests(s) \/ OpenWindows(s) \/ FailFit(s)
  BY <1>1, <1>c, RestsDo, OpenWindowsDoes, FailFitDoes
<1>2. CASE InitiateTrade(s) \/ SetTradeItem(s)
  BY <1>2, <1>a, InitiateTradeDoes, SetTradeItemDoes DEF Went, Exchange
<1>3. CASE Retables(s) \/ Closes(s)
  BY <1>3, <1>b, <1>c, RetablesDo, ClosesDo
<1>4. CASE UnacceptTrade(s) \/ Spend(s) \/ SendMail(s)
  BY <1>4, <1>b, UnacceptTradeDoes, SpendDoes, SendMailDoes
<1>5. CASE AcceptTrade(s)
  <2>1. PICK p \in Sessions :
          /\ MayStart(s) /\ UNCHANGED gold
          /\ \A t \in Sessions : trade'[t].money = trade[t].money
          /\ \/ UNCHANGED job
             \/ trade'[s].accepted /\ CanPay(s, p) /\ Went(s, "checking", p)
    BY <1>5, AcceptTradeDoes DEF Acceptances
  <2>2. CASE trade'[s].accepted /\ CanPay(s, p) /\ Went(s, "checking", p)
    <3>1. CanPay(s, p)'
      BY <2>1, <2>2 DEF CanPay, Short, Overflows
    <3> QED BY <2>2, <3>1 DEF AgreesAt, Went, Exchange
  <2> QED BY <1>b, <2>1, <2>2
<1>6. CASE SetAcceptMode(s)
  <2>1. PICK p \in Sessions :
          /\ job[s].step = "checking" /\ trade[p].accepted /\ p = job[s].with
          /\ Went(s, "fitting", p) /\ UNCHANGED gold
          /\ \A t \in Sessions : /\ trade'[t].accepted = trade[t].accepted
                               /\ trade'[t].money = trade[t].money
    BY <1>6, SetAcceptModeDoes DEF At, Keeps
  <2>2. trade[s].accepted /\ CanPay(s, p)
    BY <2>1 DEF AgreesAt, Exchange
  <2>3. CanPay(s, p)'
    BY <2>1, <2>2 DEF CanPay, Short, Overflows
  <2> QED BY <2>1, <2>2, <2>3 DEF AgreesAt, Went, Exchange
<1>7. CASE Pay(s)
  <2>1. /\ At(s, "fitting") /\ Went(s, "storing", job[s].with) /\ UNCHANGED trade
    BY <1>7, PayDoes
  <2> QED BY <2>1 DEF AgreesAt, At, Went, Exchange
<1>8. CASE Store(s)
  <2>1. /\ At(s, "storing") /\ Went(s, "closing", job[s].with) /\ UNCHANGED trade
    BY <1>8, StoreDoes
  <2> QED BY <2>1 DEF AgreesAt, At, Went, Exchange
<1> QED BY <1>1, <1>2, <1>3, <1>4, <1>5, <1>6, <1>7, <1>8, NoDereference
        DEF Handle, Rests, Retables, Closes

\* Away from the end of an exchange, what is on a table is its player's or in the mail.
Held(tr, v) == \A t \in Sessions : \A i \in tr[t].items : v[i] \in {t, Nobody}

LEMMA NotClosing ==
  ASSUME TInv, PInv, Serial, Owned, NEW s \in Sessions, Handle(s), job[s].step # "closing"
  PROVE  Held(trade, inv)
  BY OthersWait, Names DEF Owned, Held

LEMMA OwnedIf == Held(trade', inv') => Owned'
  BY DEF Held, Owned

LEMMA StepOwned ==
  ASSUME TInv, PInv, Serial, Owned, Apart, NEW s \in Sessions, Handle(s), UNCHANGED racers
  PROVE  Owned' /\ Apart'
<1>0. StandsAt(s) /\ (MayStart(s) => job[s].step = "idle")
  BY OthersWait, Names DEF PInv
<1>a. ASSUME \A t \in Sessions : trade'[t].items \subseteq trade[t].items PROVE Apart'
  BY <1>a DEF Apart
<1>b. ASSUME Held(trade, inv), \A t \in Sessions : trade'[t].items \subseteq trade[t].items,
             \A i \in Items : inv'[i] \in {inv[i], Nobody}
      PROVE  Owned' /\ Apart'
  BY <1>a, <1>b, Fields, OwnedIf DEF Held, TInv
<1>c. Held(trade, inv) \/ job[s].step = "closing"
  BY NotClosing
<1>1. CASE Rests(s) \/ InitiateTrade(s) \/ SetTradeItem(s) \/ Pay(s) \/ Spend(s) \/ SendMail(s)
  <2>1. /\ job[s].step # "closing" /\ UNCHANGED trade
        /\ UNCHANGED inv \/ \A i \in Items : inv'[i] \in {inv[i], Nobody}
    BY <1>0, <1>1, RestsDo, InitiateTradeDoes, SetTradeItemDoes, PayDoes, SpendDoes,
       SendMailDoes DEF At
  <2> QED BY <1>b, <1>c, <2>1
<1>2. CASE OpenWindows(s)
  <2>1. /\ job[s].step = "asking" /\ UNCHANGED inv
        /\ \A t \in {s, job[s].with} : trade'[t].items = {}
        /\ \A t \in Sessions \ {s, job[s].with} : trade'[t] = trade[t]
    BY <1>2, OpenWindowsDoes, Names DEF At
  <2> QED BY <1>b, <1>c, <2>1
<1>3. CASE Retables(s)
  <2>1. /\ job[s].step \in {"idle", "offering"} /\ UNCHANGED inv
        /\ trade'[s].items \subseteq trade[s].items \cup Offers(s)
        /\ \A t \in Sessions \ {s} : trade'[t].items = trade[t].items
    BY <1>0, <1>3, RetablesDo DEF At, RetabledBy
  <2>2. \A i \in Offers(s) : inv[i] = s
    BY <1>0 DEF Offers, StandsAt
  <2>3. Held(trade', inv')
    BY <1>c, <2>1, <2>2 DEF Held
  <2>4. \A t \in Sessions \ {s} : trade[t].items \cap Offers(s) = {}
    BY <1>c, <2>1, <2>2, NamesAssumption DEF Held
  <2>5. Apart'
    BY <2>1, <2>4 DEF Apart
  <2> QED BY <2>3, <2>5, OwnedIf
<1>4. CASE Closes(s)
  <2>1. PICK p \in Sessions \ {s} :
          ClosedBy(s, p) /\ (job[s].step = "closing" => p = job[s].with) /\ UNCHANGED inv
    BY <1>0, <1>4, ClosesDo
  <2>2. /\ \A t \in {s, p} : trade'[t].items = {}
        /\ \A t \in Sessions \ {s, p} : trade'[t] = trade[t]
    BY <2>1, Names DEF ClosedBy
  <2>3. Held(trade', inv')
    BY <2>1, <2>2, OthersWait, Names DEF Owned, Held
  <2>4. Apart'
    BY <1>a, <2>2
  <2> QED BY <2>3, <2>4, OwnedIf
<1>5. CASE UnacceptTrade(s) \/ AcceptTrade(s)
  <2>1. /\ job[s].step = "idle" /\ UNCHANGED inv
        /\ \A t \in Sessions : trade'[t].items = trade[t].items
    BY <1>0, <1>5, UnacceptTradeDoes, AcceptTradeDoes DEF Acceptances
  <2> QED BY <1>b, <1>c, <2>1
<1>6. CASE SetAcceptMode(s) \/ FailFit(s)
  <2>1. /\ job[s].step # "closing" /\ UNCHANGED inv
        /\ \A t \in Sessions : trade'[t].items = trade[t].items
    BY <1>6, SetAcceptModeDoes, FailFitDoes DEF At, Keeps
  <2> QED BY <1>b, <1>c, <2>1
<1>7. CASE Store(s)
  <2> DEFINE p == job[s].with
  <2>1. /\ job[s].step = "storing" /\ UNCHANGED trade /\ p \in Sessions
        /\ job'[s].step = "closing" /\ job'[s].with = p
        /\ \A i \in Items : i \notin trade[s].items \cup trade[p].items => inv'[i] = inv[i]
    BY <1>7, StoreDoes DEF At, Went
  <2>2. Apart'
    BY <1>a, <2>1
  <2> HIDE DEF p
  <2>3. ASSUME NEW t \in Sessions \ {s, p}, NEW i \in trade[t].items
        PROVE  inv'[i] \in {t, Nobody}
    <3>1. i \in Items /\ i \notin trade[s].items \cup trade[p].items
      BY <2>1, Fields DEF Apart, TInv
    <3> QED BY <1>c, <2>1, <3>1 DEF Held
  <2>4. Owned'
    BY <2>1, <2>3 DEF Owned
  <2> QED BY <2>2, <2>4
<1> QED BY <1>1, <1>2, <1>3, <1>4, <1>5, <1>6, <1>7, NoDereference
        DEF Handle, Rests, Retables, Closes

LEMMA StepBInv ==
  ASSUME TInv, PInv, BInv, NEW s \in Sessions, Handle(s), UNCHANGED racers
  PROVE  BInv'
<1> SUFFICES ASSUME Serial PROVE BInv'
  BY DEF BInv, Serial
<1>1. \A t \in Sessions \ {s} : AgreesAt(t)'
  BY OthersWait, Names DEF AgreesAt, Exchange
<1> QED BY <1>1, StepBooks, StepAgrees, StepOwned DEF BInv

LEMMA Booked == Spec => []BInv
<1>1. Init => BInv
  <2> SUFFICES ASSUME Init PROVE BInv
    OBVIOUS
  <2>1. \A s \in Sessions : trade[s] = Closed /\ job[s] = Idle
    BY DEF Init
  <2> QED BY <2>1, Names DEF BInv, Books, AgreesAt, Exchange, Owned, Apart
<1>2. BInv /\ UNCHANGED vars => BInv'
  BY DEF BInv, Books, Meant, AgreesAt, CanPay, Short, Overflows, Owned, Apart, Open, TableOf,
         Serial, vars
<1>3. TInv /\ PInv /\ BInv /\ [Next]_vars => BInv'
  BY <1>2, StepBInv DEF Next
<1> QED BY Pairs, <1>1, <1>3, PTL DEF Spec

LEMMA PaidWhenItCan ==
  ASSUME TypeOK, NEW s \in Sessions, NEW p \in Sessions, CanPay(s, p)
  PROVE  Paid(s, p) - gold[s] = trade[p].money - trade[s].money
<1>1. /\ gold[s] \in Nat /\ trade[s].money \in Nat /\ trade[p].money \in Nat
      /\ gold[s] >= trade[s].money /\ gold[s] < MaxMoney - trade[p].money
  BY Fields, MoneyAssumption DEF CanPay, Short, Overflows
<1>2. Less(gold[s], trade[s].money) = gold[s] - trade[s].money
  BY <1>1 DEF Less
<1>3. More(gold[s] - trade[s].money, trade[p].money) = gold[s] - trade[s].money + trade[p].money
  BY <1>1, MoneyAssumption DEF More
<1> QED BY <1>1, <1>2, <1>3 DEF Paid

LEMMA OnlyPayPays ==
  ASSUME TInv, NEW s \in Sessions, Handle(s)
  PROVE  /\ Pays(s) => Pay(s)
         /\ Stores(s) => Store(s)
<1>1. Pay(s) => ~Stores(s)
  BY PayDoes DEF Stores, At
<1>2. Store(s) => ~Pays(s)
  BY StoreDoes DEF Pays, At
<1>3. ASSUME job'[s].step \notin {"storing", "closing"} \/ job'[s] = Idle \/ UNCHANGED job
      PROVE  ~Pays(s) /\ ~Stores(s)
  BY <1>3, Names DEF Pays, Stores
<1>4. Pay(s) \/ Store(s) \/ job'[s].step \notin {"storing", "closing"} \/ job'[s] = Idle
      \/ UNCHANGED job
  <2>1. CASE Rests(s) \/ OpenWindows(s) \/ FailFit(s) \/ Dereference(s)
    BY <2>1, RestsDo, OpenWindowsDoes, FailFitDoes, DereferenceDoes DEF Rested
  <2>2. CASE InitiateTrade(s) \/ SetTradeItem(s) \/ SetAcceptMode(s)
    BY <2>2, InitiateTradeDoes, SetTradeItemDoes, SetAcceptModeDoes DEF Went
  <2>3. CASE Retables(s) \/ Closes(s)
    BY <2>3, RetablesDo, ClosesDo DEF Rested
  <2>4. CASE UnacceptTrade(s) \/ Spend(s) \/ SendMail(s)
    BY <2>4, UnacceptTradeDoes, SpendDoes, SendMailDoes
  <2>5. CASE AcceptTrade(s)
    BY <2>5, AcceptTradeDoes DEF Went
  <2> QED BY <2>1, <2>2, <2>3, <2>4, <2>5 DEF Handle, Rests, Retables, Closes
<1> QED BY <1>1, <1>2, <1>3, <1>4

LEMMA StepAgreed ==
  ASSUME TInv, PInv, BInv, Serial, NEW s \in Sessions, Handle(s)
  PROVE  \A t \in Sessions : Agreed(t)
<1>1. ASSUME NEW t \in Sessions \ {s} PROVE Agreed(t)
  BY OthersWait, Names DEF Agreed, Pays, Stores
<1>2. CASE Pays(s) \/ Stores(s)
  <2>1. PICK p \in Sessions \ {s} : p = job[s].with
    BY <1>2 DEF TInv, WithInv, Pays, Stores
  <2>2. trade[s].partner = p /\ trade[s].accepted /\ trade[p].accepted
    BY <1>2, <2>1 DEF PInv, BInv, StandsAt, AgreesAt, Exchange, Pays, Stores
  <2>3. trade[p].partner = s
    BY <2>1, <2>2, NamesAssumption DEF PInv, Paired, Open
  <2>4. /\ consent[s] = [give |-> TableOf(s), get |-> TableOf(p)]
        /\ consent[p] = [give |-> TableOf(p), get |-> TableOf(s)]
    BY <2>1, <2>2, <2>3 DEF BInv, Books, Meant
  <2>5. /\ consent[s].give.money = trade[s].money /\ consent[s].get.money = trade[p].money
        /\ consent[p].give.money = trade[p].money /\ consent[p].get.money = trade[s].money
        /\ consent[s].give.items = trade[s].items /\ consent[p].give.items = trade[p].items
    BY <2>4 DEF TableOf
  <2>6. ASSUME Pays(s) PROVE Agreed(s)
    <3>1. gold'[s] = Paid(s, p) /\ gold'[p] = Paid(p, s)
      BY <2>1, <2>6, OnlyPayPays, PayDoes
    <3>2. CanPay(s, p) /\ CanPay(p, s)
      BY <2>1, <2>6 DEF BInv, AgreesAt, Pays, CanPay
    <3>3. /\ gold'[s] - gold[s] = consent[s].get.money - consent[s].give.money
          /\ gold'[p] - gold[p] = consent[p].get.money - consent[p].give.money
      BY <2>1, <2>5, <3>1, <3>2, PaidWhenItCan DEF TInv
    <3>4. ~Stores(s)
      BY <2>6 DEF Pays, Stores
    <3> QED BY <2>1, <3>3, <3>4 DEF Agreed
  <2>7. ASSUME Stores(s) PROVE Agreed(s)
    <3>1. /\ \A i \in trade[s].items : inv[i] \in {s, Nobody}
          /\ \A i \in trade[p].items : inv[i] \in {p, Nobody}
          /\ \A i \in Items :
               /\ i \in trade[s].items => inv'[i] = p
               /\ i \in trade[p].items \ trade[s].items => inv'[i] = s
               /\ i \notin trade[s].items \cup trade[p].items => inv'[i] = inv[i]
      BY <2>1, <2>7, OnlyPayPays, StoreDoes
    <3>2. trade[s].items \cap trade[p].items = {}
      BY <2>1 DEF BInv, Apart
    <3>3. /\ trade[s].items \subseteq Items /\ trade[p].items \subseteq Items
          /\ s # p /\ s # Nobody /\ p # Nobody
      BY <2>1, Fields, NamesAssumption DEF TInv
    <3>4. {i \in Items : inv[i] # inv'[i] /\ inv'[i] = p} = trade[s].items
      BY <3>1, <3>2, <3>3
    <3>5. {i \in Items : inv[i] # inv'[i] /\ inv'[i] = s} = trade[p].items
      BY <3>1, <3>2, <3>3
    <3>6. ~Pays(s)
      BY <2>7 DEF Pays, Stores
    <3>7. ASSUME NEW x \in {s, p}, NEW y \in {s, p}, x # y
          PROVE  {i \in Items : inv[i] # inv'[i] /\ inv'[i] = y} = consent[x].give.items
      <4>1. CASE x = s /\ y = p
        BY <2>5, <3>4, <4>1
      <4>2. CASE x = p /\ y = s
        BY <2>5, <3>5, <4>2
      <4> QED BY <3>7, <4>1, <4>2
    <3> QED BY <2>1, <3>6, <3>7, Zenon DEF Agreed
  <2> QED BY <1>1, <1>2, <2>6, <2>7
<1>3. CASE ~Pays(s) /\ ~Stores(s)
  <2>1. Agreed(s)
    BY <1>3, Zenon DEF Agreed
  <2> QED BY <1>1, <2>1
<1> QED BY <1>1, <1>2, <1>3

\* One handler at a time: what changes hands is what each of the two had before them
\* when they accepted it, gold and items (handleAcceptTrade, completeTrade,
\* applyMoneyDelta).
THEOREM ExchangedAsAgreed == Spec => AsAgreed
<1>1. TInv /\ PInv /\ BInv /\ [Next]_vars => [Serial => \A s \in Sessions : Agreed(s)]_vars
  BY StepAgreed DEF Next
<1> QED BY Pairs, Booked, <1>1, PTL DEF Spec, AsAgreed

=============================================================================
