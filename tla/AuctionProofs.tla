--------------------------- MODULE AuctionProofs ---------------------------
(***************************************************************************)
(* Proofs about the auction house with one handler at a time, for any      *)
(* players, items, prices and rates.                                       *)
(***************************************************************************)
EXTENDS AuctionHouse, FiniteSetTheorems, WellFoundedInduction, TLAPS

\* The fields of a row that no passing of time changes.
Same(row, other) ==
  /\ row.item = other.item /\ row.seller = other.seller /\ row.buyout = other.buyout
  /\ row.bidder = other.bidder /\ row.bid = other.bid

Good(row) == /\ row \in Row /\ row.bidder # row.seller
             /\ row.bidder = Nobody <=> row.bid = 0
             /\ row.buyout > 0 => row.bid < row.buyout

IsJob(j) == /\ j = [step |-> j.step, todo |-> j.todo, id |-> j.id, price |-> j.price, row |-> j.row]
            /\ j.step \in Steps /\ j.price \in Nat

\* One handler at a time.
OneJob == \A p, q \in Players : job[p] # Idle /\ job[q] # Idle => p = q

\* What a handler read is still so when it acts, but for the time left.
StandsAt(p) ==
  /\ job[p].step = "sweeping" => \A id \in DOMAIN job[p].todo :
       id \in Live /\ job[p].todo[id] = auctions[id] /\ auctions[id].due
  /\ job[p].step \in {"bidding", "cancelling"} =>
       job[p].id \in Live /\ Same(job[p].row, auctions[job[p].id])
  /\ job[p].step = "bidding" => /\ job[p].row.seller # p /\ job[p].price > job[p].row.bid
  /\ job[p].step = "cancelling" => job[p].row.seller = p
  /\ job[p].step \in {"moved", "selling"} =>
       /\ Good(job[p].row) /\ job[p].row.bidder = Nobody /\ job[p].row.seller = p
       /\ ~Listed(job[p].row.item) /\ owner[job[p].row.item] = p
  /\ job[p].step = "selling" => job[p].id \in Ids \ Live

OneAuction == \A x, y \in Live : auctions[x].item = auctions[y].item => x = y

\* Where an item is.  Of what is in a bag and in no letter, the owner is the one
\* that carries it: what he puts up leaves his bag.
Carried(i) == bag[i] # Nobody
Posted(i) == parcel[i] # Nobody
Held(i) ==
  /\ Carried(i) \/ Posted(i) \/ Listed(i) \/ Selling(i)
  /\ Carried(i) /\ ~Posted(i) => owner[i] = bag[i]

\* Exactly one of four.
One(a, b, c, d) == /\ a \/ b \/ c \/ d
                   /\ (a => ~b /\ ~c /\ ~d) /\ (b => ~c /\ ~d) /\ (c => ~d)
InOne(i) == One(Carried(i), Posted(i), Listed(i), Selling(i))

\* What a step does to items that are in one place.
Stays == \A i \in Items : InOne(i) /\ ~FromLetter(i) => InOne(i)'

RowsOK == /\ Live \subseteq Ids /\ \A id \in Live : Good(auctions[id])
          /\ auctions = [id \in Live |-> auctions[id]]
HandsOK == /\ bag \in [Items -> Players \cup {Nobody}] /\ owner \in [Items -> Players]
           /\ parcel \in [Items -> Players \cup {Nobody}]
GoldOK == post \in [Players -> Nat] /\ purse \in [Players -> Nat]
JobsOK == /\ job = [p \in Players |-> job[p]] /\ \A p \in Players : IsJob(job[p])

TInv == RowsOK /\ HandsOK /\ GoldOK /\ JobsOK
PInv == OneJob /\ \A p \in Players : StandsAt(p)
IInv == TInv /\ PInv /\ OneAuction /\ \A i \in Items : Held(i)

-----------------------------------------------------------------------------
(* Numbers *)

LEMMA CutIs == ASSUME NEW bid \in Nat PROVE Cut(bid) \in 0..bid
<1>1. CutPercent \in Nat /\ CutPercent <= 100
  BY AuctionAssumption
<1> DEFINE x == bid * CutPercent
<1>2. x \in Nat /\ x <= bid * 100
  BY <1>1
<1> HIDE DEF x
<1>3. x \div 100 \in 0..bid
  BY <1>2
<1> QED BY <1>3 DEF Cut, x

LEMMA ProfitIs == ASSUME NEW bid \in Nat PROVE Profit(bid) \in Nat
<1>1. Cut(bid) \in Int /\ 0 <= Cut(bid) /\ Cut(bid) <= bid /\ Deposit \in Nat
  BY CutIs, AuctionAssumption
<1> HIDE DEF Cut
<1> QED BY <1>1 DEF Profit

\* The newest auction has the greatest id.
LEMMA NewestIs ==
  ASSUME RowsOK, Live # {}
  PROVE  \E m \in Live : \A id \in Live : id <= m
<1> DEFINE T == {MaxId - id : id \in Live}
           R == {ss \in Nat \X Nat : ss[1] < ss[2]}
<1>1. IsWellFoundedOn(R, Nat)
  BY NatLessThanWellFounded DEF OpToRel
<1>2. MaxId \in Nat /\ Live \subseteq 1..MaxId
  BY AuctionAssumption DEF RowsOK, Ids
<1>3. T \subseteq Nat /\ T # {}
  <2>1. \A id \in Live : MaxId - id \in Nat
    BY <1>2
  <2> QED BY <2>1
<1>4. PICK x \in T : \A y \in T : ~(<<y, x>> \in R)
  BY <1>1, <1>3, WFMin
<1>5. PICK m \in Live : x = MaxId - m
  BY <1>4
<1>6. ASSUME NEW id \in Live PROVE id <= m
  <2>1. MaxId - id \in T /\ MaxId - id \in Nat /\ x \in Nat
    BY <1>2, <1>3, <1>4
  <2>2. ~(MaxId - id < x)
    BY <1>4, <2>1
  <2> QED BY <1>2, <1>5, <2>1, <2>2
<1> QED BY <1>6

LEMMA NextIdIsNew == ASSUME RowsOK PROVE NextId \notin Live
<1>1. CASE Live = {}
  BY <1>1
<1>2. CASE Live # {}
  <2> DEFINE m == CHOOSE m \in Live : \A id \in Live : id <= m
  <2>1. m \in Live /\ \A id \in Live : id <= m
    BY <1>2, NewestIs
  <2>2. NextId = 1 + m
    BY <1>2 DEF NextId
  <2> HIDE DEF m
  <2>3. m \in Nat
    BY <2>1 DEF RowsOK, Ids
  <2> QED BY <2>1, <2>2, <2>3
<1> QED BY <1>1, <1>2

-----------------------------------------------------------------------------
(* Sums.  The fold is a recursive function on sets of its arguments; that it *)
(* exists, and what it is whatever the order, comes from counting the units. *)

\* One unit for each that a value of f has.
Pile(f, x) == {<<x, k>> : k \in 1..f[x]}
Units(f, s) == UNION {Pile(f, x) : x \in s}

LEMMA PileIs ==
  ASSUME NEW f, NEW x, f[x] \in Nat
  PROVE  IsFiniteSet(Pile(f, x)) /\ Cardinality(Pile(f, x)) = f[x]
<1> DEFINE S == 1..f[x]
           b == [k \in S |-> <<x, k>>]
<1>1. b \in Bijection(S, Pile(f, x))
  BY DEF Bijection, Injection, Surjection, Pile, IsInjective
<1>2. IsFiniteSet(S) /\ Cardinality(S) = f[x]
  BY FS_Interval
<1>3. ExistsBijection(S, Pile(f, x))
  BY <1>1 DEF ExistsBijection
<1> HIDE DEF S
<1> QED BY <1>2, <1>3, FS_Bijection

LEMMA UnitsAre ==
  ASSUME NEW f, NEW D, IsFiniteSet(D), \A x \in D : f[x] \in Nat
  PROVE  /\ Units(f, {}) = {}
         /\ \A s \in SUBSET D : IsFiniteSet(Units(f, s)) /\ Cardinality(Units(f, s)) \in Nat
         /\ \A s \in SUBSET D : \A x \in s :
              Cardinality(Units(f, s)) = f[x] + Cardinality(Units(f, s \ {x}))
<1>1. Units(f, {}) = {}
  BY DEF Units
<1>2. ASSUME NEW s \in SUBSET D
      PROVE  IsFiniteSet(Units(f, s)) /\ Cardinality(Units(f, s)) \in Nat
  <2>1. IsFiniteSet(s)
    BY FS_Subset
  <2>2. \A x \in s : IsFiniteSet(Pile(f, x))
    BY PileIs
  <2>3. IsFiniteSet({Pile(f, x) : x \in s})
    <3>1. [x \in s |-> Pile(f, x)] \in Surjection(s, {Pile(f, x) : x \in s})
      BY DEF Surjection
    <3> QED BY <2>1, <3>1, FS_Surjection
  <2>4. IsFiniteSet(Units(f, s))
    BY <2>2, <2>3, FS_UNION DEF Units
  <2> QED BY <2>4, FS_CardinalityType
<1>3. ASSUME NEW s \in SUBSET D, NEW x \in s
      PROVE  Cardinality(Units(f, s)) = f[x] + Cardinality(Units(f, s \ {x}))
  <2> DEFINE rest == Units(f, s \ {x})
  <2>1. Units(f, s) = Pile(f, x) \cup rest
    BY DEF Units
  <2>2. Pile(f, x) \cap rest = {}
    BY DEF Units, Pile
  <2>3. IsFiniteSet(rest) /\ Cardinality(rest) \in Nat
    BY <1>2
  <2>4. IsFiniteSet(Pile(f, x)) /\ Cardinality(Pile(f, x)) = f[x] /\ f[x] \in Nat
    BY PileIs
  <2> HIDE DEF rest
  <2>5. Cardinality(Pile(f, x) \cup rest) = Cardinality(Pile(f, x)) + Cardinality(rest) - Cardinality({})
    BY <2>2, <2>3, <2>4, FS_Union
  <2>6. Cardinality({}) = 0
    BY FS_EmptySet
  <2> QED BY <2>1, <2>3, <2>4, <2>5, <2>6 DEF rest
<1> QED BY <1>1, <1>2, <1>3

\* A step of the fold.
SumStep(f, g, s) == IF s = {} THEN 0 ELSE LET x == CHOOSE y \in s : TRUE IN f[x] + g[s \ {x}]
IsSum(f, g) == g = [s \in SUBSET DOMAIN f |-> SumStep(f, g, s)]

LEMMA SumIs == ASSUME NEW f PROVE Sum(f) = (CHOOSE g : IsSum(f, g))[DOMAIN f]
  BY DEF Sum, FoldFunction, FoldFunctionOnSet, MapThenFoldSet, SumStep, IsSum

LEMMA UnitsSum ==
  ASSUME NEW f, IsFiniteSet(DOMAIN f), \A x \in DOMAIN f : f[x] \in Nat
  PROVE  IsSum(f, [s \in SUBSET DOMAIN f |-> Cardinality(Units(f, s))])
<1> DEFINE g == [s \in SUBSET DOMAIN f |-> Cardinality(Units(f, s))]
<1>1. ASSUME NEW s \in SUBSET DOMAIN f PROVE Cardinality(Units(f, s)) = SumStep(f, g, s)
  <2>1. CASE s = {}
    BY <2>1, UnitsAre, FS_EmptySet DEF SumStep
  <2>2. CASE s # {}
    <3>1. PICK x \in s : x = CHOOSE y \in s : TRUE
      BY <2>2
    <3>2. SumStep(f, g, s) = f[x] + g[s \ {x}]
      BY <2>2, <3>1 DEF SumStep
    <3>3. g[s \ {x}] = Cardinality(Units(f, s \ {x}))
      OBVIOUS
    <3>4. Cardinality(Units(f, s)) = f[x] + Cardinality(Units(f, s \ {x}))
      BY UnitsAre
    <3> HIDE DEF g
    <3> QED BY <3>2, <3>3, <3>4
  <2> QED BY <2>1, <2>2
<1> QED BY <1>1 DEF IsSum

\* No other function solves it: two of them would differ on a smallest set.
LEMMA SumsAgree ==
  ASSUME NEW f, IsFiniteSet(DOMAIN f), NEW g, IsSum(f, g), NEW h, IsSum(f, h)
  PROVE  g[DOMAIN f] = h[DOMAIN f]
<1> DEFINE S == DOMAIN f
           T == {s \in SUBSET S : g[s] # h[s]}
<1> SUFFICES ASSUME T # {} PROVE FALSE
  OBVIOUS
<1>1. IsWellFoundedOn(StrictSubsetOrdering(S), SUBSET S)
  BY FS_StrictSubsetOrderingWellFounded, FS_FiniteSubsetsOfFinite
<1>2. PICK s \in T : \A r \in T : <<r, s>> \notin StrictSubsetOrdering(S)
  <2>1. T \subseteq SUBSET S
    OBVIOUS
  <2> HIDE DEF T
  <2> QED BY <1>1, <2>1, WFMin
<1>3. g[s] = SumStep(f, g, s) /\ h[s] = SumStep(f, h, s)
  BY DEF IsSum
<1>4. ASSUME s # {} PROVE FALSE
  <2>1. PICK x \in s : x = CHOOSE y \in s : TRUE
    BY <1>4
  <2>2. g[s \ {x}] = h[s \ {x}]
    <3>1. <<s \ {x}, s>> \in StrictSubsetOrdering(S)
      BY DEF StrictSubsetOrdering
    <3> QED BY <1>2, <3>1
  <2>3. g[s] = h[s]
    BY <1>3, <1>4, <2>1, <2>2 DEF SumStep
  <2> QED BY <2>3
<1> QED BY <1>3, <1>4 DEF SumStep

\* What the sum is.
LEMMA SumCounts ==
  ASSUME NEW f, IsFiniteSet(DOMAIN f), \A x \in DOMAIN f : f[x] \in Nat
  PROVE  Sum(f) = Cardinality(Units(f, DOMAIN f)) /\ Sum(f) \in Nat
<1> DEFINE u == [s \in SUBSET DOMAIN f |-> Cardinality(Units(f, s))]
           g == CHOOSE g : IsSum(f, g)
<1>1. IsSum(f, u)
  BY UnitsSum
<1>2. u[DOMAIN f] = Cardinality(Units(f, DOMAIN f))
  OBVIOUS
<1> HIDE DEF u
<1>3. IsSum(f, g)
  BY <1>1
<1>4. Sum(f) = g[DOMAIN f]
  BY SumIs
<1> HIDE DEF g
<1>5. Sum(f) = Cardinality(Units(f, DOMAIN f))
  BY <1>1, <1>2, <1>3, <1>4, SumsAgree
<1> QED BY <1>5, UnitsAre

\* One argument counts by itself.
LEMMA SumApart ==
  ASSUME NEW D, IsFiniteSet(D), NEW f \in [D -> Nat], NEW x \in D
  PROVE  /\ Sum(f) \in Nat
         /\ Sum(f) = f[x] + Sum([y \in D \ {x} |-> f[y]])
         /\ Sum([y \in D \ {x} |-> f[y]]) \in Nat
<1> DEFINE h == [y \in D \ {x} |-> f[y]]
<1>1. DOMAIN f = D /\ DOMAIN h = D \ {x} /\ IsFiniteSet(D \ {x})
  BY FS_RemoveElement
<1>2. /\ \A y \in DOMAIN f : f[y] \in Nat
      /\ \A y \in DOMAIN h : h[y] = f[y] /\ h[y] \in Nat
  OBVIOUS
<1> HIDE DEF h
<1>3. /\ Sum(f) = Cardinality(Units(f, D)) /\ Sum(f) \in Nat
      /\ Sum(h) = Cardinality(Units(h, D \ {x})) /\ Sum(h) \in Nat
  BY <1>1, <1>2, SumCounts
<1>4. Units(h, D \ {x}) = Units(f, D \ {x})
  BY <1>1, <1>2 DEF Units, Pile
<1>5. Cardinality(Units(f, D)) = f[x] + Cardinality(Units(f, D \ {x}))
  BY <1>1, <1>2, UnitsAre
<1> QED BY <1>3, <1>4, <1>5 DEF h

\* A change of one value changes the sum by as much.
LEMMA SumChanges ==
  ASSUME NEW D, IsFiniteSet(D), NEW f \in [D -> Nat], NEW x \in D, NEW v \in Nat
  PROVE  /\ Sum(f) \in Nat /\ Sum([f EXCEPT ![x] = v]) \in Nat
         /\ Sum([f EXCEPT ![x] = v]) = Sum(f) - f[x] + v
<1> PICK g : g = [f EXCEPT ![x] = v]
  OBVIOUS
<1>1. g \in [D -> Nat] /\ g[x] = v /\ f[x] \in Nat
  OBVIOUS
<1>2. [y \in D \ {x} |-> g[y]] = [y \in D \ {x} |-> f[y]]
  OBVIOUS
<1>3. PICK n \in Nat : n = Sum([y \in D \ {x} |-> f[y]])
  BY SumApart
<1>4. Sum(f) = f[x] + n /\ Sum(f) \in Nat
  BY <1>3, SumApart
<1>5. Sum(g) = g[x] + Sum([y \in D \ {x} |-> g[y]]) /\ Sum(g) \in Nat
  BY <1>1, SumApart
<1>6. Sum(g) = v + n
  BY <1>1, <1>2, <1>3, <1>5
<1>7. Sum(g) = Sum(f) - f[x] + v
  BY <1>1, <1>4, <1>6
<1> QED BY <1>4, <1>5, <1>7

-----------------------------------------------------------------------------
(* Parts of a step *)

LEMMA Names == Idle.step = "idle" /\ Idle.price = 0 /\ IsJob(Idle)
  BY DEF Idle, IsJob, Steps

\* The handler of p goes on, or ends.
Others(p) == \A q \in Players \ {p} : job'[q] = job[q]

LEMMA JobMoves ==
  ASSUME JobsOK, NEW p \in Players
  PROVE  /\ Finish(p) => JobsOK' /\ job'[p] = Idle /\ Others(p)
         /\ \A j : IsJob(j) /\ job' = [job EXCEPT ![p] = j] => JobsOK' /\ job'[p] = j /\ Others(p)
<1>1. ASSUME NEW j, IsJob(j), job' = [job EXCEPT ![p] = j]
      PROVE  JobsOK' /\ job'[p] = j /\ Others(p)
  <2>1. job' = [q \in Players |-> IF q = p THEN j ELSE job[q]]
    BY <1>1 DEF JobsOK
  <2>2. \A q \in Players : job'[q] = IF q = p THEN j ELSE job[q]
    BY <2>1
  <2>3. \A q \in Players : IsJob(job'[q])
    BY <1>1, <2>2 DEF JobsOK
  <2>4. job' = [q \in Players |-> job'[q]]
    BY <2>1
  <2> QED BY <2>2, <2>3, <2>4 DEF JobsOK, Others, IsJob
<1> QED BY <1>1, Names DEF Finish

LEMMA RowFields ==
  ASSUME NEW row, Good(row)
  PROVE  /\ row.item \in Items /\ row.seller \in Players /\ row.buyout \in Nat
         /\ row.due \in BOOLEAN /\ row.bidder \in Players \cup {Nobody} /\ row.bid \in Nat
         /\ row.bidder # row.seller /\ (row.bidder = Nobody <=> row.bid = 0)
         /\ (row.buyout > 0 => row.bid < row.buyout)
  BY DEF Good, Row

LEMMA OthersWait ==
  ASSUME Racers = {}, IInv, NEW p \in Players, Handle(p)
  PROVE  \A q \in Players \ {p} : job[q] = Idle
<1>1. MayStart(p) \/ job[p] # Idle
  BY Names DEF Handle, Visit, ExpireAuction, Look, Swept, PlaceBid, BuyOut, RemoveItem, SellItem,
               NumberAuction, AddAuction, TakeItem, TakeMoney
<1> QED BY <1>1 DEF MayStart, IInv, PInv, OneJob

\* With the others idle a step answers for its own handler alone.
LEMMA Alone ==
  ASSUME NEW p \in Players, \A q \in Players \ {p} : job[q] = Idle, Others(p), StandsAt(p)'
  PROVE  PInv'
<1>1. \A q \in Players \ {p} : job'[q] = Idle
  BY DEF Others
<1>2. OneJob'
  BY <1>1 DEF OneJob
<1>3. \A q \in Players \ {p} : StandsAt(q)'
  BY <1>1, Names DEF StandsAt
<1> QED BY <1>2, <1>3 DEF PInv

NoSale == \A q \in Players : job[q].step \notin {"moved", "selling"}

LEMMA Unmoved ==
  ASSUME IInv, UNCHANGED <<bag, owner, parcel>>, NoSale, NoSale',
         \A i \in Items : Listed(i)' <=> Listed(i)
  PROVE  Stays /\ \A i \in Items : Held(i)'
<1>1. \A i \in Items : ~Selling(i) /\ ~Selling(i)'
  BY DEF NoSale, Selling
<1> QED BY <1>1 DEF IInv, Held, Stays, InOne, One, Carried, Posted

\* An auction ends, and its item goes into the mail.
Ends(id, to) ==
  /\ auctions' = Without(id) /\ parcel' = Mailed(auctions[id].item, to)
  /\ UNCHANGED bag /\ NoSale /\ NoSale'
  /\ \A i \in Items \ {auctions[id].item} : owner'[i] = owner[i]

LEMMA EndsDo ==
  ASSUME IInv, NEW id \in Live, NEW to \in Players, Ends(id, to)
  PROVE  /\ RowsOK' /\ OneAuction' /\ Live' = Live \ {id}
         /\ \A x \in Live \ {id} : auctions'[x] = auctions[x]
         /\ parcel' \in [Items -> Players \cup {Nobody}]
         /\ Stays /\ \A i \in Items : Held(i)'
<1> USE DEF IInv, TInv
<1>0. PICK it \in Items : it = auctions[id].item /\ Listed(it)
  BY RowFields DEF RowsOK, Listed
<1>1. auctions' = [x \in Live \ {id} |-> auctions[x]]
  BY DEF Ends, Without, Restrict
<1>2. Live' = Live \ {id} /\ \A x \in Live \ {id} : auctions'[x] = auctions[x]
  BY <1>1 DEF Live
<1>3. RowsOK'
  <2>1. auctions' = [x \in Live' |-> auctions'[x]]
    BY <1>1, <1>2
  <2>2. Live' \subseteq Ids /\ \A x \in Live' : Good(auctions[x])'
    BY <1>2 DEF RowsOK, Good
  <2> QED BY <2>1, <2>2 DEF RowsOK
<1>4. OneAuction'
  BY <1>2 DEF OneAuction
<1>5. parcel' = Mailed(it, to) /\ parcel \in [Items -> Players \cup {Nobody}] /\ to # Nobody
  BY <1>0, AuctionAssumption DEF Ends, HandsOK
<1>6. /\ parcel' \in [Items -> Players \cup {Nobody}] /\ parcel'[it] # Nobody
      /\ \A i \in Items \ {it} : parcel'[i] = parcel[i]
  BY <1>5 DEF Mailed
<1>7. ~Listed(it)' /\ \A i \in Items \ {it} : Listed(i)' <=> Listed(i)
  <2>1. ~Listed(it)'
    BY <1>0, <1>2 DEF Listed, OneAuction
  <2>2. ASSUME NEW i \in Items \ {it} PROVE Listed(i)' <=> Listed(i)
    BY <1>0, <1>2, <2>2 DEF Listed
  <2> QED BY <2>1, <2>2
<1>8. \A i \in Items : ~Selling(i) /\ ~Selling(i)'
  BY DEF Ends, NoSale, Selling
<1>9. Held(it)' /\ (InOne(it) => InOne(it)')
  <2>1. Posted(it)' /\ (Carried(it)' <=> Carried(it))
    BY <1>6 DEF Posted, Carried, Ends
  <2> QED BY <1>0, <1>7, <1>8, <2>1 DEF Held, InOne, One
<1>10. ASSUME NEW i \in Items \ {it} PROVE Held(i)' /\ (InOne(i) => InOne(i)')
  <2>1. (Posted(i)' <=> Posted(i)) /\ (Carried(i)' <=> Carried(i)) /\ owner'[i] = owner[i] /\ bag' = bag
    BY <1>0, <1>6 DEF Posted, Carried, Ends
  <2>2. Held(i) /\ (Listed(i)' <=> Listed(i)) /\ ~Selling(i) /\ ~Selling(i)'
    BY <1>7, <1>8
  <2> QED BY <2>1, <2>2 DEF Held, InOne, One
<1>11. Stays /\ \A i \in Items : Held(i)'
  BY <1>9, <1>10 DEF Stays
<1> QED BY <1>2, <1>3, <1>4, <1>6, <1>11

-----------------------------------------------------------------------------
(* Steps *)

\* The handler of p is alone.
Single(p) == IInv /\ Handle(p) /\ \A q \in Players \ {p} : job[q] = Idle

LEMMA NoSales ==
  ASSUME NEW p \in Players, Single(p)
  PROVE  /\ job[p].step \notin {"moved", "selling"} => NoSale
         /\ Others(p) /\ job'[p].step \notin {"moved", "selling"} => NoSale'
  BY Names DEF Single, NoSale, Others

LEMMA VisitStep ==
  ASSUME NEW p \in Players, Single(p), Visit(p)
  PROVE  IInv' /\ Stays
<1> USE DEF Single, IInv, TInv
<1> DEFINE due == Restrict(auctions, {x \in Live : auctions[x].due})
           j == [step |-> "sweeping", todo |-> due, id |-> 0, price |-> 0, row |-> <<>>]
<1>1. IsJob(j)
  BY DEF IsJob, Steps
<1>2. \A x \in DOMAIN j.todo : x \in Live /\ j.todo[x] = auctions[x] /\ auctions[x].due
  BY DEF Restrict
<1> HIDE DEF due
<1>3. job' = [job EXCEPT ![p] = j]
  BY DEF Visit, due
<1> HIDE DEF j
<1>4. JobsOK' /\ job'[p] = j /\ Others(p)
  BY <1>1, <1>3, JobMoves
<1>5. j.step = "sweeping" /\ job[p].step = "idle"
  BY Names DEF j, Visit, MayStart
<1>6. UNCHANGED <<auctions, bag, owner, parcel, post, purse>>
  BY DEF Visit
<1>7. StandsAt(p)'
  BY <1>2, <1>4, <1>5, <1>6 DEF StandsAt, Live
<1>8. PInv'
  BY <1>4, <1>7, Alone
<1>9. Stays /\ \A i \in Items : Held(i)'
  BY <1>4, <1>5, <1>6, NoSales, Unmoved DEF Listed, Live
<1>10. RowsOK' /\ HandsOK' /\ GoldOK' /\ OneAuction'
  BY <1>6 DEF RowsOK, HandsOK, GoldOK, OneAuction, Live, Good
<1> QED BY <1>4, <1>8, <1>9, <1>10

LEMMA LookStep ==
  ASSUME NEW p \in Players, Single(p), Look(p)
  PROVE  IInv' /\ Stays
<1> USE DEF Single, IInv, TInv
<1>0. UNCHANGED <<auctions, bag, owner, parcel, post, purse>> /\ job[p].step = "sweeping"
  BY DEF Look, Swept
<1>1. ASSUME NEW step \in {"bidding", "cancelling"}, NEW id \in Live, NEW price \in Nat,
             job' = [job EXCEPT ![p] =
               [step |-> step, todo |-> <<>>, id |-> id, price |-> price, row |-> auctions[id]]],
             step = "bidding" => MayBid(p, auctions[id], price),
             step = "cancelling" => MayCancel(p, auctions[id])
      PROVE  JobsOK' /\ Others(p) /\ StandsAt(p)' /\ job'[p].step \notin {"moved", "selling"}
  <2> DEFINE j == [step |-> step, todo |-> <<>>, id |-> id, price |-> price, row |-> auctions[id]]
  <2>1. IsJob(j)
    BY <1>1 DEF IsJob, Steps
  <2>2. job' = [job EXCEPT ![p] = j]
    BY <1>1
  <2>3. j.step = step /\ j.id = id /\ j.row = auctions[id] /\ j.price = price
    OBVIOUS
  <2> HIDE DEF j
  <2>4. JobsOK' /\ job'[p] = j /\ Others(p)
    BY <2>1, <2>2, JobMoves
  <2>5. step = "bidding" => j.row.seller # p /\ j.price > j.row.bid
    BY <1>1, <2>3 DEF MayBid
  <2>6. step = "cancelling" => j.row.seller = p
    BY <1>1, <2>3 DEF MayCancel
  <2>7. StandsAt(p)'
    BY <1>0, <1>1, <2>3, <2>4, <2>5, <2>6 DEF StandsAt, Same, Live
  <2> QED BY <1>1, <2>3, <2>4, <2>7
<1>2. ASSUME Finish(p)
      PROVE  JobsOK' /\ Others(p) /\ StandsAt(p)' /\ job'[p].step \notin {"moved", "selling"}
  BY <1>2, JobMoves, Names DEF StandsAt
<1>3. JobsOK' /\ Others(p) /\ StandsAt(p)' /\ job'[p].step \notin {"moved", "selling"}
  <2>1. Prices \subseteq Nat
    BY AuctionAssumption
  <2> QED BY <1>1, <1>2, <2>1 DEF Look
<1>4. PInv'
  BY <1>3, Alone
<1>5. Stays /\ \A i \in Items : Held(i)'
  BY <1>0, <1>3, NoSales, Unmoved DEF Listed, Live
<1>6. RowsOK' /\ HandsOK' /\ GoldOK' /\ OneAuction'
  BY <1>0 DEF RowsOK, HandsOK, GoldOK, OneAuction, Live, Good
<1> QED BY <1>3, <1>4, <1>5, <1>6

LEMMA Expires ==
  ASSUME NEW p \in Players, ExpireAuction(p)
  PROVE  \E id \in DOMAIN job[p].todo :
        LET row == job[p].todo[id]
            sold == row.bidder # Nobody
            rest == Restrict(job[p].todo, DOMAIN job[p].todo \ {id})
        IN /\ auctions' = Without(id)
           /\ post' = IF sold THEN [post EXCEPT ![row.seller] = @ + Profit(row.bid)] ELSE post
           /\ parcel' = Mailed(row.item, IF sold THEN row.bidder ELSE row.seller)
           /\ owner' = IF sold THEN [owner EXCEPT ![row.item] = row.bidder] ELSE owner
           /\ job' = [job EXCEPT ![p] = [@ EXCEPT !.todo = rest]]
           /\ UNCHANGED <<bag, purse>>
BY Zenon DEF ExpireAuction

LEMMA SweptRow ==
  ASSUME RowsOK, PInv, NEW p \in Players, job[p].step = "sweeping", NEW id \in DOMAIN job[p].todo
  PROVE  id \in Live /\ job[p].todo[id] = auctions[id] /\ Good(auctions[id])
<1>1. id \in Live /\ job[p].todo[id] = auctions[id]
  BY DEF PInv, StandsAt
<1> QED  BY <1>1 DEF RowsOK

LEMMA ExpireAuctionStep ==
  ASSUME NEW p \in Players, Single(p), ExpireAuction(p)
  PROVE  IInv' /\ Stays
<1> USE DEF Single, IInv, TInv
<1>1. PICK id \in DOMAIN job[p].todo :
        LET row == job[p].todo[id]
            sold == row.bidder # Nobody
            rest == Restrict(job[p].todo, DOMAIN job[p].todo \ {id})
        IN /\ auctions' = Without(id)
           /\ post' = IF sold THEN [post EXCEPT ![row.seller] = @ + Profit(row.bid)] ELSE post
           /\ parcel' = Mailed(row.item, IF sold THEN row.bidder ELSE row.seller)
           /\ owner' = IF sold THEN [owner EXCEPT ![row.item] = row.bidder] ELSE owner
           /\ job' = [job EXCEPT ![p] = [@ EXCEPT !.todo = rest]]
           /\ UNCHANGED <<bag, purse>>
  BY Expires
<1>2. job[p].step = "sweeping"
  BY DEF ExpireAuction
<1>3. id \in Live /\ job[p].todo[id] = auctions[id]
  BY <1>2 DEF PInv, StandsAt
<1>4. Good(auctions[id])
  BY <1>3 DEF RowsOK
<1>5. PICK to \in Players :
        to = IF auctions[id].bidder # Nobody THEN auctions[id].bidder ELSE auctions[id].seller
  BY <1>4, RowFields
<1> DEFINE todo == Restrict(job[p].todo, DOMAIN job[p].todo \ {id})
           j == [step |-> job[p].step, todo |-> todo, id |-> job[p].id,
                 price |-> job[p].price, row |-> job[p].row]
<1>6. IsJob(job[p]) /\ job = [q \in Players |-> job[q]]
  BY DEF JobsOK
<1>7. [job[p] EXCEPT !.todo = todo] = j /\ IsJob(j)
  BY <1>6 DEF IsJob
<1>8. job' = [job EXCEPT ![p] = j]
  <2>1. job' = [job EXCEPT ![p] = [job[p] EXCEPT !.todo = todo]]
    BY <1>1, <1>6
  <2> QED BY <1>7, <2>1
<1>9. /\ j.step = "sweeping"
      /\ DOMAIN j.todo = DOMAIN job[p].todo \ {id}
      /\ \A x \in DOMAIN j.todo : j.todo[x] = job[p].todo[x]
  BY <1>2 DEF Restrict
<1>10. IsJob(j)
  BY <1>7
<1> HIDE DEF j, todo
<1>11. JobsOK' /\ job'[p] = j /\ Others(p)
  BY <1>8, <1>10, JobMoves
<1>a. owner' \in [Items -> Players] /\ \A i \in Items \ {auctions[id].item} : owner'[i] = owner[i]
  <2>1. owner' = owner \/ owner' = [owner EXCEPT ![auctions[id].item] = to]
    BY <1>1, <1>3, <1>5
  <2> QED BY <2>1 DEF HandsOK
<1>12. Ends(id, to)
  BY <1>1, <1>2, <1>3, <1>5, <1>9, <1>11, <1>a, NoSales DEF Ends
<1>13. /\ RowsOK' /\ OneAuction' /\ Live' = Live \ {id}
       /\ \A x \in Live \ {id} : auctions'[x] = auctions[x]
       /\ parcel' \in [Items -> Players \cup {Nobody}]
       /\ Stays /\ \A i \in Items : Held(i)'
  BY <1>3, <1>12, EndsDo
<1>14. HandsOK'
  BY <1>1, <1>13, <1>a DEF HandsOK
<1>15. GoldOK'
  <2>1. Profit(auctions[id].bid) \in Nat /\ auctions[id].seller \in Players
    BY <1>4, RowFields, ProfitIs
  <2> HIDE DEF Profit
  <2>2. post' \in [Players -> Nat]
    BY <1>1, <1>3, <2>1 DEF GoldOK
  <2> QED BY <1>1, <2>2 DEF GoldOK
<1>16. StandsAt(p)'
  BY <1>2, <1>9, <1>11, <1>13 DEF PInv, StandsAt
<1>17. PInv'
  BY <1>11, <1>16, Alone
<1> QED BY <1>11, <1>13, <1>14, <1>15, <1>17

\* Where a handler ends, there is nothing to keep for it.
LEMMA Finished ==
  ASSUME NEW p \in Players, Single(p), Finish(p)
  PROVE  JobsOK' /\ PInv' /\ NoSale' /\ job'[p] = Idle
<1>1. JobsOK' /\ job'[p] = Idle /\ Others(p)
  BY JobMoves DEF Single, IInv, TInv
<1>2. StandsAt(p)'
  BY <1>1, Names DEF StandsAt
<1> QED BY <1>1, <1>2, Alone, NoSales, Names DEF Single

LEMMA LessIs == ASSUME NEW gold \in Nat, NEW d \in Int, d >= 0 PROVE Less(gold, d) \in Nat
  BY DEF Less

LEMMA RefundedIs ==
  ASSUME GoldOK, NEW row, row.bidder \in Players \cup {Nobody}, row.bid \in Nat, NEW p
  PROVE  /\ Refunded(row, p) \in [Players -> Nat]
         /\ \A q \in Players : Refunded(row, p)[q] >= post[q]
         /\ row.bidder \notin {Nobody, p} =>
              Refunded(row, p)[row.bidder] = post[row.bidder] + row.bid
<1>1. post \in [Players -> Nat]
  BY DEF GoldOK
<1>2. CASE row.bidder \in {Nobody, p}
  BY <1>1, <1>2 DEF Refunded
<1>3. CASE row.bidder \notin {Nobody, p}
  <2>1. Refunded(row, p) = [post EXCEPT ![row.bidder] = post[row.bidder] + row.bid]
    BY <1>3 DEF Refunded
  <2>2. row.bidder \in Players
    BY <1>3
  <2> QED BY <1>1, <1>3, <2>1, <2>2
<1> QED BY <1>2, <1>3

\* The row in the hands of a bidder or a seller that cancels.
LEMMA InHand ==
  ASSUME IInv, NEW p \in Players, job[p].step \in {"bidding", "cancelling"}
  PROVE  /\ job[p].id \in Live /\ Good(auctions[job[p].id])
         /\ Same(job[p].row, auctions[job[p].id])
         /\ job[p].row.item \in Items /\ job[p].row.seller \in Players
         /\ job[p].row.bidder \in Players \cup {Nobody} /\ job[p].row.bid \in Nat
         /\ job[p].row.bidder # job[p].row.seller /\ job[p].row.buyout \in Nat
         /\ (job[p].row.buyout > 0 => job[p].row.bid < job[p].row.buyout)
<1>1. job[p].id \in Live /\ Same(job[p].row, auctions[job[p].id])
  BY DEF IInv, PInv, StandsAt
<1>2. Good(auctions[job[p].id])
  BY <1>1 DEF IInv, TInv, RowsOK
<1> QED BY <1>1, <1>2, RowFields DEF Same

LEMMA PlaceBidStep ==
  ASSUME NEW p \in Players, Single(p), PlaceBid(p)
  PROVE  IInv' /\ Stays
<1> USE DEF Single, IInv, TInv
<1>1. PICK id \in Live, price \in Nat :
        /\ id = job[p].id /\ price = job[p].price /\ Good(auctions[id])
        /\ Same(job[p].row, auctions[id]) /\ job[p].row.seller # p /\ price > job[p].row.bid
        /\ ~BuysOut(auctions[id], price)
  BY InHand DEF PlaceBid, PInv, StandsAt, JobsOK, IsJob, BuysOut, Same
<1>2. auctions' = [auctions EXCEPT ![id] = [@ EXCEPT !.bidder = p, !.bid = price]]
  BY <1>1 DEF PlaceBid
<1>3. Live' = Live /\ \A x \in Live \ {id} : auctions'[x] = auctions[x]
  BY <1>2 DEF Live, RowsOK
<1>4. auctions'[id] = [auctions[id] EXCEPT !.bidder = p, !.bid = price]
  BY <1>1, <1>2 DEF RowsOK, Live
<1>5. Good(auctions'[id]) /\ auctions'[id].item = auctions[id].item
  <2>1. auctions[id] \in Row /\ auctions[id].seller # p /\ price # 0 /\ p # Nobody
    BY <1>1, RowFields, AuctionAssumption DEF Good, Same
  <2>2. auctions'[id] \in Row
    BY <1>4, <2>1 DEF Row
  <2>3. auctions'[id].item = auctions[id].item /\ auctions'[id].seller = auctions[id].seller
        /\ auctions'[id].bidder = p /\ auctions'[id].bid = price
    BY <1>4, <2>1 DEF Row
  <2>4. auctions'[id].buyout = auctions[id].buyout /\ auctions[id].buyout \in Nat
    BY <1>4, <2>1 DEF Row
  <2>5. auctions'[id].buyout > 0 => auctions'[id].bid < auctions'[id].buyout
    BY <1>1, <2>3, <2>4 DEF BuysOut
  <2> QED BY <2>1, <2>2, <2>3, <2>5 DEF Good
<1>6. RowsOK'
  <2>1. auctions' = [x \in Live' |-> auctions'[x]]
    BY <1>2, <1>3 DEF RowsOK
  <2>2. \A x \in Live' : Good(auctions[x])'
    BY <1>3, <1>5 DEF RowsOK, Good
  <2> QED BY <1>3, <2>1, <2>2 DEF RowsOK
<1>7. OneAuction' /\ \A i \in Items : Listed(i)' <=> Listed(i)
  BY <1>3, <1>5 DEF OneAuction, Listed
<1>8. JobsOK' /\ PInv' /\ NoSale' /\ NoSale
  BY Finished, NoSales DEF PlaceBid
<1>9. Stays /\ \A i \in Items : Held(i)'
  BY <1>7, <1>8, Unmoved DEF PlaceBid
<1>10. HandsOK'
  BY DEF PlaceBid, HandsOK
<1>11. GoldOK'
  <2>1. post' \in [Players -> Nat]
    BY InHand, RefundedIs DEF PlaceBid
  <2>2. price - Stake(job[p].row, p) \in Int /\ price - Stake(job[p].row, p) >= 0
    BY <1>1, InHand DEF PlaceBid, Stake
  <2>3. purse \in [Players -> Nat]
    BY DEF GoldOK
  <2>4. Less(purse[p], price - Stake(job[p].row, p)) \in Nat
    BY <2>2, <2>3, LessIs
  <2>5. purse' = [purse EXCEPT ![p] = Less(purse[p], price - Stake(job[p].row, p))]
    BY <1>1 DEF PlaceBid
  <2>6. purse' \in [Players -> Nat]
    BY <2>3, <2>4, <2>5
  <2> QED BY <2>1, <2>6 DEF GoldOK
<1> QED BY <1>6, <1>7, <1>8, <1>9, <1>10, <1>11

LEMMA BuyOutStep ==
  ASSUME NEW p \in Players, Single(p), BuyOut(p)
  PROVE  IInv' /\ Stays
<1> USE DEF Single, IInv, TInv
<1>0. PICK row : row = job[p].row
  OBVIOUS
<1>1. PICK id \in Live :
        /\ id = job[p].id /\ row = job[p].row /\ Good(auctions[id])
        /\ Same(row, auctions[id]) /\ row.seller # p /\ row.item \in Items
        /\ row.seller \in Players /\ row.bidder \in Players \cup {Nobody}
        /\ row.bid \in Nat /\ row.buyout \in Nat
        /\ (row.buyout > 0 => row.bid < row.buyout)
  BY <1>0, InHand DEF BuyOut, PInv, StandsAt
<1>2. JobsOK' /\ PInv' /\ NoSale' /\ NoSale
  BY Finished, NoSales DEF BuyOut
<1>3. Ends(id, p)
  <2>1. \A i \in Items \ {row.item} : owner'[i] = owner[i]
    BY <1>1 DEF BuyOut, HandsOK
  <2> QED BY <1>1, <1>2, <2>1 DEF Ends, BuyOut, Same
<1>4. /\ RowsOK' /\ OneAuction' /\ parcel' \in [Items -> Players \cup {Nobody}]
      /\ Stays /\ \A i \in Items : Held(i)'
  BY <1>3, EndsDo
<1>5. HandsOK'
  BY <1>1, <1>4 DEF HandsOK, BuyOut
<1>6. GoldOK'
  <2>1. Refunded(row, p) \in [Players -> Nat] /\ purse \in [Players -> Nat]
    BY <1>1, RefundedIs DEF GoldOK
  <2>2. Profit(row.buyout) \in Nat
    BY <1>1, ProfitIs
  <2> HIDE DEF Profit, Refunded
  <2>3. post' = [Refunded(row, p) EXCEPT ![row.seller] = @ + Profit(row.buyout)]
    BY <1>1 DEF BuyOut
  <2>4. post' \in [Players -> Nat]
    BY <1>1, <2>1, <2>2, <2>3
  <2>5. purse' = [purse EXCEPT ![p] = Less(purse[p], row.buyout - Stake(row, p))]
    BY <1>1 DEF BuyOut
  <2>6. row.buyout - Stake(row, p) \in Int /\ row.buyout - Stake(row, p) >= 0
    BY <1>1 DEF Stake, BuyOut, BuysOut
  <2>7. Less(purse[p], row.buyout - Stake(row, p)) \in Nat
    BY <2>1, <2>6, LessIs
  <2>8. purse' \in [Players -> Nat]
    BY <2>1, <2>5, <2>7
  <2> QED BY <2>4, <2>8 DEF GoldOK
<1> QED BY <1>2, <1>4, <1>5, <1>6

LEMMA RemoveItemStep ==
  ASSUME NEW p \in Players, Single(p), RemoveItem(p)
  PROVE  IInv' /\ Stays
<1> USE DEF Single, IInv, TInv
<1>0. PICK row : row = job[p].row
  OBVIOUS
<1>1. PICK id \in Live :
        /\ id = job[p].id /\ row = job[p].row /\ Same(row, auctions[id])
        /\ row.bidder \in Players \cup {Nobody} /\ row.bid \in Nat
  BY <1>0, InHand DEF RemoveItem
<1>2. JobsOK' /\ PInv' /\ NoSale' /\ NoSale
  BY Finished, NoSales DEF RemoveItem
<1>3. Ends(id, p)
  BY <1>1, <1>2 DEF Ends, RemoveItem, Same
<1>4. /\ RowsOK' /\ OneAuction' /\ parcel' \in [Items -> Players \cup {Nobody}]
      /\ Stays /\ \A i \in Items : Held(i)'
  BY <1>3, EndsDo
<1>5. HandsOK'
  BY <1>4 DEF HandsOK, RemoveItem
<1>6. GoldOK'
  <2>1. post' \in [Players -> Nat] /\ purse \in [Players -> Nat]
    BY <1>1, RefundedIs DEF GoldOK, RemoveItem
  <2>2. Cut(row.bid) \in Int /\ Cut(row.bid) >= 0
    BY <1>1, CutIs
  <2> HIDE DEF Cut
  <2>3. Less(purse[p], Cut(row.bid)) \in Nat
    BY <2>1, <2>2, LessIs
  <2>4. purse' = [purse EXCEPT ![p] = Less(purse[p], Cut(row.bid))]
    BY <1>1 DEF RemoveItem
  <2>5. purse' \in [Players -> Nat]
    BY <2>1, <2>3, <2>4
  <2> QED BY <2>1, <2>5 DEF GoldOK
<1> QED BY <1>2, <1>4, <1>5, <1>6

LEMMA SellItemStep ==
  ASSUME NEW p \in Players, Single(p), NEW it \in Items, NEW buyout \in Buyouts,
         SellItem(p, it, buyout)
  PROVE  IInv' /\ Stays
<1> USE DEF Single, IInv, TInv
<1> DEFINE row == [item |-> it, seller |-> p, buyout |-> buyout, due |-> FALSE,
                   bidder |-> Nobody, bid |-> 0]
           j == [step |-> "moved", todo |-> <<>>, id |-> 0, price |-> 0, row |-> row]
<1>1. Good(row)
  BY AuctionAssumption DEF Good, Row
<1>2. row.item = it /\ row.bidder = Nobody /\ row.seller = p
  OBVIOUS
<1> HIDE DEF row
<1>3. IsJob(j) /\ j.step = "moved" /\ j.row = row
  BY DEF IsJob, Steps
<1>4. job' = [job EXCEPT ![p] = j]
  BY DEF SellItem, row
<1> HIDE DEF j
<1>5. JobsOK' /\ job'[p] = j /\ Others(p)
  BY <1>3, <1>4, JobMoves
<1>6. /\ UNCHANGED <<auctions, owner, parcel, post, purse>> /\ job[p] = Idle
      /\ owner[it] = p /\ ~Listed(it)
  BY DEF SellItem, MayStart
<1>7. \A i \in Items : (Listed(i)' <=> Listed(i)) /\ (Posted(i)' <=> Posted(i))
  BY <1>6 DEF Listed, Live, Posted
<1>8. StandsAt(p)'
  BY <1>1, <1>2, <1>3, <1>5, <1>6, <1>7 DEF StandsAt, Good
<1>9. PInv'
  BY <1>5, <1>8, Alone
<1>10. /\ bag' \in [Items -> Players \cup {Nobody}]
       /\ bag'[it] = (IF bag[it] = p THEN Nobody ELSE bag[it])
       /\ \A i \in Items \ {it} : bag'[i] = bag[i]
  BY DEF SellItem, HandsOK
<1>11. HandsOK'
  BY <1>6, <1>10 DEF HandsOK
<1>12. \A i \in Items : Selling(i)' <=> i = it
  BY <1>2, <1>3, <1>5, Names DEF Selling, Others
<1>13. \A i \in Items : ~Selling(i)
  BY <1>6, NoSales, Names DEF Selling, NoSale
<1>14. Held(it)' /\ (InOne(it) /\ ~FromLetter(it) => InOne(it)')
  <2>1. Held(it)'
    BY <1>6, <1>7, <1>10, <1>12 DEF Held, Carried
  <2>2. ASSUME InOne(it), ~FromLetter(it) PROVE InOne(it)'
    <3>1. ~Posted(it)
      BY <1>2, <1>3, <1>5, <2>2 DEF FromLetter, Posted
    <3>2. Carried(it) /\ owner[it] = bag[it]
      BY <1>6, <1>13, <3>1 DEF Held
    <3>3. ~Carried(it)'
      BY <1>6, <1>10, <3>2 DEF Carried
    <3> QED BY <1>6, <1>7, <1>12, <3>1, <3>3 DEF InOne, One
  <2> QED BY <2>1, <2>2
<1>15. ASSUME NEW i \in Items \ {it} PROVE Held(i)' /\ (InOne(i) => InOne(i)')
  <2>1. Held(i) /\ (Carried(i)' <=> Carried(i)) /\ (Selling(i)' <=> Selling(i))
    BY <1>10, <1>12, <1>13 DEF Carried
  <2> QED BY <1>6, <1>7, <1>10, <2>1 DEF Held, InOne, One
<1>16. Stays /\ \A i \in Items : Held(i)'
  BY <1>14, <1>15 DEF Stays
<1>17. RowsOK' /\ GoldOK' /\ OneAuction'
  BY <1>6 DEF RowsOK, GoldOK, OneAuction, Live, Good
<1> QED BY <1>5, <1>9, <1>11, <1>16, <1>17

\* What the handler of a sale has in hand.
LEMMA InSale ==
  ASSUME IInv, NEW p \in Players, job[p].step \in {"moved", "selling"}, NEW row, row = job[p].row
  PROVE  /\ Good(row) /\ row.item \in Items /\ row.bidder = Nobody /\ row.bid = 0 /\ row.seller = p
         /\ ~Listed(row.item) /\ owner[row.item] = p /\ Selling(row.item)
         /\ (job[p].step = "selling" => job[p].id \in Ids \ Live)
<1>1. StandsAt(p)
  BY DEF IInv, PInv
<1> QED BY <1>1, RowFields DEF StandsAt, Selling

LEMMA NumberAuctionStep ==
  ASSUME NEW p \in Players, Single(p), NumberAuction(p)
  PROVE  IInv' /\ Stays
<1> USE DEF Single, IInv, TInv
<1>0. PICK row : row = job[p].row
  OBVIOUS
<1> DEFINE j == [step |-> "selling", todo |-> <<>>, id |-> NextId, price |-> 0, row |-> row]
<1>1. job[p].step = "moved" /\ UNCHANGED <<auctions, bag, owner, parcel, post, purse>>
  BY DEF NumberAuction
<1>2. Good(row) /\ row.item \in Items /\ row.bidder = Nobody /\ row.seller = p
      /\ ~Listed(row.item) /\ owner[row.item] = p
  BY <1>0, <1>1, InSale
<1>3. IsJob(j) /\ j.step = "selling" /\ j.row = row /\ j.id = NextId
  BY DEF IsJob, Steps
<1>4. job' = [job EXCEPT ![p] = j]
  BY <1>0 DEF NumberAuction
<1> HIDE DEF j
<1>5. JobsOK' /\ job'[p] = j /\ Others(p)
  BY <1>3, <1>4, JobMoves
<1>6. NextId \in Ids \ Live
  BY NextIdIsNew DEF NumberAuction
<1>7. \A i \in Items : Listed(i)' <=> Listed(i)
  BY <1>1 DEF Listed, Live
<1>8. StandsAt(p)'
  BY <1>1, <1>2, <1>3, <1>5, <1>6, <1>7 DEF StandsAt, Live, Good
<1>9. PInv'
  BY <1>5, <1>8, Alone
<1>10. \A i \in Items : Selling(i)' <=> Selling(i)
  BY <1>0, <1>1, <1>3, <1>5, Names DEF Selling, Others
<1>11. Stays /\ \A i \in Items : Held(i)'
  BY <1>1, <1>7, <1>10 DEF Stays, Held, InOne, One, Carried, Posted
<1>12. RowsOK' /\ HandsOK' /\ GoldOK' /\ OneAuction'
  BY <1>1 DEF RowsOK, HandsOK, GoldOK, OneAuction, Live, Good
<1> QED BY <1>5, <1>9, <1>11, <1>12

LEMMA AddAuctionStep ==
  ASSUME NEW p \in Players, Single(p), AddAuction(p)
  PROVE  IInv' /\ Stays
<1> USE DEF Single, IInv, TInv
<1>a. PICK row : row = job[p].row
  OBVIOUS
<1>b. job[p].step = "selling"
  BY DEF AddAuction
<1>c. Good(row) /\ row.item \in Items /\ ~Listed(row.item) /\ Selling(row.item) /\ job[p].id \in Ids \ Live
  BY <1>a, <1>b, InSale
<1>d. PICK it \in Items, id \in Ids \ Live : it = row.item /\ id = job[p].id
  BY <1>c
<1>1. /\ id = job[p].id /\ row = job[p].row /\ it = row.item /\ Good(row)
      /\ ~Listed(it) /\ Selling(it)
  BY <1>a, <1>c, <1>d
<1>3. /\ auctions' = [x \in Live \cup {id} |-> IF x = id THEN row ELSE auctions[x]]
      /\ purse' = [purse EXCEPT ![p] = Less(purse[p], Deposit)]
      /\ Finish(p) /\ UNCHANGED <<bag, owner, parcel, post>>
  BY <1>1 DEF AddAuction
<1>4. Live' = Live \cup {id} /\ auctions'[id] = row /\ \A x \in Live : auctions'[x] = auctions[x]
  BY <1>1, <1>3 DEF Live
<1>5. RowsOK'
  <2>1. auctions' = [x \in Live' |-> auctions'[x]]
    BY <1>3, <1>4
  <2>2. \A x \in Live' : Good(auctions[x])'
    BY <1>1, <1>4 DEF RowsOK, Good
  <2>3. Live' \subseteq Ids
    BY <1>1, <1>4 DEF RowsOK
  <2> QED BY <2>1, <2>2, <2>3 DEF RowsOK
<1>6. OneAuction'
  <2>1. \A x \in Live : auctions[x].item # it
    BY <1>1 DEF Listed
  <2> QED BY <1>1, <1>4, <2>1 DEF OneAuction
<1>7. JobsOK' /\ PInv' /\ NoSale'
  BY <1>3, Finished
<1>8. \A i \in Items : Listed(i)' <=> Listed(i) \/ i = it
  BY <1>1, <1>4 DEF Listed
<1>9. \A i \in Items : ~Selling(i)' /\ (Selling(i) <=> i = it)
  BY <1>1, <1>7, Names DEF Selling, NoSale
<1>10. Stays /\ \A i \in Items : Held(i)'
  BY <1>3, <1>8, <1>9 DEF Stays, Held, InOne, One, Carried, Posted
<1>11. GoldOK'
  <2>1. purse \in [Players -> Nat] /\ Less(purse[p], Deposit) \in Nat
    BY AuctionAssumption, LessIs DEF GoldOK
  <2> QED BY <1>3, <2>1 DEF GoldOK
<1>12. HandsOK'
  BY <1>3 DEF HandsOK
<1> QED BY <1>5, <1>6, <1>7, <1>10, <1>11, <1>12

LEMMA MailboxStep ==
  ASSUME NEW p \in Players, Single(p),
         TakeMoney(p) \/ \E i \in Items : TakeItem(p, i)
  PROVE  IInv' /\ Stays
<1> USE DEF Single, IInv, TInv
<1>1. UNCHANGED <<auctions, job>> /\ job[p] = Idle
  BY DEF TakeMoney, TakeItem, MayStart
<1>2. \A q \in Players : job[q] = Idle /\ job'[q] = Idle
  BY <1>1
<1>3. RowsOK' /\ OneAuction' /\ JobsOK' /\ PInv'
  BY <1>1, <1>2, Names DEF RowsOK, OneAuction, JobsOK, PInv, OneJob, StandsAt, Live, Good, IsJob
<1>4. NoSale /\ NoSale'
  BY <1>2, Names DEF NoSale
<1>5. CASE TakeMoney(p)
  <2>1. GoldOK'
    BY <1>5 DEF TakeMoney, GoldOK
  <2>2. UNCHANGED <<bag, owner, parcel>>
    BY <1>5 DEF TakeMoney
  <2>3. Stays /\ \A i \in Items : Held(i)'
    BY <1>1, <1>4, <2>2, Unmoved DEF Listed, Live
  <2> QED BY <1>3, <2>1, <2>2, <2>3 DEF HandsOK
<1>6. CASE \E i \in Items : TakeItem(p, i)
  <2>1. PICK it \in Items : TakeItem(p, it)
    BY <1>6
  <2>2. HandsOK' /\ GoldOK'
    BY <2>1 DEF TakeItem, HandsOK, GoldOK
  <2>3. /\ bag'[it] = p /\ owner'[it] = p /\ Carried(it)' /\ ~Posted(it)' /\ Posted(it)
        /\ \A i \in Items \ {it} : /\ (Carried(i)' <=> Carried(i)) /\ (Posted(i)' <=> Posted(i))
                                   /\ owner'[i] = owner[i] /\ bag'[i] = bag[i]
    BY <2>1, AuctionAssumption DEF TakeItem, HandsOK, Carried, Posted
  <2>4. \A i \in Items : (Listed(i)' <=> Listed(i)) /\ ~Selling(i) /\ ~Selling(i)'
    BY <1>1, <1>4 DEF Listed, Live, Selling, NoSale
  <2>5. Stays /\ \A i \in Items : Held(i)'
    BY <2>3, <2>4 DEF Stays, Held, InOne, One
  <2> QED BY <1>3, <2>2, <2>5
<1> QED BY <1>5, <1>6

\* Time may pass in the middle of a handler.
LEMMA FallDueStep ==
  ASSUME IInv, NEW id \in Ids, FallDue(id)
  PROVE  IInv' /\ Stays
<1> USE DEF IInv, TInv
<1>1. id \in Live /\ ~auctions[id].due /\ Good(auctions[id])
  BY DEF FallDue, RowsOK
<1>2. Live' = Live /\ auctions' = [x \in Live |-> auctions'[x]]
      /\ \A x \in Live \ {id} : auctions'[x] = auctions[x]
  BY DEF FallDue, Live, RowsOK
<1>3. auctions'[id] = [auctions[id] EXCEPT !.due = TRUE]
  BY <1>1 DEF FallDue, Live, RowsOK
<1>4. Good(auctions'[id]) /\ Same(auctions'[id], auctions[id])
  BY <1>1, <1>3 DEF Good, Row, Same
<1>5. RowsOK'
  BY <1>2, <1>4 DEF RowsOK, Good
<1>6. \A x \in Live : Same(auctions'[x], auctions[x])
  BY <1>2, <1>4 DEF Same
<1>7. OneAuction' /\ \A i \in Items : Listed(i)' <=> Listed(i)
  BY <1>2, <1>6 DEF OneAuction, Listed, Same
<1>8. UNCHANGED <<bag, owner, parcel, post, purse, job>>
  BY DEF FallDue
<1>9. HandsOK' /\ GoldOK' /\ JobsOK'
  BY <1>8 DEF HandsOK, GoldOK, JobsOK, IsJob
<1>10. Stays /\ \A i \in Items : Held(i)'
  BY <1>7, <1>8 DEF Stays, Held, InOne, One, Carried, Posted, Selling
<1>11. ASSUME NEW p \in Players PROVE StandsAt(p)'
  <2>0. StandsAt(p)
    BY DEF PInv
  <2>1. job[p].step = "sweeping" => \A x \in DOMAIN job[p].todo :
          x \in Live' /\ job[p].todo[x] = auctions'[x] /\ auctions'[x].due
    BY <1>1, <1>2, <2>0 DEF StandsAt
  <2>2. job[p].step \in {"bidding", "cancelling"} =>
          job[p].id \in Live' /\ Same(job[p].row, auctions'[job[p].id])
    BY <1>2, <1>6, <2>0 DEF StandsAt, Same
  <2>3. job[p].step \in {"moved", "selling"} => ~Listed(job[p].row.item)'
    <3>1. job[p].step \in {"moved", "selling"} =>
            job[p].row.item \in Items /\ ~Listed(job[p].row.item)
      BY <2>0, RowFields DEF StandsAt
    <3> QED BY <1>7, <1>8, <3>1 DEF Listed
  <2> QED BY <1>2, <1>8, <2>0, <2>1, <2>2, <2>3 DEF StandsAt, Same, Good
<1>12. PInv'
  BY <1>8, <1>11 DEF PInv, OneJob
<1> QED BY <1>5, <1>7, <1>9, <1>10, <1>12

LEMMA InitInv == Init => IInv
<1> SUFFICES ASSUME Init PROVE IInv
  OBVIOUS
<1>1. Live = {} /\ auctions = [id \in Live |-> auctions[id]]
  BY DEF Init, Live
<1>2. RowsOK /\ OneAuction
  BY <1>1 DEF RowsOK, OneAuction
<1>3. HandsOK /\ GoldOK
  BY AuctionAssumption DEF Init, HandsOK, GoldOK
<1>4. JobsOK /\ \A p \in Players : job[p] = Idle
  BY Names DEF Init, JobsOK
<1>5. PInv
  BY <1>4, Names DEF PInv, OneJob, StandsAt
<1>6. ASSUME NEW i \in Items PROVE Held(i)
  BY AuctionAssumption DEF Init, Held, Carried
<1> QED BY <1>2, <1>3, <1>4, <1>5, <1>6 DEF IInv, TInv

LEMMA StepInv ==
  ASSUME Racers = {}, IInv, [Next]_vars
  PROVE  IInv' /\ (Next => Stays)
<1>1. CASE UNCHANGED vars
  <2>1. IInv'
    BY <1>1 DEF vars, IInv, TInv, PInv, RowsOK, HandsOK, GoldOK, JobsOK, OneJob, StandsAt, OneAuction,
              Held, Carried, Posted, Listed, Selling, Live, Good, IsJob, Same
  <2>2. Stays
    BY <1>1 DEF vars, Stays, InOne, One, Carried, Posted, Listed, Selling, Live
  <2> QED BY <2>1, <2>2
<1>2. CASE \E id \in Ids : FallDue(id)
  BY <1>2, FallDueStep
<1>3. ASSUME NEW p \in Players, Handle(p) PROVE IInv' /\ Stays
  <2>1. Single(p)
    BY <1>3, OthersWait DEF Single
  <2> QED BY <1>3, <2>1, VisitStep, LookStep, ExpireAuctionStep, PlaceBidStep, BuyOutStep,
             RemoveItemStep, SellItemStep, NumberAuctionStep, AddAuctionStep, MailboxStep DEF Handle
<1> QED BY <1>1, <1>2, <1>3 DEF Next

LEMMA Always == Racers = {} /\ Spec => []IInv
<1> SUFFICES ASSUME Racers = {} PROVE Spec => []IInv
  OBVIOUS
<1>1. IInv /\ [Next]_vars => IInv'
  BY StepInv
<1> QED BY InitInv, <1>1, PTL DEF Spec

-----------------------------------------------------------------------------
(* The properties *)

\* One handler at a time: rows, purses and letters are well formed, and nobody bids on
\* his own auction (handleAuctionPlaceBid, handleAuctionSellItem).
THEOREM TypeCorrect == Racers = {} /\ Spec => []TypeOK
<1>1. IInv => TypeOK
  <2> SUFFICES ASSUME IInv PROVE TypeOK
    OBVIOUS
  <2> USE DEF IInv, TInv
  <2>1. auctions \in [Live -> Row]
    BY DEF RowsOK, Good
  <2>2. \A p \in Players : job[p].step \in Steps
    BY DEF JobsOK, IsJob
  <2> QED BY <2>1, <2>2 DEF TypeOK, RowsOK, HandsOK, GoldOK, Good
<1> QED BY Always, <1>1, PTL

\* Places(i), by whether i is in the bag, the mail, on auction or in a sale.
Spots(a, b, c, d) ==
  {where \in {"bag", "mail", "auction", "sale"} :
    \/ where = "bag" /\ a
    \/ where = "mail" /\ b
    \/ where = "auction" /\ c
    \/ where = "sale" /\ d}

LEMMA SpotsAre ==
  ASSUME NEW a \in BOOLEAN, NEW b \in BOOLEAN, NEW c \in BOOLEAN, NEW d \in BOOLEAN
  PROVE  /\ Cardinality(Spots(a, b, c, d)) = 1 <=> One(a, b, c, d)
         /\ Spots(a, b, c, d) # {} <=> a \/ b \/ c \/ d
<1>1. IsFiniteSet(Spots(a, b, c, d))
  <2>1. IsFiniteSet({"bag", "mail"} \cup {"auction", "sale"})
    <3>1. IsFiniteSet({"bag"} \cup {"mail"}) /\ IsFiniteSet({"auction"} \cup {"sale"})
      BY FS_Singleton, FS_Union
    <3>2. {"bag", "mail"} = {"bag"} \cup {"mail"} /\ {"auction", "sale"} = {"auction"} \cup {"sale"}
      OBVIOUS
    <3> QED BY <3>1, <3>2, FS_Union
  <2>2. Spots(a, b, c, d) \subseteq {"bag", "mail"} \cup {"auction", "sale"}
    BY DEF Spots
  <2> QED BY <2>1, <2>2, FS_Subset
<1>2. Cardinality(Spots(a, b, c, d)) = 1 <=> \E x : Spots(a, b, c, d) = {x}
  BY <1>1, FS_Singleton
<1>3. /\ "bag" \in Spots(a, b, c, d) <=> a
      /\ "mail" \in Spots(a, b, c, d) <=> b
      /\ "auction" \in Spots(a, b, c, d) <=> c
      /\ "sale" \in Spots(a, b, c, d) <=> d
  BY DEF Spots
<1>4. \A x \in Spots(a, b, c, d) : x \in {"bag", "mail", "auction", "sale"}
  BY DEF Spots
<1>5. Spots(a, b, c, d) # {} <=> a \/ b \/ c \/ d
  BY <1>3, <1>4
<1>6. ASSUME NEW x, Spots(a, b, c, d) = {x} PROVE One(a, b, c, d)
  BY <1>3, <1>4, <1>6 DEF One
<1>7. ASSUME One(a, b, c, d) PROVE \E x : Spots(a, b, c, d) = {x}
  <2>1. ASSUME NEW x \in {"bag", "mail", "auction", "sale"}, x \in Spots(a, b, c, d),
               \A y \in {"bag", "mail", "auction", "sale"} : y \in Spots(a, b, c, d) => y = x
        PROVE  Spots(a, b, c, d) = {x}
    BY <1>4, <2>1
  <2>2. CASE a
    BY <1>3, <1>7, <2>1, <2>2 DEF One
  <2>3. CASE b
    BY <1>3, <1>7, <2>1, <2>3 DEF One
  <2>4. CASE c
    BY <1>3, <1>7, <2>1, <2>4 DEF One
  <2>5. CASE d
    BY <1>3, <1>7, <2>1, <2>5 DEF One
  <2> QED BY <1>7, <2>2, <2>3, <2>4, <2>5 DEF One
<1> QED BY <1>2, <1>5, <1>6, <1>7

LEMMA PlaceOf ==
  ASSUME NEW i
  PROVE  /\ Cardinality(Places(i)) = 1 <=> InOne(i)
         /\ Cardinality(Places(i)') = 1 <=> InOne(i)'
         /\ Places(i) # {} <=> Carried(i) \/ Posted(i) \/ Listed(i) \/ Selling(i)
<1>1. /\ Carried(i) \in BOOLEAN /\ Posted(i) \in BOOLEAN
      /\ Listed(i) \in BOOLEAN /\ Selling(i) \in BOOLEAN
      /\ Carried(i)' \in BOOLEAN /\ Posted(i)' \in BOOLEAN
      /\ Listed(i)' \in BOOLEAN /\ Selling(i)' \in BOOLEAN
  BY DEF Carried, Posted, Listed, Selling
<1>2. Places(i) = Spots(Carried(i), Posted(i), Listed(i), Selling(i))
  BY DEF Places, Spots, Carried, Posted
<1>3. Places(i)' = Spots(Carried(i)', Posted(i)', Listed(i)', Selling(i)')
  BY DEF Places, Spots, Carried, Posted
<1>4. Places(i) # {} <=> Carried(i) \/ Posted(i) \/ Listed(i) \/ Selling(i)
  BY <1>1, <1>2, SpotsAre
<1>5. Cardinality(Places(i)) = 1 <=> InOne(i)
  <2>1. Cardinality(Spots(Carried(i), Posted(i), Listed(i), Selling(i))) = 1
          <=> One(Carried(i), Posted(i), Listed(i), Selling(i))
    BY <1>1, SpotsAre
  <2> QED BY <1>2, <2>1, Zenon DEF InOne
<1>6. Cardinality(Places(i)') = 1 <=> InOne(i)'
  <2>1. Cardinality(Spots(Carried(i)', Posted(i)', Listed(i)', Selling(i)')) = 1
          <=> One(Carried(i)', Posted(i)', Listed(i)', Selling(i)')
    BY <1>1, SpotsAre
  <2> QED BY <1>3, <2>1, Zenon DEF InOne
<1> QED BY <1>4, <1>5, <1>6

\* One handler at a time: through sale, bid, purchase, cancel, expiry and mail no item is
\* lost (handleAuctionSellItem, expireAuctions, handleMailTakeItem).
THEOREM ItemsKept == Racers = {} /\ Spec => []NeverLost
<1>1. IInv => NeverLost
  BY PlaceOf DEF IInv, Held, NeverLost
<1> QED BY Always, <1>1, PTL

\* One handler at a time: nothing leaves an item in a second place but the sale of one
\* that waits in a letter of its owner (handleAuctionSellItem, handleAuctionRemoveItem,
\* expireAuctions, handleMailTakeItem).
THEOREM NoSecondPlace == Racers = {} /\ Spec => OnePlace
<1> SUFFICES ASSUME Racers = {} PROVE Spec => OnePlace
  OBVIOUS
<1>1. IInv /\ [Next]_vars => [Stays]_vars
  BY StepInv
<1>2. Stays <=> \A i \in Items :
        Cardinality(Places(i)) = 1 /\ ~FromLetter(i) => Cardinality(Places(i)') = 1
  BY PlaceOf DEF Stays
<1>3. [Stays]_vars <=> [\A i \in Items :
        Cardinality(Places(i)) = 1 /\ ~FromLetter(i) => Cardinality(Places(i)') = 1]_vars
  BY <1>2
<1> QED BY Always, <1>1, <1>3, PTL DEF Spec, OnePlace

\* p owns the item i now, and has it in a mail, or it waits in an older one.
Won(p, i) == owner'[i] = p /\ (parcel'[i] = p \/ parcel[i] # Nobody)

\* The bidder id had is gone: it was refunded, or has the item.
Returned(id) ==
  LET p == auctions[id].bidder
      gone == id \notin DOMAIN auctions' \/ auctions'[id].bidder # p
  IN p # Nobody /\ gone => post'[p] >= post[p] + auctions[id].bid \/ Won(p, auctions[id].item)

LEMMA IsWon ==
  ASSUME HandsOK, NEW i \in Items, NEW p,
         parcel' = Mailed(i, p), owner' = [owner EXCEPT ![i] = p]
  PROVE  Won(p, i)
<1>1. owner'[i] = p
  BY DEF HandsOK
<1>2. parcel[i] = Nobody => parcel'[i] = p
  BY DEF HandsOK, Mailed
<1> QED BY <1>1, <1>2 DEF Won

LEMMA StepReturns ==
  ASSUME Racers = {}, IInv, NEW p \in Players, Handle(p), NEW id \in Live
  PROVE  Returned(id)
<1> USE DEF IInv, TInv
<1>1. Single(p)
  BY OthersWait DEF Single
<1>2. Good(auctions[id]) /\ auctions[id].item \in Items
  BY RowFields DEF RowsOK
<1>3. CASE UNCHANGED auctions
  BY <1>3 DEF Returned, Live
<1>4. CASE ExpireAuction(p)
  <2>1. PICK x \in DOMAIN job[p].todo :
          LET row == job[p].todo[x]
              sold == row.bidder # Nobody
          IN /\ auctions' = Without(x)
             /\ parcel' = Mailed(row.item, IF sold THEN row.bidder ELSE row.seller)
             /\ owner' = IF sold THEN [owner EXCEPT ![row.item] = row.bidder] ELSE owner
    BY <1>4 DEF ExpireAuction
  <2>2. x \in Live /\ job[p].todo[x] = auctions[x]
    BY <1>4 DEF ExpireAuction, PInv, StandsAt
  <2>3. CASE x = id
    <3>1. PICK b \in Players \cup {Nobody}, i \in Items :
            b = auctions[id].bidder /\ i = auctions[id].item
      BY <1>2, RowFields
    <3>2. b # Nobody => parcel' = Mailed(i, b) /\ owner' = [owner EXCEPT ![i] = b]
      BY <2>1, <2>2, <2>3, <3>1
    <3>3. b # Nobody => Won(b, i)
      BY <3>2, IsWon
    <3> QED BY <3>1, <3>3 DEF Returned
  <2>4. CASE x # id
    BY <2>1, <2>4 DEF Returned, Without, Restrict, Live
  <2> QED BY <2>3, <2>4
<1>5. ASSUME job[p].step \in {"bidding", "cancelling"}, NEW row, row = job[p].row,
             job[p].id = id, \A q \in Players : q = row.bidder /\ q # p => post'[q] >= post[q] + row.bid,
             row.bidder = p =>
               \/ id \in DOMAIN auctions' /\ auctions'[id].bidder = p
               \/ Won(p, auctions[id].item)
      PROVE  Returned(id)
  <2>1. row.bidder = auctions[id].bidder /\ row.bid = auctions[id].bid
        /\ row.bidder \in Players \cup {Nobody}
    BY <1>5, InHand DEF Same
  <2> QED BY <1>5, <2>1 DEF Returned
<1>6. CASE PlaceBid(p)
  <2>1. PICK row : row = job[p].row
    OBVIOUS
  <2>2. /\ job[p].step = "bidding" /\ job[p].id \in Live /\ post' = Refunded(row, p)
        /\ auctions' = [auctions EXCEPT ![job[p].id] =
                          [@ EXCEPT !.bidder = p, !.bid = job[p].price]]
        /\ row.bidder \in Players \cup {Nobody} /\ row.bid \in Nat
    BY <1>6, <2>1, InHand DEF PlaceBid
  <2>3. CASE job[p].id = id
    <3>1. auctions'[id] = [auctions[id] EXCEPT !.bidder = p, !.bid = job[p].price]
          /\ id \in DOMAIN auctions'
      BY <2>2, <2>3 DEF Live
    <3>2. auctions'[id].bidder = p
      BY <1>2, <3>1 DEF Good, Row
    <3>3. \A q \in Players : q = row.bidder /\ q # p => post'[q] >= post[q] + row.bid
      BY <2>2, RefundedIs, AuctionAssumption DEF GoldOK
    <3> QED BY <1>5, <2>1, <2>2, <2>3, <3>1, <3>2, <3>3
  <2>4. CASE job[p].id # id
    BY <2>2, <2>4 DEF Returned, Live
  <2> QED BY <2>3, <2>4
<1>7. ASSUME job[p].step \in {"bidding", "cancelling"}, auctions' = Without(job[p].id), job[p].id # id
      PROVE  Returned(id)
  BY <1>7 DEF Returned, Without, Restrict, Live
<1>8. CASE BuyOut(p) \/ RemoveItem(p)
  <2>1. PICK row : row = job[p].row
    OBVIOUS
  <2>2. /\ job[p].step \in {"bidding", "cancelling"} /\ auctions' = Without(job[p].id)
        /\ row.item = auctions[job[p].id].item
        /\ row.bidder \in Players \cup {Nobody} /\ row.bid \in Nat /\ row.buyout \in Nat
        /\ row.seller \in Players /\ row.seller # row.bidder
    BY <1>8, <2>1, InHand DEF BuyOut, RemoveItem, Same
  <2>3. \A q \in Players : q = row.bidder /\ q # p => post'[q] >= post[q] + row.bid
    <3>1. /\ Refunded(row, p) \in [Players -> Nat]
          /\ \A q \in Players : q = row.bidder /\ q # p => Refunded(row, p)[q] >= post[q] + row.bid
      BY <2>2, RefundedIs, AuctionAssumption DEF GoldOK
    <3> HIDE DEF Refunded, Profit
    <3>2. \A q \in Players \ {row.seller} : post'[q] = Refunded(row, p)[q]
      BY <1>8, <2>1, <2>2, <3>1 DEF BuyOut, RemoveItem
    <3> QED BY <2>2, <3>1, <3>2
  <2>4. CASE job[p].id = id
    <3>1. CASE BuyOut(p)
      <4>1. PICK i \in Items : i = auctions[id].item
        BY <1>2
      <4>2. parcel' = Mailed(i, p) /\ owner' = [owner EXCEPT ![i] = p]
        BY <2>1, <2>2, <2>4, <3>1, <4>1 DEF BuyOut
      <4>3. Won(p, i)
        BY <4>2, IsWon
      <4> QED BY <1>5, <2>1, <2>2, <2>3, <2>4, <4>1, <4>3
    <3>2. CASE RemoveItem(p)
      <4>1. row.seller = p
        BY <2>1, <3>2 DEF RemoveItem, PInv, StandsAt
      <4> QED BY <1>5, <2>1, <2>2, <2>3, <2>4, <4>1
    <3> QED BY <1>8, <3>1, <3>2
  <2> QED BY <1>7, <2>2, <2>4
<1>9. CASE AddAuction(p)
  <2>1. job[p].id \notin Live
    BY <1>9 DEF AddAuction, PInv, StandsAt
  <2>2. id \in DOMAIN auctions' /\ auctions'[id] = auctions[id]
    BY <1>9, <2>1 DEF AddAuction, Live
  <2> QED BY <2>2 DEF Returned
<1> QED BY <1>1, <1>3, <1>4, <1>6, <1>8, <1>9
        DEF Handle, Visit, Look, SellItem, NumberAuction, TakeItem, TakeMoney

\* One handler at a time: a bidder that is outbid, bought out or whose auction is
\* cancelled has the stake in a letter; one that wins owns the item, and has it in a
\* letter but where it waits in an older one
\* (handleAuctionPlaceBid, handleAuctionRemoveItem, expireAuctions).
THEOREM StakesComeBack == Racers = {} /\ Spec => StakeReturned
<1> SUFFICES ASSUME Racers = {} PROVE Spec => StakeReturned
  OBVIOUS
<1>1. IInv /\ [Next]_vars => [\A id \in Live : Returned(id)]_vars
  <2> SUFFICES ASSUME IInv, Next PROVE \A id \in Live : Returned(id)
    OBVIOUS
  <2>1. CASE \E x \in Ids : FallDue(x)
    <3>1. PICK x \in Live : auctions' = [auctions EXCEPT ![x] = [@ EXCEPT !.due = TRUE]]
      BY <2>1 DEF FallDue
    <3>2. ASSUME NEW id \in Live PROVE id \in DOMAIN auctions' /\ auctions'[id].bidder = auctions[id].bidder
      <4>1. auctions[x] \in Row /\ id \in DOMAIN auctions'
        BY <3>1 DEF IInv, TInv, RowsOK, Good, Live
      <4>2. CASE id = x
        <5>1. auctions'[id] = [auctions[id] EXCEPT !.due = TRUE]
          BY <3>1, <4>2 DEF Live
        <5> QED BY <4>1, <4>2, <5>1 DEF Row
      <4>3. CASE id # x
        BY <3>1, <4>1, <4>3 DEF Live
      <4> QED BY <4>1, <4>2, <4>3
    <3> QED BY <3>2 DEF Returned
  <2> QED BY <2>1, StepReturns DEF Next
<1>2. [\A id \in Live : Returned(id)]_vars <=> [\A id \in Live :
        LET row == auctions[id]
            p == row.bidder
            gone == id \notin DOMAIN auctions' \/ auctions'[id].bidder # p
        IN p # Nobody /\ gone =>
             \/ post'[p] >= post[p] + row.bid
             \/ owner'[row.item] = p /\ (parcel'[row.item] = p \/ parcel[row.item] # Nobody)]_vars
  BY DEF Returned, Won
<1> QED BY Always, <1>1, <1>2, PTL DEF Spec, StakeReturned

-----------------------------------------------------------------------------
(* Gold *)

\* What a handler asked of the purse of its player is there when it pays: without
\* it Less would cut the price, and the house would pay the rest.
AffordsAt(p) ==
  /\ job[p].step = "bidding" => purse[p] >= job[p].price
  /\ job[p].step = "cancelling" => purse[p] >= Cut(job[p].row.bid)
  /\ job[p].step \in {"moved", "selling"} => purse[p] >= Deposit
Affords == \A p \in Players : AffordsAt(p)

LEMMA AffordsIdle == ASSUME NEW p, job[p] = Idle PROVE AffordsAt(p)
  BY Names DEF AffordsAt

LEMMA AffordsStep ==
  ASSUME Racers = {}, IInv, Affords, [Next]_vars
  PROVE  Affords'
<1>1. CASE UNCHANGED vars
  BY <1>1 DEF vars, Affords, AffordsAt
<1>2. CASE \E id \in Ids : FallDue(id)
  BY <1>2 DEF FallDue, Affords, AffordsAt
<1>3. ASSUME NEW p \in Players, Handle(p) PROVE Affords'
  <2> USE DEF IInv, TInv
  <2>1. \A q \in Players \ {p} : job[q] = Idle
    BY <1>3, OthersWait
  <2>2. IsJob(job[p]) /\ job = [q \in Players |-> job[q]]
    BY DEF JobsOK
  <2>3. \A q \in Players \ {p} : job'[q] = job[q]
    BY <1>3, <2>2 DEF Handle, Visit, ExpireAuction, Look, PlaceBid, BuyOut, RemoveItem,
         SellItem, NumberAuction, AddAuction, TakeItem, TakeMoney, Finish
  <2>4. \A q \in Players \ {p} : AffordsAt(q)'
    BY <2>1, <2>3, Names DEF AffordsAt
  <2> SUFFICES AffordsAt(p)'
    BY <2>4 DEF Affords
  <2>5. ASSUME Finish(p) PROVE AffordsAt(p)'
    <3>1. job'[p] = Idle
      BY <2>2, <2>5 DEF Finish
    <3> QED BY <3>1, Names DEF AffordsAt
  <2>6. CASE TakeMoney(p) \/ \E i \in Items : TakeItem(p, i)
    <3>1. job'[p] = Idle
      BY <2>6 DEF TakeMoney, TakeItem, MayStart
    <3> QED BY <3>1, Names DEF AffordsAt
  <2>7. ASSUME job'[p].step = "sweeping" PROVE AffordsAt(p)'
    BY <2>7 DEF AffordsAt
  <2>8. CASE Visit(p)
    <3>1. job'[p].step = "sweeping"
      BY <2>2, <2>8 DEF Visit
    <3> QED BY <2>7, <3>1
  <2>9. CASE ExpireAuction(p)
    <3>1. PICK rest : job' = [job EXCEPT ![p] = [@ EXCEPT !.todo = rest]]
      BY <2>9 DEF ExpireAuction
    <3>2. job'[p] = [job[p] EXCEPT !.todo = rest]
      BY <2>2, <3>1
    <3>3. job'[p].step = "sweeping"
      BY <2>2, <2>9, <3>2 DEF IsJob, ExpireAuction
    <3> QED BY <2>7, <3>3
  <2>10. ASSUME NEW i, NEW buyout, SellItem(p, i, buyout) PROVE AffordsAt(p)'
    <3>1. job'[p].step = "moved" /\ purse' = purse /\ purse[p] >= Deposit
      BY <2>2, <2>10 DEF SellItem
    <3> QED BY <3>1 DEF AffordsAt
  <2>a. CASE NumberAuction(p)
    <3>1. job'[p].step = "selling" /\ purse' = purse /\ purse[p] >= Deposit
      BY <2>2, <2>a DEF NumberAuction, Affords, AffordsAt
    <3> QED BY <3>1 DEF AffordsAt
  <2>11. CASE Look(p)
    <3>1. ASSUME NEW step \in {"bidding", "cancelling"}, NEW id \in Live, NEW price,
                 job' = [job EXCEPT ![p] =
                   [step |-> step, todo |-> <<>>, id |-> id, price |-> price, row |-> auctions[id]]],
                 step = "bidding" => MayBid(p, auctions[id], price),
                 step = "cancelling" => MayCancel(p, auctions[id])
          PROVE  AffordsAt(p)'
      <4>1. job'[p].step = step /\ job'[p].price = price /\ job'[p].row = auctions[id]
        BY <2>2, <3>1
      <4>2. purse' = purse /\ purse[p] \in Nat
        BY <2>11 DEF Look, GoldOK
      <4>3. step = "bidding" => purse[p] >= price
        BY <3>1 DEF MayBid
      <4>4. step = "cancelling" => purse[p] >= Cut(auctions[id].bid)
        <5>1. Good(auctions[id])
          BY <3>1 DEF RowsOK
        <5>2. CASE auctions[id].bidder = Nobody
          <6>1. auctions[id].bid = 0
            BY <5>1, <5>2, RowFields
          <6>2. Cut(0) = 0
            BY CutIs
          <6> QED BY <4>2, <6>1, <6>2
        <5> QED BY <3>1, <5>2 DEF MayCancel
      <4> QED BY <3>1, <4>1, <4>2, <4>3, <4>4 DEF AffordsAt
    <3> QED BY <2>5, <2>11, <3>1 DEF Look
  <2>12. CASE PlaceBid(p) \/ BuyOut(p) \/ RemoveItem(p) \/ AddAuction(p)
    BY <2>5, <2>12 DEF PlaceBid, BuyOut, RemoveItem, AddAuction
  <2> QED BY <1>3, <2>a, <2>6, <2>8, <2>9, <2>10, <2>11, <2>12 DEF Handle
<1> QED BY <1>1, <1>2, <1>3 DEF Next

LEMMA AlwaysAffords == Racers = {} /\ Spec => []Affords
<1> SUFFICES ASSUME Racers = {} PROVE Spec => []Affords
  OBVIOUS
<1>1. Init => Affords
  <2> SUFFICES ASSUME Init PROVE Affords
    OBVIOUS
  <2>1. \A p \in Players : job[p] = Idle
    BY DEF Init
  <2> QED BY <2>1, AffordsIdle DEF Affords
<1>2. IInv /\ Affords /\ [Next]_vars => Affords'
  BY AffordsStep
<1> QED BY Always, <1>1, <1>2, PTL DEF Spec

\* What is on auction: the bids, and the deposits.
Stakes == [id \in Live |-> auctions[id].bid + Deposit]

LEMMA GoldIs ==
  ASSUME IInv
  PROVE  /\ IsFiniteSet(Players) /\ IsFiniteSet(Live)
         /\ purse \in [Players -> Nat] /\ post \in [Players -> Nat] /\ Stakes \in [Live -> Nat]
         /\ Sum(purse) \in Nat /\ Sum(post) \in Nat /\ Sum(Stakes) \in Nat
         /\ Gold = Sum(purse) + Sum(post) + Sum(Stakes)
<1>1. IsFiniteSet(Players) /\ MaxId \in Nat /\ Deposit \in Nat
  BY AuctionAssumption
<1>2. IsFiniteSet(Live)
  <2>1. IsFiniteSet(Ids)
    BY <1>1, FS_Interval DEF Ids
  <2> QED BY <2>1, FS_Subset DEF IInv, TInv, RowsOK
<1>3. purse \in [Players -> Nat] /\ post \in [Players -> Nat]
  BY DEF IInv, TInv, GoldOK
<1>4. Stakes \in [Live -> Nat]
  <2>1. \A id \in Live : auctions[id].bid \in Nat
    BY RowFields DEF IInv, TInv, RowsOK
  <2> QED BY <1>1, <2>1 DEF Stakes
<1>5. Sum(purse) \in Nat /\ Sum(post) \in Nat
  BY <1>1, <1>3, SumCounts
<1>6. Sum(Stakes) \in Nat
  BY <1>2, <1>4, SumCounts
<1> QED BY <1>1, <1>2, <1>3, <1>4, <1>5, <1>6 DEF Gold, Stakes

\* What the refund of a row puts into the mail: the bid, or the stake of p is nothing.
LEMMA RefundAdds ==
  ASSUME GoldOK, NEW row, row.bidder \in Players \cup {Nobody}, row.bid \in Nat,
         row.bidder = Nobody => row.bid = 0, NEW p
  PROVE  /\ Stake(row, p) \in 0..row.bid
         /\ Sum(post) \in Nat /\ Sum(Refunded(row, p)) = Sum(post) + row.bid - Stake(row, p)
<1>1. IsFiniteSet(Players) /\ post \in [Players -> Nat]
  BY AuctionAssumption DEF GoldOK
<1>2. Sum(post) \in Nat
  BY <1>1, SumCounts
<1>3. CASE row.bidder \in {Nobody, p}
  <2>1. Refunded(row, p) = post
    BY <1>3 DEF Refunded
  <2>2. Stake(row, p) = row.bid
    BY <1>3 DEF Stake
  <2> QED BY <1>2, <2>1, <2>2
<1>4. CASE row.bidder \notin {Nobody, p}
  <2>1. row.bidder \in Players /\ Stake(row, p) = 0
    BY <1>4 DEF Stake
  <2>2. PICK v \in Nat : v = post[row.bidder] + row.bid
    BY <1>1, <2>1
  <2>3. Refunded(row, p) = [post EXCEPT ![row.bidder] = v]
    BY <1>4, <2>2 DEF Refunded
  <2>4. Sum([post EXCEPT ![row.bidder] = v]) = Sum(post) - post[row.bidder] + v
    BY <1>1, <2>1, SumChanges
  <2>5. post[row.bidder] \in Nat
    BY <1>1, <2>1
  <2>6. Sum(Refunded(row, p)) = Sum(post) + row.bid
    BY <1>2, <2>2, <2>3, <2>4, <2>5
  <2> QED BY <1>2, <2>1, <2>6
<1> QED BY <1>3, <1>4

\* What p pays is what its purse loses.
LEMMA Paid ==
  ASSUME IInv, NEW p \in Players, NEW d \in Nat, d <= purse[p],
         purse' = [purse EXCEPT ![p] = Less(purse[p], d)]
  PROVE  Sum(purse)' = Sum(purse) - d
<1>1. purse[p] \in Nat /\ IsFiniteSet(Players) /\ purse \in [Players -> Nat] /\ Sum(purse) \in Nat
  BY GoldIs
<1>2. Less(purse[p], d) = purse[p] - d
  BY <1>1 DEF Less
<1>3. PICK v \in Nat : v = purse[p] - d
  BY <1>1
<1>4. Sum([purse EXCEPT ![p] = v]) = Sum(purse) - purse[p] + v
  BY <1>1, SumChanges
<1>5. Sum(purse') = Sum(purse) - purse[p] + v
  BY <1>2, <1>3, <1>4
<1> QED BY <1>1, <1>3, <1>5

\* The auction id ends, with its bid and its deposit.
LEMMA StakeGone ==
  ASSUME IInv, NEW id \in Live, auctions' = Without(id)
  PROVE  /\ Live \ DOMAIN auctions' = {id} /\ auctions[id].bid \in Nat
         /\ Sum(Stakes)' = Sum(Stakes) - auctions[id].bid - Deposit
<1>1. auctions' = [x \in Live \ {id} |-> auctions[x]]
  BY DEF Without, Restrict
<1>2. Stakes' = [x \in Live \ {id} |-> Stakes[x]]
  BY <1>1 DEF Stakes, Live
<1>3. Stakes \in [Live -> Nat] /\ IsFiniteSet(Live)
  BY GoldIs
<1>4. PICK f : f = Stakes
  OBVIOUS
<1>5. PICK n : n = Sum([x \in Live \ {id} |-> f[x]])
  OBVIOUS
<1>6. Sum(f) = f[id] + n /\ Sum(f) \in Nat /\ n \in Nat
  <2>1. f \in [Live -> Nat] /\ IsFiniteSet(Live)
    BY <1>3, <1>4
  <2>2. /\ Sum(f) \in Nat
        /\ Sum(f) = f[id] + Sum([x \in Live \ {id} |-> f[x]])
        /\ Sum([x \in Live \ {id} |-> f[x]]) \in Nat
    BY <2>1, SumApart
  <2> QED BY <1>5, <2>2
<1>7. f[id] = auctions[id].bid + Deposit /\ auctions[id].bid \in Nat /\ Deposit \in Nat
  BY <1>4, AuctionAssumption, RowFields DEF Stakes, IInv, TInv, RowsOK
<1>8. Sum(Stakes)' = n
  <2>1. Stakes' = [x \in Live \ {id} |-> f[x]]
    BY <1>2, <1>4
  <2>2. Sum(Stakes') = n
    BY <1>5, <2>1
  <2> QED BY <2>2
<1>9. Live \ DOMAIN auctions' = {id}
  BY <1>1 DEF Live
<1>10. Sum(Stakes) = Sum(f)
  BY <1>4
<1> QED BY <1>6, <1>7, <1>8, <1>9, <1>10

\* What a step may cost: the end of one auction pays the house, nothing else does.
Kept ==
  LET ended == Live \ DOMAIN auctions'
      lost == Gold - Gold'
  IN IF ended = {} THEN lost = 0
     ELSE \E id \in ended :
       LET row == auctions[id]
       IN lost \in {Cut(row.bid), Cut(row.buyout), Deposit, Cut(row.bid) + Deposit}

\* The books of a step.
LEMMA Balance ==
  ASSUME IInv, IInv', NEW a \in Int, NEW b \in Int, NEW c \in Int,
         Sum(purse') = Sum(purse) + a, Sum(post') = Sum(post) + b, Sum(Stakes') = Sum(Stakes) + c
  PROVE  Gold - Gold' = 0 - (a + b + c)
<1>1. Sum(purse) \in Nat /\ Sum(post) \in Nat /\ Sum(Stakes) \in Nat
      /\ Gold = Sum(purse) + Sum(post) + Sum(Stakes)
  BY GoldIs
<1>2. Gold' = Sum(purse') + Sum(post') + Sum(Stakes')
  BY DEF Gold, Stakes
<1> QED BY <1>1, <1>2

LEMMA SameStakes ==
  ASSUME RowsOK, Live' = Live, \A id \in Live : auctions'[id].bid = auctions[id].bid
  PROVE  Sum(Stakes') = Sum(Stakes)
<1>1. Stakes' = Stakes
  BY DEF Stakes
<1> QED BY <1>1

\* Nothing is paid and no bid is changed.
LEMMA QuietKept ==
  ASSUME IInv, IInv', UNCHANGED <<post, purse>>,
         Live' = Live, \A id \in Live : auctions'[id].bid = auctions[id].bid
  PROVE  Kept
<1>1. Sum(Stakes') = Sum(Stakes)
  BY SameStakes DEF IInv, TInv
<1>2. Sum(purse) \in Nat /\ Sum(post) \in Nat /\ Sum(Stakes) \in Nat
  BY GoldIs
<1>3. /\ Sum(purse') = Sum(purse) + 0 /\ Sum(post') = Sum(post) + 0
      /\ Sum(Stakes') = Sum(Stakes) + 0
  BY <1>1, <1>2
<1>4. Gold - Gold' = 0
  BY <1>3, Balance
<1> QED BY <1>4 DEF Kept, Live

LEMMA ExpireAuctionKept ==
  ASSUME IInv, IInv', NEW p \in Players, ExpireAuction(p)
  PROVE  Kept
<1> USE DEF IInv, TInv
<1>1. PICK id \in DOMAIN job[p].todo :
        LET row == job[p].todo[id]
            sold == row.bidder # Nobody
            rest == Restrict(job[p].todo, DOMAIN job[p].todo \ {id})
        IN /\ auctions' = Without(id)
           /\ post' = IF sold THEN [post EXCEPT ![row.seller] = @ + Profit(row.bid)] ELSE post
           /\ parcel' = Mailed(row.item, IF sold THEN row.bidder ELSE row.seller)
           /\ owner' = IF sold THEN [owner EXCEPT ![row.item] = row.bidder] ELSE owner
           /\ job' = [job EXCEPT ![p] = [@ EXCEPT !.todo = rest]]
           /\ UNCHANGED <<bag, purse>>
  BY Expires
<1>2. id \in Live /\ job[p].todo[id] = auctions[id] /\ Good(auctions[id])
  <2>1. job[p].step = "sweeping" /\ RowsOK /\ PInv
    BY DEF ExpireAuction
  <2> HIDE DEF IInv, TInv
  <2> QED BY <2>1, SweptRow
<1>3. PICK bid \in Nat, s \in Players : bid = auctions[id].bid /\ s = auctions[id].seller
  BY <1>2, RowFields
<1>4. /\ Live \ DOMAIN auctions' = {id}
      /\ Sum(Stakes') = Sum(Stakes) - bid - Deposit
  BY <1>1, <1>2, <1>3, StakeGone
<1>5. Sum(purse) \in Nat /\ Sum(post) \in Nat /\ Sum(Stakes) \in Nat /\ Deposit \in Nat
  BY GoldIs, AuctionAssumption
<1>6. Sum(purse') = Sum(purse) + 0 /\ Sum(Stakes') = Sum(Stakes) + (0 - bid - Deposit)
  BY <1>1, <1>3, <1>4, <1>5
<1>7. CASE auctions[id].bidder = Nobody
  <2>1. bid = 0
    BY <1>2, <1>3, <1>7, RowFields
  <2>2. Sum(post') = Sum(post) + 0
    BY <1>1, <1>2, <1>5, <1>7
  <2>3. Gold - Gold' = 0 - (0 + 0 + (0 - bid - Deposit))
    BY <1>3, <1>5, <1>6, <2>2, Balance
  <2>4. Gold - Gold' = Deposit
    BY <1>5, <2>1, <2>3
  <2> QED BY <1>4, <2>4 DEF Kept
<1>8. CASE auctions[id].bidder # Nobody
  <2>1. PICK gain \in Nat, cut \in Nat : gain = Profit(bid) /\ cut = Cut(bid)
    BY <1>3, ProfitIs, CutIs
  <2>2. gain = bid + Deposit - cut
    BY <2>1 DEF Profit
  <2>3. PICK v \in Nat : v = post[s] + gain
    BY <1>3, <2>1 DEF GoldOK
  <2>4. post' = [post EXCEPT ![s] = v]
    BY <1>1, <1>2, <1>3, <1>8, <2>1, <2>3
  <2>5. Sum([post EXCEPT ![s] = v]) = Sum(post) - post[s] + v
    BY <1>3, <2>3, GoldIs, SumChanges
  <2>6. post[s] \in Nat
    BY <1>3 DEF GoldOK
  <2>7. Sum(post') = Sum(post) + gain
    BY <1>5, <2>1, <2>3, <2>4, <2>5, <2>6
  <2>8. Gold - Gold' = 0 - (0 + gain + (0 - bid - Deposit))
    BY <1>3, <1>5, <1>6, <2>1, <2>7, Balance
  <2>9. Gold - Gold' = cut
    BY <1>3, <1>5, <2>1, <2>2, <2>8
  <2> QED BY <1>3, <1>4, <2>1, <2>9 DEF Kept
<1> QED BY <1>7, <1>8

\* The row that p pays for, and what it has to say of the gold.
LEMMA Hand ==
  ASSUME IInv, NEW p \in Players, job[p].step \in {"bidding", "cancelling"}, NEW row, row = job[p].row
  PROVE  /\ job[p].id \in Live /\ row.bid = auctions[job[p].id].bid
         /\ row.buyout = auctions[job[p].id].buyout
         /\ row.bid \in Nat /\ row.buyout \in Nat /\ job[p].price \in Nat
         /\ row.seller \in Players /\ row.bidder \in Players \cup {Nobody}
         /\ row.bidder # row.seller /\ (row.bidder = Nobody => row.bid = 0)
         /\ (row.buyout > 0 => row.bid < row.buyout)
         /\ (job[p].step = "bidding" => row.bid < job[p].price)
         /\ (job[p].step = "cancelling" => row.seller = p)
<1>1. /\ job[p].id \in Live /\ Good(auctions[job[p].id]) /\ Same(row, auctions[job[p].id])
  BY InHand
<1>2. row.bidder = Nobody => row.bid = 0
  BY <1>1, RowFields DEF Same
<1>3. job[p].price \in Nat
  BY DEF IInv, TInv, JobsOK, IsJob
<1>4. /\ job[p].step = "bidding" => row.bid < job[p].price
      /\ job[p].step = "cancelling" => row.seller = p
  <2>1. StandsAt(p) /\ row.bid \in Nat
    BY InHand DEF IInv, PInv
  <2> QED BY <1>3, <2>1 DEF StandsAt
<1> QED BY <1>1, <1>2, <1>3, <1>4, InHand DEF Same

LEMMA PlaceBidKept ==
  ASSUME IInv, IInv', Affords, NEW p \in Players, PlaceBid(p)
  PROVE  Kept
<1>1. PICK row : row = job[p].row
  OBVIOUS
<1>2. job[p].step = "bidding"
  BY DEF PlaceBid
<1>3. PICK id \in Live, bid \in Nat, price \in Nat :
        id = job[p].id /\ bid = row.bid /\ bid = auctions[id].bid /\ price = job[p].price /\ bid < price
  BY <1>1, <1>2, Hand
<1>4. /\ row.bid \in Nat /\ row.bidder \in Players \cup {Nobody}
      /\ (row.bidder = Nobody => row.bid = 0)
  BY <1>1, <1>2, Hand
<1>5. PICK stake \in 0..bid : stake = Stake(row, p) /\ Sum(Refunded(row, p)) = Sum(post) + bid - stake
  <2>1. GoldOK
    BY DEF IInv, TInv
  <2>2. /\ Stake(row, p) \in 0..row.bid
        /\ Sum(Refunded(row, p)) = Sum(post) + row.bid - Stake(row, p)
    BY <1>4, <2>1, RefundAdds
  <2>3. row.bid = bid
    BY <1>3
  <2> QED BY <2>2, <2>3
<1>6. price <= purse[p] /\ purse[p] \in Nat
  BY <1>2, <1>3 DEF Affords, AffordsAt, IInv, TInv, GoldOK
<1>7. /\ purse' = [purse EXCEPT ![p] = Less(purse[p], price - stake)] /\ post' = Refunded(row, p)
      /\ auctions' = [auctions EXCEPT ![id] = [@ EXCEPT !.bidder = p, !.bid = price]]
  BY <1>1, <1>3, <1>5 DEF PlaceBid
<1>8. Sum(purse) \in Nat /\ Sum(post) \in Nat /\ Sum(Stakes) \in Nat /\ Deposit \in Nat
      /\ Stakes \in [Live -> Nat] /\ IsFiniteSet(Live)
  BY GoldIs, AuctionAssumption
<1>9. Sum(purse') = Sum(purse) + (stake - price)
  <2>1. PICK d \in Nat : d = price - stake /\ d <= purse[p]
    BY <1>3, <1>5, <1>6
  <2>2. Sum(purse)' = Sum(purse) - d
    BY <1>7, <2>1, Paid
  <2> QED BY <1>3, <1>5, <1>8, <2>1, <2>2
<1>10. Sum(post') = Sum(post) + (bid - stake)
  BY <1>3, <1>5, <1>7, <1>8
<1>11. Live' = Live
  BY <1>7 DEF Live
<1>12. Sum(Stakes') = Sum(Stakes) + (price - bid)
  <2>1. auctions[id] \in Row
    BY <1>3 DEF IInv, TInv, RowsOK, Good
  <2>2. \A x \in Live : auctions'[x].bid = IF x = id THEN price ELSE auctions[x].bid
    <3>1. auctions'[id] = [auctions[id] EXCEPT !.bidder = p, !.bid = price]
      BY <1>7 DEF Live
    <3>2. auctions'[id].bid = price
      BY <2>1, <3>1 DEF Row
    <3>3. \A x \in Live \ {id} : auctions'[x] = auctions[x]
      BY <1>7 DEF Live
    <3> QED BY <3>2, <3>3
  <2>3. PICK f : f = Stakes
    OBVIOUS
  <2>4. PICK v \in Nat : v = price + Deposit
    BY <1>8
  <2>5. Stakes' = [f EXCEPT ![id] = v]
    <3>1. Stakes' = [x \in Live |-> auctions'[x].bid + Deposit]
      BY <1>11 DEF Stakes
    <3>2. \A x \in Live : auctions'[x].bid + Deposit = IF x = id THEN v ELSE auctions[x].bid + Deposit
      BY <2>2, <2>4
    <3>3. f = [x \in Live |-> auctions[x].bid + Deposit]
      BY <2>3 DEF Stakes
    <3> QED BY <3>1, <3>2, <3>3
  <2>6. f \in [Live -> Nat] /\ f[id] = bid + Deposit
    BY <1>3, <1>8, <2>3 DEF Stakes
  <2>7. Sum([f EXCEPT ![id] = v]) = Sum(f) - f[id] + v
    BY <1>8, <2>6, SumChanges
  <2>8. Sum(Stakes') = Sum(f) - f[id] + v
    BY <2>5, <2>7
  <2>9. Sum(f) = Sum(Stakes)
    BY <2>3
  <2> QED BY <1>8, <2>4, <2>6, <2>8, <2>9
<1>13. Gold - Gold' = 0 - ((stake - price) + (bid - stake) + (price - bid))
  BY <1>9, <1>10, <1>12, Balance
<1>14. Gold - Gold' = 0
  BY <1>13
<1> QED BY <1>11, <1>14 DEF Kept, Live

LEMMA BuyOutKept ==
  ASSUME IInv, IInv', Affords, NEW p \in Players, BuyOut(p)
  PROVE  Kept
<1>1. PICK row : row = job[p].row
  OBVIOUS
<1>2. job[p].step = "bidding" /\ row.buyout > 0 /\ job[p].price >= row.buyout
  BY <1>1 DEF BuyOut, BuysOut
<1>3. PICK id \in Live, bid \in Nat, price \in Nat, s \in Players :
        /\ id = job[p].id /\ bid = row.bid /\ bid = auctions[id].bid /\ price = row.buyout
        /\ price = auctions[id].buyout /\ bid < price /\ s = row.seller
  BY <1>1, <1>2, Hand
<1>4. /\ row.bid \in Nat /\ row.bidder \in Players \cup {Nobody}
      /\ (row.bidder = Nobody => row.bid = 0)
  BY <1>1, <1>2, Hand
<1>5. PICK stake \in 0..bid :
        /\ stake = Stake(row, p) /\ Sum(Refunded(row, p)) = Sum(post) + bid - stake
        /\ Refunded(row, p) \in [Players -> Nat]
  <2>1. GoldOK
    BY DEF IInv, TInv
  <2>2. /\ Stake(row, p) \in 0..row.bid
        /\ Sum(Refunded(row, p)) = Sum(post) + row.bid - Stake(row, p)
    BY <1>4, <2>1, RefundAdds
  <2>3. Refunded(row, p) \in [Players -> Nat]
    BY <1>4, <2>1, RefundedIs
  <2>4. row.bid = bid
    BY <1>3
  <2> QED BY <2>2, <2>3, <2>4
<1>6. price <= purse[p] /\ purse[p] \in Nat
  <2>1. job[p].price <= purse[p] /\ purse[p] \in Nat
    BY <1>2 DEF Affords, AffordsAt, IInv, TInv, GoldOK
  <2>2. job[p].price \in Nat
    BY DEF IInv, TInv, JobsOK, IsJob
  <2> QED BY <1>2, <1>3, <2>1, <2>2
<1>7. PICK gain \in Nat, cut \in Nat : gain = Profit(price) /\ cut = Cut(price)
  BY <1>3, ProfitIs, CutIs
<1>8. gain = price + Deposit - cut
  BY <1>7 DEF Profit
<1>9. PICK refunded \in [Players -> Nat] : refunded = Refunded(row, p)
  BY <1>5
<1>10. /\ purse' = [purse EXCEPT ![p] = Less(purse[p], price - stake)]
       /\ post' = [refunded EXCEPT ![s] = @ + gain]
       /\ auctions' = Without(id)
  BY <1>1, <1>3, <1>5, <1>7, <1>9 DEF BuyOut
<1>11. Sum(purse) \in Nat /\ Sum(post) \in Nat /\ Sum(Stakes) \in Nat /\ Deposit \in Nat
       /\ IsFiniteSet(Players)
  BY GoldIs, AuctionAssumption
<1>12. Sum(purse') = Sum(purse) + (stake - price)
  <2>1. PICK d \in Nat : d = price - stake /\ d <= purse[p]
    BY <1>3, <1>5, <1>6
  <2>2. Sum(purse)' = Sum(purse) - d
    BY <1>10, <2>1, Paid
  <2> QED BY <1>3, <1>5, <1>11, <2>1, <2>2
<1>13. Sum(post') = Sum(post) + (bid - stake + gain)
  <2>1. PICK v \in Nat : v = refunded[s] + gain
    BY <1>3, <1>7, <1>9
  <2>2. post' = [refunded EXCEPT ![s] = v] /\ refunded[s] \in Nat
    BY <1>3, <1>9, <1>10, <2>1
  <2>3. Sum([refunded EXCEPT ![s] = v]) = Sum(refunded) - refunded[s] + v
    <3>1. IsFiniteSet(Players)
      BY <1>11
    <3> QED BY <3>1, SumChanges
  <2>4. Sum(post') = Sum(refunded) - refunded[s] + v
    BY <2>2, <2>3
  <2>5. Sum(refunded) = Sum(post) + bid - stake
    BY <1>5, <1>9
  <2>6. PICK r \in Nat : r = refunded[s]
    BY <2>2
  <2>7. Sum(post') = Sum(refunded) - r + (r + gain)
    BY <2>1, <2>4, <2>6
  <2> QED BY <1>11, <2>5, <2>7
<1>14. Live \ DOMAIN auctions' = {id} /\ Sum(Stakes') = Sum(Stakes) + (0 - bid - Deposit)
  <2>1. /\ Live \ DOMAIN auctions' = {id}
        /\ Sum(Stakes') = Sum(Stakes) - bid - Deposit
    BY <1>3, <1>10, StakeGone
  <2> QED BY <1>3, <1>11, <2>1
<1>a. PICK a \in Int : a = stake - price
  OBVIOUS
<1>b. PICK b \in Int : b = bid - stake + gain
  OBVIOUS
<1>c. PICK c \in Int : c = 0 - bid - Deposit
  <2>1. PICK d \in Nat : d = Deposit
    BY <1>11
  <2>2. 0 - bid - d \in Int
    BY <2>1
  <2> QED BY <2>1, <2>2
<1>15. Gold - Gold' = 0 - (a + b + c)
  <2>1. /\ Sum(purse') = Sum(purse) + a /\ Sum(post') = Sum(post) + b
        /\ Sum(Stakes') = Sum(Stakes) + c
    BY <1>12, <1>13, <1>14, <1>a, <1>b, <1>c
  <2> QED BY <2>1, Balance
<1>16. Gold - Gold' = cut
  BY <1>8, <1>11, <1>15, <1>a, <1>b, <1>c
<1> QED BY <1>3, <1>7, <1>14, <1>16 DEF Kept

LEMMA RemoveItemKept ==
  ASSUME IInv, IInv', Affords, NEW p \in Players, RemoveItem(p)
  PROVE  Kept
<1>1. PICK row : row = job[p].row
  OBVIOUS
<1>2. job[p].step = "cancelling"
  BY DEF RemoveItem
<1>3. PICK id \in Live, bid \in Nat :
        id = job[p].id /\ bid = row.bid /\ bid = auctions[id].bid
  BY <1>1, <1>2, Hand
<1>4. /\ row.bid \in Nat /\ row.bidder \in Players \cup {Nobody}
      /\ (row.bidder = Nobody => row.bid = 0) /\ row.bidder # p
  BY <1>1, <1>2, Hand
<1>5. Sum(Refunded(row, p)) = Sum(post) + bid
  <2>1. GoldOK
    BY DEF IInv, TInv
  <2>2. Sum(post) \in Nat /\ Sum(Refunded(row, p)) = Sum(post) + row.bid - Stake(row, p)
    BY <1>4, <2>1, RefundAdds
  <2>3. Stake(row, p) = 0
    BY <1>4 DEF Stake
  <2>4. row.bid = bid
    BY <1>3
  <2> QED BY <2>2, <2>3, <2>4
<1>6. PICK cut \in Nat : cut = Cut(bid)
  BY <1>3, CutIs
<1>7. cut <= purse[p] /\ purse[p] \in Nat
  BY <1>1, <1>2, <1>3, <1>6 DEF Affords, AffordsAt, IInv, TInv, GoldOK
<1>8. /\ purse' = [purse EXCEPT ![p] = Less(purse[p], cut)] /\ post' = Refunded(row, p)
      /\ auctions' = Without(id)
  BY <1>1, <1>3, <1>6 DEF RemoveItem
<1>9. Sum(purse) \in Nat /\ Sum(post) \in Nat /\ Sum(Stakes) \in Nat /\ Deposit \in Nat
  BY GoldIs, AuctionAssumption
<1>10. Sum(purse') = Sum(purse) + (0 - cut)
  <2>1. Sum(purse)' = Sum(purse) - cut
    BY <1>6, <1>7, <1>8, Paid
  <2> QED BY <1>6, <1>9, <2>1
<1>11. Live \ DOMAIN auctions' = {id} /\ Sum(Stakes') = Sum(Stakes) + (0 - bid - Deposit)
  <2>1. /\ Live \ DOMAIN auctions' = {id}
        /\ Sum(Stakes') = Sum(Stakes) - bid - Deposit
    BY <1>3, <1>8, StakeGone
  <2> QED BY <1>3, <1>9, <2>1
<1>12. Sum(post') = Sum(post) + bid
  BY <1>5, <1>8
<1>13. Gold - Gold' = 0 - ((0 - cut) + bid + (0 - bid - Deposit))
  BY <1>3, <1>6, <1>9, <1>10, <1>11, <1>12, Balance
<1>14. Gold - Gold' = cut + Deposit
  BY <1>3, <1>6, <1>9, <1>13
<1> QED BY <1>3, <1>6, <1>11, <1>14 DEF Kept

LEMMA AddAuctionKept ==
  ASSUME IInv, IInv', Affords, NEW p \in Players, AddAuction(p)
  PROVE  Kept
<1>0. Sum(purse) \in Nat /\ Sum(post) \in Nat /\ Sum(Stakes) \in Nat /\ Deposit \in Nat
  BY GoldIs, AuctionAssumption
<1>1. PICK id : id = job[p].id
  OBVIOUS
<1>2. PICK row : row = job[p].row
  OBVIOUS
<1>3. job[p].step = "selling" /\ Good(row) /\ row.bidder = Nobody /\ id \notin Live
  BY <1>1, <1>2 DEF AddAuction, IInv, PInv, StandsAt
<1>4. row.bid = 0
  BY <1>3, RowFields
<1>5. CASE Listed(row.item)
  <2>1. UNCHANGED <<auctions, purse, post>>
    BY <1>2, <1>5 DEF AddAuction
  <2> QED BY <2>1, QuietKept DEF Live
<1>6. CASE ~Listed(row.item)
  <2>1. /\ auctions' = [x \in Live \cup {id} |-> IF x = id THEN row ELSE auctions[x]]
        /\ purse' = [purse EXCEPT ![p] = Less(purse[p], Deposit)] /\ post' = post
    BY <1>1, <1>2, <1>3, <1>6 DEF AddAuction
  <2>2. Sum(purse') = Sum(purse) + (0 - Deposit)
    <3>1. Deposit <= purse[p]
      BY <1>3 DEF Affords, AffordsAt
    <3>2. Sum(purse)' = Sum(purse) - Deposit
      BY <1>0, <2>1, <3>1, Paid
    <3> QED BY <1>0, <3>2
  <2>3. Sum(post') = Sum(post) + 0
    BY <1>0, <2>1
  <2>4. Live' = Live \cup {id} /\ Live' \ {id} = Live
    BY <1>3, <2>1 DEF Live
  <2>5. Sum(Stakes') = Sum(Stakes) + Deposit
    <3>1. PICK f : f = Stakes'
      OBVIOUS
    <3>2. PICK D : D = Live'
      OBVIOUS
    <3>3. f = [x \in D |-> IF x = id THEN Deposit ELSE Stakes[x]]
      <4>1. Stakes' = [x \in Live' |-> auctions'[x].bid + Deposit]
        BY DEF Stakes
      <4>2. \A x \in Live : auctions'[x].bid + Deposit = Stakes[x]
        BY <1>3, <2>1 DEF Stakes
      <4>3. auctions'[id].bid + Deposit = Deposit
        BY <1>0, <1>4, <2>1
      <4> QED BY <2>4, <3>1, <3>2, <4>1, <4>2, <4>3
    <3>4. IsFiniteSet(D) /\ id \in D
      BY <2>4, <3>2, GoldIs, FS_AddElement
    <3>5. f \in [D -> Nat] /\ f[id] = Deposit
      BY <1>0, <2>4, <3>2, <3>3, <3>4, GoldIs
    <3>6. [x \in D \ {id} |-> f[x]] = Stakes
      <4>1. D \ {id} = Live /\ Stakes = [x \in Live |-> Stakes[x]]
        BY <2>4, <3>2 DEF Stakes
      <4>2. \A x \in Live : f[x] = Stakes[x]
        BY <1>3, <2>4, <3>2, <3>3
      <4> QED BY <4>1, <4>2
    <3>7. Sum(f) = f[id] + Sum([x \in D \ {id} |-> f[x]])
      BY <3>4, <3>5, SumApart
    <3>8. Sum(f) = Deposit + Sum(Stakes)
      BY <3>5, <3>6, <3>7
    <3>9. Sum(f) = Sum(Stakes')
      BY <3>1
    <3> QED BY <1>0, <3>8, <3>9
  <2>6. Gold - Gold' = 0 - ((0 - Deposit) + 0 + Deposit)
    BY <1>0, <2>2, <2>3, <2>5, Balance
  <2>7. Gold - Gold' = 0
    BY <1>0, <2>6
  <2> QED BY <2>4, <2>7 DEF Kept, Live
<1> QED BY <1>5, <1>6

LEMMA TakeMoneyKept ==
  ASSUME IInv, IInv', NEW p \in Players, TakeMoney(p)
  PROVE  Kept
<1>0. Sum(purse) \in Nat /\ Sum(post) \in Nat /\ Sum(Stakes) \in Nat
      /\ purse \in [Players -> Nat] /\ post \in [Players -> Nat] /\ IsFiniteSet(Players)
  BY GoldIs
<1>1. PICK gold \in Nat, more \in Nat : gold = post[p] /\ more = purse[p] + post[p]
  BY <1>0
<1>2. /\ purse' = [purse EXCEPT ![p] = more] /\ post' = [post EXCEPT ![p] = 0]
      /\ auctions' = auctions
  BY <1>1 DEF TakeMoney
<1>3. Sum([purse EXCEPT ![p] = more]) = Sum(purse) - purse[p] + more
  BY <1>0, <1>1, SumChanges
<1>4. Sum([post EXCEPT ![p] = 0]) = Sum(post) - post[p] + 0
  <2>1. IsFiniteSet(Players) /\ post \in [Players -> Nat] /\ 0 \in Nat
    BY <1>0
  <2> QED BY <2>1, SumChanges
<1>5. purse[p] \in Nat
  BY <1>0
<1>6. Sum(purse') = Sum(purse) + gold
  <2>1. Sum(purse') = Sum(purse) - purse[p] + more
    BY <1>2, <1>3
  <2> QED BY <1>0, <1>1, <1>5, <2>1
<1>7. Sum(post') = Sum(post) + (0 - gold)
  <2>1. Sum(post') = Sum(post) - post[p] + 0
    BY <1>2, <1>4
  <2> QED BY <1>0, <1>1, <2>1
<1>8. Sum(Stakes') = Sum(Stakes) + 0
  <2>1. Sum(Stakes') = Sum(Stakes)
    BY <1>2, SameStakes DEF Live, IInv, TInv
  <2> QED BY <1>0, <2>1
<1>9. Gold - Gold' = 0 - (gold + (0 - gold) + 0)
  BY <1>1, <1>6, <1>7, <1>8, Balance
<1>10. Gold - Gold' = 0
  BY <1>1, <1>9
<1> QED BY <1>2, <1>10 DEF Kept, Live

\* One handler at a time: no step makes gold or loses any, but the end of an auction,
\* which costs the cut of its last price, the deposit where the item came back, or both
\* (handleAuctionPlaceBid, handleAuctionRemoveItem, expireAuctions, handleMailTakeMoney).
THEOREM GoldIsKept == Racers = {} /\ Spec => GoldKept
<1> SUFFICES ASSUME Racers = {} PROVE Spec => GoldKept
  OBVIOUS
<1>1. IInv /\ IInv' /\ Affords /\ [Next]_vars => [Kept]_vars
  <2> SUFFICES ASSUME IInv, IInv', Affords, Next PROVE Kept
    OBVIOUS
  <2>1. ASSUME UNCHANGED <<auctions, post, purse>> PROVE Kept
    BY <2>1, QuietKept DEF Live
  <2>2. CASE \E id \in Ids : FallDue(id)
    <3>1. PICK id \in Live : auctions' = [auctions EXCEPT ![id] = [@ EXCEPT !.due = TRUE]]
      BY <2>2 DEF FallDue
    <3>2. Live' = Live /\ auctions[id] \in Row
      BY <3>1 DEF Live, IInv, TInv, RowsOK, Good
    <3>3. auctions'[id] = [auctions[id] EXCEPT !.due = TRUE]
      BY <3>1 DEF Live
    <3>4. auctions'[id].bid = auctions[id].bid
      BY <3>2, <3>3 DEF Row
    <3>5. \A x \in Live \ {id} : auctions'[x] = auctions[x]
      BY <3>1 DEF Live
    <3>6. \A x \in Live : auctions'[x].bid = auctions[x].bid
      BY <3>4, <3>5
    <3>7. UNCHANGED <<post, purse>>
      BY <2>2 DEF FallDue
    <3> QED BY <3>2, <3>6, <3>7, QuietKept
  <2>3. ASSUME NEW p \in Players, Handle(p) PROVE Kept
    BY <2>1, <2>3, ExpireAuctionKept, PlaceBidKept, BuyOutKept, RemoveItemKept, AddAuctionKept,
       TakeMoneyKept DEF Handle, Visit, Look, SellItem, NumberAuction, TakeItem
  <2> QED BY <2>2, <2>3 DEF Next
<1>2. [Kept]_vars <=> [
  LET ended == Live \ DOMAIN auctions'
      lost == Gold - Gold'
  IN IF ended = {} THEN lost = 0
     ELSE \E id \in ended :
       LET row == auctions[id]
       IN lost \in {Cut(row.bid), Cut(row.buyout), Deposit, Cut(row.bid) + Deposit}]_vars
  BY DEF Kept
<1> QED BY Always, AlwaysAffords, <1>1, <1>2, PTL DEF Spec, GoldKept

-----------------------------------------------------------------------------
(* The market *)

\* What a client asked of a handler is among what clients ask.
AskedAt(p) ==
  /\ job[p].price \in Prices \cup {0}
  /\ job[p].step \in {"moved", "selling"} => job[p].row.buyout \in Buyouts
Asked == \A p \in Players : AskedAt(p)

LEMMA AskedIdle == ASSUME NEW p, job[p] = Idle PROVE AskedAt(p)
  BY Names DEF AskedAt

LEMMA AskedStep ==
  ASSUME Racers = {}, IInv, Asked, [Next]_vars
  PROVE  Asked'
<1>0. JobsOK
  BY DEF IInv, TInv
<1>1. CASE UNCHANGED job
  BY <1>1 DEF Asked, AskedAt
<1>2. ASSUME NEW p \in Players, Others(p), AskedAt(p)' PROVE Asked'
  <2>1. \A q \in Players \ {p} : AskedAt(q)'
    BY <1>2 DEF Others, Asked, AskedAt
  <2> QED BY <1>2, <2>1 DEF Asked
<1>3. ASSUME NEW p \in Players, Finish(p) PROVE Asked'
  <2>1. job'[p] = Idle /\ Others(p)
    BY <1>0, <1>3, JobMoves
  <2>2. AskedAt(p)'
    BY <2>1, Names DEF AskedAt
  <2> QED BY <1>2, <2>1, <2>2
<1>4. ASSUME NEW p \in Players, NEW j, IsJob(j), job' = [job EXCEPT ![p] = j],
             j.price \in Prices \cup {0},
             j.step \in {"moved", "selling"} => j.row.buyout \in Buyouts
      PROVE  Asked'
  <2>1. job'[p] = j /\ Others(p)
    BY <1>0, <1>4, JobMoves
  <2>2. AskedAt(p)'
    BY <1>4, <2>1 DEF AskedAt
  <2> QED BY <1>2, <2>1, <2>2
<1>5. ASSUME NEW p \in Players, Handle(p) PROVE Asked'
  <2>1. AskedAt(p) /\ IsJob(job[p])
    BY <1>0 DEF Asked, JobsOK
  <2>2. CASE Visit(p)
    <3>1. PICK todo : job' = [job EXCEPT ![p] =
            [step |-> "sweeping", todo |-> todo, id |-> 0, price |-> 0, row |-> <<>>]]
      BY <2>2 DEF Visit
    <3>2. PICK j : j = [step |-> "sweeping", todo |-> todo, id |-> 0, price |-> 0, row |-> <<>>]
      OBVIOUS
    <3>3. IsJob(j) /\ j.step = "sweeping" /\ j.price = 0
      BY <3>2 DEF IsJob, Steps
    <3> QED BY <1>4, <3>1, <3>2, <3>3
  <2>3. CASE Look(p)
    <3>1. ASSUME NEW step \in {"bidding", "cancelling"}, NEW id \in Live, NEW price \in Prices \cup {0},
                 job' = [job EXCEPT ![p] =
                   [step |-> step, todo |-> <<>>, id |-> id, price |-> price, row |-> auctions[id]]]
          PROVE  Asked'
      <4>1. PICK j : j = [step |-> step, todo |-> <<>>, id |-> id, price |-> price, row |-> auctions[id]]
        OBVIOUS
      <4>2. price \in Nat
        BY AuctionAssumption
      <4>3. IsJob(j) /\ j.step = step /\ j.price = price
        BY <4>1, <4>2 DEF IsJob, Steps
      <4> QED BY <1>4, <3>1, <4>1, <4>3
    <3> QED BY <1>3, <2>3, <3>1 DEF Look
  <2>4. CASE ExpireAuction(p)
    <3>1. PICK rest : job[p].step = "sweeping" /\ job' = [job EXCEPT ![p] = [@ EXCEPT !.todo = rest]]
      BY <2>4 DEF ExpireAuction
    <3>2. PICK j : j = [job[p] EXCEPT !.todo = rest]
      OBVIOUS
    <3>3. IsJob(j) /\ j.step = "sweeping" /\ j.price = job[p].price
      BY <2>1, <3>1, <3>2 DEF IsJob
    <3>4. job' = [job EXCEPT ![p] = j]
      BY <3>1, <3>2
    <3> QED BY <1>4, <2>1, <3>3, <3>4 DEF AskedAt
  <2>5. ASSUME NEW it \in Items, NEW buyout \in Buyouts, SellItem(p, it, buyout) PROVE Asked'
    <3>1. PICK row : row = [item |-> it, seller |-> p, buyout |-> buyout, due |-> FALSE,
                            bidder |-> Nobody, bid |-> 0]
      OBVIOUS
    <3>2. PICK j : j = [step |-> "moved", todo |-> <<>>, id |-> 0, price |-> 0, row |-> row]
      OBVIOUS
    <3>3. IsJob(j) /\ j.price = 0 /\ j.row.buyout = buyout
      BY <3>1, <3>2 DEF IsJob, Steps
    <3>4. job' = [job EXCEPT ![p] = j]
      BY <2>5, <3>1, <3>2 DEF SellItem
    <3> QED BY <1>4, <3>3, <3>4
  <2>6. CASE NumberAuction(p)
    <3>1. PICK j : j = [step |-> "selling", todo |-> <<>>, id |-> NextId, price |-> 0, row |-> job[p].row]
      OBVIOUS
    <3>2. IsJob(j) /\ j.price = 0 /\ j.row = job[p].row
      BY <3>1 DEF IsJob, Steps
    <3>3. job[p].row.buyout \in Buyouts /\ job' = [job EXCEPT ![p] = j]
      BY <2>1, <2>6, <3>1 DEF NumberAuction, AskedAt
    <3> QED BY <1>4, <3>2, <3>3
  <2>7. CASE PlaceBid(p) \/ BuyOut(p) \/ RemoveItem(p) \/ AddAuction(p)
    BY <1>3, <2>7 DEF PlaceBid, BuyOut, RemoveItem, AddAuction
  <2>8. CASE TakeMoney(p) \/ \E i \in Items : TakeItem(p, i)
    BY <1>1, <2>8 DEF TakeMoney, TakeItem
  <2> QED BY <1>5, <2>2, <2>3, <2>4, <2>5, <2>6, <2>7, <2>8 DEF Handle
<1> QED BY <1>1, <1>5 DEF Next, FallDue, vars

LEMMA AlwaysAsked == Racers = {} /\ Spec => []Asked
<1> SUFFICES ASSUME Racers = {} PROVE Spec => []Asked
  OBVIOUS
<1>1. Init => Asked
  <2> SUFFICES ASSUME Init PROVE Asked
    OBVIOUS
  <2>1. \A p \in Players : job[p] = Idle
    BY DEF Init
  <2> QED BY <2>1, AskedIdle DEF Asked
<1>2. IInv /\ Asked /\ [Next]_vars => Asked'
  BY AskedStep
<1> QED BY Always, <1>1, <1>2, PTL DEF Spec

\* What is on sale in the rows of auctionhouse, one row for an item.
OneRow(rows) == /\ \A id \in DOMAIN rows : rows[id].item \in Items
                /\ \A x, y \in DOMAIN rows : rows[x].item = rows[y].item => x = y
For(rows, i) == CHOOSE id \in DOMAIN rows : rows[id].item = i
Shown(rows) == {i \in Items : \E id \in DOMAIN rows : rows[id].item = i}
OffersOf(rows) == [i \in Shown(rows) |-> Terms(rows[For(rows, i)])]

LEMMA OffersAre == Offers = OffersOf(auctions) /\ Offers' = OffersOf(auctions')
  BY DEF Offers, OffersOf, Shown, For, Listed, Live

LEMMA OffersOfIs ==
  ASSUME NEW rows, OneRow(rows)
  PROVE  /\ DOMAIN OffersOf(rows) = Shown(rows)
         /\ OffersOf(rows) = [i \in Shown(rows) |-> OffersOf(rows)[i]]
         /\ \A id \in DOMAIN rows :
              rows[id].item \in Shown(rows) /\ OffersOf(rows)[rows[id].item] = Terms(rows[id])
<1>1. ASSUME NEW id \in DOMAIN rows
      PROVE  rows[id].item \in Shown(rows) /\ OffersOf(rows)[rows[id].item] = Terms(rows[id])
  <2>1. PICK i \in Items : i = rows[id].item
    BY DEF OneRow
  <2>2. For(rows, i) = id
    BY <2>1 DEF OneRow, For
  <2>3. i \in Shown(rows)
    BY <2>1 DEF Shown
  <2> QED BY <2>1, <2>2, <2>3 DEF OffersOf
<1> QED BY <1>1 DEF OffersOf

\* Two tables with the same items and terms show the same offers.
LEMMA SameOffers ==
  ASSUME NEW rows, NEW new, OneRow(rows), DOMAIN new = DOMAIN rows,
         \A id \in DOMAIN rows : new[id].item = rows[id].item /\ Terms(new[id]) = Terms(rows[id])
  PROVE  OffersOf(new) = OffersOf(rows)
<1>1. OneRow(new)
  BY DEF OneRow
<1>2. Shown(new) = Shown(rows)
  BY DEF Shown
<1>3. ASSUME NEW i \in Shown(rows) PROVE OffersOf(new)[i] = OffersOf(rows)[i]
  <2>1. PICK id \in DOMAIN rows : rows[id].item = i
    BY DEF Shown
  <2> QED BY <1>1, <2>1, OffersOfIs
<1> QED BY <1>1, <1>2, <1>3, OffersOfIs

\* A row is deleted.
LEMMA OfferEnds ==
  ASSUME NEW rows, OneRow(rows), NEW id \in DOMAIN rows, NEW i, i = rows[id].item
  PROVE  OffersOf([x \in DOMAIN rows \ {id} |-> rows[x]]) = [j \in Shown(rows) \ {i} |-> OffersOf(rows)[j]]
<1>1. PICK new : new = [x \in DOMAIN rows \ {id} |-> rows[x]]
  OBVIOUS
<1>2. DOMAIN new = DOMAIN rows \ {id} /\ \A x \in DOMAIN new : new[x] = rows[x]
  BY <1>1
<1>3. OneRow(new)
  BY <1>2 DEF OneRow
<1>4. Shown(new) = Shown(rows) \ {i}
  BY <1>2 DEF Shown, OneRow
<1>5. ASSUME NEW j \in Shown(new) PROVE OffersOf(new)[j] = OffersOf(rows)[j]
  <2>1. PICK x \in DOMAIN new : new[x].item = j
    BY DEF Shown
  <2>2. OffersOf(new)[j] = Terms(new[x])
    BY <1>3, <2>1, OffersOfIs
  <2>3. OffersOf(rows)[j] = Terms(rows[x])
    BY <1>2, <2>1, OffersOfIs
  <2> QED BY <1>2, <2>2, <2>3
<1>6. OffersOf(new) = [j \in Shown(new) |-> OffersOf(new)[j]]
  BY <1>3, OffersOfIs
<1> QED BY <1>1, <1>4, <1>5, <1>6

\* A row is written over, or added.
LEMMA OfferSet ==
  ASSUME NEW rows, OneRow(rows), NEW id, NEW row, row.item \in Items,
         \A x \in DOMAIN rows \ {id} : rows[x].item # row.item,
         id \in DOMAIN rows => rows[id].item = row.item
  PROVE  OffersOf([x \in DOMAIN rows \cup {id} |-> IF x = id THEN row ELSE rows[x]])
           = [j \in Shown(rows) \cup {row.item} |->
                IF j = row.item THEN Terms(row) ELSE OffersOf(rows)[j]]
<1>1. PICK new : new = [x \in DOMAIN rows \cup {id} |-> IF x = id THEN row ELSE rows[x]]
  OBVIOUS
<1>2. /\ DOMAIN new = DOMAIN rows \cup {id} /\ new[id] = row
      /\ \A x \in DOMAIN rows \ {id} : new[x] = rows[x]
  BY <1>1
<1>3. OneRow(new)
  BY <1>2 DEF OneRow
<1>4. Shown(new) = Shown(rows) \cup {row.item}
  BY <1>2 DEF Shown
<1>5. OffersOf(new)[row.item] = Terms(row)
  BY <1>2, <1>3, OffersOfIs
<1>6. ASSUME NEW j \in Shown(new), j # row.item PROVE OffersOf(new)[j] = OffersOf(rows)[j]
  <2>1. PICK x \in DOMAIN new : new[x].item = j
    BY DEF Shown
  <2>2. x \in DOMAIN rows \ {id} /\ new[x] = rows[x]
    BY <1>2, <1>6, <2>1
  <2>3. OffersOf(new)[j] = Terms(new[x])
    BY <1>3, <2>1, OffersOfIs
  <2>4. OffersOf(rows)[j] = Terms(rows[x])
    BY <2>1, <2>2, OffersOfIs
  <2> QED BY <2>2, <2>3, <2>4
<1>7. OffersOf(new) = [j \in Shown(new) |-> OffersOf(new)[j]]
  BY <1>3, OffersOfIs
<1> QED BY <1>1, <1>4, <1>5, <1>6, <1>7

\* One row for an item, in terms of the rows that are there.
LEMMA HouseRows ==
  ASSUME IInv
  PROVE  OneRow(auctions) /\ DOMAIN auctions = Live /\ DOMAIN Offers = Shown(auctions)
<1>1. OneRow(auctions)
  BY RowFields DEF IInv, TInv, RowsOK, OneAuction, OneRow, Live
<1> QED BY <1>1, OffersAre, OffersOfIs DEF Live

\* What the payment of p and the refund of the old bidder are to each player.
LEMMA PaysAt ==
  ASSUME GoldOK, NEW p \in Players, NEW d \in Nat, d <= purse[p],
         purse' = [purse EXCEPT ![p] = Less(purse[p], d)], NEW q \in Players
  PROVE  purse[q] \in Nat /\ purse'[q] = purse[q] - (IF q = p THEN d ELSE 0)
<1>1. purse \in [Players -> Nat] /\ purse[p] \in Nat /\ purse[q] \in Nat
  BY DEF GoldOK
<1>2. Less(purse[p], d) = purse[p] - d
  BY <1>1 DEF Less
<1>3. CASE q = p
  <2>1. purse'[q] = purse[q] - d
    BY <1>1, <1>2, <1>3
  <2> QED BY <1>1, <1>3, <2>1
<1>4. CASE q # p
  <2>1. purse'[q] = purse[q]
    BY <1>1, <1>4
  <2> QED BY <1>1, <1>4, <2>1
<1> QED BY <1>3, <1>4

LEMMA RefundAt ==
  ASSUME GoldOK, NEW row, row.bidder \in Players \cup {Nobody}, row.bid \in Nat, NEW p \in Players,
         NEW q \in Players
  PROVE  /\ post[q] \in Nat /\ Stake(row, q) \in 0..row.bid
         /\ Refunded(row, p)[q] = post[q] + Stake(row, q) - (IF q = p THEN Stake(row, p) ELSE 0)
<1>1. post \in [Players -> Nat] /\ post[q] \in Nat
  BY DEF GoldOK
<1>2. Stake(row, q) \in 0..row.bid
  BY DEF Stake
<1>3. CASE q = p
  <2>1. Refunded(row, p)[q] = post[q]
    BY <1>1, <1>3 DEF Refunded
  <2> QED BY <1>1, <1>2, <1>3, <2>1
<1>4. CASE q # p /\ row.bidder # q
  <2>1. Refunded(row, p)[q] = post[q]
    BY <1>1, <1>4 DEF Refunded
  <2>2. Stake(row, q) = 0
    BY <1>4 DEF Stake
  <2> QED BY <1>1, <1>4, <2>1, <2>2
<1>5. CASE q # p /\ row.bidder = q
  <2>1. Refunded(row, p)[q] = post[q] + row.bid
    BY <1>1, <1>5, AuctionAssumption DEF Refunded
  <2>2. Stake(row, q) = row.bid
    BY <1>5 DEF Stake
  <2> QED BY <1>1, <1>5, <2>1, <2>2
<1> QED BY <1>3, <1>4, <1>5

\* A bidder pays the price, less what it has at stake, and the old bidder is refunded.
Settles(row, p, price) == \A q \in Players :
  /\ Worth[q] \in Nat /\ Refunded(row, p)[q] \in Nat /\ purse'[q] \in Int
  /\ purse'[q] + Refunded(row, p)[q] = Worth[q] + Stake(row, q) - (IF q = p THEN price ELSE 0)

LEMMA BidderPays ==
  ASSUME GoldOK, NEW row, row.bidder \in Players \cup {Nobody}, row.bid \in Nat, NEW p \in Players,
         NEW price \in Nat, row.bid <= price, price <= purse[p],
         purse' = [purse EXCEPT ![p] = Less(purse[p], price - Stake(row, p))]
  PROVE  Settles(row, p, price)
<1>1. PICK stake \in Nat : stake = Stake(row, p) /\ stake <= price
  BY DEF Stake
<1>2. PICK d \in Nat : d = price - stake
  BY <1>1
<1>3. purse[p] \in Nat /\ d <= purse[p] /\ purse' = [purse EXCEPT ![p] = Less(purse[p], d)]
  BY <1>1, <1>2 DEF GoldOK
<1>4. ASSUME NEW q \in Players
      PROVE  /\ Worth[q] \in Nat /\ Refunded(row, p)[q] \in Nat /\ purse'[q] \in Int
             /\ purse'[q] + Refunded(row, p)[q]
                  = Worth[q] + Stake(row, q) - (IF q = p THEN price ELSE 0)
  <2>1. purse[q] \in Nat /\ purse'[q] = purse[q] - (IF q = p THEN d ELSE 0)
    BY <1>3, PaysAt
  <2>2. /\ post[q] \in Nat /\ Stake(row, q) \in 0..row.bid
        /\ Refunded(row, p)[q] = post[q] + Stake(row, q) - (IF q = p THEN stake ELSE 0)
    BY <1>1, RefundAt
  <2>3. Worth[q] = purse[q] + post[q]
    BY DEF Worth
  <2>4. Refunded(row, p)[q] \in Nat
    BY <1>1, <2>2
  <2>5. CASE q = p
    BY <1>1, <1>2, <2>1, <2>2, <2>3, <2>4, <2>5
  <2>6. CASE q # p
    BY <2>1, <2>2, <2>3, <2>4, <2>6
  <2> QED BY <2>5, <2>6
<1> QED BY <1>4 DEF Settles

Dealing == IInv /\ Affords /\ Asked

\* Nothing that the market shows has changed.
Quiet == UNCHANGED <<Worth, owner, parcel, Offers>>

LEMMA SameWorth == UNCHANGED <<purse, post>> => Worth' = Worth
  BY DEF Worth

\* The auction id of the item i ends.
LEMMA Closes ==
  ASSUME IInv, NEW id \in Live, NEW i, i = auctions[id].item, auctions' = Without(id)
  PROVE  i \in DOMAIN Offers /\ Offers[i] = Terms(auctions[id]) /\ Market!Close(i)
<1>1. OneRow(auctions) /\ DOMAIN auctions = Live /\ DOMAIN Offers = Shown(auctions)
  BY HouseRows
<1>2. PICK rows : rows = auctions
  OBVIOUS
<1>3. OneRow(rows) /\ id \in DOMAIN rows /\ i = rows[id].item
  BY <1>1, <1>2
<1>4. i \in Shown(rows) /\ OffersOf(rows)[i] = Terms(rows[id])
  BY <1>3, OffersOfIs
<1>5. OffersOf([x \in DOMAIN rows \ {id} |-> rows[x]]) = [j \in Shown(rows) \ {i} |-> OffersOf(rows)[j]]
  BY <1>3, OfferEnds
<1>6. auctions' = [x \in DOMAIN rows \ {id} |-> rows[x]]
  BY <1>1, <1>2 DEF Without, Restrict
<1>7. Offers = OffersOf(rows) /\ Offers' = OffersOf(auctions')
  BY <1>2, OffersAre
<1>8. Offers' = [j \in DOMAIN Offers \ {i} |-> Offers[j]]
  BY <1>1, <1>2, <1>5, <1>6, <1>7
<1>9. Market!Close(i)
  BY <1>8 DEF Market!Close, Market!OnSale, Market!Restrict
<1> QED BY <1>1, <1>2, <1>4, <1>7, <1>9

LEMMA CutsAgree == \A price : Market!Cut(price) = Cut(price)
  BY DEF Market!Cut, Cut

LEMMA Delivers == ASSUME NEW i, NEW p, parcel' = Mailed(i, p) PROVE Market!Deliver(i, p)
  BY DEF Market!Deliver, Mailed

LEMMA ExpireAuctionDeals ==
  ASSUME Dealing, NEW p \in Players, ExpireAuction(p)
  PROVE  Market!Next
<1>1. PICK id \in DOMAIN job[p].todo : id \in Live /\ job[p].todo[id] = auctions[id]
        /\ auctions' = Without(id) /\ purse' = purse
        /\ post' = (IF auctions[id].bidder # Nobody
                    THEN [post EXCEPT ![auctions[id].seller] = @ + Profit(auctions[id].bid)] ELSE post)
        /\ parcel' = Mailed(auctions[id].item,
             IF auctions[id].bidder # Nobody THEN auctions[id].bidder ELSE auctions[id].seller)
        /\ owner' = (IF auctions[id].bidder # Nobody
                     THEN [owner EXCEPT ![auctions[id].item] = auctions[id].bidder] ELSE owner)
  <2>1. PICK id \in DOMAIN job[p].todo : job[p].step = "sweeping" /\ auctions' = Without(id) /\ purse' = purse
          /\ post' = (IF job[p].todo[id].bidder # Nobody
                      THEN [post EXCEPT ![job[p].todo[id].seller] = @ + Profit(job[p].todo[id].bid)] ELSE post)
          /\ parcel' = Mailed(job[p].todo[id].item,
               IF job[p].todo[id].bidder # Nobody THEN job[p].todo[id].bidder ELSE job[p].todo[id].seller)
          /\ owner' = (IF job[p].todo[id].bidder # Nobody
                       THEN [owner EXCEPT ![job[p].todo[id].item] = job[p].todo[id].bidder] ELSE owner)
    BY DEF ExpireAuction
  <2>2. StandsAt(p)
    BY DEF Dealing, IInv, PInv
  <2>3. id \in Live /\ job[p].todo[id] = auctions[id]
    BY <2>1, <2>2 DEF StandsAt
  <2> QED BY <2>1, <2>3
<1>2. Good(auctions[id])
  BY <1>1 DEF RowsOK, Dealing, IInv, TInv
<1>3. PICK it \in Items, s \in Players, b \in Players \cup {Nobody}, bid \in Nat :
        /\ it = auctions[id].item /\ s = auctions[id].seller /\ b = auctions[id].bidder
        /\ bid = auctions[id].bid /\ b # s /\ (b = Nobody <=> bid = 0)
  <2>1. /\ auctions[id].item \in Items /\ auctions[id].seller \in Players
        /\ auctions[id].bidder \in Players \cup {Nobody} /\ auctions[id].bid \in Nat
        /\ auctions[id].bidder # auctions[id].seller
        /\ (auctions[id].bidder = Nobody <=> auctions[id].bid = 0)
    BY <1>2, RowFields
  <2> QED BY <2>1, Zenon
<1>4. /\ it \in DOMAIN Offers /\ Market!Close(it)
      /\ Offers[it].bidder = b /\ Offers[it].bid = bid /\ Offers[it].seller = s
  <2>1. IInv
    BY DEF Dealing
  <2>2. it \in DOMAIN Offers /\ Offers[it] = Terms(auctions[id]) /\ Market!Close(it)
    BY <1>1, <1>3, <2>1, Closes
  <2>3. PICK t : t = Terms(auctions[id])
    OBVIOUS
  <2>4. t.bidder = b /\ t.bid = bid /\ t.seller = s
    BY <1>3, <2>3 DEF Terms
  <2> QED BY <2>2, <2>3, <2>4
<1>5. Market!Deliver(it, IF b # Nobody THEN b ELSE s)
  BY <1>1, <1>3, Delivers
<1>6. CASE b = Nobody
  <2>1. owner' = owner
    BY <1>1, <1>3, <1>6
  <2>2. Worth' = Worth
    BY <1>1, <1>3, <1>6, SameWorth
  <2>3. Market!Return(it)
    BY <1>4, <1>5, <1>6, <2>1, <2>2 DEF Market!Return
  <2> QED BY <1>4, <2>3 DEF Market!Next, Market!OnSale
<1>7. CASE b # Nobody
  <2>1. PICK gain \in Nat, cut \in Nat : gain = Profit(bid) /\ cut = Cut(bid)
    BY <1>3, ProfitIs, CutIs
  <2>2. gain = bid + Deposit - cut /\ Deposit \in Nat
    BY <2>1, AuctionAssumption DEF Profit
  <2>3. post' = [post EXCEPT ![s] = @ + gain] /\ post \in [Players -> Nat] /\ purse \in [Players -> Nat]
    BY <1>1, <1>3, <1>7, <2>1 DEF GoldOK, Dealing, IInv, TInv
  <2>4. ASSUME NEW q \in Players
        PROVE  purse'[q] + post'[q]
                 = Worth[q] + (IF b = q THEN bid ELSE 0) - (IF q = b THEN bid ELSE 0)
                     + (IF q = s THEN bid + Deposit - cut ELSE 0)
    <3>1. Worth[q] = purse[q] + post[q] /\ purse[q] \in Nat /\ post[q] \in Nat
      BY <2>3 DEF Worth
    <3>2. post'[q] = IF q = s THEN post[q] + gain ELSE post[q]
      BY <2>3
    <3>3. purse'[q] = purse[q]
      BY <1>1
    <3> QED BY <2>2, <3>1, <3>2, <3>3
  <2>5. Worth' = [q \in Players |->
          Worth[q] + (IF b = q THEN bid ELSE 0) - (IF q = b THEN bid ELSE 0)
                   + (IF q = s THEN bid + Deposit - cut ELSE 0)]
    BY <2>4 DEF Worth
  <2>6. owner' = [owner EXCEPT ![it] = b]
    BY <1>1, <1>3, <1>7
  <2>7. cut = Market!Cut(bid)
    BY <2>1, CutsAgree
  <2>8. Market!Deliver(it, b)
    BY <1>5, <1>7
  <2>9. Market!Deal(it, b, bid)
    BY <1>4, <2>5, <2>6, <2>7, <2>8 DEF Market!Deal, Market!Stake, Market!Share
  <2>10. Market!Award(it)
    BY <1>4, <1>7, <2>9 DEF Market!Award
  <2> QED BY <1>4, <2>10 DEF Market!Next, Market!OnSale
<1> QED BY <1>6, <1>7

\* What the handler of a bidder or of a seller that cancels has to do with the market.
LEMMA InMarket ==
  ASSUME Dealing, NEW p \in Players, job[p].step \in {"bidding", "cancelling"},
         NEW id, id = job[p].id, NEW row, row = job[p].row
  PROVE  /\ id \in Live /\ GoldOK /\ auctions[id].item = row.item /\ row.item \in Items
         /\ Terms(auctions[id]) = Terms(row)
<1>1. id \in Live /\ Same(row, auctions[id]) /\ row.item \in Items
  BY InHand DEF Dealing
<1> QED BY <1>1 DEF Same, Terms, Dealing, IInv, TInv

LEMMA PlaceBidDeals ==
  ASSUME Dealing, NEW p \in Players, PlaceBid(p)
  PROVE  Market!Next
<1>0. PICK row, id, price : row = job[p].row /\ id = job[p].id /\ price = job[p].price
  OBVIOUS
<1>1. job[p].step = "bidding" /\ IInv
  BY DEF PlaceBid, Dealing
<1>2. /\ id \in Live /\ row.bid \in Nat /\ row.buyout \in Nat /\ price \in Nat
      /\ row.seller \in Players /\ row.bidder \in Players \cup {Nobody} /\ row.bid < price
  BY <1>0, <1>1, Hand
<1>3. /\ GoldOK /\ auctions[id].item = row.item /\ row.item \in Items
      /\ Terms(auctions[id]) = Terms(row)
  BY <1>0, <1>1, InMarket
<1>4. row.seller # p /\ price \in Prices
  <2>1. StandsAt(p) /\ AskedAt(p)
    BY DEF Dealing, IInv, PInv, Asked
  <2>2. row.seller # p
    BY <1>0, <1>1, <2>1 DEF StandsAt
  <2>3. price \in Prices \cup {0}
    BY <1>0, <2>1 DEF AskedAt
  <2> QED BY <1>2, <2>2, <2>3
<1>5. price <= purse[p] /\ purse[p] \in Nat
  BY <1>0, <1>1, <1>2, <1>3 DEF Dealing, Affords, AffordsAt, GoldOK
<1>6. row.buyout > 0 => price < row.buyout
  BY <1>0, <1>2 DEF PlaceBid, BuysOut
<1>7. PICK it \in Items, bid \in Nat, b \in Players \cup {Nobody}, buyout \in Nat, s \in Players :
        /\ it = row.item /\ bid = row.bid /\ b = row.bidder /\ buyout = row.buyout
        /\ s = row.seller
  BY <1>2, <1>3
<1>8. PICK rows : rows = auctions
  OBVIOUS
<1>9. OneRow(rows) /\ DOMAIN rows = Live /\ DOMAIN Offers = Shown(rows) /\ Offers = OffersOf(rows)
  BY <1>1, <1>8, HouseRows, OffersAre
<1>10. it \in DOMAIN Offers /\ Offers[it] = Terms(row)
  BY <1>2, <1>3, <1>7, <1>8, <1>9, OffersOfIs
<1>11. Offers' = [Offers EXCEPT ![it] = Market!Terms(s, buyout, p, price)]
  <2>1. PICK new : new = [rows[id] EXCEPT !.bidder = p, !.bid = price]
    OBVIOUS
  <2>2. rows[id] \in Row
    BY <1>1, <1>2, <1>8 DEF IInv, TInv, RowsOK, Good
  <2>3. new.item = rows[id].item /\ new.bidder = p /\ new.bid = price /\ new.buyout = rows[id].buyout
        /\ new.seller = rows[id].seller
    BY <2>1, <2>2 DEF Row
  <2>4. new.item = it /\ new.buyout = buyout /\ new.seller = s
    BY <1>3, <1>7, <1>8, <2>3 DEF Terms
  <2>5. auctions' = [rows EXCEPT ![id] = new]
    <3>1. auctions' = [auctions EXCEPT ![id] = [@ EXCEPT !.bidder = p, !.bid = price]]
      BY <1>0, <1>2 DEF PlaceBid
    <3> QED BY <1>8, <2>1, <3>1
  <2>6. auctions' = [x \in DOMAIN rows \cup {id} |-> IF x = id THEN new ELSE rows[x]]
    <3>1. rows = [x \in DOMAIN rows |-> rows[x]] /\ id \in DOMAIN rows
      BY <1>1, <1>2, <1>8, <1>9 DEF IInv, TInv, RowsOK
    <3> QED BY <2>5, <3>1
  <2>7. /\ \A x \in DOMAIN rows \ {id} : rows[x].item # new.item
        /\ new.item \in Items /\ (id \in DOMAIN rows => rows[id].item = new.item)
    BY <1>2, <1>3, <1>7, <1>8, <1>9, <2>4 DEF OneRow
  <2>8. OffersOf([x \in DOMAIN rows \cup {id} |-> IF x = id THEN new ELSE rows[x]])
          = [j \in Shown(rows) \cup {new.item} |->
               IF j = new.item THEN Terms(new) ELSE OffersOf(rows)[j]]
    BY <1>9, <2>7, OfferSet
  <2>9. Offers' = [j \in Shown(rows) \cup {it} |-> IF j = it THEN Terms(new) ELSE OffersOf(rows)[j]]
    BY <2>4, <2>6, <2>8, OffersAre
  <2>11. Terms(new) = Market!Terms(s, buyout, p, price)
    BY <2>3, <2>4 DEF Terms, Market!Terms
  <2>12. Offers = [j \in DOMAIN Offers |-> Offers[j]]
    BY <1>9, OffersOfIs
  <2>13. PICK t : t = Terms(new)
    OBVIOUS
  <2>14. Offers' = [j \in DOMAIN Offers |-> IF j = it THEN t ELSE Offers[j]]
    BY <1>9, <1>10, <2>9, <2>13
  <2>15. Offers' = [Offers EXCEPT ![it] = t]
    BY <1>10, <2>12, <2>14
  <2> QED BY <2>11, <2>13, <2>15
<1>12. /\ purse' = [purse EXCEPT ![p] = Less(purse[p], price - Stake(row, p))]
       /\ post' = Refunded(row, p) /\ UNCHANGED <<owner, parcel>>
  BY <1>0 DEF PlaceBid
<1>13. ASSUME NEW q \in Players
       PROVE  purse'[q] + post'[q]
                = Worth[q] + (IF b = q THEN bid ELSE 0) - (IF q = p THEN price ELSE 0)
  <2>1. purse'[q] + Refunded(row, p)[q] = Worth[q] + Stake(row, q) - (IF q = p THEN price ELSE 0)
    <3>1. purse' = [purse EXCEPT ![p] = Less(purse[p], price - Stake(row, p))]
      BY <1>12
    <3>2. GoldOK /\ row.bidder \in Players \cup {Nobody} /\ row.bid \in Nat /\ price \in Nat
          /\ row.bid <= price /\ price <= purse[p]
      BY <1>2, <1>3, <1>5
    <3>3. Settles(row, p, price)
      BY <3>1, <3>2, BidderPays
    <3> QED BY <3>3 DEF Settles
  <2> QED BY <1>7, <1>12, <2>1 DEF Stake
<1>14. Worth' = [q \in Players |-> Worth[q] + (IF b = q THEN bid ELSE 0) - (IF q = p THEN price ELSE 0)]
  BY <1>13 DEF Worth
<1>15. Worth[p] >= price
  BY <1>2, <1>3, <1>5 DEF Worth, GoldOK
<1>16. /\ Offers[it].bidder = b /\ Offers[it].bid = bid /\ Offers[it].buyout = buyout
       /\ Offers[it].seller = s
  BY <1>7, <1>10 DEF Terms
<1>17. Market!Bid(p, it, price)
  BY <1>2, <1>3, <1>4, <1>6, <1>7, <1>11, <1>12, <1>14, <1>15, <1>16
     DEF Market!Bid, Market!Stake, Market!Share
<1> QED BY <1>4, <1>10, <1>17 DEF Market!Next, Market!OnSale

LEMMA BuyOutDeals ==
  ASSUME Dealing, NEW p \in Players, BuyOut(p)
  PROVE  Market!Next
<1>0. PICK row, id : row = job[p].row /\ id = job[p].id
  OBVIOUS
<1>1. job[p].step = "bidding" /\ IInv /\ row.buyout > 0 /\ job[p].price >= row.buyout
  BY <1>0 DEF BuyOut, BuysOut, Dealing
<1>2. /\ id \in Live /\ row.bid \in Nat /\ row.buyout \in Nat /\ job[p].price \in Nat
      /\ row.seller \in Players /\ row.bidder \in Players \cup {Nobody} /\ row.bid < row.buyout
  BY <1>0, <1>1, Hand
<1>3. /\ GoldOK /\ auctions[id].item = row.item /\ row.item \in Items
      /\ Terms(auctions[id]) = Terms(row)
  BY <1>0, <1>1, InMarket
<1>4. row.seller # p
  BY <1>0, <1>1 DEF Dealing, IInv, PInv, StandsAt
<1>5. row.buyout <= purse[p] /\ purse[p] \in Nat
  <2>1. job[p].price <= purse[p] /\ purse[p] \in Nat
    BY <1>1, <1>3 DEF Dealing, Affords, AffordsAt, GoldOK
  <2> QED BY <1>1, <1>2, <2>1
<1>6. PICK it \in Items, bid \in Nat, b \in Players \cup {Nobody}, price \in Nat, s \in Players :
        /\ it = row.item /\ bid = row.bid /\ b = row.bidder /\ price = row.buyout /\ s = row.seller
  BY <1>2, <1>3
<1>7. PICK gain \in Nat, cut \in Nat : gain = Profit(price) /\ cut = Cut(price)
  BY <1>6, ProfitIs, CutIs
<1>8. gain = price + Deposit - cut /\ Deposit \in Nat
  BY <1>7, AuctionAssumption DEF Profit
<1>9. /\ purse' = [purse EXCEPT ![p] = Less(purse[p], price - Stake(row, p))]
      /\ post' = [Refunded(row, p) EXCEPT ![s] = @ + gain]
      /\ owner' = [owner EXCEPT ![it] = p] /\ auctions' = Without(id) /\ parcel' = Mailed(it, p)
  BY <1>0, <1>6, <1>7 DEF BuyOut
<1>10. it \in DOMAIN Offers /\ Offers[it] = Terms(row) /\ Market!Close(it)
  BY <1>1, <1>2, <1>3, <1>6, <1>9, Closes
<1>11. /\ Offers[it].bidder = b /\ Offers[it].bid = bid /\ Offers[it].buyout = price
       /\ Offers[it].seller = s
  BY <1>6, <1>10 DEF Terms
<1>12. ASSUME NEW q \in Players
       PROVE  purse'[q] + post'[q]
                = Worth[q] + (IF b = q THEN bid ELSE 0) - (IF q = p THEN price ELSE 0)
                    + (IF q = s THEN price + Deposit - cut ELSE 0)
  <2>1. /\ Worth[q] \in Nat /\ Refunded(row, p)[q] \in Nat /\ purse'[q] \in Int
        /\ purse'[q] + Refunded(row, p)[q]
             = Worth[q] + Stake(row, q) - (IF q = p THEN price ELSE 0)
    <3>1. purse' = [purse EXCEPT ![p] = Less(purse[p], price - Stake(row, p))]
      BY <1>9
    <3>2. GoldOK /\ row.bidder \in Players \cup {Nobody} /\ row.bid \in Nat
          /\ row.bid <= price /\ price <= purse[p]
      BY <1>2, <1>3, <1>5, <1>6
    <3>3. Settles(row, p, price)
      BY <3>1, <3>2, BidderPays
    <3> QED BY <3>3 DEF Settles
  <2>2. Refunded(row, p) \in [Players -> Nat]
    BY <1>2, <1>3, RefundedIs
  <2>3. PICK r \in Nat : r = Refunded(row, p)[q]
    BY <2>1
  <2>4. post'[q] = IF q = s THEN r + gain ELSE r
    BY <1>9, <2>2, <2>3
  <2>5. Stake(row, q) = IF b = q THEN bid ELSE 0
    BY <1>6 DEF Stake
  <2>7. purse'[q] + r = Worth[q] + (IF b = q THEN bid ELSE 0) - (IF q = p THEN price ELSE 0)
    BY <2>1, <2>3, <2>5
  <2>8. CASE q = s
    BY <1>8, <2>1, <2>4, <2>7, <2>8
  <2>9. CASE q # s
    BY <2>1, <2>4, <2>7, <2>9
  <2> QED BY <2>8, <2>9
<1>13. Worth' = [q \in Players |->
         Worth[q] + (IF b = q THEN bid ELSE 0) - (IF q = p THEN price ELSE 0)
                  + (IF q = s THEN price + Deposit - cut ELSE 0)]
  BY <1>12 DEF Worth
<1>14. s # p /\ Market!Deliver(it, p)
  BY <1>4, <1>6, <1>9, Delivers
<1>15. Worth[p] >= price
  BY <1>3, <1>5, <1>6 DEF Worth, GoldOK
<1>16. cut = Market!Cut(price)
  BY <1>7, CutsAgree
<1>17. Market!Deal(it, p, price)
  BY <1>9, <1>10, <1>11, <1>13, <1>14, <1>16 DEF Market!Deal, Market!Stake, Market!Share
<1>18. price > bid
  BY <1>2, <1>6
<1>19. Market!Buy(p, it)
  BY <1>11, <1>14, <1>15, <1>17, <1>18 DEF Market!Buy
<1> QED BY <1>10, <1>19 DEF Market!Next, Market!OnSale

LEMMA RemoveItemDeals ==
  ASSUME Dealing, NEW p \in Players, RemoveItem(p)
  PROVE  Market!Next
<1>0. PICK row, id : row = job[p].row /\ id = job[p].id
  OBVIOUS
<1>1. job[p].step = "cancelling" /\ IInv
  BY DEF RemoveItem, Dealing
<1>2. /\ id \in Live /\ row.bid \in Nat /\ row.seller = p /\ row.bidder \in Players \cup {Nobody}
      /\ row.bidder # row.seller
  BY <1>0, <1>1, Hand
<1>3. /\ GoldOK /\ auctions[id].item = row.item /\ row.item \in Items
      /\ Terms(auctions[id]) = Terms(row)
  BY <1>0, <1>1, <1>2, InMarket
<1>a. PICK it \in Items, bid \in Nat, b \in Players \cup {Nobody} :
        it = row.item /\ bid = row.bid /\ b = row.bidder
  BY <1>2, <1>3
<1>b. PICK cut \in Nat : cut = Cut(bid)
  BY CutIs
<1>4. it = row.item /\ bid = row.bid /\ b = row.bidder /\ cut = Cut(bid)
  BY <1>a, <1>b
<1>5. cut <= purse[p] /\ purse[p] \in Nat
  BY <1>0, <1>1, <1>3, <1>4 DEF Dealing, Affords, AffordsAt, GoldOK
<1>6. /\ purse' = [purse EXCEPT ![p] = Less(purse[p], cut)] /\ post' = Refunded(row, p)
      /\ owner' = owner /\ auctions' = Without(id) /\ parcel' = Mailed(it, p)
  BY <1>0, <1>4 DEF RemoveItem
<1>7. it \in DOMAIN Offers /\ Offers[it] = Terms(row) /\ Market!Close(it)
  BY <1>1, <1>2, <1>3, <1>4, <1>6, Closes
<1>8. Offers[it].bidder = b /\ Offers[it].bid = bid /\ Offers[it].seller = p
  BY <1>2, <1>4, <1>7 DEF Terms
<1>9. ASSUME NEW q \in Players
      PROVE  purse'[q] + post'[q]
               = Worth[q] + (IF b = q THEN bid ELSE 0) - (IF q = p THEN cut ELSE 0)
  <2>1. purse[q] \in Nat /\ purse'[q] = purse[q] - (IF q = p THEN cut ELSE 0)
    BY <1>3, <1>5, <1>6, PaysAt
  <2>2. /\ post[q] \in Nat /\ Stake(row, q) \in 0..row.bid
        /\ post'[q] = post[q] + Stake(row, q) - (IF q = p THEN Stake(row, p) ELSE 0)
    BY <1>2, <1>3, <1>6, RefundAt
  <2>3. Stake(row, p) = 0 /\ Stake(row, q) = IF b = q THEN bid ELSE 0
    BY <1>2, <1>4 DEF Stake
  <2>4. Worth[q] = purse[q] + post[q]
    BY DEF Worth
  <2>5. post'[q] = post[q] + (IF b = q THEN bid ELSE 0)
    BY <1>4, <2>2, <2>3
  <2> QED BY <1>4, <2>1, <2>2, <2>4, <2>5
<1>10. Worth' = [q \in Players |-> Worth[q] + (IF b = q THEN bid ELSE 0) - (IF q = p THEN cut ELSE 0)]
  BY <1>9 DEF Worth
<1>11. Worth[p] >= cut
  BY <1>3, <1>5 DEF Worth, GoldOK
<1>12. cut = Market!Cut(bid)
  BY <1>4, CutsAgree
<1>d. Market!Deliver(it, p)
  BY <1>6, Delivers
<1>13. Market!Withdraw(it)
  BY <1>6, <1>7, <1>8, <1>d, <1>10, <1>11, <1>12 DEF Market!Withdraw, Market!Stake, Market!Share
<1> QED BY <1>7, <1>13 DEF Market!Next, Market!OnSale

LEMMA AddAuctionDeals ==
  ASSUME Dealing, NEW p \in Players, AddAuction(p)
  PROVE  Market!Next
<1>0. PICK row, id : row = job[p].row /\ id = job[p].id
  OBVIOUS
<1>1. job[p].step = "selling" /\ IInv /\ AffordsAt(p) /\ AskedAt(p) /\ GoldOK
  BY DEF AddAuction, Dealing, IInv, TInv, Asked, Affords
<1>2. row.buyout \in Buyouts /\ purse[p] >= Deposit
  BY <1>0, <1>1 DEF AskedAt, AffordsAt
<1>3. /\ row.item \in Items /\ row.bidder = Nobody /\ row.bid = 0 /\ row.seller = p
      /\ ~Listed(row.item) /\ owner[row.item] = p /\ id \notin Live
  BY <1>0, <1>1, InSale
<1>4. PICK it \in Items : it = row.item /\ ~Listed(it)
  BY <1>3
<1>5. PICK rows : rows = auctions
  OBVIOUS
<1>6. OneRow(rows) /\ DOMAIN rows = Live /\ DOMAIN Offers = Shown(rows) /\ Offers = OffersOf(rows)
  BY <1>1, <1>5, HouseRows, OffersAre
<1>7. it \notin DOMAIN Offers /\ \A x \in DOMAIN rows : rows[x].item # it
  BY <1>4, <1>5, <1>6 DEF Listed, Shown
<1>8. auctions' = [x \in DOMAIN rows \cup {id} |-> IF x = id THEN row ELSE rows[x]]
      /\ purse' = [purse EXCEPT ![p] = Less(purse[p], Deposit)] /\ UNCHANGED <<post, owner, parcel>>
  BY <1>0, <1>1, <1>3, <1>4, <1>5, <1>6 DEF AddAuction
<1>9. OffersOf([x \in DOMAIN rows \cup {id} |-> IF x = id THEN row ELSE rows[x]])
        = [j \in Shown(rows) \cup {row.item} |-> IF j = row.item THEN Terms(row) ELSE OffersOf(rows)[j]]
  BY <1>3, <1>4, <1>6, <1>7, OfferSet
<1>10. Offers' = [j \in DOMAIN Offers \cup {it} |-> IF j = it THEN Terms(row) ELSE Offers[j]]
  BY <1>4, <1>6, <1>8, <1>9, OffersAre
<1>11. Terms(row) = Market!Terms(p, row.buyout, Nobody, 0)
  BY <1>3 DEF Terms, Market!Terms
<1>12. Market!Open(it, p, row.buyout)
  BY <1>10, <1>11 DEF Market!Open, Market!OnSale
<1>13. Deposit \in Nat /\ purse[p] \in Nat
  BY <1>1, AuctionAssumption DEF GoldOK
<1>14. ASSUME NEW q \in Players
       PROVE  Worth[q] \in Nat /\ purse'[q] + post'[q] = IF q = p THEN Worth[p] - Deposit ELSE Worth[q]
  <2>1. purse[q] \in Nat /\ purse'[q] = purse[q] - (IF q = p THEN Deposit ELSE 0)
    BY <1>1, <1>2, <1>8, <1>13, PaysAt
  <2>2. post[q] \in Nat /\ post'[q] = post[q] /\ Worth[q] = purse[q] + post[q]
    BY <1>1, <1>8 DEF GoldOK, Worth
  <2> QED BY <1>13, <2>1, <2>2
<1>15. Worth' = [Worth EXCEPT ![p] = Worth[p] - Deposit]
  BY <1>14 DEF Worth
<1>16. Worth[p] >= Deposit
  BY <1>1, <1>2, <1>13 DEF Worth, GoldOK
<1>17. Market!Offer(it, row.buyout)
  BY <1>3, <1>4, <1>7, <1>8, <1>12, <1>15, <1>16 DEF Market!Offer, Market!OnSale
<1> QED BY <1>2, <1>17 DEF Market!Next

\* The steps that the market does not see.
LEMMA FallDueQuiet ==
  ASSUME IInv, NEW id, FallDue(id)
  PROVE  Quiet
<1>1. PICK rows : rows = auctions
  OBVIOUS
<1>2. PICK new : new = [rows[id] EXCEPT !.due = TRUE]
  OBVIOUS
<1>3. id \in Live /\ rows[id] \in Row /\ auctions' = [rows EXCEPT ![id] = new]
      /\ UNCHANGED <<owner, parcel, post, purse>>
  BY <1>1, <1>2 DEF FallDue, IInv, TInv, RowsOK, Good
<1>4. new.item = rows[id].item /\ Terms(new) = Terms(rows[id])
  BY <1>2, <1>3 DEF Row, Terms
<1>5. OneRow(rows) /\ DOMAIN rows = Live
  BY <1>1, HouseRows
<1>6. PICK after : after = auctions'
  OBVIOUS
<1>7. /\ DOMAIN after = DOMAIN rows
      /\ \A x \in DOMAIN rows : after[x].item = rows[x].item /\ Terms(after[x]) = Terms(rows[x])
  BY <1>3, <1>4, <1>5, <1>6
<1>8. OffersOf(after) = OffersOf(rows)
  BY <1>5, <1>7, SameOffers
<1>9. Offers' = Offers
  BY <1>1, <1>6, <1>8, OffersAre
<1> QED BY <1>3, <1>9, SameWorth DEF Quiet

LEMMA HandleQuiet ==
  ASSUME IInv, NEW p \in Players,
         \/ Visit(p) \/ Look(p) \/ NumberAuction(p) \/ TakeMoney(p)
         \/ \E i \in Items, buyout \in Buyouts : SellItem(p, i, buyout)
  PROVE  Quiet
<1>1. UNCHANGED <<auctions, owner, parcel>>
  BY DEF Visit, Look, SellItem, NumberAuction, TakeMoney
<1>2. Offers' = Offers
  BY <1>1, OffersAre
<1>3. CASE UNCHANGED <<post, purse>>
  BY <1>1, <1>2, <1>3, SameWorth DEF Quiet
<1>4. CASE TakeMoney(p)
  <2>1. /\ purse' = [purse EXCEPT ![p] = @ + post[p]] /\ post' = [post EXCEPT ![p] = 0]
        /\ purse \in [Players -> Nat] /\ post \in [Players -> Nat]
    BY <1>4 DEF TakeMoney, IInv, TInv, GoldOK
  <2>2. ASSUME NEW q \in Players PROVE purse'[q] + post'[q] = purse[q] + post[q]
    <3>1. CASE q = p
      BY <2>1, <3>1
    <3>2. CASE q # p
      BY <2>1, <3>2
    <3> QED BY <3>1, <3>2
  <2>3. Worth' = Worth
    BY <2>2 DEF Worth
  <2> QED BY <1>1, <1>2, <2>3 DEF Quiet
<1> QED BY <1>3, <1>4 DEF Visit, Look, SellItem, NumberAuction

LEMMA TakeItemDeals ==
  ASSUME NEW p \in Players, NEW i \in Items, TakeItem(p, i)
  PROVE  Market!Next
<1>1. /\ parcel[i] = p /\ p # Nobody /\ owner' = [owner EXCEPT ![i] = p]
      /\ parcel' = [parcel EXCEPT ![i] = Nobody] /\ UNCHANGED <<auctions, post, purse>>
  BY AuctionAssumption DEF TakeItem
<1>2. Offers' = Offers /\ Worth' = Worth
  BY <1>1, OffersAre, SameWorth
<1>3. Market!Collect(i)
  BY <1>1, <1>2 DEF Market!Collect
<1> QED BY <1>3 DEF Market!Next

LEMMA InitMarket == Init => Market!Init
<1> SUFFICES ASSUME Init PROVE Market!Init
  OBVIOUS
<1>1. owner \in [Items -> Players] /\ parcel = [i \in Items |-> Nobody]
  BY DEF Init
<1>2. Offers = <<>>
  <2>1. {j \in Items : Listed(j)} = {}
    BY DEF Init, Listed, Live
  <2> QED BY <2>1 DEF Offers
<1>3. Worth = [p \in Players |-> Purse]
  <2>1. \A p \in Players : purse[p] = Purse /\ post[p] = 0
    BY DEF Init
  <2>2. \A p \in Players : purse[p] + post[p] = Purse
    BY <2>1, AuctionAssumption
  <2> QED BY <2>2 DEF Worth
<1> QED BY <1>1, <1>2, <1>3 DEF Market!Init

\* One handler at a time: every step of the house is a step of the market or one that
\* the market does not see.  Whoever comes to own goods has paid for them, or opens the
\* letter they are in, and all others have back what they had bid, in purse or mailbox
\* (handleAuctionPlaceBid, handleAuctionRemoveItem, expireAuctions, handleMailTakeItem).
THEOREM HouseImplementsMarket == Racers = {} /\ Spec => ImplementsMarket
<1> SUFFICES ASSUME Racers = {} PROVE Spec => ImplementsMarket
  OBVIOUS
<1>1. IInv /\ Affords /\ Asked /\ [Next]_vars => [Market!Next]_<<Worth, owner, parcel, Offers>>
  <2> SUFFICES ASSUME IInv, Affords, Asked, [Next]_vars PROVE Market!Next \/ Quiet
    BY DEF Quiet
  <2>1. Dealing
    BY DEF Dealing
  <2>2. CASE UNCHANGED vars
    <3>1. UNCHANGED <<auctions, owner, parcel, post, purse>>
      BY <2>2 DEF vars
    <3> QED BY <3>1, OffersAre, SameWorth DEF Quiet
  <2>3. CASE \E id \in Ids : FallDue(id)
    BY <2>3, FallDueQuiet
  <2>4. ASSUME NEW p \in Players, Handle(p) PROVE Market!Next \/ Quiet
    BY <2>1, <2>4, ExpireAuctionDeals, PlaceBidDeals, BuyOutDeals, RemoveItemDeals, AddAuctionDeals,
       TakeItemDeals, HandleQuiet DEF Handle
  <2> QED BY <2>2, <2>3, <2>4 DEF Next
<1> QED BY Always, AlwaysAffords, AlwaysAsked, InitMarket, <1>1, PTL
       DEF Spec, ImplementsMarket, Market!Spec

=============================================================================
