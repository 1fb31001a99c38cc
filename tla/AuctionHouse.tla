---------------------------- MODULE AuctionHouse ----------------------------
(***************************************************************************)
(* The auction house (engine/world/auctionhouse.go) and the mails it sends *)
(* (engine/world/mail.go).  Everything is in the characters database; each *)
(* handler is a row of single statements in its session's goroutine, with  *)
(* no transaction around them.  job[p] is the handler of p between what it *)
(* read and what it writes of it.  Handlers of racers may be at work at    *)
(* once; all others run to their end, as on the one world thread of the    *)
(* server that the comments refer to.                                      *)
(*                                                                         *)
(* Left out: stacks that are split or merged, the search, items and        *)
(* characters that are deleted, the delay of a mail and its expiry, the cap*)
(* on the gold of a player, at which a mail keeps its money, scripts that  *)
(* change an amount of money, and statements that the database fails for   *)
(* another reason than a key.                                              *)
(***************************************************************************)
EXTENDS Integers, FiniteSets, Functions

CONSTANTS Players, Nobody,
          Items,
          Goods,       \* bound: who puts up what, <<player, item>>
          MaxId,       \* bounds the ids of auctions
          Purse,       \* what each player has at the start
          StartBid, Buyouts, Prices,  \* what clients ask and offer
          Deposit, CutPercent,        \* rates of the configuration
          Racers       \* players whose handlers may overlap

ASSUME AuctionAssumption ==
  /\ IsFiniteSet(Players) /\ Nobody \notin Players /\ Racers \subseteq Players
  /\ {MaxId, Purse, Deposit} \subseteq Nat /\ CutPercent \in 0..100
  /\ Goods \subseteq Players \X Items
  /\ StartBid \in Nat \ {0} /\ Buyouts \cup Prices \subseteq Nat

VARIABLES
  auctions,  \* auctionhouse, by id
  bag,       \* character_inventory, by item
  owner,     \* item_instance.owner_guid
  parcel,    \* mail_items, by item, which is its key: the receiver
  post,      \* the money in the mails of each player
  purse,     \* player.Money
  job

vars == <<auctions, bag, owner, parcel, post, purse, job>>

Ids == 1..MaxId
Row == [item : Items, seller : Players, buyout : Nat, due : BOOLEAN,
        bidder : Players \cup {Nobody}, bid : Nat]
Live == DOMAIN auctions
Listed(i) == \E id \in Live : auctions[id].item = i

Steps == {"idle", "sweeping", "bidding", "cancelling", "moved", "selling"}
Idle == [step |-> "idle", todo |-> <<>>, id |-> 0, price |-> 0, row |-> <<>>]

\* A bidder is never the seller, and has bid something.
TypeOK ==
  /\ Live \subseteq Ids /\ auctions \in [Live -> Row]
  /\ \A id \in Live : /\ auctions[id].bidder # auctions[id].seller
                      /\ auctions[id].bidder = Nobody <=> auctions[id].bid = 0
  /\ bag \in [Items -> Players \cup {Nobody}]
  /\ owner \in [Items -> Players]
  /\ parcel \in [Items -> Players \cup {Nobody}]
  /\ post \in [Players -> Nat] /\ purse \in [Players -> Nat]
  /\ \A p \in Players : job[p].step \in Steps

Init ==
  /\ auctions = <<>>
  /\ owner \in [Items -> Players]
  /\ bag = owner
  /\ parcel = [i \in Items |-> Nobody]
  /\ post = [p \in Players |-> 0]
  /\ purse = [p \in Players |-> Purse]
  /\ job = [p \in Players |-> Idle]

-----------------------------------------------------------------------------
(* Gold and mail *)

OutBid(bid) == IF (bid * 5) \div 100 = 0 THEN 1 ELSE (bid * 5) \div 100
Cut(bid) == (bid * CutPercent) \div 100
Less(gold, d) == IF gold > d THEN gold - d ELSE 0

\* A second mail with the same item has no row in mail_items.
Mailed(i, p) == IF parcel[i] = Nobody THEN [parcel EXCEPT ![i] = p] ELSE parcel

Without(id) == Restrict(auctions, Live \ {id})
Profit(bid) == bid + Deposit - Cut(bid)

\* The old bidder is refunded whoever it is.
RefundsAny(row, p) ==
  IF row.bidder = Nobody THEN post ELSE [post EXCEPT ![row.bidder] = @ + row.bid]

\* The refund of the bidder that the handler read, unless it is p itself.
Refunded(row, p) ==
  IF row.bidder \in {Nobody, p} THEN post ELSE [post EXCEPT ![row.bidder] = @ + row.bid]

\* A bidder that raises its own bid pays the difference.
Stake(row, p) == IF row.bidder = p THEN row.bid ELSE 0

-----------------------------------------------------------------------------
MayStart(p) == /\ job[p] = Idle
               /\ \A q \in Players : job[q] # Idle => {p, q} \subseteq Racers
Finish(p) == job' = [job EXCEPT ![p] = Idle]

\* Its time is less than a minute away.
FallDue(id) ==
  /\ id \in Live /\ ~auctions[id].due
  /\ auctions' = [auctions EXCEPT ![id] = [@ EXCEPT !.due = TRUE]]
  /\ UNCHANGED <<bag, owner, parcel, post, purse, job>>

\* Every handler but that of a sale first settles what is due: it reads these
\* auctions, and deletes and pays out one after the other.
Visit(p) ==
  LET due == Restrict(auctions, {x \in Live : auctions[x].due}) IN
  /\ MayStart(p)
  /\ job' = [job EXCEPT ![p] =
       [step |-> "sweeping", todo |-> due, id |-> 0, price |-> 0, row |-> <<>>]]
  /\ UNCHANGED <<auctions, bag, owner, parcel, post, purse>>

ExpireAuction(p) == \E id \in DOMAIN job[p].todo :
  LET row == job[p].todo[id]
      sold == row.bidder # Nobody
      rest == Restrict(job[p].todo, DOMAIN job[p].todo \ {id})
  IN /\ job[p].step = "sweeping"
     /\ auctions' = Without(id)
     /\ post' = IF sold THEN [post EXCEPT ![row.seller] = @ + Profit(row.bid)] ELSE post
     /\ parcel' = Mailed(row.item, IF sold THEN row.bidder ELSE row.seller)
     /\ owner' = IF sold THEN [owner EXCEPT ![row.item] = row.bidder] ELSE owner
     /\ job' = [job EXCEPT ![p] = [@ EXCEPT !.todo = rest]]
     /\ UNCHANGED <<bag, purse>>

Swept(p) == job[p].step = "sweeping" /\ job[p].todo = <<>>

BuysOut(row, price) == row.buyout > 0 /\ price >= row.buyout
\* A bid that need not be higher than the last, on what is one's own too.
MayBidAny(p, row, price) == price >= StartBid /\ purse[p] >= price

MayBid(p, row, price) ==
  /\ row.seller # p
  /\ price > row.bid /\ price >= StartBid
  /\ BuysOut(row, price) \/ price >= row.bid + OutBid(row.bid)
  /\ purse[p] >= price
MayCancel(p, row) ==
  row.seller = p /\ (row.bidder # Nobody => purse[p] >= Cut(row.bid))

\* Only then it reads what the client asks for, and that auction.  A list changes
\* nothing, nor does a bid or a cancel that is turned down or comes too late.
Look(p) ==
  LET go(step, id, price) == job' = [job EXCEPT ![p] =
        [step |-> step, todo |-> <<>>, id |-> id, price |-> price, row |-> auctions[id]]]
  IN /\ Swept(p)
     /\ \/ \E id \in Live, price \in Prices :
             MayBid(p, auctions[id], price) /\ go("bidding", id, price)
        \/ \E id \in Live : MayCancel(p, auctions[id]) /\ go("cancelling", id, 0)
        \/ Finish(p)
     /\ UNCHANGED <<auctions, bag, owner, parcel, post, purse>>

PlaceBid(p) ==
  LET id == job[p].id
      price == job[p].price
      row == job[p].row
  IN /\ job[p].step = "bidding" /\ ~BuysOut(row, price)
     /\ purse' = [purse EXCEPT ![p] = Less(@, price - Stake(row, p))]
     /\ post' = Refunded(row, p)
     /\ auctions' = IF id \in Live
                      THEN [auctions EXCEPT ![id] = [@ EXCEPT !.bidder = p, !.bid = price]]
                      ELSE auctions
     /\ Finish(p) /\ UNCHANGED <<bag, owner, parcel>>

\* A purchase that forgets who bid before.
BuyOutAnyway(p) ==
  LET row == job[p].row
  IN /\ job[p].step = "bidding" /\ BuysOut(row, job[p].price)
     /\ purse' = [purse EXCEPT ![p] = Less(@, row.buyout - Stake(row, p))]
     /\ post' = [post EXCEPT ![row.seller] = @ + Profit(row.buyout)]
     /\ auctions' = Without(job[p].id)
     /\ parcel' = Mailed(row.item, p)
     /\ owner' = [owner EXCEPT ![row.item] = p]
     /\ Finish(p) /\ UNCHANGED bag

\* A purchase that leaves the item its old owner.
BuyOutUnowned(p) ==
  LET row == job[p].row
      refunded == Refunded(row, p)
  IN /\ job[p].step = "bidding" /\ BuysOut(row, job[p].price)
     /\ purse' = [purse EXCEPT ![p] = Less(@, row.buyout - Stake(row, p))]
     /\ post' = [refunded EXCEPT ![row.seller] = @ + Profit(row.buyout)]
     /\ auctions' = Without(job[p].id)
     /\ parcel' = Mailed(row.item, p)
     /\ Finish(p) /\ UNCHANGED <<bag, owner>>

BuyOut(p) ==
  LET row == job[p].row
      refunded == Refunded(row, p)
  IN /\ job[p].step = "bidding" /\ BuysOut(row, job[p].price)
     /\ purse' = [purse EXCEPT ![p] = Less(@, row.buyout - Stake(row, p))]
     /\ post' = [refunded EXCEPT ![row.seller] = @ + Profit(row.buyout)]
     /\ auctions' = Without(job[p].id)
     /\ parcel' = Mailed(row.item, p)
     /\ owner' = [owner EXCEPT ![row.item] = p]
     /\ Finish(p) /\ UNCHANGED bag

\* The seller of an auction with a bid pays the cut.
RemoveItem(p) ==
  LET row == job[p].row
  IN /\ job[p].step = "cancelling"
     /\ purse' = [purse EXCEPT ![p] = Less(@, Cut(row.bid))]
     /\ post' = Refunded(row, p)
     /\ parcel' = Mailed(row.item, p)
     /\ auctions' = Without(job[p].id)
     /\ Finish(p) /\ UNCHANGED <<bag, owner>>

-----------------------------------------------------------------------------
(* A sale: the item leaves the bag, then the id is read, then the row added. *)
(* The handler asks for the owner of the item and not where it lies: an item *)
(* that waits in a letter is put up too, and stays in the letter.            *)

\* The id of the newest auction over again.
NextIdTaken == IF Live = {} THEN 1 ELSE CHOOSE m \in Live : \A id \in Live : id <= m

NextId == 1 + (IF Live = {} THEN 0 ELSE CHOOSE m \in Live : \A id \in Live : id <= m)

SellItem(p, i, buyout) ==
  /\ MayStart(p) /\ NextId \in Ids
  /\ owner[i] = p /\ ~Listed(i) /\ purse[p] >= Deposit
  /\ bag' = IF bag[i] = p THEN [bag EXCEPT ![i] = Nobody] ELSE bag
  /\ job' = [job EXCEPT ![p] =
       [step |-> "moved", todo |-> <<>>, id |-> 0, price |-> 0,
        row |-> [item |-> i, seller |-> p, buyout |-> buyout, due |-> FALSE,
                 bidder |-> Nobody, bid |-> 0]]]
  /\ UNCHANGED <<auctions, owner, parcel, post, purse>>

NumberAuction(p) ==
  /\ job[p].step = "moved" /\ NextId \in Ids
  /\ job' = [job EXCEPT ![p] =
       [step |-> "selling", todo |-> <<>>, id |-> NextId, price |-> 0, row |-> job[p].row]]
  /\ UNCHANGED <<auctions, bag, owner, parcel, post, purse>>

\* Refused by the database for an id or an item that is there already.
AddAuction(p) ==
  LET id == job[p].id
      row == job[p].row
  IN /\ job[p].step = "selling"
     /\ IF id \in Live \/ Listed(row.item) THEN UNCHANGED <<auctions, purse>>
        ELSE /\ auctions' = [x \in Live \cup {id} |-> IF x = id THEN row ELSE auctions[x]]
             /\ purse' = [purse EXCEPT ![p] = Less(@, Deposit)]
     /\ Finish(p) /\ UNCHANGED <<bag, owner, parcel, post>>

-----------------------------------------------------------------------------
(* The mailbox; each take is one transaction.  Letters with money are taken *)
(* together here, and one by one in the game.                               *)

\* A take that leaves the item in its mail.
TakeItemKept(p, i) ==
  /\ MayStart(p) /\ parcel[i] = p /\ bag[i] = Nobody
  /\ bag' = [bag EXCEPT ![i] = p]
  /\ owner' = [owner EXCEPT ![i] = p]
  /\ UNCHANGED <<auctions, parcel, post, purse, job>>

\* An item that has a row in character_inventory cannot get a second.
TakeItem(p, i) ==
  /\ MayStart(p) /\ parcel[i] = p /\ bag[i] = Nobody
  /\ bag' = [bag EXCEPT ![i] = p]
  /\ owner' = [owner EXCEPT ![i] = p]
  /\ parcel' = [parcel EXCEPT ![i] = Nobody]
  /\ UNCHANGED <<auctions, post, purse, job>>

TakeMoney(p) ==
  /\ MayStart(p) /\ post[p] > 0
  /\ purse' = [purse EXCEPT ![p] = @ + post[p]]
  /\ post' = [post EXCEPT ![p] = 0]
  /\ UNCHANGED <<auctions, bag, owner, parcel, job>>

Handle(p) ==
  \/ Visit(p) \/ ExpireAuction(p) \/ Look(p) \/ PlaceBid(p) \/ BuyOut(p) \/ RemoveItem(p)
  \/ \E i \in Items, buyout \in Buyouts : <<p, i>> \in Goods /\ SellItem(p, i, buyout)
  \/ NumberAuction(p) \/ AddAuction(p)
  \/ (\E i \in Items : TakeItem(p, i)) \/ TakeMoney(p)

Next == (\E p \in Players : Handle(p)) \/ (\E id \in Ids : FallDue(id))

Spec == Init /\ [][Next]_vars

-----------------------------------------------------------------------------
(* Properties *)

\* Where an item is: in a bag, in a mail, on auction, or with the handler
\* that is putting it there.
Selling(i) == \E p \in Players : job[p].step \in {"moved", "selling"} /\ job[p].row.item = i
Places(i) ==
  {where \in {"bag", "mail", "auction", "sale"} :
    \/ where = "bag" /\ bag[i] # Nobody
    \/ where = "mail" /\ parcel[i] # Nobody
    \/ where = "auction" /\ Listed(i)
    \/ where = "sale" /\ Selling(i)}

\* Through sale, bids, cancel, expiry and mail an item is never in no place
\* (handleAuctionSellItem, expireAuctions, handleMailTakeItem).
NeverLost == \A i \in Items : Places(i) # {}

\* Who puts up an item that waits in a letter has it in two places from then on.
FromLetter(i) ==
  parcel[i] # Nobody /\ \E p \in Players : job'[p].step = "moved" /\ job'[p].row.item = i

\* Nothing else does: of an item that is in one place no sale, cancel, expiry or
\* take leaves a second behind, whoever had it before (handleAuctionSellItem,
\* handleAuctionRemoveItem, expireAuctions, handleMailTakeItem).
OnePlace == [][\A i \in Items :
  Cardinality(Places(i)) = 1 /\ ~FromLetter(i) => Cardinality(Places(i)') = 1]_vars

Sum(f) == FoldFunction(+, 0, f)
Gold == Sum(purse) + Sum(post)
          + Sum([id \in Live |-> auctions[id].bid + Deposit])

\* No step makes gold, and none loses any but the end of an auction, which costs
\* the cut of its last price, the deposit where the item came back, or both.
GoldKept == [][
  LET ended == Live \ DOMAIN auctions'
      lost == Gold - Gold'
  IN IF ended = {} THEN lost = 0
     ELSE \E id \in ended :
       LET row == auctions[id]
       IN lost \in {Cut(row.bid), Cut(row.buyout), Deposit, Cut(row.bid) + Deposit}]_vars

\* "If previous bidder existed and was not current buyer, refund them": who is
\* not the bidder any more has the stake in a mail, or owns the item and has it in
\* a mail, unless the item waits in an older letter, which keeps its row.
StakeReturned == [][\A id \in Live :
  LET row == auctions[id]
      p == row.bidder
      gone == id \notin DOMAIN auctions' \/ auctions'[id].bidder # p
  IN p # Nobody /\ gone =>
       \/ post'[p] >= post[p] + row.bid
       \/ owner'[row.item] = p /\ (parcel'[row.item] = p \/ parcel[row.item] # Nobody)]_vars

\* The terms an item is on sale for, and what a player has in purse and mailbox.
Terms(row) ==
  [seller |-> row.seller, buyout |-> row.buyout, bidder |-> row.bidder, bid |-> row.bid]
Offers == [i \in {j \in Items : Listed(j)} |->
             Terms(auctions[CHOOSE id \in Live : auctions[id].item = i])]
Worth == [p \in Players |-> purse[p] + post[p]]

Market == INSTANCE AuctionMarket
  WITH gold <- Worth, keeper <- owner, letter <- parcel, sale <- Offers

\* Row by row and mail by mail (handleAuctionPlaceBid, handleAuctionRemoveItem,
\* expireAuctions), the house deals as if goods and gold changed hands at once.
ImplementsMarket == Market!Spec
=============================================================================
