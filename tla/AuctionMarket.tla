---------------------------- MODULE AuctionMarket ----------------------------
(***************************************************************************)
(* What the auction house of AuctionHouse promises to its players: the     *)
(* goods on sale and the stake of the highest bidder are held in trust,    *)
(* and a deal is one step.  Whoever owns the goods at its end has paid for *)
(* them, whoever was outbid has its stake back, and the seller has the     *)
(* price and its deposit without the cut of the house.                     *)
(*                                                                         *)
(* Goods are delivered by letter.  There is one letter for an item at a    *)
(* time: who puts up an item that still waits in a letter can have it      *)
(* delivered to nobody but the receiver of that letter, and whoever opens  *)
(* it is the owner again.                                                  *)
(*                                                                         *)
(* There are no handlers, ids of auctions or due times here, and gold is   *)
(* what a player has, in its purse or waiting in its mailbox.              *)
(***************************************************************************)
EXTENDS Integers, Functions

CONSTANTS Players, Nobody, Items, Purse, Buyouts, Prices, Deposit, CutPercent

VARIABLES
  gold,    \* by player
  keeper,  \* by item: its owner
  letter,  \* by item: the receiver of the letter it waits in, or Nobody
  sale     \* by item on sale: its seller and price, the highest bidder and its bid

Cut(price) == (price * CutPercent) \div 100
OnSale == DOMAIN sale
Terms(seller, buyout, bidder, bid) ==
  [seller |-> seller, buyout |-> buyout, bidder |-> bidder, bid |-> bid]

Init ==
  /\ keeper \in [Items -> Players]
  /\ letter = [i \in Items |-> Nobody]
  /\ sale = <<>>
  /\ gold = [p \in Players |-> Purse]

Open(i, seller, buyout) ==
  sale' = [j \in OnSale \cup {i} |->
             IF j = i THEN Terms(seller, buyout, Nobody, 0) ELSE sale[j]]
Close(i) == sale' = Restrict(sale, OnSale \ {i})

\* The first letter of an item is the one that counts.
Deliver(i, p) == letter' = IF letter[i] = Nobody THEN [letter EXCEPT ![i] = p] ELSE letter

Stake(p, i) == IF sale[i].bidder = p THEN sale[i].bid ELSE 0
Share(p, q, amount) == IF p = q THEN amount ELSE 0

\* The price goes from the buyer to the seller, and the stake back to the bidder.
Deal(i, buyer, price) ==
  /\ Close(i) /\ Deliver(i, buyer)
  /\ keeper' = [keeper EXCEPT ![i] = buyer]
  /\ gold' = [p \in Players |-> gold[p] + Stake(p, i) - Share(p, buyer, price)
                                + Share(p, sale[i].seller, price + Deposit - Cut(price))]

Offer(i, buyout) ==
  /\ i \notin OnSale /\ gold[keeper[i]] >= Deposit
  /\ Open(i, keeper[i], buyout)
  /\ gold' = [gold EXCEPT ![keeper[i]] = @ - Deposit]
  /\ UNCHANGED <<keeper, letter>>

Bid(p, i, price) ==
  /\ p # sale[i].seller /\ gold[p] >= price
  /\ price > sale[i].bid /\ (sale[i].buyout > 0 => price < sale[i].buyout)
  /\ sale' = [sale EXCEPT ![i] = Terms(sale[i].seller, sale[i].buyout, p, price)]
  /\ gold' = [q \in Players |-> gold[q] + Stake(q, i) - Share(q, p, price)]
  /\ UNCHANGED <<keeper, letter>>

Buy(p, i) ==
  /\ p # sale[i].seller /\ sale[i].buyout > sale[i].bid /\ gold[p] >= sale[i].buyout
  /\ Deal(i, p, sale[i].buyout)

\* The time is up.
Award(i) == sale[i].bidder # Nobody /\ Deal(i, sale[i].bidder, sale[i].bid)
Return(i) ==
  /\ sale[i].bidder = Nobody
  /\ Close(i) /\ Deliver(i, sale[i].seller) /\ UNCHANGED <<gold, keeper>>

Withdraw(i) ==
  /\ gold[sale[i].seller] >= Cut(sale[i].bid)
  /\ Close(i) /\ Deliver(i, sale[i].seller)
  /\ gold' = [p \in Players |-> gold[p] + Stake(p, i)
                                - Share(p, sale[i].seller, Cut(sale[i].bid))]
  /\ UNCHANGED keeper

Collect(i) ==
  /\ letter[i] # Nobody
  /\ keeper' = [keeper EXCEPT ![i] = letter[i]]
  /\ letter' = [letter EXCEPT ![i] = Nobody]
  /\ UNCHANGED <<gold, sale>>

Next ==
  \/ \E i \in Items, buyout \in Buyouts : Offer(i, buyout)
  \/ \E i \in Items : Collect(i)
  \/ \E i \in OnSale :
       \/ \E p \in Players : Buy(p, i) \/ \E price \in Prices : Bid(p, i, price)
       \/ Award(i) \/ Return(i) \/ Withdraw(i)

Spec == Init /\ [][Next]_<<gold, keeper, letter, sale>>
=============================================================================
