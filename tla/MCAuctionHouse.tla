--------------------------- MODULE MCAuctionHouse ---------------------------
(* Instances of AuctionHouse for TLC.                                      *)
EXTENDS AuctionHouse, TLC

CONSTANTS p1, p2, i1, i2

\* Two sellers with an item each, or everybody with everything.
OwnGoods == {<<p1, i1>>, <<p2, i2>>}
AllGoods == Players \X Items

\* With AllGoods no definition names a player or an item.
Symmetry == Permutations(Racers) \cup Permutations(Players \ Racers)
              \cup Permutations(Items)
=============================================================================
