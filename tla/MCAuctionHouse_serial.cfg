SPECIFICATION Spec
CONSTANTS
  p1 = p1
  p2 = p2
  i1 = i1
  i2 = i2
  Players = {p1, p2, p3}
  Nobody = Nobody
  Items = {i1, i2}
  Goods <- OwnGoods
  MaxId = 2
  Purse = 2
  StartBid = 1
  Buyouts = {0, 3}
  Prices = {1, 2, 3}
  Deposit = 1
  CutPercent = 50
  Racers = {}
INVARIANTS TypeOK NeverLost
PROPERTIES OnePlace GoldKept StakeReturned ImplementsMarket
CHECK_DEADLOCK FALSE
