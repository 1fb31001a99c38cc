SPECIFICATION Spec
CONSTANTS
  p1 = p1
  p2 = p2
  i1 = i1
  i2 = i2
  Players = {p1, p2, p3}
  Nobody = Nobody
  Items = {i1, i2}
  Goods <- AllGoods
  MaxId = 2
  Purse = 3
  StartBid = 1
  Buyouts = {0, 2}
  Prices = {1, 2}
  Deposit = 1
  CutPercent = 50
  Racers = {p2, p3}
SYMMETRY Symmetry
PROPERTIES StakeReturned
CHECK_DEADLOCK FALSE
