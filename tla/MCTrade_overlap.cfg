SPECIFICATION Spec
CONSTANTS
  Sessions = {s1, s2}
  Racers = {s1, s2}
  Nobody = Nobody
  Items = {i1, i2}
  NoItem = NoItem
  Purse = 1
  MaxMoney = 3
SYMMETRY Symmetry
PROPERTIES TableLocked
CHECK_DEADLOCK FALSE
