SPECIFICATION Spec
CONSTANTS
  Players = {p1, p2, p3}
  p1 = p1
  p2 = p2
  p3 = p3
  Nobody = Nobody
  MaxRolls = 1
  MaxBallots = 3
  CannotRoll = {}
  PassOnLoot = {}
  GroupLoot = TRUE
  QuestRow = FALSE
  Events = {"take"}
SYMMETRY Symmetry
INVARIANTS OneCopy
CHECK_DEADLOCK FALSE
