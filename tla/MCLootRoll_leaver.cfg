SPECIFICATION Spec
CONSTANTS
  Players = {p1, p2, p3}
  p1 = p1
  p2 = p2
  p3 = p3
  Nobody = Nobody
  MaxRolls = 1
  MaxBallots = 3
  CannotRoll = {}
  PassOnLoot = {}
  GroupLoot = TRUE
  QuestRow = FALSE
  Events = {"leave"}
SYMMETRY Symmetry
PROPERTIES LeaverNeverDrawn
CHECK_DEADLOCK FALSE
