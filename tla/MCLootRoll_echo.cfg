SPECIFICATION Spec
CONSTANTS
  Players = {p1, p2}
  p1 = p1
  p2 = p2
  Nobody = Nobody
  MaxRolls = 1
  MaxBallots = 2
  CannotRoll = {}
  PassOnLoot = {}
  GroupLoot = TRUE
  QuestRow = FALSE
  Events = {}
SYMMETRY Symmetry
PROPERTIES VoteCompletes
CHECK_DEADLOCK FALSE
