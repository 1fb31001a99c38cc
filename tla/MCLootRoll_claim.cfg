SPECIFICATION Spec
CONSTANTS
  Players = {p1, p2}
  p1 = p1
  p2 = p2
  Nobody = Nobody
  MaxRolls = 2
  MaxBallots = 2
  CannotRoll = {}
  PassOnLoot = {}
  GroupLoot = TRUE
  QuestRow = FALSE
  Events = {"reopen"}
SYMMETRY Symmetry
PROPERTIES ClaimKept
CHECK_DEADLOCK FALSE
