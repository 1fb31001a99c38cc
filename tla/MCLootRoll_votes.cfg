SPECIFICATION Spec
CONSTANTS
  Players = {p1, p2, p3}
  p1 = p1
  p2 = p2
  p3 = p3
  Nobody = Nobody
  MaxRolls = 1
  MaxBallots = 3
  CannotRoll = {p3}
  PassOnLoot = {}
  GroupLoot = TRUE
  QuestRow = FALSE
  Events = {"leave", "take", "objectGuid", "travel", "reopen"}
SYMMETRY Symmetry
INVARIANTS TypeOK BlockedHasKeeper RollBooks WinnerEntitled
CHECK_DEADLOCK FALSE
