SPECIFICATION FairSpec
CONSTANTS
  Players = {p1, p2}
  p1 = p1
  p2 = p2
  Nobody = Nobody
  MaxRolls = 2
  MaxBallots = 2
  CannotRoll = {p2}
  PassOnLoot = {p1}
  GroupLoot = FALSE
  QuestRow = TRUE
  Events = {"reopen", "clear", "objectGuid", "revote"}
PROPERTIES KeepsPromise RowSettles
CHECK_DEADLOCK FALSE
