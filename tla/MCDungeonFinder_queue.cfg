SPECIFICATION Spec
CONSTANTS
  p = p
  q = q
  r = r
  g = g
  Players = {p, q, r}
  Groups = {g}
  Members <- PartyOfTwo
  Leader <- LedByP
  NoGroup = NoGroup
  Proposals = {i, j}
  i = i
  j = j
  RoleChoices <- AnyRole
  Restores = {"none"}
  TanksNeeded = 1
  HealersNeeded = 1
  DPSNeeded = 1
INVARIANTS TypeOK NobodyStranded GroupsFilled
PROPERTIES FailureSettles WaitingEnds
CHECK_DEADLOCK FALSE
