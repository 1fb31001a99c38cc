SPECIFICATION Spec
CONSTANTS
  Sessions = {s1, s2}
  Accounts = {a1, a2}
  NoAccount = NoAccount
  NoSession = NoSession
  s1 = s1
  s2 = s2
  a1 = a1
  a2 = a2
  PlayerLimit = 1
  Tolerance = FALSE
  SkipQueue = {}
  Events = {"drop"}
INVARIANTS NoIdleSlot
CHECK_DEADLOCK FALSE
