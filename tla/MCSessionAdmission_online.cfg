SPECIFICATION Spec
CONSTANTS
  Sessions = {s1, s2}
  Accounts = {a1}
  NoAccount = NoAccount
  NoSession = NoSession
  s1 = s1
  s2 = s2
  a1 = a1
  PlayerLimit = 0
  Tolerance = FALSE
  SkipQueue = {}
  Events = {"drop"}
INVARIANTS OnlineWhileServing
CHECK_DEADLOCK FALSE
