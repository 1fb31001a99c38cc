SPECIFICATION FairSpec
CONSTANTS
  Sessions = {s1, s2}
  Accounts = {a1}
  NoAccount = NoAccount
  NoSession = NoSession
  s1 = s1
  s2 = s2
  a1 = a1
  PlayerLimit = 1
  Tolerance = TRUE
  SkipQueue = {a1}
  Events = {"drop", "refuse", "login", "kick", "sweep", "stop", "loadfail"}
INVARIANT NobodyEscapes
PROPERTIES SupersededLeaves StopDrains
CHECK_DEADLOCK FALSE
