SPECIFICATION Spec
CONSTANTS
  Sessions = {s1, s2, s3}
  Accounts = {a1, a2}
  NoAccount = NoAccount
  NoSession = NoSession
  s1 = s1
  s2 = s2
  s3 = s3
  a1 = a1
  a2 = a2
  PlayerLimit = 1
  Tolerance = TRUE
  SkipQueue = {}
  Events = {"drop", "loadfail", "kick", "login"}
SYMMETRY Symmetry
INVARIANTS TypeOK UniqueAccount QueueSound NoForgottenWaiter
PROPERTIES ImplementsDirectory QueuedDropEarnsNoSkip
CHECK_DEADLOCK FALSE
