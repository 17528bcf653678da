\* Documented: failed proofs block further attempts for a while.
SPECIFICATION Spec
CONSTANTS
  Peers = {p1}
  Devices = {d1}
  NoDevice = NoDevice
  Ephemerals = {1}
  Policy = "RequireApproval"
  DialogsEnabled = TRUE
  Commands = {}
  MaxPending = 1
  FlushBudget = 3
  AttemptLimit = 5
  AttemptWindow = 2
  CodeTTL = 0
  ChallengeTTL = 0
  AuthTTL = 0
  KexTTL = 0
  MaxTime = 1
  MaxCodes = 2
  MaxSalts = 1
  MaxChallenges = 0
  MaxQueued = 1
  MaxOffers = 0
VIEW WithoutPorts
INVARIANT
  LimitOnlyBlocks
CHECK_DEADLOCK FALSE
