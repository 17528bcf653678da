\* One connection, every button, and datagrams that arrive in any order.
SPECIFICATION FairSystemSpec
CONSTANTS
  Peers = {1, 2}
  Devices = {d1}
  Me = d1
  NoDevice = NoDevice
  Ephemerals = {1, 2, 3}
  Policy = "RequireApproval"
  DialogsEnabled = TRUE
  Commands = {}
  MaxPending = 16
  FlushBudget = 32
  AttemptLimit = 5
  AttemptWindow = 2
  CodeTTL = 5
  ChallengeTTL = 2
  AuthTTL = 1
  KexTTL = 1
  MaxTime = 0
  MaxCodes = 3
  MaxSalts = 3
  MaxChallenges = 3
  MaxOffers = 3
  MaxQueued = 5
  MaxConnects = 1
  MaxRequests = 1
  MaxSubmits = 1
  MaxApplies = 1
  MaxDrawn = 3
  MaxCopies = 0
INVARIANTS
  SystemTypeOK
PROPERTIES
  TrustedDeviceConnects
CHECK_DEADLOCK FALSE
