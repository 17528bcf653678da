\* Two connections in quick succession, the first one's tasks still queued,
\* and a code for each.
SPECIFICATION SystemSpec
CONSTANTS
  Peers = {1, 2}
  Devices = {d1}
  Me = d1
  NoDevice = NoDevice
  Ephemerals = {1, 2, 3}
  Policy = "RequireApproval"
  DialogsEnabled = TRUE
  Commands = {}
  MaxPending = 16
  FlushBudget = 32
  AttemptLimit = 5
  AttemptWindow = 2
  CodeTTL = 5
  ChallengeTTL = 2
  AuthTTL = 1
  KexTTL = 1
  MaxTime = 0
  MaxCodes = 3
  MaxSalts = 3
  MaxChallenges = 3
  MaxOffers = 3
  MaxQueued = 1
  MaxConnects = 2
  MaxRequests = 0
  MaxSubmits = 2
  MaxApplies = 0
  MaxDrawn = 3
  MaxCopies = 0
VIEW WithoutPorts
INVARIANTS
  OneTimeCode
  KeyAgreement
  HostSurvives
CHECK_DEADLOCK FALSE
