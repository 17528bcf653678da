\* The DevAutoApprove policy: every pairing request, and every other packet,
\* approves its session; trust records are edited and forgotten meanwhile.
SPECIFICATION Spec
CONSTANTS
  Peers = {p1, p2}
  Devices = {d1}
  NoDevice = NoDevice
  Ephemerals = {1}
  Policy = "DevAutoApprove"
  DialogsEnabled = TRUE
  Commands = {"reject", "permission", "forget"}
  MaxPending = 1
  FlushBudget = 3
  AttemptLimit = 1
  AttemptWindow = 1
  CodeTTL = 0
  ChallengeTTL = 0
  AuthTTL = 0
  KexTTL = 0
  MaxTime = 1
  MaxCodes = 2
  MaxSalts = 1
  MaxChallenges = 1
  MaxQueued = 1
  MaxOffers = 2
VIEW WithoutPorts
SYMMETRY PeerSymmetry
PROPERTIES
  MediaSealed
  SecureKeyAdvances
CHECK_DEADLOCK FALSE
