\* Documented: the persisted per-device permission is enforced.
SPECIFICATION Spec
CONSTANTS
  Peers = {p1}
  Devices = {d1}
  NoDevice = NoDevice
  Ephemerals = {1}
  Policy = "RequireApproval"
  DialogsEnabled = TRUE
  Commands = {"permission"}
  MaxPending = 1
  FlushBudget = 3
  AttemptLimit = 1
  AttemptWindow = 1
  CodeTTL = 0
  ChallengeTTL = 0
  AuthTTL = 0
  KexTTL = 0
  MaxTime = 1
  MaxCodes = 2
  MaxSalts = 1
  MaxChallenges = 1
  MaxQueued = 1
  MaxOffers = 2
VIEW WithoutPorts
INVARIANT
  PersistedPermissionHolds
CHECK_DEADLOCK FALSE
