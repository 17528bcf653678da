\* Approval, pairing codes, eviction and secure sessions: two endpoints compete
\* for one pending slot; expiries are zero: one tick passes every deadline.
SPECIFICATION Spec
CONSTANTS
  Peers = {p1, p2}
  Devices = {d1}
  NoDevice = NoDevice
  Ephemerals = {1}
  Policy = "RequireApproval"
  DialogsEnabled = TRUE
  Commands = {"approve", "reject", "restart"}
  MaxPending = 1
  FlushBudget = 3
  AttemptLimit = 1
  AttemptWindow = 1
  CodeTTL = 0
  ChallengeTTL = 0
  AuthTTL = 0
  KexTTL = 0
  MaxTime = 1
  MaxCodes = 3
  MaxSalts = 2
  MaxChallenges = 1
  MaxQueued = 1
  MaxOffers = 1
VIEW WithoutPorts
SYMMETRY PeerSymmetry
INVARIANTS
  TypeOK
  ChallengesMatchCode
  ApprovedWasVouched
  PendingCapped
PROPERTIES
  MediaSealed
  EncryptedInputOnly
CHECK_DEADLOCK FALSE
