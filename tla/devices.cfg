\* Video pump, input path, admission, geometry and queues: two monitors, two clients, two
\* addresses, queues longer than a flush.
SPECIFICATION DevicesSpec
CONSTANTS
  Monitors = {m1, m2}
  Sizes = {big, small, odd}
  OddSizes = {odd}
  Clients = {1, 2}
  Configs <- TwoConfigs
  NoConfig = NoConfig
  DefaultDisplay = 1
  Requested = "Auto"
  Drivers <- SomeDrivers
  Slots = 1
  MaxChanges = 2
  MaxFrames = 2
  MaxPumps = 2
  Peers = {c1, c2}
  Kinds = {"stylus", "mouse", "special"}
  Buttons = {left}
  Pointers = {0}
  Raw = {0, 11}
  Full = 10
  Disabled = {"touch"}
  Slept = 1
  MaxInputs = 3
  MaxTime = 1
  MaxToggles = 1
  Addresses = {a1, a2}
  MaxAttempts = 2
  AttemptSpan = 2
  LastInstant = 4
  MaxTries = 5
  Panels <- OnePanel
  Views <- SomeViews
  Rotations = {0, 90, 180, 270}
  FirstDisplay = 1
  MaxModes = 1
  QueueCap = 9
  Sending = {"Control", "Video"}
  MaxDrops = 1
SYMMETRY Symmetry
INVARIANTS
  VideoTypeOK
  LabelsMatch
  StartsWithKeyframe
  OverrideRules
  ImageIsCurrent
  ButtonsMirror
  PressureInRange
  AdmissionIsExact
  PictureIsUpright
PROPERTIES
  SequencesIncrease
  NothingGoesBack
  NoChannelStarves
CHECK_DEADLOCK FALSE
