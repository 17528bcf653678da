\* The files of the host under crashes, failing calls and damage.
SPECIFICATION FairStoreSpec
CONSTANTS
  Words = {w1}
  Devices = {d1}
  Configs = {1}
  MinConfig = 2
  MaxConfig = 3
  NoConfig = NoConfig
  Pids = {1, 2}
  MaxKeys = 5
  MaxCommands = 2
  MaxFaults = 3
INVARIANTS
  StoreTypeOK
  ToldIsStored
  IdentityIsStored
  IdentityNeverDestroyed
  OverrideIsStored
PROPERTIES
  SettingsAreDurable
  HostComesBack
CHECK_DEADLOCK FALSE
