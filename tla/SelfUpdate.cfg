SPECIFICATION FairSpec
CONSTANTS
  MaxVersion = 3
  Bad = {3}
  BadExit = TRUE
  Updaters = {u1}
  MaxDownloads = 2
  MaxFaults = 3
  MaxRestarts = 3
  MaxCrashes = 2
INVARIANTS
  TypeOK
  Bootable
  RollbackRestores
PROPERTY
  BadVersionRolledBack
CHECK_DEADLOCK FALSE
