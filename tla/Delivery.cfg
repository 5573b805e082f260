SPECIFICATION FairSpec
CONSTANTS
  r1 = r1
  r2 = r2
  r3 = r3
  Results = {r1, r2, r3}
  Logs <- SampleLogs
  LogLimit = 4
  QueueLimit = 2
  MaxConnections = 4
  MaxBreaks = 1
  MaxCrashes = 1
INVARIANTS
  TypeOK
  OneOwner
PROPERTY
  KeepsPromise
CHECK_DEADLOCK FALSE
