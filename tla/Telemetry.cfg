SPECIFICATION FairSpec
CONSTANTS
  c1 = c1
  Containers = {c1}
  Capacity = 1
  MaxEntries <- FewEntries
  MaxStarts = 1
  MaxConnections = 2
  MaxBreaks = 1
  MaxFaults = 1
INVARIANTS
  TypeOK
  LossBounded
  InOrder
PROPERTIES
  RunningIsTailed
  ChannelDrains
  NeverStalls
CHECK_DEADLOCK FALSE
