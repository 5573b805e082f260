SPECIFICATION FairSpec
CONSTANTS
  Ids = {1, 2}
  Workers = {w1, w2}
  Kinds = {{"dump"}}
  Retention = 1
  Deletes = TRUE
  MaxReruns = 1
  MaxFaults = 1
INVARIANTS
  TypeOK
  SuccessWasWritten
  RetentionKeeps
  PulledOnce
PROPERTY
  BackupAnswered
CHECK_DEADLOCK FALSE
