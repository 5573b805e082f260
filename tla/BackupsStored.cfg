SPECIFICATION Spec
CONSTANTS
  Ids = {1}
  Workers = {w1}
  Kinds = {{"dump"}}
  Retention = 0
  Deletes = FALSE
  MaxReruns = 1
  MaxFaults = 0
INVARIANT
  SuccessIsStored
CHECK_DEADLOCK FALSE
