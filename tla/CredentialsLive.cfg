SPECIFICATION FairSpec
CONSTANTS
  Rotations = {r1}
  Enrolled = Enrolled
  Legacy = Legacy
  None = None
  MaxKeys = 1
  Tunnels = {}
  TokenMode = TRUE
  BaseRenewable = TRUE
  Expirable = {Enrolled}
  ServerFaults = FALSE
  MaxOutages = 0
  MaxCrashes = 1
PROPERTIES
  CutoverCompletes
  Reconnects
