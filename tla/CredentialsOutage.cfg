SPECIFICATION Spec
SYMMETRY RotationSymmetry
CONSTANTS
  Rotations = {r1, r2}
  Enrolled = Enrolled
  Legacy = Legacy
  None = None
  MaxKeys = 2
  Tunnels = {t1}
  TokenMode = FALSE
  BaseRenewable = TRUE
  Expirable = {}
  ServerFaults = FALSE
  MaxOutages = 1
  MaxCrashes = 1
INVARIANTS
  ActiveBundleComplete
  ActiveKeyMatches
PROPERTIES
  NoClobber
  CommitOrder
