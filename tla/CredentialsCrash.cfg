SPECIFICATION Spec
SYMMETRY RotationSymmetry
CONSTANTS
  Rotations = {r1, r2}
  Enrolled = Enrolled
  Legacy = Legacy
  None = None
  MaxKeys = 2
  Tunnels = {t1}
  TokenMode = FALSE
  BaseRenewable = TRUE
  Expirable = {Enrolled}
  ServerFaults = TRUE
  MaxOutages = 0
  MaxCrashes = 1
INVARIANTS
  TypeOK
  NoMixedCredentials
  CutoverCanResume
  RequestKeyKept
