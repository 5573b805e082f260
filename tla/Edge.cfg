SPECIFICATION Spec
SYMMETRY EdgeSymmetry
CONSTANTS
  Workers = {w1, w2}
  Networks = {n1, n2}
  Tokens = {t1, t2}
  Endpoints = {e1, e2}
  MaxCommands = 4
  MaxFaults = 2
  MaxCrashes = 2
INVARIANTS
  TypeOK
  RoutesServed
  TunnelFollowsConfig
  ActiveIsServed
  DoctorProves
CHECK_DEADLOCK FALSE
