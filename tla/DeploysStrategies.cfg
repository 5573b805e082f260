SPECIFICATION Spec
SYMMETRY HandlerSymmetry
CONSTANTS
  s1 = s1
  Deployments = {d1, d2}
  Slugs = {s1}
  SlugOf <- OneService
  BlueGreen = {d2}
  Built = {d1}
  Handlers = {h1, h2}
  Removers = {}
  MaxBuilds = 1
  SeenExpires = TRUE
  GuardExpires = FALSE
  TraefikRuns = TRUE
  MaxContainers = 4
  MaxStops = 0
  MaxFaults = 1
  MaxCrashes = 1
INVARIANTS
  TypeOK
  ServedVersion
  OneVersion
PROPERTY
  NoDowntime
