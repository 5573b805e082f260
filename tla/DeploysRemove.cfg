SPECIFICATION Spec
SYMMETRY HandlerSymmetry
CONSTANTS
  s1 = s1
  Deployments = {d1}
  Slugs = {s1}
  SlugOf <- OneService
  BlueGreen = {d1}
  Built = {d1}
  Handlers = {h1, h2}
  Removers = {r1}
  MaxBuilds = 1
  SeenExpires = FALSE
  GuardExpires = FALSE
  TraefikRuns = TRUE
  MaxContainers = 4
  MaxStops = 0
  MaxFaults = 0
  MaxCrashes = 0
PROPERTY
  RemoveSparesDeploy
