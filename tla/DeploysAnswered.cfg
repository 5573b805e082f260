SPECIFICATION FairSpec
CONSTANTS
  s1 = s1
  Deployments = {d1}
  Slugs = {s1}
  SlugOf <- OneService
  BlueGreen = {}
  Built = {d1}
  Handlers = {h1, h2}
  Removers = {r1}
  MaxBuilds = 1
  SeenExpires = TRUE
  GuardExpires = TRUE
  TraefikRuns = FALSE
  MaxContainers = 2
  MaxStops = 1
  MaxFaults = 0
  MaxCrashes = 0
INVARIANT
  GuardCoversDeploy
PROPERTY
  CommandAnswered
