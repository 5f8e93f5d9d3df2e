\* Three releases, overlapping or not, two of them of one deployment name.
CONSTANTS
  r1 = r1
  r2 = r2
  r3 = r3
  d1 = d1
  d2 = d2
  NoRun = NoRun
  NoDeployment = NoDeployment
  Runs = {r1, r2, r3}
  Deployments = {d1, d2}
  DeploymentOf <- MixedNames
SPECIFICATION Spec
SYMMETRY SameNames
INVARIANTS
  TypeOK
  TrafficHasDeployment
  InvokesOwnRelease
  NoBundleLeft
PROPERTIES
  TrafficKeepsIdentity
\* Every release ends.
CHECK_DEADLOCK FALSE
