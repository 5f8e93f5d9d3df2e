\* Three releases of two deployment names, overlapping or not.
CONSTANTS
  r1 = r1
  r2 = r2
  r3 = r3
  d1 = d1
  d2 = d2
  e1 = e1
  e2 = e2
  NoRun = NoRun
  NoDeployment = NoDeployment
  Runs = {r1, r2, r3}
  Deployments = {d1, d2}
  DeploymentOf <- MixedNames
  Checked <- Sources
SPECIFICATION FairSpec
INVARIANTS
  TypeOK
  DefaultWasVerified
  AloneInvokesWhatItVerified
  NeverServesUnverified
PROPERTIES
  EveryReleaseEnds
\* Every release ends.
CHECK_DEADLOCK FALSE
