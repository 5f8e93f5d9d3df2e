\* Overlapping releases of one deployment name.
CONSTANTS
  r1 = r1
  r2 = r2
  r3 = r3
  d1 = d1
  d2 = d2
  e1 = e1
  e2 = e2
  NoRun = NoRun
  NoDeployment = NoDeployment
  Runs = {r1, r2}
  Deployments = {d1}
  DeploymentOf <- OneName
  Checked <- Sources
SPECIFICATION Spec
INVARIANTS
  InvokesWhatItVerified
\* Every release ends.
CHECK_DEADLOCK FALSE
