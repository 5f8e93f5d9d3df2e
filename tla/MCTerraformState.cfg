\* Two deployments, an apply and a destroy, two of them at a time, with one endpoint.
CONSTANTS
  a = a
  b = b
  g = g
  d = d
  e1 = e1
  NoRun = NoRun
  Deploys = {a, b}
  Applies = {g}
  Destroys = {d}
  Endpoints = {e1}
  NOutputs = 2
  MaxAtOnce = 2
SPECIFICATION Spec
SYMMETRY Deployments
INVARIANTS
  TypeOK
  StateOutlivesResources
  DeniedAfterCutWait
  OutputsNotOlder
PROPERTIES
  AppliesWhatItPlanned
\* Every run ends.
CHECK_DEADLOCK FALSE
