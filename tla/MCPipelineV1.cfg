\* Two runs of any pipelines; each is like the other.
CONSTANTS
  Runs = {r1, r2}
  NoRun = NoRun
SYMMETRY AnyRun
SPECIFICATION Spec
INVARIANTS
  TypeOK
  RegistersWhatItApproved
  PassedIsReleased
\* Every run ends.
CHECK_DEADLOCK FALSE
