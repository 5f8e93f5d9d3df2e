\* Two runs whose jobs may have two children.
CONSTANTS
  Runs = {r1, r2}
  Children = {c1, c2}
  Parent = Parent
  Files <- Shapes
  FilesOffered = 3
  MaxFiles = 3
  MaxChars = 15
  ContextLines = 1
  GapChars = 3
  MarkerChars = 2
SPECIFICATION FairSpec
INVARIANTS
  TypeOK
  OutputsNameOwnModel
  OnlyCompletedRegistered
  EveryFailureDiagnosed
PROPERTIES
  KeepsContract
  EveryRunEnds
\* Every run ends.
CHECK_DEADLOCK FALSE
