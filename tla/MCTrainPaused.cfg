\* A job that is paused, and resumed after its run has given up.
CONSTANTS
  Runs = {r1}
  Children = {c1}
  Parent = Parent
  Files <- Shapes
  FilesOffered = 3
  MaxFiles = 3
  MaxChars = 15
  ContextLines = 1
  GapChars = 3
  MarkerChars = 2
SPECIFICATION Spec
INVARIANTS
  WaitsForTerminalState
\* Every run ends.
CHECK_DEADLOCK FALSE
