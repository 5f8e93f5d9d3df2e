\* Three concurrent calls, fewer attempts than calls.
CONSTANTS
  NoRun = NoRun
  Runs = {r1, r2, r3}
  MaxAttempts = 2
  MaxPolls = 2
SPECIFICATION FairSpec
INVARIANTS
  TypeOK
  AcceptedOnce
  BlockedByDistinctRivals
PROPERTIES
  EveryCallEnds
  KeepsContract
  ReturnsOnlySettled
\* Every call ends and the provider then idles.
CHECK_DEADLOCK FALSE
