\* Three tasks, at most one of them with a job; a tested job may have two children.
CONSTANTS
  Tasks = {t1, t2, t3}
  Children = {c1, c2}
  Parent = Parent
  NoContainer = NoContainer
  MaxJobs = 1
SPECIFICATION FairSpec
INVARIANTS
  TypeOK
  PassesOnlyCompleted
PROPERTIES
  KeepsContainer
  EveryTaskEnds
\* Every task ends.
CHECK_DEADLOCK FALSE
