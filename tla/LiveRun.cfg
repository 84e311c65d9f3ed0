\* The deadline expires after two polls: one that waits and one that gives up.
CONSTANT MaxPolls = 2
SPECIFICATION FairSpec
INVARIANTS
  EndedRunIsSettled
  SuccessIsReal
  DeploymentRestsOnImageAndApplication
PROPERTIES
  ThreadEnds
  ImplementsContract
\* A run that ended is not started again.
CHECK_DEADLOCK FALSE
