SPECIFICATION FairSpec
CONSTANTS
  MaxInits = 2
  Env = {"reinit", "fails", "gives_up"}
INVARIANTS IInv RollbackAccurate ReleaseFreesRest GroupClosedIdle
PROPERTIES ReleaseReturns
CHECK_DEADLOCK FALSE
