SPECIFICATION Spec
CONSTANTS
  MaxInits = 2
  Env = {"reinit"}
INVARIANTS ReleaseFreesAll
CHECK_DEADLOCK FALSE
