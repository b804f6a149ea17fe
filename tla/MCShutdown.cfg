SPECIFICATION ShutdownSpec
CONSTANTS
  MaxInits = 2
  Env = {"gives_up"}
  Sockets = {s1, s2}
  OpsPerSocket = 1
INVARIANTS NoLateUse QuietAfterRelease
PROPERTIES NoIoCancelled HandlerOrCancel
CHECK_DEADLOCK FALSE
