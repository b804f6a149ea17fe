SPECIFICATION Spec
CONSTANTS
  s1 = s1
  o1 = o1
  c1 = c1
  NoSocket = NoSocket
  NoCaller = NoCaller
  Sockets = {s1}
  Ops = {o1}
  Clients = {c1}
  Kinds = {"connect"}
  Env = {"setup_fails"}
  IoThreads = 1
  UserThreads = 1
INVARIANTS NoOrphan
CHECK_DEADLOCK FALSE
