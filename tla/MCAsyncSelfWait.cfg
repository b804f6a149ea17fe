SPECIFICATION FairSpec
CONSTANTS
  s1 = s1
  o1 = o1
  c1 = c1
  NoSocket = NoSocket
  NoCaller = NoCaller
  Sockets = {s1}
  Ops = {o1}
  Clients = {c1}
  Kinds = {"recv"}
  Env = {"no_handler"}
  IoThreads = 1
  UserThreads = 1
PROPERTIES DestructorReturns
CHECK_DEADLOCK FALSE
