SPECIFICATION FairSpec
CONSTANTS
  s1 = s1
  o1 = o1
  o2 = o2
  c1 = c1
  NoSocket = NoSocket
  NoCaller = NoCaller
  Sockets = {s1}
  Ops = {o1, o2}
  Clients = {c1}
  Kinds = {"recv"}
  Env = {"chains", "handler_closes"}
  IoThreads = 1
  UserThreads = 1
PROPERTIES CloseReturns HandlerCalled IoDataReleased DestructorReturns
CHECK_DEADLOCK FALSE
