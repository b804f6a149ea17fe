SPECIFICATION Spec
CONSTANTS
  s1 = s1
  o1 = o1
  o2 = o2
  c1 = c1
  NoSocket = NoSocket
  NoCaller = NoCaller
  Sockets = {s1}
  Ops = {o1, o2}
  Clients = {c1}
  Kinds = {"recv"}
  Env = {"chains", "close_races"}
  IoThreads = 2
  UserThreads = 2
PROPERTIES QuiescentCloseIo
CHECK_DEADLOCK FALSE
