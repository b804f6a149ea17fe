SPECIFICATION Spec
CONSTANTS
  s1 = s1
  s2 = s2
  o1 = o1
  o2 = o2
  c1 = c1
  NoSocket = NoSocket
  NoCaller = NoCaller
  Sockets = {s1, s2}
  Ops = {o1, o2}
  Clients = {c1}
  Kinds = {"accept", "recv"}
  Env = {"chains", "handler_closes"}
  IoThreads = 2
  UserThreads = 2
INVARIANTS IInv NoOrphan NoSelfWait NoFault
PROPERTIES QuiescentCloseIo
SYMMETRY Symmetry
CHECK_DEADLOCK FALSE
