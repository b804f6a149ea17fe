SPECIFICATION Spec
CONSTANTS
  s1 = s1
  o1 = o1
  o2 = o2
  c1 = c1
  NoSocket = NoSocket
  NoCaller = NoCaller
  Sockets = {s1}
  Ops = {o1, o2}
  Clients = {c1}
  Kinds = {"connect", "recv", "recv_from", "send", "send_to", "disconnect"}
  Env = {"no_handler", "chains", "handler_closes", "close_races", "unspecified", "setup_fails", "post_fails", "core_expires"}
  IoThreads = 2
  UserThreads = 2
INVARIANTS IoDataSafe SocketOutlivesOps HandlerOnce FirstErrorReported
PROPERTIES ImplementsAsyncOp
SYMMETRY Symmetry
CHECK_DEADLOCK FALSE
