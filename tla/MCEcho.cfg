SPECIFICATION Spec
CONSTANTS
  Env = {"fails", "resets"}
  Size = 2
  Text = 1
INVARIANTS ReplyIntact NoUseAfterClose
PROPERTIES EchoEnds ReplyArrives
CHECK_DEADLOCK FALSE
