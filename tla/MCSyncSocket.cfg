SPECIFICATION Spec
CONSTANTS
  Sockets = {s1, s2}
  Handles = {h1, h2, h3}
  NoHandle = none
  Junk = junk
  Stale = {7}
  Bounds = {"objects_first", "loses_once", "pairs_plain", "reads_closed", "disconnects_last"}
  Texts <- MCTexts
  Peers <- MCPeers
  Ephemeral <- MCEphemeral
  IntBound = 2048
  ULongLong = 16777216
  Timeouts <- MCTimeouts
  TickCounts = {0, 16776716}
  Quantum = 500
  MaxSpent = 2000
INVARIANTS
  Accounted
  MembersAgree
  NameFaithful
  EndpointSurvives
  ParsersAgree
  DeadlineKept
PROPERTIES
  TimedOutHonest
  DisconnectReturns
