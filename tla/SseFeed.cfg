SPECIFICATION FeedSpec
CONSTANTS
  Views = {v1, v2}
  Conns = {c1, c2}
  MaxAttempts = 1
  Scripts <- MCScripts
  Cap = 1
  None = None
INVARIANTS OneChain FeedInv LiveUnlessEnded QuietUnlessLate
PROPERTY ReconnectIsMade
CHECK_DEADLOCK FALSE
