SPECIFICATION FairSpec
CONSTANTS
  c1 = c1
  Conns = {c1}
  MaxUser = 2
  Limit = 1
  Penalty = 1
  KeepaliveInterval = 3
  KeepaliveTimeout = 2
  ReconnectTimeout = 2
  Liberties = {}
CHECK_DEADLOCK FALSE
INVARIANT LinesInOrder TimersConsistent
PROPERTY SilenceDetected TriedAgain
