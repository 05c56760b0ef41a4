SPECIFICATION FairSpec
CONSTANTS
  s1 = s1
  s2 = s2
  Sockets <- TwoSockets
  Kinds <- AllKinds
  MaxFd = 2
  Liberties <- WithReconnect
INVARIANT PollSound
PROPERTIES PollingKept WaitingEnds
