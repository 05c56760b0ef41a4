SPECIFICATION Spec
CONSTANTS
  p1 = p1
  p2 = p2
  c1 = c1
  c2 = c2
  ch1 = ch1
  Proxies = {p1, p2}
  Clients = {c1, c2}
  Channels = {ch1}
  Pools <- MCPools
  MaxLines = 1
  MaxEvents = 2
  MaxPerform = 1
  Liberties = {}
SYMMETRY Symmetry
INVARIANT MembershipSound TrafficStays BufferIsRecent TrackedIsJoined
