SPECIFICATION ServersSpec
CONSTANTS
  Clients = {"h1"}
  Callers = {"l1"}
  Streams <- MCStreams
  RequestLines <- MCRequestLines
  LengthLines <- MCLengthLines
  CallStreams <- MCCallStreams
  RpcLines <- MCRpcLines
  Paths <- MCPaths
  FeedNames = {"f1"}
  Fields = {"title"}
  Values = {"x", "y"}
  FeedLimit = 2
  MaxMappings = 2
  UnloadBusy = FALSE
INVARIANT  AnsweredAsSent  FeedHistory
