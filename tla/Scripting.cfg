SPECIFICATION ScriptingSpec
CONSTANTS
  Calls <- MCCalls
  Nested <- MCNested
  ScriptNames <- MCScriptNames
  MaxDepth = 4
  MaxPending = 1
  MergedStore <- MCMergedStore
  ClonedStore <- MCClonedStore
  ThroughLua <- MCThroughLua
INVARIANTS
  
  
  CodeLoaded
  ListenersConsistent
CHECK_DEADLOCK FALSE
