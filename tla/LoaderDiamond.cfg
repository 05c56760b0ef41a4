SPECIFICATION FairSpec
CONSTANTS
  a = a
  b = b
  c = c
  d = d
  Core = Core
  Modules <- MCModules
  Deps <- DiamondDeps
  Version <- MCVersion
  BcVersion <- MCBcVersion
  Requesters <- DiamondRequesters
  RuntimeCalls <- DiamondCalls
INVARIANTS
  RefCounts
  GraphSound
  EverythingReleased
PROPERTIES
  DependenciesKept
  CallsReturn
