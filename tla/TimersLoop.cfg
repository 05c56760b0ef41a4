SPECIFICATION FairSpec
CONSTANTS
  m1 = m1
  m2 = m2
  Modules <- TwoModules
  UsecPerSec = 3
  MinSleep = 1
  IntRange = 64
  Timeouts <- ShortTimeouts
  MaxTimers = 3
  MaxSec = 2
  LastAdd = 1
  Signals = FALSE
INVARIANTS
  Accounting
  LoopSound
  NoCallAfterUnload
PROPERTIES
  AllReadyCalled
  TimersServed
