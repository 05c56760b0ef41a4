SPECIFICATION Spec
CONSTANTS
  t1 = t1
  t2 = t2
  s1 = s1
  l1 = l1
  l2 = l2
  Threads <- TwoThreads
  Subjects <- OneSubject
  Events <- MCEvents
  Attached = "listener_attached"
  Detached = "listener_detached"
  Listeners <- TwoListeners
  Priorities <- Normal
  IntRange = 4
  MaxEntries = 3
  MaxTriggers = 3
  MaxNesting = 3
  DetachPending = TRUE
INVARIANT NoFreedEntryCalled
