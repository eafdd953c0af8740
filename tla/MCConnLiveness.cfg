SPECIFICATION FairSpec
CONSTANTS
  c1 = c1
  c2 = c2
  k1 = k1
  k2 = k2
  s1 = s1
  s2 = s2
  Callers <- OneCaller
  Closers <- OneCloser
  Shutdowns <- None
  Spawns <- None
  Cancellable <- None
  AutoReconnect = TRUE
  MaxReconnect = 0
  ResponseTimeout = FALSE
  ReadTimeout = FALSE
  HooksMayFail = TRUE
  MaxTr = 4
  MaxFaults = 2
PROPERTIES
  CloseReleasesCallers
  CloseEndsListeners
  Restored
CHECK_DEADLOCK FALSE
