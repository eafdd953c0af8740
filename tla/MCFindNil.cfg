SPECIFICATION Spec
CONSTANTS
  c1 = c1
  c2 = c2
  k1 = k1
  k2 = k2
  s1 = s1
  s2 = s2
  Callers <- OneCaller
  Closers <- None
  Shutdowns <- None
  Spawns <- None
  Cancellable <- None
  AutoReconnect = TRUE
  MaxReconnect = 0
  ResponseTimeout = FALSE
  ReadTimeout = FALSE
  HooksMayFail = FALSE
  MaxTr = 2
  MaxFaults = 1
INVARIANTS
  NoPanic
CHECK_DEADLOCK FALSE
