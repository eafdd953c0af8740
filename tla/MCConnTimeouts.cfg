SPECIFICATION Spec
CONSTANTS
  c1 = c1
  c2 = c2
  k1 = k1
  k2 = k2
  s1 = s1
  s2 = s2
  Callers <- OneCaller
  Closers <- OneCloser
  Shutdowns <- None
  Spawns <- TwoSpawns
  Cancellable <- None
  AutoReconnect = TRUE
  MaxReconnect = 0
  ResponseTimeout = TRUE
  ReadTimeout = FALSE
  HooksMayFail = FALSE
  MaxTr = 3
  MaxFaults = 0
SYMMETRY Symmetry
VIEW WithoutHistory
INVARIANTS
  AtMostOneLateInstall
  ReconnectExclusive
CHECK_DEADLOCK FALSE
