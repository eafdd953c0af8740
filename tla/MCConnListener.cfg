SPECIFICATION Spec
CONSTANTS
  c1 = c1
  c2 = c2
  k1 = k1
  k2 = k2
  s1 = s1
  s2 = s2
  Callers <- OneCaller
  Closers <- OneCloser
  Shutdowns <- OneCloser
  Spawns <- None
  Cancellable <- None
  AutoReconnect = TRUE
  MaxReconnect = 2
  ResponseTimeout = FALSE
  ReadTimeout = TRUE
  HooksMayFail = TRUE
  MaxTr = 3
  MaxFaults = 2
INVARIANTS
  TypeOK
  NoLeakedTransport
  ConnectedHasTransport
PROPERTIES
  OnlySuspectsDropped
CHECK_DEADLOCK FALSE
