SPECIFICATION Spec
CONSTANTS
  c1 = c1
  c2 = c2
  k1 = k1
  k2 = k2
  s1 = s1
  s2 = s2
  Callers <- TwoCallers
  Closers <- TwoClosers
  Shutdowns <- OneCloser
  Spawns <- OneSpawn
  Cancellable <- OneCaller
  AutoReconnect = FALSE
  MaxReconnect = 2
  ResponseTimeout = TRUE
  ReadTimeout = TRUE
  HooksMayFail = TRUE
  MaxTr = 2
  MaxFaults = 1
INVARIANTS
  NoPanic
CHECK_DEADLOCK FALSE
