SPECIFICATION FairSpec
CONSTANTS
  c1 = c1
  c2 = c2
  Callers <- TwoCallers
  Cancellable <- OneCaller
  NSid = 2
  MaxIssue = 4
  Unreliable = FALSE
  ResponseTimeout = FALSE
PROPERTIES
  NoLostResponse
CHECK_DEADLOCK FALSE
