SPECIFICATION Spec
CONSTANTS
  c1 = c1
  c2 = c2
  Callers <- TwoCallers
  Cancellable <- TwoCallers
  NSid = 2
  MaxIssue = 3
  Unreliable = TRUE
  ResponseTimeout = TRUE
INVARIANTS
  TypeOK
  MisdeliveryNeedsWrap
  OwnChannelUnlessWrapped
PROPERTIES
  ImplementsRpc
SYMMETRY Symmetry
CHECK_DEADLOCK FALSE
