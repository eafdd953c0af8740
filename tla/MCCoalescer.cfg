SPECIFICATION Spec
CONSTANTS
  r1 = r1
  r2 = r2
  r3 = r3
  Requests <- AllRequests
  Areas <- TwoAreas
  Reads <- SomeReads
  Space = 8
  MaxSpan = 3
  MaxBatch = 2
  QueueCap = 1
  Deadlined <- OneRequest
  Cancellable <- None
  ReadFails = FALSE
  MaxWrites = 1
INVARIANTS
  TypeOK
  AnsweredOnce
  ReadWithinSpan
  BatchCovered
  NoneForgotten
PROPERTIES
  ImplementsWordReads
SYMMETRY Symmetry
CHECK_DEADLOCK FALSE
