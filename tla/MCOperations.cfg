SPECIFICATION Spec
CONSTANTS
  c1 = c1
  c2 = c2
  Callers <- Both
  Calls <- TheCalls
  Kinds <- TheKinds
  Chains <- TheChains
  Wrap = 16
  Width = 16
  AreaSize = 8
  PayloadAt = 2
  WordAreas <- Words
  BitAreas <- Bits
  Junk = 9
  ClientWordAreas <- Dm
  ClientBitAreas <- DmBit
  AreaCode <- Codes
  UdpRoom = 6
  ReadRoom = 6
  WordBits = 2
  MaxRead = 3
  MaxWrite = 2
  AllowedAreas <- Allowed
  Lowest <- Low
  Highest <- High
  MaxRetries = 1
  Word64 = 1024
  Nodes <- SomeNodes
  Sids <- SomeSids
  Places <- SomePlaces
  Bodies <- SomeBodies
  Dates <- SomeDates
INVARIANTS
  TypeOK
  RetryDiscipline
  ChecksHold
  PanicsOnlyWhen
  WireExact
PROPERTIES
  NamedCellsOnly
  ToggleFlips
CHECK_DEADLOCK FALSE
