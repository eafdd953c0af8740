SPECIFICATION FairSpec
CONSTANTS
  client = client
  stranger = stranger
  k1 = k1
  Peers <- TwoPeers
  Strangers <- Alien
  Closers <- OneClose
  NoPeer = nobody
  Buffer = 1
  MaxSent = 2
  MaxFaults = 1
INVARIANTS
  TypeOK
  ErrChannelKept
PROPERTIES
  ClosedIsClosed
  GoroutinesEnd
  ClientsAnswered
CHECK_DEADLOCK FALSE
