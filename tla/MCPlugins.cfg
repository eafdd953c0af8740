SPECIFICATION Spec
CONSTANTS
  u1 = u1
  u2 = u2
  log = log
  dog = dog
  coal = coal
  Users <- TwoUsers
  Plugins <- AllPlugins
  Names <- AllNames
  NoName = ""
  Name <- NameOf
  Wants <- TheirWants
  Hooked <- WithHooks
  Failing <- FailingOne
  Watchdog = dog
  Coalescer = coal
  MaxDrops = 2
  MaxSets = 1
  MaxTime = 1
INVARIANTS
  TypeOK
  NameHeldByOne
  RemovalInRange
  RegistryConsistent
  PluginsAgree
  DowntimeAccounted
  InterceptorKept
CHECK_DEADLOCK FALSE
