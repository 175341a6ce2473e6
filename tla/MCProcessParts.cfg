SPECIFICATION PartsSpec
CONSTANTS
  main = main
  e1 = e1
  e2 = e2
  Lanes = {main}
  Entries = {e1, e2}
  Concurrencies = {}
  MaxGeneration = 2
  ExternalAllowed = TRUE
  MayRespawn = TRUE
  MaxPollers = 1
  ReloadModes = {"off", "restart", "hot", "hybrid"}
  MissingRetries = 2
  MaxEdits = 2
  AcpSessionKeys = {"a", "b"}
  AcpCalls = {"c1", "c2", "c3"}
  AcpKinds <- SomeKinds
  AcpTarget <- TwoOnOne
  Oneshot = {"a"}
  MaxSessions = 1
  MaxItems = 4
  MaxTexts = 4
  MinInitial = 2
  MaxMessages = 2
CHECK_DEADLOCK FALSE
INVARIANTS
  LoopInv
  ReloadInv
  AcpInv
  DebounceInv
PROPERTIES
  ResetsAreRestarts
  CommandsAreKnown
  PreviewIsTrue
  PartsSettle
