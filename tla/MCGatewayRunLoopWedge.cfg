SPECIFICATION LoopSpec
CONSTANTS
  main = main
  e1 = e1
  e2 = e2
  Lanes = {main}
  Entries = {e1, e2}
  Concurrencies = {}
  MaxGeneration = 2
  ExternalAllowed = FALSE
  MayRespawn = TRUE
  MaxPollers = 1
CHECK_DEADLOCK FALSE
INVARIANTS
  ServingAccepts
