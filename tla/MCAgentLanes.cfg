SPECIFICATION LanesSpec
CONSTANTS
  main = main
  alice = alice
  bob = bob
  r1 = r1
  r2 = r2
  r3 = r3
  r4 = r4
  Lanes = {main, alice, bob}
  Runs = {r1, r2, r3, r4}
  Compactions = {r3, r4}
  Entries <- Tasks
  SessionOf <- Sessioned
  GlobalOf <- Mained
  Concurrencies = {0, 2}
  MaxGeneration = 1
  MaxAttempts = 1
SYMMETRY Interchangeable
CHECK_DEADLOCK FALSE
INVARIANTS
  TypeOK
  AgentLanesInv
  NoIdleSlot
  SlotsMatchGeneration
  QueuedExactlyOnce
  DrainedMeansSettled
PROPERTIES
  StartsInTurn
  ImplementsTurns
  ToldWhenOver
