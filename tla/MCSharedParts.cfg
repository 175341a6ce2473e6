SPECIFICATION PartsSpec
CONSTANTS
  t1 = t1
  t2 = t2
  t3 = t3
  p1 = p1
  p2 = p2
  Tasks = {t1, t2, t3}
  Processes = {p1, p2}
  ProcessOf <- LockTasks
  Reentrant = {t1}
  Gateways = {p2}
  MaxStarts <- OneRestart
  m1 = m1
  m2 = m2
  m3 = m3
  m4 = m4
  Messages = {m1, m2, m3, m4}
  OriginOf <- SomeOrigins
  IdOf <- Redelivered
  Modes = {"collect", "followup"}
  DropPolicies = {"old", "summarize"}
  Caps = {1, 2}
  MaxQueues = 2
  MaxFailures = 1
  MaxClears = 1
  Sessions = {"s1"}
  Priorities = {3}
  MaxRunners = 2
  MaxBatches = 1
  MaxTroubles = 1
  Subagents = {"parent", "child"}
  Requester <- Spawned
  Expecting = {"child"}
  Deleting = {"child"}
  Archived = {"parent"}
  HooksThrow = FALSE
  Flaky = {}
  MaxRetries = 2
  MaxSteers = 1
  MaxCrashes = 1
CHECK_DEADLOCK FALSE
INVARIANTS
  WriteLockInv
  FollowupInv
  WakeInv
  SubagentInv
PROPERTIES
  FreshLocksStay
  FollowupOrder
