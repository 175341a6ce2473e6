SPECIFICATION PartsSpec
CONSTANTS
  m1 = m1
  m2 = m2
  m3 = m3
  Messages = {m1, m2, m3}
  OriginOf <- SomeOrigins
  IdOf <- Distinct
  Modes = {"collect", "followup"}
  DropPolicies = {"new", "summarize"}
  Caps = {2}
  MaxQueues = 2
  MaxFailures = 1
  MaxClears = 1
  Sessions = {}
  Priorities = {3}
  MaxRunners = 2
  MaxBatches = 2
  MaxTroubles = 1
  Invokes = {"i1", "i2"}
  MaxConns = 3
  Requests = {"r1", "r2"}
  ApprovalId <- OneId
  Decisions = {"allow-once", "deny"}
  Callers = {"a"}
  TaskSlots = {1, 2}
  StopHook = TRUE
  MaxAttempts = 1
  MaxTexts = 2
  MaxTools = 1
  Subagents = {"child"}
  Requester <- FromMain
  Expecting = {"child"}
  Deleting = {"child"}
  Archived = {"child"}
  HooksThrow = TRUE
  Flaky = {"child"}
  MaxRetries = 2
  MaxSteers = 1
  MaxCrashes = 1
CHECK_DEADLOCK FALSE
INVARIANTS
  OneBatchUnlessRobbed
  NodeInv
  ApprovalInv
  ChannelInv
  ReplyInv
PROPERTIES
  FollowupsDrain
  WakesReachHandler
  CallsSettle
  DecisionsStand
  ChannelsSettle
  TurnsAreReleased
  EndedSettles
