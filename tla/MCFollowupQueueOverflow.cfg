SPECIFICATION FollowupSpec
CONSTANTS
  m1 = m1
  m2 = m2
  m3 = m3
  m4 = m4
  Messages = {m1, m2, m3, m4}
  OriginOf <- OneOrigin
  IdOf <- Distinct
  Modes = {"followup"}
  DropPolicies = {"old"}
  Caps = {1}
  MaxQueues = 1
  MaxFailures = 0
  MaxClears = 0
CHECK_DEADLOCK FALSE
INVARIANTS
  NoMessageLost
