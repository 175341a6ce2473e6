SPECIFICATION Spec
CONSTANTS
  s1 = s1
  s2 = s2
  daily = daily
  hourly = hourly
  once = once
  Services = {s1, s2}
  Jobs = {daily, once}
  Stored = {daily}
  Kind <- TwoKinds
  DeleteAfterRun = {}
  Period = 2
  Backoff = 1
  MinGap = 1
  StuckAfter = 3
  MaxRetries = 1
  MaxConcurrent = 1
  Results = {"ok", "transient"}
  MaxTime = 3
  MaxCalls = 1
  MaxReplacements = 1
  MaxCrashes = 0
INVARIANTS
  NoDoubleExecution
