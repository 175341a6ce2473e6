SPECIFICATION FairSpec
CONSTANTS
  s1 = s1
  s2 = s2
  daily = daily
  hourly = hourly
  once = once
  Services = {s1, s2}
  Jobs = {hourly}
  Stored = {hourly}
  Kind <- OneKind
  DeleteAfterRun = {}
  Period = 1
  Backoff = 1
  MinGap = 1
  StuckAfter = 2
  MaxRetries = 1
  MaxConcurrent = 2
  Results = {"ok", "permanent"}
  MaxTime = 2
  MaxCalls = 1
  MaxReplacements = 1
  MaxCrashes = 0
PROPERTIES
  DueJobsRun
