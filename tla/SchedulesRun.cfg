CONSTANTS
  s1 = s1  s2 = s2  w1 = w1  w2 = w2  e1 = e1  e2 = e2
  None = None
  Schedules = {s1, s2}
  Workers = {w1}
  Editors = {e1}
  Periods = {1}
  Tasks <- TaskTypes
  Payloads <- PayloadKinds
  Fits <- Accepted
  Limit = 1
  MaxTime = 2
  MaxCrashes = 1
SPECIFICATION FairSpec
INVARIANTS StoredPayloadFits
PROPERTIES DueSchedulesRun
CHECK_DEADLOCK FALSE
