CONSTANTS
  s1 = s1  s2 = s2  w1 = w1  w2 = w2  e1 = e1  e2 = e2
  None = None
  Schedules = {s1}
  Workers = {w1}
  Editors = {e1, e2}
  Periods = {1, 2}
  Tasks <- TaskTypes
  Payloads <- PayloadKinds
  Fits <- Accepted
  Limit = 1
  MaxTime = 2
  MaxCrashes = 0
SYMMETRY Symmetric
SPECIFICATION Spec
INVARIANTS StoredPayloadFits
CHECK_DEADLOCK FALSE
