CONSTANTS
  m1 = m1  m2 = m2  d1 = d1  d2 = d2  s1 = s1  s2 = s2
  None = None
  Messages = {m1, m2}
  Destinations = {d1}
  Scans = {s1}
  Received <- TwoMessages
  PageSize = 50
  Faults = {"send"}
  MaxFaults = 1
  MaxResets = 0
SPECIFICATION FairSpec
PROPERTIES FailedIsRetried
