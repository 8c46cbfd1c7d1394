CONSTANTS
  m1 = m1  m2 = m2  d1 = d1  d2 = d2  s1 = s1  s2 = s2
  None = None
  Messages = {m1, m2}
  Destinations = {d1, d2}
  Scans = {s1, s2}
  Received <- TwoMessages
  PageSize = 50
  Faults = {"fetch", "send", "unheard", "raise", "slow", "crash"}
  MaxFaults = 2
  MaxResets = 1
SYMMETRY Symmetric
SPECIFICATION Spec
INVARIANTS SuccessWasSent  
