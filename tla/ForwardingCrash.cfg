CONSTANTS
  m1 = m1  m2 = m2  d1 = d1  d2 = d2  s1 = s1  s2 = s2
  None = None
  Messages = {m1}
  Destinations = {d1}
  Scans = {s1}
  Received <- OneMessage
  PageSize = 50
  Faults = {"crash"}
  MaxFaults = 1
  MaxResets = 0
SYMMETRY Symmetric
SPECIFICATION Spec
INVARIANTS CursorPassesDelivered
