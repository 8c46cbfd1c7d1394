CONSTANTS
  w1 = w1  w2 = w2  c1 = c1  c2 = c2  j1 = j1  a = a  b = b
  None = None
  Jobs = {j1}
  Items = {a, b}
  JobOf <- OneJob
  Workers = {w1}
  IdOf <- OwnIds
  Clients = {c1, c2}
  Requests = {"cancel", "pause"}
  MaxAttempts = 2
  MaxCrashes = 0
SPECIFICATION Spec
INVARIANTS CancellingNeverPaused
