CONSTANTS
  w1 = w1  w2 = w2  c1 = c1  c2 = c2  j1 = j1  a = a  b = b
  None = None
  Jobs = {j1}
  Items = {a, b}
  JobOf <- OneJob
  Workers = {w1, w2}
  IdOf <- OwnIds
  Clients = {c1}
  Requests = {"cancel", "pause", "resume"}
  MaxAttempts = 2
  MaxCrashes = 1
SYMMETRY WorkerSymmetry
SPECIFICATION Spec
INVARIANTS LeaseFencing TerminalJobSettled VerdictHonest CountersExact
PROPERTIES FinishedStaysFinished ImplementsLifecycle
