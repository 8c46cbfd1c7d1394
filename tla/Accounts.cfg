CONSTANTS
  None = None
  Sessions = {s1, s2}
  AccountRows = {account}
  ProxyRows = {proxy}
  DestinationRows = {}
  ItemRows = {item}
  Processes = {s1, s2}
  MaxKey = 2
  MaxSaves = 3
  ProxyUrls = 0
  MaxFailures = 2
  MaxStarts = 2
  Initially <- UntriedOrWorking
  Editors = {s1, s2}
  Accounts = {s1, s2}
  Addresses = {s1, s2}
  Clients = {client}
  Lines = {s1, s2}
  MaxEdits = 3
  Absent = absent
  Bulked = {s1, s2}
  Executions = {s1, s2}
  MaxVersion = 3
SPECIFICATION AllSpec
SYMMETRY Symmetry
INVARIANTS
  AllTypeOK
  SecretsReadable
  LatestTokenKept
  FailuresCounted
  EditsSurvive
  AddressesUnique
PROPERTIES
  WorkingAuthorizationKept
  PreviewHolds
CHECK_DEADLOCK FALSE
