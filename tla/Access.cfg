CONSTANTS
  None = None
  Sessions = {s1, s2, s3}
  Rows = {x1, x2}
  MaxClaims = 4
  Tokens = {x1, x2}
  Requests = {s1, s2}
  Grants <- GrantsOfTokens
  Links = {link}
  Mailboxes = {mailbox}
  Folders = {x1, x2}
  Visits = {s1, s2}
  Profiles = {x1, x2}
  Owners = {owner}
  ProxySessions = {s1, s2}
  Endpoints = 2
  Shells = {s1, s2}
  Urls = {urlA, urlB}
  Url = urlA
  FileB = fileB
  TokenFiles = {fileA, fileB}
  TokenFile = fileA
  Bundle = bundle
  Options <- OneOption
  Envs <- OneEnv
SPECIFICATION AllSpec
SYMMETRY Symmetry
INVARIANTS
  AllTypeOK
  HolderFence
  ServedAsGranted
  HealthAgrees
  SettingsHold
PROPERTIES
  LeaseRespected
  RevocationIsFinal
  SharesHold
CHECK_DEADLOCK FALSE
