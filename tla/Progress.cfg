CONSTANTS
  First = first
  Second = second
  Third = third
  Default = default
  Temporary = temporary
  On = on
  Off = off
  None = None
  Groups = {first, second, third}
  Editors = {sA, sB}
  Profiles = {on, off}
  Enabled = {on}
  Trees <- OneTree
  MaxEdits = 2
  Mails = {first, second}
  Date <- TwoDates
  Text <- TwoHeaders
  Works = {sA, sB}
  Limits = {1, 2}
  MaxOps = 3
  Accounts = {first, second, third}
  Order <- InOrder
  Slots = 1
  AccountLimit = 2
  Creators = {sA, sB}
  Writers = {sA, sB}
  Limit = 1
  MaxEvents = 4
  Messages = {first, second}
  Destinations = {first, second}
  Scans = {sA}
  Received <- TwoDates
  PageSize = 50
  Faults = {"fetch", "send"}
  MaxFaults = 2
  MaxResets = 1
SPECIFICATION AllSpec
INVARIANTS
  AllTypeOK
  TreeSound
  LocalCopyFollows
PROPERTIES
  WalkFinds
  RetentionObeyed
  AnswerComes
  
  
CHECK_DEADLOCK FALSE
