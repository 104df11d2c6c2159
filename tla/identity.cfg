SPECIFICATION Spec
CONSTANTS
  Session = session
  Requests = {r1}
  Droppable = {r1}
  MaxDevices = 1
  MaxTokens = 2
  MaxLogouts = 1
  MaxCrashes = 1
  IOFaults = TRUE
INVARIANTS
  UnreadableOnlyAfterDelete
  RefreshSerialized
PROPERTY
  LogoutAnswered
