SPECIFICATION Spec
CONSTANTS
  Hosts <- MCHosts
  Configs <- MCConfigs
  MaxEdits = 2
  MaxConfigs = 2
  MaxRestarts = 1
INVARIANTS
  UserKept
  Recoverable
  Settled
  Plannable
PROPERTIES
  FailClosed
