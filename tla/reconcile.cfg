SPECIFICATION Spec
CONSTANTS
  NPrograms = 2
  Modes <- MCModes
  Settings = {s, r}
  Reserved = {r}
  UserValues = {u}
  ManagedValues = {m1, m2}
  OtherPairing = {o}
  None = None
  s = s
  r = r
  m1 = m1
  m2 = m2
  Offered <- MCOffered
  IOFaults = TRUE
  MaxChanges = 3
  MaxCrashes = 1
INVARIANTS
  UserContentKept
  ReportHolds
  Idempotent
