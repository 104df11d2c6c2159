SPECIFICATION Spec
CONSTANTS
  Requests = {r1, r2}
  MaxTime = 3
  MaxAsleep = 1
  MaxSkew = 1
  MaxSets = 1
  MaxDevices = 2
  MaxIssued = 2
  Lifetimes = {4}
SYMMETRY RequestSymmetry
INVARIANTS NoOldDevice RetryTakesLater ServedInWindow
PROPERTIES NoNeedlessFetch
CHECK_DEADLOCK FALSE
