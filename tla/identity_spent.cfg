SPECIFICATION Spec
CONSTANTS
  Session = session
  Requests = {r1}
  Droppable = {}
  MaxDevices = 1
  MaxTokens = 3
  MaxLogouts = 0
  MaxCrashes = 0
  IOFaults = FALSE
INVARIANT NoSpentTokenPresented
