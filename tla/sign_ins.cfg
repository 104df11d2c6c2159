SPECIFICATION Spec
CONSTANTS
  Tasks = {t1, t2}
  Kinds = {"proxy", "github", "anthropic", "openai", "login", "start"}
  Modes = {"browser", "device", "jwt"}
  GitHub = TRUE
  MaxExpiries = 1
  MaxFaults = 1
INVARIANTS
  OneGrant
  RotatedTokenSaved
  NoNeedlessSignIn
PROPERTY
  RequestsEnd
CHECK_DEADLOCK FALSE
