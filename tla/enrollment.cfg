SPECIFICATION Spec
CONSTANTS
  Enrollments = {e1, e2}
  Calls = {c1, c2}
  MAX_PENDING_ENROLLMENTS = 1
  ENROLLMENT_LIFETIME = 2
  JWKS_REFRESH_COOLDOWN = 2
  GrantLifetimes = {0, 1, 3}
  MaxTime = 5
  MaxKeys = 3
INVARIANTS PlacesKept OneDevice
PROPERTIES AcceptedInTime KeysRefreshed
CHECK_DEADLOCK FALSE
