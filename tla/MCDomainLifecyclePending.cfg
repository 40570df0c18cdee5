SPECIFICATION Spec
CONSTANTS
  Request = {r1}
  Ops = {"create", "verify_dns", "request_challenge", "verify_acme", "submit", "retry"}
  Failures = {"cancel"}
  LegacyDomain = FALSE
  MaxIds = 1
  MaxOrders = 1
INVARIANT PendingMeansInProgress
CHECK_DEADLOCK FALSE
