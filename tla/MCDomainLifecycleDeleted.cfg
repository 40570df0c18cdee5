SPECIFICATION Spec
CONSTANTS
  Request = {r1}
  Ops = {"create", "verify_dns", "request_challenge", "verify_acme", "submit", "retry", "delete"}
  Failures = {}
  LegacyDomain = FALSE
  MaxIds = 1
  MaxOrders = 1
INVARIANT DeletedStaysDeleted
CHECK_DEADLOCK FALSE
