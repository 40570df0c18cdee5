SPECIFICATION Spec
CONSTANTS
  Request = {r1, r2}
  Ops = {"create", "delete", "update", "verify_dns", "request_challenge", "verify_acme", "acme_status", "submit", "retry", "renew"}
  Failures = {"crash", "cancel", "ca", "db", "disk"}
  LegacyDomain = FALSE
  MaxIds = 2
  MaxOrders = 1
SYMMETRY Symmetry
INVARIANTS TypeOK IssuedHasCertificate
CHECK_DEADLOCK FALSE
