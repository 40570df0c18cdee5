SPECIFICATION FairSpec
CONSTANTS
  Request = {r1, r2}
  Ops = {"verify_dns", "request_challenge", "verify_acme", "submit", "renew"}
  Failures = {}
  LegacyDomain = TRUE
  MaxIds = 1
  MaxOrders = 2
INVARIANT WaitsForAnother
PROPERTY RequestsEnd
CHECK_DEADLOCK FALSE
