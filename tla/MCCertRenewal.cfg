SPECIFICATION FairSpec
CONSTANTS
  Domain = {d1, d2}
  AutoRenew = {d1, d2}
  RenewalDays = 2
  Lifetime = 4
INVARIANTS TypeOK TornIsDue NotDueIsServed
PROPERTIES ExpiresOnlyTried ImplementsService
