SPECIFICATION ServerSpec
CONSTANTS
  d1 = d1
  john = john
  mail = mail
  Address = {john}
  Session = {s1, s2}
  Domain = {d1}
  Lower <- MCLower
  DomainOf <- MCDomainOf
  Email = {mail}
  Attachments <- MCAttachments
  AutoProvision = TRUE
  Disturbances = {}
  MaxMail = 2
  MaxRcpt = 1
  MaxApiRows = 1
  Request = {r1}
INVARIANTS ServerTypeOK AcknowledgedIsStored RenewalNotCut
PROPERTY ShutdownEnds
