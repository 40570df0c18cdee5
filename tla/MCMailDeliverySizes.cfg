SPECIFICATION Spec
CONSTANTS
  d1 = d1
  d2 = d2
  john = john
  withFile = withFile
  Session = {s1}
  Domain = {d1}
  Address = {john}
  Lower <- MCLower
  DomainOf <- MCDomainOf
  Email = {withFile}
  Attachments <- MCAttachments
  AutoProvision = TRUE
  Disturbances = {}
  MaxMail = 1
  MaxRcpt = 2
  MaxApiRows = 1
INVARIANT SizeIsFileSize
CHECK_DEADLOCK FALSE
