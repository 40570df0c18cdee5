SPECIFICATION FairSpec
CONSTANTS
  d1 = d1
  d2 = d2
  john = john
  withFile = withFile
  Session = {s1}
  Domain = {d1, d2}
  Address = {john}
  Lower <- MCLower
  DomainOf <- MCDomainOf
  Email = {withFile}
  Attachments <- MCAttachments
  AutoProvision = TRUE
  Disturbances = {"db", "disk", "crash", "api"}
  MaxMail = 1
  MaxRcpt = 2
  MaxApiRows = 2
INVARIANTS TypeOK AttachmentHasFile FilesNotShared AtMostOnce AnnouncedAsStored
PROPERTY DataIsAnswered
CHECK_DEADLOCK FALSE
