SPECIFICATION FairSpec
CONSTANTS
  Client = {c1}
  Mailbox = {1}
  Publisher = {p1, p2}
  SendCap = 1
  BroadcastCap = 2
  MaxNotifications = 4
PROPERTIES PublisherNeverStalls BufferedIsWritten DeadClientIsForgotten
CHECK_DEADLOCK FALSE
