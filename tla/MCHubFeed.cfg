SPECIFICATION HubFeedSpec
CONSTANTS
  Client = {c1}
  Mailbox = {1, 2}
  Publisher = {p1, p2}
  SendCap = 1
  BroadcastCap = 1
  MaxNotifications = 4
INVARIANTS TypeOK NoPanic SubscribersAreRegistered NotificationOrder
PROPERTY ImplementsFeed
CHECK_DEADLOCK FALSE
