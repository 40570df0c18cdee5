------------------------------ MODULE HubFeed -------------------------------
(***************************************************************************)
(* WebSocketHub with the history that relates it to NotificationFeed: the  *)
(* mailboxes of all notifications in the order they entered the broadcast  *)
(* channel, and for each one the hub has taken, its subscribers then.      *)
(***************************************************************************)
EXTENDS WebSocketHub

VARIABLES published, entitled

hubFeedVars == <<vars, published, entitled>>

\* Enqueue is the step that gives out a number, HubBroadcast the one that
\* takes the next frame.
Record ==
  /\ published' = IF nextSeq' # nextSeq
                  THEN Append(published, broadcast'[Len(broadcast')].mailbox)
                  ELSE published
  /\ entitled' = IF current' # current
                 THEN Append(entitled, subscriptions[current'.mailbox])
                 ELSE entitled

HubFeedInit == Init /\ published = <<>> /\ entitled = <<>>
HubFeedNext == Next /\ Record
HubFeedSpec == HubFeedInit /\ [][HubFeedNext]_hubFeedVars

\* What has been handed to a socket is what its client has received.
Received == [c \in Client |-> [i \in 1..Len(received[c]) |-> received[c][i].seq]]

Feed == INSTANCE NotificationFeed WITH subs <- subscriptions, inbox <- Received

(* The hub, the pumps and their channels implement the feed: a client gets *)
(* only notifications of mailboxes it was subscribed to when the hub took  *)
(* them, in the order SMTP sessions announced them and none twice, however *)
(* subscribes, unsubscribes, full buffers and dying connections interleave *)
(* with the fan-out (hub.go:144-154, client.go:82-98).                     *)
ImplementsFeed == Feed!FeedSpec

=============================================================================
