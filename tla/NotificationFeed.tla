-------------------------- MODULE NotificationFeed --------------------------
(***************************************************************************)
(* What the WebSocket notifications promise to a subscriber, without       *)
(* goroutines, channels and buffers.  New messages are published in one    *)
(* order.  One after the other is fanned out: whoever is subscribed to its *)
(* mailbox at that moment is entitled to it.  A client receives some of    *)
(* the notifications it is entitled to, in the order of publication; which *)
(* ones it misses is left open.                                            *)
(***************************************************************************)
EXTENDS Integers, Sequences

CONSTANTS Client, Mailbox

VARIABLES
  published,  \* mailboxes of the new messages, in order
  entitled,   \* clients entitled to the ones fanned out so far
  subs,       \* the subscribers of every mailbox
  inbox       \* numbers of the notifications each client has received

feedVars == <<published, entitled, subs, inbox>>

FeedInit ==
  /\ published = <<>>
  /\ entitled = <<>>
  /\ subs = [m \in Mailbox |-> {}]
  /\ inbox = [c \in Client |-> <<>>]

Publish(m) ==
  /\ published' = Append(published, m)
  /\ UNCHANGED <<entitled, subs, inbox>>

FanOut ==
  /\ Len(entitled) < Len(published)
  /\ entitled' = Append(entitled, subs[published[Len(entitled) + 1]])
  /\ UNCHANGED <<published, subs, inbox>>

Subscribe(c, m) ==
  /\ subs' = [subs EXCEPT ![m] = @ \cup {c}]
  /\ UNCHANGED <<published, entitled, inbox>>

Unsubscribe(c, m) ==
  /\ subs' = [subs EXCEPT ![m] = @ \ {c}]
  /\ UNCHANGED <<published, entitled, inbox>>

\* The client is gone, and with it all its subscriptions.
Leave(c) ==
  /\ subs' = [m \in Mailbox |-> subs[m] \ {c}]
  /\ UNCHANGED <<published, entitled, inbox>>

LastReceived(c) == IF inbox[c] = <<>> THEN 0 ELSE inbox[c][Len(inbox[c])]

Receive(c, n) ==
  /\ n > LastReceived(c)
  /\ c \in entitled[n]
  /\ inbox' = [inbox EXCEPT ![c] = Append(@, n)]
  /\ UNCHANGED <<published, entitled, subs>>

FeedNext ==
  \/ FanOut
  \/ \E m \in Mailbox : Publish(m)
  \/ \E c \in Client :
       \/ Leave(c)
       \/ \E m \in Mailbox : Subscribe(c, m) \/ Unsubscribe(c, m)
       \/ \E n \in 1..Len(entitled) : Receive(c, n)

FeedSpec == FeedInit /\ [][FeedNext]_feedVars

=============================================================================
