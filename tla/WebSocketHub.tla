---------------------------- MODULE WebSocketHub ----------------------------
(***************************************************************************)
(* The WebSocket notification path: the hub goroutine (hub.go), the two    *)
(* pump goroutines of every client (client.go), the /ws handler that       *)
(* starts them (cmd/server/main.go) and the SMTP sessions that call        *)
(* BroadcastNewMessage.                                                    *)
(*                                                                         *)
(* The four unbuffered channels register, unregister, subscribe and        *)
(* unsubscribeMailbox are rendezvous: the sender waits in a control state  *)
(* of its own and the hub's select takes it.  The buffered channels        *)
(* broadcast and client.send are sequences.  A member of Client stands for *)
(* one connection; a peer that reconnects is another member.               *)
(***************************************************************************)
EXTENDS Integers, Sequences, FiniteSets

CONSTANTS
  Client,            \* connections that may be made
  Mailbox,           \* mailbox ids, positive: 0 is "no mailbox_id" in JSON
  Publisher,         \* SMTP sessions that announce new messages
  SendCap,           \* capacity of client.send (256 in the code)
  BroadcastCap,      \* capacity of hub.broadcast (256 in the code)
  MaxNotifications   \* bound of the model: notifications ever published

ASSUME MailboxAssumption == Mailbox \subseteq Nat \ {0}
ASSUME CapAssumption == SendCap \in Nat \ {0} /\ BroadcastCap \in Nat \ {0}
ASSUME BoundAssumption == MaxNotifications \in Nat

VARIABLES
  clients,        \* Hub.clients
  subscriptions,  \* Hub.subscriptions; an absent entry and {} are the same
  broadcast,      \* contents of Hub.broadcast
  current,        \* the frame the hub is fanning out
  pending,        \* subscribers the fan-out has still to offer it to
  send,           \* contents of every Client.send
  closed,         \* whether that channel has been closed
  conn,           \* the socket of every client
  reader,         \* control state of the /ws handler, then of ReadPump
  request,        \* mailbox of the request ReadPump is passing to the hub, else 0
  writer,         \* control state of WritePump
  writing,        \* the frame WritePump has taken and not yet written, else ErrorFrame
  publishing,     \* mailbox a publisher is announcing, 0 when it is not
  nextSeq,        \* history: position of the next notification in broadcast
  received,       \* history: notifications handed to each socket
  panic           \* a send on, or close of, a closed channel ended the process

hubVars  == <<clients, subscriptions, current, pending>>
readVars == <<reader, request>>
vars == <<clients, subscriptions, broadcast, current, pending, send, closed,
          conn, reader, request, writer, writing, publishing, nextSeq,
          received, panic>>

-----------------------------------------------------------------------------
(* A frame on client.send.  Notifications carry their position in the      *)
(* broadcast channel in place of their payload; an error has no mailbox.   *)
Notification(m, n) == [type |-> "new_message", mailbox |-> m, seq |-> n]
ErrorFrame == [type |-> "error", mailbox |-> 0, seq |-> 0]
NewMessage == [type : {"new_message"}, mailbox : Mailbox, seq : Nat]
Frame == NewMessage \cup {ErrorFrame}

ReaderStates == {"none", "register", "reading", "subscribe", "unsubscribe",
                 "unregister", "close", "done"}
WriterStates == {"none", "select", "writing", "done"}

TypeOK ==
  /\ clients \in SUBSET Client
  /\ subscriptions \in [Mailbox -> SUBSET Client]
  /\ broadcast \in Seq(NewMessage) /\ Len(broadcast) <= BroadcastCap
  /\ current \in Frame
  /\ pending \in SUBSET Client
  /\ send \in [Client -> Seq(Frame)]
  /\ \A c \in Client : Len(send[c]) <= SendCap
  /\ closed \in [Client -> BOOLEAN]
  /\ conn \in [Client -> {"none", "open", "closed"}]
  /\ reader \in [Client -> ReaderStates]
  /\ request \in [Client -> Mailbox \cup {0}]
  /\ \A c \in Client : reader[c] \in {"subscribe", "unsubscribe"} => request[c] # 0
  /\ writer \in [Client -> WriterStates]
  /\ writing \in [Client -> Frame]
  /\ publishing \in [Publisher -> Mailbox \cup {0}]
  /\ nextSeq \in Nat
  /\ received \in [Client -> Seq(Frame)]
  /\ panic \in BOOLEAN

NewHub ==
  /\ clients = {}
  /\ subscriptions = [m \in Mailbox |-> {}]
  /\ broadcast = <<>>
  /\ current = ErrorFrame
  /\ pending = {}

Init ==
  /\ NewHub
  /\ send = [c \in Client |-> <<>>]
  /\ closed = [c \in Client |-> FALSE]
  /\ conn = [c \in Client |-> "none"]
  /\ reader = [c \in Client |-> "none"]
  /\ request = [c \in Client |-> 0]
  /\ writer = [c \in Client |-> "none"]
  /\ writing = [c \in Client |-> ErrorFrame]
  /\ publishing = [p \in Publisher |-> 0]
  /\ nextSeq = 1
  /\ received = [c \in Client |-> <<>>]
  /\ panic = FALSE

-----------------------------------------------------------------------------
(* BroadcastNewMessage: the caller waits while the broadcast buffer is     *)
(* full.                                                                   *)
WithinBound ==
  nextSeq + Cardinality({p \in Publisher : publishing[p] # 0}) <= MaxNotifications

Publish(p, m) ==
  /\ publishing[p] = 0
  /\ WithinBound
  /\ publishing' = [publishing EXCEPT ![p] = m]
  /\ UNCHANGED <<hubVars, broadcast, send, closed, conn, readVars, writer,
                 writing, nextSeq, received, panic>>

Enqueue(p) ==
  /\ publishing[p] # 0
  /\ Len(broadcast) < BroadcastCap
  /\ broadcast' = Append(broadcast, Notification(publishing[p], nextSeq))
  /\ nextSeq' = nextSeq + 1
  /\ publishing' = [publishing EXCEPT ![p] = 0]
  /\ UNCHANGED <<hubVars, send, closed, conn, readVars, writer, writing,
                 received, panic>>

-----------------------------------------------------------------------------
(* The hub goroutine: one action per case of the select in Run.  It is     *)
(* back at the select when no subscriber is left to serve.                 *)
AtSelect == pending = {}

\* <-h.register: Register returns and the /ws handler starts both pumps.
HubRegister(c) ==
  /\ AtSelect
  /\ reader[c] = "register"
  /\ clients' = clients \cup {c}
  /\ reader' = [reader EXCEPT ![c] = "reading"]
  /\ writer' = [writer EXCEPT ![c] = "select"]
  /\ UNCHANGED <<subscriptions, broadcast, current, pending, send, closed, conn,
                 request, writing, publishing, nextSeq, received, panic>>

\* Fault: unregister leaves the subscriptions alone.
HubUnregisterKeepsSubscriptions(c) ==
  /\ AtSelect
  /\ reader[c] = "unregister"
  /\ reader' = [reader EXCEPT ![c] = "close"]
  /\ clients' = clients \ {c}
  /\ closed' = [closed EXCEPT ![c] = TRUE]
  /\ UNCHANGED <<subscriptions, broadcast, current, pending, send, conn, request,
                 writer, writing, publishing, nextSeq, received, panic>>

\* <-h.unregister: closing a channel twice panics.
HubUnregister(c) ==
  /\ AtSelect
  /\ reader[c] = "unregister"
  /\ reader' = [reader EXCEPT ![c] = "close"]
  /\ \/ /\ c \in clients
        /\ clients' = clients \ {c}
        /\ panic' = closed[c]
        /\ closed' = [closed EXCEPT ![c] = TRUE]
        /\ subscriptions' = [m \in Mailbox |-> subscriptions[m] \ {c}]
     \/ /\ c \notin clients
        /\ UNCHANGED <<clients, panic, closed, subscriptions>>
  /\ UNCHANGED <<broadcast, current, pending, send, conn, request, writer,
                 writing, publishing, nextSeq, received>>

\* <-h.subscribe
HubSubscribe(c) ==
  /\ AtSelect
  /\ reader[c] = "subscribe"
  /\ subscriptions' = [subscriptions EXCEPT ![request[c]] = @ \cup {c}]
  /\ reader' = [reader EXCEPT ![c] = "reading"]
  /\ request' = [request EXCEPT ![c] = 0]
  /\ UNCHANGED <<clients, broadcast, current, pending, send, closed, conn,
                 writer, writing, publishing, nextSeq, received, panic>>

\* <-h.unsubscribeMailbox
HubUnsubscribe(c) ==
  /\ AtSelect
  /\ reader[c] = "unsubscribe"
  /\ subscriptions' = [subscriptions EXCEPT ![request[c]] = @ \ {c}]
  /\ reader' = [reader EXCEPT ![c] = "reading"]
  /\ request' = [request EXCEPT ![c] = 0]
  /\ UNCHANGED <<clients, broadcast, current, pending, send, closed, conn,
                 writer, writing, publishing, nextSeq, received, panic>>

\* Fault: the frame goes to every client.
HubBroadcastToAll ==
  /\ AtSelect
  /\ broadcast # <<>>
  /\ current' = Head(broadcast)
  /\ broadcast' = Tail(broadcast)
  /\ pending' = clients
  /\ UNCHANGED <<clients, subscriptions, send, closed, conn, readVars, writer,
                 writing, publishing, nextSeq, received, panic>>

\* <-h.broadcast: pick the subscribers of the frame's mailbox.
HubBroadcast ==
  /\ AtSelect
  /\ broadcast # <<>>
  /\ current' = Head(broadcast)
  /\ broadcast' = Tail(broadcast)
  /\ pending' = subscriptions[Head(broadcast).mailbox]
  /\ UNCHANGED <<clients, subscriptions, send, closed, conn, readVars, writer,
                 writing, publishing, nextSeq, received, panic>>

(* select { case client.send <- f: default: }: a full buffer skips the     *)
(* frame, a closed channel panics.                                         *)
TrySend(c, f) ==
  /\ panic' = closed[c]
  /\ send' = IF ~closed[c] /\ Len(send[c]) < SendCap
             THEN [send EXCEPT ![c] = Append(@, f)]
             ELSE send

\* Fault: the fan-out waits for a free slot instead of skipping the client.
HubDeliverBlocks(c) ==
  /\ c \in pending
  /\ Len(send[c]) < SendCap
  /\ pending' = pending \ {c}
  /\ TrySend(c, current)
  /\ UNCHANGED <<clients, subscriptions, broadcast, current, closed, conn,
                 readVars, writer, writing, publishing, nextSeq, received>>

\* One iteration of the fan-out loop; Go ranges over a map in any order.
HubDeliver(c) ==
  /\ c \in pending
  /\ pending' = pending \ {c}
  /\ TrySend(c, current)
  /\ UNCHANGED <<clients, subscriptions, broadcast, current, closed, conn,
                 readVars, writer, writing, publishing, nextSeq, received>>

-----------------------------------------------------------------------------
(* The /ws handler up to its call of Register.                             *)
Connect(c) ==
  /\ reader[c] = "none"
  /\ conn' = [conn EXCEPT ![c] = "open"]
  /\ reader' = [reader EXCEPT ![c] = "register"]
  /\ UNCHANGED <<hubVars, broadcast, send, closed, request, writer, writing,
                 publishing, nextSeq, received, panic>>

\* The peer closes the connection, or the network loses it.
ConnLost(c) ==
  /\ conn[c] = "open"
  /\ conn' = [conn EXCEPT ![c] = "closed"]
  /\ UNCHANGED <<hubVars, broadcast, send, closed, readVars, writer, writing,
                 publishing, nextSeq, received, panic>>

\* Fault: a frame without mailbox_id becomes a request as well.
ReadRequestUnchecked(c, type, m) ==
  /\ reader[c] = "reading"
  /\ conn[c] = "open"
  /\ reader' = [reader EXCEPT ![c] = type]
  /\ \E mailbox \in {m, 0} : request' = [request EXCEPT ![c] = mailbox]
  /\ UNCHANGED <<hubVars, broadcast, send, closed, conn, writer, writing,
                 publishing, nextSeq, received, panic>>

(* ReadPump: a frame with a mailbox becomes a request to the hub, any      *)
(* other frame is answered by sendError.                                   *)
ReadRequest(c, type, m) ==
  /\ reader[c] = "reading"
  /\ conn[c] = "open"
  /\ reader' = [reader EXCEPT ![c] = type]
  /\ request' = [request EXCEPT ![c] = m]
  /\ UNCHANGED <<hubVars, broadcast, send, closed, conn, writer, writing,
                 publishing, nextSeq, received, panic>>

ReadInvalid(c) ==
  /\ reader[c] = "reading"
  /\ conn[c] = "open"
  /\ TrySend(c, ErrorFrame)
  /\ UNCHANGED <<hubVars, broadcast, closed, conn, readVars, writer, writing,
                 publishing, nextSeq, received>>

\* Fault: ReadPump returns without unregistering.
ReadErrorSkipsUnregister(c) ==
  /\ reader[c] = "reading"
  /\ reader' = [reader EXCEPT ![c] = "close"]
  /\ UNCHANGED <<hubVars, broadcast, send, closed, conn, request, writer,
                 writing, publishing, nextSeq, received, panic>>

\* ReadMessage fails: connection closed, pongWait elapsed, frame too large.
ReadError(c) ==
  /\ reader[c] = "reading"
  /\ reader' = [reader EXCEPT ![c] = "unregister"]
  /\ UNCHANGED <<hubVars, broadcast, send, closed, conn, request, writer,
                 writing, publishing, nextSeq, received, panic>>

\* Fault: after a read error the loop goes on instead of returning.
ReaderKeepsReading(c) ==
  /\ reader[c] = "close"
  /\ reader' = [reader EXCEPT ![c] = "reading"]
  /\ UNCHANGED <<hubVars, broadcast, send, closed, conn, request, writer, writing,
                 publishing, nextSeq, received, panic>>

ReaderExit(c) ==
  /\ reader[c] = "close"
  /\ conn' = [conn EXCEPT ![c] = "closed"]
  /\ reader' = [reader EXCEPT ![c] = "done"]
  /\ UNCHANGED <<hubVars, broadcast, send, closed, request, writer, writing,
                 publishing, nextSeq, received, panic>>

-----------------------------------------------------------------------------
(* WritePump.  Every return closes the connection.                         *)
WriterExit(c) ==
  /\ writer' = [writer EXCEPT ![c] = "done"]
  /\ conn' = [conn EXCEPT ![c] = "closed"]
  /\ writing' = [writing EXCEPT ![c] = ErrorFrame]

WriterTake(c) ==
  /\ writer[c] = "select"
  /\ send[c] # <<>>
  /\ writing' = [writing EXCEPT ![c] = Head(send[c])]
  /\ send' = [send EXCEPT ![c] = Tail(@)]
  /\ writer' = [writer EXCEPT ![c] = "writing"]
  /\ UNCHANGED <<hubVars, broadcast, closed, conn, readVars, publishing,
                 nextSeq, received, panic>>

\* The hub closed the drained channel.
WriterSeesClose(c) ==
  /\ writer[c] = "select"
  /\ send[c] = <<>>
  /\ closed[c]
  /\ WriterExit(c)
  /\ UNCHANGED <<hubVars, broadcast, send, closed, readVars,
                 publishing, nextSeq, received, panic>>

\* Fault: the frame's writer is never closed, so nothing is flushed.
WriterNeverFlushes(c) ==
  /\ writer[c] = "writing"
  /\ conn[c] = "open"
  /\ writer' = [writer EXCEPT ![c] = "select"]
  /\ writing' = [writing EXCEPT ![c] = ErrorFrame]
  /\ UNCHANGED <<hubVars, broadcast, send, closed, conn, readVars, publishing,
                 nextSeq, received, panic>>

\* Fault: a frame whose write took long is written again.
WriterRepeats(c) ==
  /\ writer[c] = "writing"
  /\ conn[c] = "open"
  /\ received' = IF writing[c].type = "new_message"
                 THEN [received EXCEPT ![c] = Append(@, writing[c])]
                 ELSE received
  /\ writer' \in {writer, [writer EXCEPT ![c] = "select"]}
  /\ writing' = IF writer' = writer THEN writing
                ELSE [writing EXCEPT ![c] = ErrorFrame]
  /\ UNCHANGED <<hubVars, broadcast, send, closed, conn, readVars,
                 publishing, nextSeq, panic>>

WriterWrite(c) ==
  /\ writer[c] = "writing"
  /\ conn[c] = "open"
  /\ received' = IF writing[c].type = "new_message"
                 THEN [received EXCEPT ![c] = Append(@, writing[c])]
                 ELSE received
  /\ writer' = [writer EXCEPT ![c] = "select"]
  /\ writing' = [writing EXCEPT ![c] = ErrorFrame]
  /\ UNCHANGED <<hubVars, broadcast, send, closed, conn, readVars,
                 publishing, nextSeq, panic>>

\* The write of a frame, or of a ping, fails or passes its deadline.
WriterFails(c) ==
  /\ writer[c] \in {"writing", "select"}
  /\ WriterExit(c)
  /\ UNCHANGED <<hubVars, broadcast, send, closed, readVars,
                 publishing, nextSeq, received, panic>>

-----------------------------------------------------------------------------
Run == \/ \E c \in Client : \/ HubRegister(c) \/ HubUnregister(c)
                            \/ HubSubscribe(c) \/ HubUnsubscribe(c)
                            \/ HubDeliver(c)
       \/ HubBroadcast

ReadPump(c) ==
  \/ \E m \in Mailbox, type \in {"subscribe", "unsubscribe"} : ReadRequest(c, type, m)
  \/ ReadInvalid(c) \/ ReadError(c) \/ ReaderExit(c)

WritePump(c) ==
  WriterTake(c) \/ WriterSeesClose(c) \/ WriterWrite(c) \/ WriterFails(c)

\* Nothing happens after a panic: it ends the process.
Next ==
  /\ ~panic
  /\ \/ Run
     \/ \E c \in Client : Connect(c) \/ ConnLost(c) \/ ReadPump(c) \/ WritePump(c)
     \/ \E p \in Publisher : Enqueue(p) \/ \E m \in Mailbox : Publish(p, m)

(* The runtime schedules every goroutine, select picks among the ready     *)
(* cases at random and blocked senders queue in order: no ready            *)
(* communication is passed over for ever.  A read or a ping on a closed    *)
(* connection fails at once, a write ends by its deadline.  What peers and *)
(* publishers start is not fair.                                           *)
Fairness ==
  /\ WF_vars(HubBroadcast)
  /\ \A c \in Client :
       /\ SF_vars(HubRegister(c)) /\ SF_vars(HubUnregister(c))
       /\ SF_vars(HubSubscribe(c)) /\ SF_vars(HubUnsubscribe(c))
       /\ WF_vars(HubDeliver(c))
       /\ WF_vars(conn[c] = "closed" /\ ReadError(c)) /\ WF_vars(ReaderExit(c))
       /\ WF_vars(WriterTake(c)) /\ WF_vars(WriterSeesClose(c))
       /\ WF_vars(writer[c] = "writing" /\ (WriterWrite(c) \/ WriterFails(c)))
       /\ WF_vars(conn[c] = "closed" /\ WriterFails(c))
  /\ \A p \in Publisher : SF_vars(Enqueue(p))

Spec == Init /\ [][Next]_vars
FairSpec == Spec /\ Fairness

-----------------------------------------------------------------------------
(* The hub never sends on a channel it has closed and never closes one     *)
(* twice (hub.go:106, 149; client.go:150), although ReadPump, the hub and  *)
(* WritePump share client.send: either would end the whole server.         *)
NoPanic == ~panic

(* Subscribe adds its caller without looking at Hub.clients (hub.go:125);  *)
(* still every subscriber is registered, so unregister finds and removes   *)
(* it and no dead client stays in the map.                                 *)
SubscribersAreRegistered == \A m \in Mailbox : subscriptions[m] \subseteq clients

\* Frames on their way to the peer of c, oldest first.
Pipeline(c) ==
  received[c] \o (IF writer[c] = "writing" THEN <<writing[c]>> ELSE <<>>) \o send[c]

(* Notifications reach a client in the order of the broadcast channel,     *)
(* none of them twice, whatever is skipped or lost on the way.             *)
NotificationOrder ==
  \A c \in Client :
    \A i, j \in 1..Len(Pipeline(c)) :
      /\ i < j
      /\ Pipeline(c)[i].type = "new_message" /\ Pipeline(c)[j].type = "new_message"
      => Pipeline(c)[i].seq < Pipeline(c)[j].seq

(* BroadcastNewMessage returns: no slow, stuck or vanished client makes    *)
(* the hub, and through it the SMTP session that delivers mail, wait       *)
(* (hub.go:147-153, 195).                                                  *)
PublisherNeverStalls ==
  \A p \in Publisher : publishing[p] # 0 ~> publishing[p] = 0

(* A notification the hub put in a client's buffer is written to its       *)
(* socket unless WritePump ends first (client.go:82-98).                   *)
BufferedIsWritten ==
  \A c \in Client, n \in 1..MaxNotifications :
    (\E i \in 1..Len(send[c]) : send[c][i].seq = n)
      ~> \/ writer[c] = "done"
         \/ \E i \in 1..Len(received[c]) : received[c][i].seq = n

(* A connection that is gone is forgotten: both pumps end and the hub      *)
(* keeps neither the client nor a subscription of it (client.go:45-48,     *)
(* 75-78; hub.go:102-115).                                                 *)
DeadClientIsForgotten ==
  \A c \in Client :
    (conn[c] = "closed" \/ writer[c] = "done") ~>
      /\ reader[c] = "done" /\ writer[c] = "done"
      /\ c \notin clients
      /\ \A m \in Mailbox : c \notin subscriptions[m]

=============================================================================
