------------------------- MODULE WebSocketHubProofs -------------------------
(***************************************************************************)
(* TLAPS proofs about WebSocketHub, for every set of clients, mailboxes    *)
(* and publishers and every channel capacity.                              *)
(***************************************************************************)
EXTENDS WebSocketHub, SequenceTheorems, TLAPS

\* States in which the hub holds the client: Register has returned to it and
\* its Unregister has not yet been taken.
Live == {"reading", "subscribe", "unsubscribe", "unregister"}

(* Why nothing panics: a client is in Hub.clients exactly while its        *)
(* ReadPump runs, its channel is closed only after that, and the hub sends *)
(* only to subscribers, all of them registered, also in the middle of a    *)
(* fan-out.                                                                *)
ClientsAreLive == \A c \in Client : c \in clients <=> reader[c] \in Live
LiveAreOpen == \A c \in Client :
                 reader[c] \in Live \cup {"none", "register"} => ~closed[c]
PendingAreRegistered == pending \subseteq clients

ChannelInv ==
  /\ ClientsAreLive
  /\ LiveAreOpen
  /\ SubscribersAreRegistered
  /\ PendingAreRegistered
  /\ NoPanic

-----------------------------------------------------------------------------
(* The type of the frame that sendError builds (client.go:138-142).        *)
LEMMA ErrorFrameType == ErrorFrame \in Frame
BY DEF Frame

(* A non-blocking send keeps the buffers typed and within capacity         *)
(* (hub.go:148-152, client.go:149-153).                                    *)
LEMMA TrySendType ==
  ASSUME TypeOK, NEW c \in Client, NEW f \in Frame, TrySend(c, f)
  PROVE  /\ send' \in [Client -> Seq(Frame)]
         /\ \A d \in Client : Len(send'[d]) <= SendCap
         /\ panic' \in BOOLEAN
<1>1. CASE ~closed[c] /\ Len(send[c]) < SendCap
  <2>1. send' = [send EXCEPT ![c] = Append(send[c], f)]
    BY <1>1 DEF TrySend
  <2>2. send[c] \in Seq(Frame) /\ send \in [Client -> Seq(Frame)]
    BY DEF TypeOK
  <2>3. Append(send[c], f) \in Seq(Frame) /\ Len(Append(send[c], f)) = Len(send[c]) + 1
    BY <2>2
  <2>4. Len(send[c]) + 1 <= SendCap
    BY <1>1, <2>2, CapAssumption
  <2>5. send' \in [Client -> Seq(Frame)]
    BY <2>1, <2>2, <2>3
  <2>6. \A d \in Client : Len(send'[d]) <= SendCap
    BY <2>1, <2>2, <2>3, <2>4 DEF TypeOK
  <2>7. panic' \in BOOLEAN
    BY DEF TrySend, TypeOK
  <2> QED BY <2>5, <2>6, <2>7
<1>2. CASE ~(~closed[c] /\ Len(send[c]) < SendCap)
  <2>1. send' = send
    BY <1>2 DEF TrySend
  <2>2. panic' \in BOOLEAN
    BY DEF TrySend, TypeOK
  <2> QED BY <2>1, <2>2 DEF TypeOK
<1> QED BY <1>1, <1>2

-----------------------------------------------------------------------------
(* Every step keeps every variable in its type and every channel within    *)
(* its capacity.                                                           *)
LEMMA TypeStep == TypeOK /\ [Next]_vars => TypeOK'
<1> SUFFICES ASSUME TypeOK, [Next]_vars PROVE TypeOK'
  OBVIOUS
<1> USE MailboxAssumption, CapAssumption, ErrorFrameType
<1>1. ASSUME NEW p \in Publisher, NEW m \in Mailbox, Publish(p, m) PROVE TypeOK'
  BY <1>1 DEF TypeOK, Publish, hubVars, readVars
<1>2. ASSUME NEW p \in Publisher, Enqueue(p) PROVE TypeOK'
  <2>1. Notification(publishing[p], nextSeq) \in NewMessage
    BY <1>2 DEF TypeOK, Enqueue, Notification, NewMessage
  <2>2. broadcast' \in Seq(NewMessage) /\ Len(broadcast') <= BroadcastCap
    BY <1>2, <2>1 DEF TypeOK, Enqueue
  <2>3. nextSeq' \in Nat /\ publishing' \in [Publisher -> Mailbox \cup {0}]
    BY <1>2 DEF TypeOK, Enqueue
  <2> QED BY <1>2, <2>2, <2>3 DEF TypeOK, Enqueue, hubVars, readVars
<1>3. ASSUME NEW c \in Client, HubRegister(c) PROVE TypeOK'
  BY <1>3 DEF TypeOK, HubRegister, ReaderStates, WriterStates
<1>4. ASSUME NEW c \in Client, HubUnregister(c) PROVE TypeOK'
  <2>1. closed' \in [Client -> BOOLEAN] /\ panic' \in BOOLEAN
    BY <1>4 DEF TypeOK, HubUnregister
  <2>2. reader' \in [Client -> ReaderStates]
    BY <1>4 DEF TypeOK, HubUnregister, ReaderStates
  <2>3. clients' \in SUBSET Client /\ subscriptions' \in [Mailbox -> SUBSET Client]
    BY <1>4 DEF TypeOK, HubUnregister
  <2> QED BY <1>4, <2>1, <2>2, <2>3 DEF TypeOK, HubUnregister
<1>5. ASSUME NEW c \in Client, HubSubscribe(c) PROVE TypeOK'
  BY <1>5 DEF TypeOK, HubSubscribe, ReaderStates
<1>6. ASSUME NEW c \in Client, HubUnsubscribe(c) PROVE TypeOK'
  BY <1>6 DEF TypeOK, HubUnsubscribe, ReaderStates
<1>7. ASSUME HubBroadcast PROVE TypeOK'
  <2>1. broadcast \in Seq(NewMessage) /\ broadcast # <<>>
    BY <1>7 DEF TypeOK, HubBroadcast
  <2>2. /\ Head(broadcast) \in NewMessage /\ Tail(broadcast) \in Seq(NewMessage)
        /\ Len(Tail(broadcast)) <= BroadcastCap
    BY <2>1 DEF TypeOK
  <2>3. subscriptions[Head(broadcast).mailbox] \in SUBSET Client
    BY <2>2 DEF TypeOK, NewMessage
  <2> QED BY <1>7, <2>2, <2>3 DEF TypeOK, HubBroadcast, Frame, readVars
<1>8. ASSUME NEW c \in Client, HubDeliver(c) PROVE TypeOK'
  <2>1. TrySend(c, current) /\ current \in Frame
    BY <1>8 DEF HubDeliver, TypeOK
  <2> QED BY <1>8, <2>1, TrySendType DEF TypeOK, HubDeliver, readVars
<1>9. ASSUME NEW c \in Client, Connect(c) PROVE TypeOK'
  BY <1>9 DEF TypeOK, Connect, ReaderStates, hubVars
<1>10. ASSUME NEW c \in Client, ConnLost(c) PROVE TypeOK'
  BY <1>10 DEF TypeOK, ConnLost, hubVars, readVars
<1>11. ASSUME NEW c \in Client, NEW m \in Mailbox,
              NEW type \in {"subscribe", "unsubscribe"}, ReadRequest(c, type, m)
       PROVE  TypeOK'
  BY <1>11 DEF TypeOK, ReadRequest, ReaderStates, hubVars
<1>12. ASSUME NEW c \in Client, ReadInvalid(c) PROVE TypeOK'
  <2>1. TrySend(c, ErrorFrame)
    BY <1>12 DEF ReadInvalid
  <2> QED BY <1>12, <2>1, TrySendType DEF TypeOK, ReadInvalid, hubVars, readVars
<1>13. ASSUME NEW c \in Client, ReadError(c) PROVE TypeOK'
  BY <1>13 DEF TypeOK, ReadError, ReaderStates, hubVars
<1>14. ASSUME NEW c \in Client, ReaderExit(c) PROVE TypeOK'
  BY <1>14 DEF TypeOK, ReaderExit, ReaderStates, hubVars
<1>15. ASSUME NEW c \in Client, WriterTake(c) PROVE TypeOK'
  <2>1. /\ send[c] \in Seq(Frame) /\ send[c] # <<>>
        /\ send' = [send EXCEPT ![c] = Tail(send[c])]
    BY <1>15 DEF WriterTake, TypeOK
  <2>2. Head(send[c]) \in Frame /\ Tail(send[c]) \in Seq(Frame)
        /\ Len(Tail(send[c])) = Len(send[c]) - 1
    BY <2>1
  <2>3. send' \in [Client -> Seq(Frame)] /\ \A d \in Client : Len(send'[d]) <= SendCap
    BY <2>1, <2>2 DEF TypeOK
  <2>4. writing' \in [Client -> Frame] /\ writer' \in [Client -> WriterStates]
    BY <1>15, <2>2 DEF WriterTake, TypeOK, WriterStates
  <2> QED BY <1>15, <2>3, <2>4 DEF TypeOK, WriterTake, hubVars, readVars
<1>16. ASSUME NEW c \in Client, WriterSeesClose(c) PROVE TypeOK'
  BY <1>16 DEF TypeOK, WriterSeesClose, WriterExit, WriterStates, hubVars, readVars
<1>17. ASSUME NEW c \in Client, WriterWrite(c) PROVE TypeOK'
  <2>1. received' \in [Client -> Seq(Frame)]
    BY <1>17 DEF TypeOK, WriterWrite
  <2> QED BY <1>17, <2>1 DEF TypeOK, WriterWrite, WriterStates, hubVars, readVars
<1>18. ASSUME NEW c \in Client, WriterFails(c) PROVE TypeOK'
  BY <1>18 DEF TypeOK, WriterFails, WriterExit, WriterStates, hubVars, readVars
<1>19. CASE UNCHANGED vars
  BY <1>19 DEF TypeOK, vars
<1> QED
  BY <1>1, <1>2, <1>3, <1>4, <1>5, <1>6, <1>7, <1>8, <1>9, <1>10, <1>11, <1>12,
     <1>13, <1>14, <1>15, <1>16, <1>17, <1>18, <1>19
     DEF Next, Run, ReadPump, WritePump

(* Type correctness of the hub and its clients.                            *)
THEOREM TypeCorrect == Spec => []TypeOK
<1>1. Init => TypeOK
  <2> SUFFICES ASSUME Init PROVE TypeOK
    OBVIOUS
  <2>1. panic \in BOOLEAN /\ closed \in [Client -> BOOLEAN]
    BY DEF Init
  <2>2. <<>> \in Seq(Frame) /\ <<>> \in Seq(NewMessage) /\ Len(<<>>) = 0
    OBVIOUS
  <2> QED
    BY <2>1, <2>2, ErrorFrameType, MailboxAssumption, CapAssumption
       DEF Init, NewHub, TypeOK, ReaderStates, WriterStates
<1> QED BY <1>1, TypeStep, PTL DEF Spec

-----------------------------------------------------------------------------
(* Every step keeps the channel discipline.                                *)
LEMMA ChannelStep == TypeOK /\ ChannelInv /\ [Next]_vars => ChannelInv'
<1> SUFFICES ASSUME TypeOK, ChannelInv, [Next]_vars PROVE ChannelInv'
  OBVIOUS
<1> USE DEF ChannelInv, ClientsAreLive, LiveAreOpen, SubscribersAreRegistered,
            PendingAreRegistered, NoPanic, Live
<1>1. ASSUME NEW p \in Publisher, NEW m \in Mailbox, Publish(p, m) PROVE ChannelInv'
  BY <1>1 DEF Publish, hubVars, readVars
<1>2. ASSUME NEW p \in Publisher, Enqueue(p) PROVE ChannelInv'
  BY <1>2 DEF Enqueue, hubVars, readVars
<1>3. ASSUME NEW c \in Client, HubRegister(c) PROVE ChannelInv'
  BY <1>3 DEF TypeOK, HubRegister
<1>4. ASSUME NEW c \in Client, HubUnregister(c) PROVE ChannelInv'
  <2>1. c \in clients /\ ~closed[c] /\ pending = {}
    BY <1>4 DEF HubUnregister, AtSelect
  <2>2. /\ clients' = clients \ {c}
        /\ closed' = [closed EXCEPT ![c] = TRUE]
        /\ reader' = [reader EXCEPT ![c] = "close"]
        /\ subscriptions' = [m \in Mailbox |-> subscriptions[m] \ {c}]
        /\ UNCHANGED <<pending, request>>
    BY <1>4, <2>1 DEF HubUnregister
  <2>3. NoPanic'
    BY <1>4, <2>1 DEF HubUnregister
  <2>4. ClientsAreLive'
    BY <2>2 DEF TypeOK
  <2>5. LiveAreOpen'
    BY <2>2 DEF TypeOK
  <2>6. SubscribersAreRegistered' /\ PendingAreRegistered'
    BY <2>1, <2>2
  <2> QED BY <2>3, <2>4, <2>5, <2>6
<1>5. ASSUME NEW c \in Client, HubSubscribe(c) PROVE ChannelInv'
  <2>1. c \in clients /\ request[c] \in Mailbox
    BY <1>5 DEF HubSubscribe, TypeOK
  <2> QED BY <1>5, <2>1 DEF TypeOK, HubSubscribe
<1>6. ASSUME NEW c \in Client, HubUnsubscribe(c) PROVE ChannelInv'
  BY <1>6 DEF TypeOK, HubUnsubscribe
<1>7. ASSUME HubBroadcast PROVE ChannelInv'
  <2>1. Head(broadcast) \in NewMessage
    BY <1>7 DEF TypeOK, HubBroadcast
  <2>2. subscriptions[Head(broadcast).mailbox] \subseteq clients
    BY <2>1 DEF NewMessage
  <2> QED BY <1>7, <2>2 DEF HubBroadcast, readVars
<1>8. ASSUME NEW c \in Client, HubDeliver(c) PROVE ChannelInv'
  <2>1. ~closed[c]
    BY <1>8 DEF HubDeliver
  <2> QED BY <1>8, <2>1 DEF HubDeliver, TrySend, readVars
<1>9. ASSUME NEW c \in Client, Connect(c) PROVE ChannelInv'
  BY <1>9 DEF TypeOK, Connect, hubVars
<1>10. ASSUME NEW c \in Client, ConnLost(c) PROVE ChannelInv'
  BY <1>10 DEF ConnLost, hubVars, readVars
<1>11. ASSUME NEW c \in Client, NEW m \in Mailbox,
              NEW type \in {"subscribe", "unsubscribe"}, ReadRequest(c, type, m)
       PROVE  ChannelInv'
  BY <1>11 DEF TypeOK, ReadRequest, hubVars
<1>12. ASSUME NEW c \in Client, ReadInvalid(c) PROVE ChannelInv'
  BY <1>12 DEF ReadInvalid, TrySend, hubVars, readVars
<1>13. ASSUME NEW c \in Client, ReadError(c) PROVE ChannelInv'
  BY <1>13 DEF TypeOK, ReadError, hubVars
<1>14. ASSUME NEW c \in Client, ReaderExit(c) PROVE ChannelInv'
  BY <1>14 DEF TypeOK, ReaderExit, hubVars
<1>15. ASSUME NEW c \in Client, WritePump(c) PROVE ChannelInv'
  BY <1>15 DEF WritePump, WriterTake, WriterSeesClose, WriterWrite, WriterFails,
               WriterExit, hubVars, readVars
<1>16. CASE UNCHANGED vars
  BY <1>16 DEF vars
<1> QED
  BY <1>1, <1>2, <1>3, <1>4, <1>5, <1>6, <1>7, <1>8, <1>9, <1>10, <1>11, <1>12,
     <1>13, <1>14, <1>15, <1>16
     DEF Next, Run, ReadPump

(* The channel discipline holds in every reachable state.                  *)
LEMMA ChannelInvariant == Spec => []ChannelInv
<1>1. Init => ChannelInv
  BY DEF Init, NewHub, ChannelInv, ClientsAreLive, LiveAreOpen, Live,
         SubscribersAreRegistered, PendingAreRegistered, NoPanic
<1> QED BY <1>1, TypeCorrect, ChannelStep, PTL DEF Spec

(* No interleaving of hub, pumps, peers and publishers makes the server    *)
(* panic on a closed channel (hub.go:106, 149; client.go:150).             *)
THEOREM NoPanicTheorem == Spec => []NoPanic
<1>1. ChannelInv => NoPanic
  BY DEF ChannelInv
<1> QED BY <1>1, ChannelInvariant, PTL

(* Every subscriber is a registered client (hub.go:102-129), so            *)
(* unregistering leaves no subscription of a dead client behind.           *)
THEOREM SubscribersTheorem == Spec => []SubscribersAreRegistered
<1>1. ChannelInv => SubscribersAreRegistered
  BY DEF ChannelInv
<1> QED BY <1>1, ChannelInvariant, PTL

-----------------------------------------------------------------------------
(* The order of notifications.  Numbers are given out in the broadcast     *)
(* channel one after the other, current is the last one taken out of it,   *)
(* and a client that is still to be offered it has only smaller ones.      *)
IsNew(f) == f.type = "new_message"
Notes(q) == {q[i] : i \in {k \in 1..Len(q) : IsNew(q[k])}}
Before(A, B) == \A a \in A, b \in B : a.seq < b.seq
InOrder(q) == \A i, j \in 1..Len(q) :
                i < j /\ IsNew(q[i]) /\ IsNew(q[j]) => q[i].seq < q[j].seq

\* The notification WritePump is writing.
Held(c) == IF writer[c] = "writing" /\ IsNew(writing[c]) THEN {writing[c]} ELSE {}
NotesOf(c) == Notes(received[c]) \cup Held(c) \cup Notes(send[c])

Numbered ==
  /\ current.seq = nextSeq - Len(broadcast) - 1
  /\ \A i \in 1..Len(broadcast) : broadcast[i].seq = current.seq + i
  /\ pending # {} => IsNew(current)
Ordered(c) ==
  /\ InOrder(received[c]) /\ InOrder(send[c])
  /\ Before(Notes(received[c]), Held(c) \cup Notes(send[c]))
  /\ Before(Held(c), Notes(send[c]))
  /\ \A f \in NotesOf(c) : f.seq <= current.seq /\ (c \in pending => f.seq < current.seq)

OrderInv == Numbered /\ \A c \in Client : Ordered(c)

(* What Append does to the notifications of a buffer and to their order.   *)
LEMMA NotesOfAppend ==
  ASSUME NEW q \in Seq(Frame), NEW f \in Frame
  PROVE  /\ Notes(Append(q, f)) = Notes(q) \cup (IF IsNew(f) THEN {f} ELSE {})
         /\ InOrder(q) /\ (IsNew(f) => Before(Notes(q), {f})) => InOrder(Append(q, f))
<1>1. /\ Len(q) \in Nat /\ Len(Append(q, f)) = Len(q) + 1
      /\ \A i \in 1..Len(q) : Append(q, f)[i] = q[i]
      /\ Append(q, f)[Len(q) + 1] = f
  BY LenProperties
<1>2. 1..(Len(q) + 1) = 1..Len(q) \cup {Len(q) + 1} /\ \A i \in 1..Len(q) : i < Len(q) + 1
  BY <1>1
<1>3. Notes(Append(q, f)) = Notes(q) \cup (IF IsNew(f) THEN {f} ELSE {})
  BY <1>1, <1>2 DEF Notes
<1>4. ASSUME InOrder(q), IsNew(f) => Before(Notes(q), {f}) PROVE InOrder(Append(q, f))
  <2> SUFFICES ASSUME NEW i \in 1..(Len(q) + 1), NEW j \in 1..(Len(q) + 1), i < j,
                      IsNew(Append(q, f)[i]), IsNew(Append(q, f)[j])
               PROVE  Append(q, f)[i].seq < Append(q, f)[j].seq
    BY <1>1 DEF InOrder
  <2>1. i \in 1..Len(q) /\ Append(q, f)[i] = q[i]
    BY <1>1
  <2>2. CASE j \in 1..Len(q)
    BY <1>1, <1>4, <2>1, <2>2 DEF InOrder
  <2>3. CASE j = Len(q) + 1
    BY <1>1, <1>4, <2>1, <2>3 DEF Notes, Before
  <2> QED BY <1>1, <2>2, <2>3
<1> QED BY <1>3, <1>4

(* What Head and Tail do to them.                                          *)
LEMMA NotesOfTail ==
  ASSUME NEW q \in Seq(Frame), q # <<>>
  PROVE  /\ Notes(q) = Notes(Tail(q)) \cup (IF IsNew(Head(q)) THEN {Head(q)} ELSE {})
         /\ InOrder(q) => /\ InOrder(Tail(q))
                          /\ IsNew(Head(q)) => Before({Head(q)}, Notes(Tail(q)))
<1>1. /\ Len(q) \in Nat /\ Len(q) > 0 /\ Len(Tail(q)) = Len(q) - 1 /\ Head(q) = q[1]
      /\ \A i \in 1..(Len(q) - 1) : Tail(q)[i] = q[i + 1]
  BY HeadTailProperties, LenProperties, EmptySeq
<1>2. \A i \in 1..Len(q) : i = 1 \/ (i - 1 \in 1..(Len(q) - 1) /\ q[i] = Tail(q)[i - 1])
  BY <1>1
<1>3. \A i \in 1..(Len(q) - 1) : i + 1 \in 1..Len(q) /\ 1 < i + 1
  BY <1>1
<1>4. 1 \in 1..Len(q)
  BY <1>1
<1>5. Notes(q) \subseteq Notes(Tail(q)) \cup (IF IsNew(Head(q)) THEN {Head(q)} ELSE {})
  BY <1>1, <1>2 DEF Notes
<1>6. Notes(Tail(q)) \subseteq Notes(q)
  BY <1>1, <1>3 DEF Notes
<1>7. IsNew(Head(q)) => Head(q) \in Notes(q)
  BY <1>1, <1>4 DEF Notes
<1>8. ASSUME InOrder(q)
      PROVE  /\ InOrder(Tail(q))
             /\ IsNew(Head(q)) => Before({Head(q)}, Notes(Tail(q)))
  <2>1. InOrder(Tail(q))
    <3> SUFFICES ASSUME NEW i \in 1..(Len(q) - 1), NEW j \in 1..(Len(q) - 1), i < j,
                        IsNew(Tail(q)[i]), IsNew(Tail(q)[j])
                 PROVE  Tail(q)[i].seq < Tail(q)[j].seq
      BY <1>1 DEF InOrder
    <3>1. i + 1 < j + 1
      OBVIOUS
    <3> QED BY <1>1, <1>3, <1>8, <3>1 DEF InOrder
  <2>2. IsNew(Head(q)) => Before({Head(q)}, Notes(Tail(q)))
    BY <1>1, <1>3, <1>4, <1>8 DEF InOrder, Before, Notes
  <2> QED BY <2>1, <2>2
<1> QED BY <1>5, <1>6, <1>7, <1>8

(* Notifications have numbers.                                             *)
LEMMA NotesType ==
  ASSUME TypeOK, NEW c \in Client
  PROVE  /\ NotesOf(c) \subseteq NewMessage
         /\ \A f \in NotesOf(c) : f.seq \in Nat
<1>1. received[c] \in Seq(Frame) /\ send[c] \in Seq(Frame) /\ writing[c] \in Frame
  BY DEF TypeOK
<1>2. \A f \in Frame : IsNew(f) => f \in NewMessage
  BY DEF Frame, ErrorFrame, IsNew
<1>3. \A q \in Seq(Frame) : Notes(q) \subseteq NewMessage
  BY <1>2, ElementOfSeq DEF Notes
<1>4. NotesOf(c) \subseteq NewMessage
  BY <1>1, <1>2, <1>3 DEF NotesOf, Held
<1> QED BY <1>4 DEF NewMessage

(* A step that gives a client no notification, and may take from its       *)
(* WritePump the one that it holds.                                        *)
LEMMA OrderFrame ==
  ASSUME NEW c \in Client, Ordered(c), UNCHANGED current, c \in pending' => c \in pending,
         UNCHANGED received[c], UNCHANGED send[c], Held(c)' \subseteq Held(c)
  PROVE  Ordered(c)'
<1>1. Notes(received[c])' = Notes(received[c]) /\ Notes(send[c])' = Notes(send[c])
  OBVIOUS
<1>2. InOrder(received[c])' /\ InOrder(send[c])'
  BY DEF Ordered
<1>3. /\ Before(Notes(received[c]), Held(c) \cup Notes(send[c]))'
      /\ Before(Held(c), Notes(send[c]))'
  BY <1>1 DEF Ordered, Before
<1>4. NotesOf(c)' \subseteq NotesOf(c)
  BY <1>1 DEF NotesOf
<1> QED BY <1>2, <1>3, <1>4 DEF Ordered

(* Every step of hub, pumps and publishers keeps the order.                *)
LEMMA OrderStep == TypeOK /\ ChannelInv /\ OrderInv /\ [Next]_vars => OrderInv'
<1> SUFFICES ASSUME TypeOK, ChannelInv, OrderInv, [Next]_vars PROVE OrderInv'
  OBVIOUS
<1>1. /\ current \in Frame /\ current.seq \in Nat /\ nextSeq \in Nat
      /\ broadcast \in Seq(NewMessage) /\ Len(broadcast) \in Nat
      /\ \A c \in Client : /\ received[c] \in Seq(Frame) /\ send[c] \in Seq(Frame)
                            /\ writing[c] \in Frame
  BY LenProperties DEF TypeOK, Frame, NewMessage, ErrorFrame
<1>2. Numbered /\ \A c \in Client : Ordered(c)
  BY DEF OrderInv
<1>3. CASE UNCHANGED <<received, send, writer, writing, current, pending, broadcast, nextSeq>>
  <2>1. Numbered'
    BY <1>2, <1>3 DEF Numbered
  <2>2. \A c \in Client : Ordered(c)'
    BY <1>2, <1>3, OrderFrame DEF Held
  <2> QED BY <2>1, <2>2 DEF OrderInv
<1>4. ASSUME UNCHANGED <<received, send, current, pending, broadcast, nextSeq>>,
             \A c \in Client : Held(c)' \subseteq Held(c)
      PROVE  OrderInv'
  <2>1. Numbered'
    BY <1>2, <1>4 DEF Numbered
  <2>2. \A c \in Client : Ordered(c)'
    BY <1>2, <1>4, OrderFrame
  <2> QED BY <2>1, <2>2 DEF OrderInv
<1>5. ASSUME NEW p \in Publisher, Enqueue(p) PROVE OrderInv'
  <2> DEFINE f == Notification(publishing[p], nextSeq)
  <2>1. /\ broadcast' = Append(broadcast, f) /\ nextSeq' = nextSeq + 1
        /\ UNCHANGED <<received, send, writer, writing, current, pending>>
    BY <1>5 DEF Enqueue, hubVars
  <2>2. f \in NewMessage /\ f.seq = nextSeq
    BY <1>1, <1>5 DEF TypeOK, Enqueue, Notification, NewMessage
  <2>3. \A c \in Client : Ordered(c)'
    BY <1>2, <2>1, OrderFrame DEF Held
  <2> HIDE DEF f
  <2>4. Len(broadcast') = Len(broadcast) + 1
    BY <1>1, <2>1, <2>2
  <2>5. current'.seq = nextSeq' - Len(broadcast') - 1
    BY <1>1, <1>2, <2>1, <2>4 DEF Numbered
  <2>6. ASSUME NEW i \in 1..Len(broadcast') PROVE broadcast'[i].seq = current'.seq + i
    <3>1. CASE i \in 1..Len(broadcast)
      <4>1. broadcast'[i] = broadcast[i]
        BY <1>1, <2>1, <2>2, <3>1
      <4>2. broadcast[i].seq = current.seq + i
        BY <1>2, <3>1 DEF Numbered
      <4> QED BY <2>1, <4>1, <4>2
    <3>2. CASE i = Len(broadcast) + 1
      BY <1>1, <1>2, <2>1, <2>2, <3>2 DEF Numbered
    <3> QED BY <1>1, <2>4, <3>1, <3>2
  <2>7. Numbered'
    BY <1>2, <2>1, <2>5, <2>6 DEF Numbered
  <2> QED BY <2>3, <2>7 DEF OrderInv
<1>6. CASE HubBroadcast
  <2>1. /\ broadcast # <<>> /\ pending = {} /\ current' = Head(broadcast)
        /\ broadcast' = Tail(broadcast) /\ UNCHANGED <<received, send, writer, writing, nextSeq>>
    BY <1>6 DEF HubBroadcast, AtSelect
  <2>2. /\ Len(broadcast) > 0 /\ Len(Tail(broadcast)) = Len(broadcast) - 1
        /\ Head(broadcast) = broadcast[1] /\ Head(broadcast) \in NewMessage
        /\ \A i \in 1..(Len(broadcast) - 1) : Tail(broadcast)[i] = broadcast[i + 1]
    BY <1>1, <2>1, HeadTailProperties, EmptySeq
  <2>3. current'.seq = current.seq + 1
    BY <1>1, <1>2, <2>1, <2>2 DEF Numbered
  <2>4. Numbered'
    <3>1. current'.seq = nextSeq' - Len(broadcast') - 1
      BY <1>1, <1>2, <2>1, <2>2, <2>3 DEF Numbered
    <3>2. ASSUME NEW i \in 1..Len(broadcast') PROVE broadcast'[i].seq = current'.seq + i
      <4>1. i \in 1..(Len(broadcast) - 1) /\ i + 1 \in 1..Len(broadcast)
        BY <1>1, <2>1, <2>2
      <4>2. broadcast'[i] = broadcast[i + 1]
        BY <2>1, <2>2, <4>1
      <4>3. broadcast[i + 1].seq = current.seq + (i + 1)
        BY <1>2, <4>1 DEF Numbered
      <4> QED BY <1>1, <2>3, <4>1, <4>2, <4>3
    <3>3. IsNew(current')
      BY <2>1, <2>2 DEF NewMessage, IsNew
    <3> QED BY <3>1, <3>2, <3>3 DEF Numbered
  <2>5. ASSUME NEW c \in Client PROVE Ordered(c)'
    <3>1. NotesOf(c)' = NotesOf(c) /\ Held(c)' = Held(c)
      BY <2>1 DEF NotesOf, Held
    <3>2. \A f \in NotesOf(c) : f.seq \in Nat /\ f.seq <= current.seq
      BY <1>2, NotesType DEF Ordered
    <3>3. \A f \in NotesOf(c) : f.seq < current'.seq /\ f.seq <= current'.seq
      BY <1>1, <2>3, <3>2
    <3>4. /\ InOrder(received[c])' /\ InOrder(send[c])'
          /\ Before(Notes(received[c]), Held(c) \cup Notes(send[c]))'
          /\ Before(Held(c), Notes(send[c]))'
      BY <1>2, <2>1, <3>1 DEF Ordered
    <3> QED BY <3>1, <3>3, <3>4 DEF Ordered
  <2> QED BY <2>4, <2>5 DEF OrderInv
<1>7. ASSUME NEW c \in Client, NEW f \in Frame, TrySend(c, f), pending' \subseteq pending,
             UNCHANGED <<received, writer, writing, current, broadcast, nextSeq>>,
             IsNew(f) => f = current /\ c \in pending /\ c \notin pending'
      PROVE  OrderInv'
  <2>1. Numbered'
    BY <1>2, <1>7 DEF Numbered
  <2>2. \A d \in Client \ {c} : UNCHANGED send[d]
    BY <1>7 DEF TrySend, TypeOK
  <2>3. \A d \in Client : Held(d)' = Held(d)
    BY <1>7 DEF Held
  <2>4. \A d \in Client \ {c} : Ordered(d)'
    BY <1>2, <1>7, <2>2, <2>3, OrderFrame
  <2>5. CASE send'[c] = send[c]
    BY <1>2, <1>7, <2>1, <2>3, <2>4, <2>5, OrderFrame DEF OrderInv
  <2>6. CASE send'[c] # send[c]
    <3>1. send'[c] = Append(send[c], f)
      BY <1>7, <2>6 DEF TrySend, TypeOK
    <3>2. /\ Notes(send'[c]) = Notes(send[c]) \cup (IF IsNew(f) THEN {f} ELSE {})
          /\ InOrder(send[c]) /\ (IsNew(f) => Before(Notes(send[c]), {f})) => InOrder(send'[c])
      BY <1>1, <3>1, NotesOfAppend
    <3>3. IsNew(f) => f.seq = current.seq /\ \A g \in NotesOf(c) : g.seq < f.seq
      BY <1>2, <1>7 DEF Ordered
    <3>4. InOrder(send'[c])
      BY <1>2, <3>2, <3>3 DEF Ordered, NotesOf, Before
    <3>5. NotesOf(c)' = NotesOf(c) \cup (IF IsNew(f) THEN {f} ELSE {})
      BY <1>7, <2>3, <3>2 DEF NotesOf
    <3>6. /\ Before(Notes(received[c]), Held(c) \cup Notes(send[c]))'
          /\ Before(Held(c), Notes(send[c]))'
      BY <1>2, <1>7, <2>3, <3>2, <3>3 DEF Ordered, NotesOf, Before
    <3>7. \A g \in NotesOf(c)' : /\ g.seq <= current'.seq
                                 /\ c \in pending' => g.seq < current'.seq
      <4>1. \A g \in NotesOf(c) : g.seq <= current.seq /\ (c \in pending => g.seq < current.seq)
        BY <1>2 DEF Ordered
      <4>2. IsNew(f) => f.seq <= current.seq /\ c \notin pending'
        BY <1>1, <1>7
      <4> QED BY <1>7, <3>5, <4>1, <4>2
    <3>8. Ordered(c)'
      BY <1>2, <1>7, <3>4, <3>6, <3>7 DEF Ordered
    <3> QED BY <2>1, <2>4, <3>8 DEF OrderInv
  <2> QED BY <2>5, <2>6
<1>8. ASSUME NEW c \in Client, HubDeliver(c) PROVE OrderInv'
  BY <1>1, <1>7, <1>8 DEF HubDeliver
<1>9. ASSUME NEW c \in Client, ReadInvalid(c) PROVE OrderInv'
  <2>1. ~IsNew(ErrorFrame)
    BY DEF IsNew, ErrorFrame
  <2> QED BY <1>7, <1>9, <2>1, ErrorFrameType DEF ReadInvalid, hubVars
<1>10. ASSUME NEW c \in Client, WriterTake(c) PROVE OrderInv'
  <2>1. /\ writer[c] = "select" /\ send[c] # <<>> /\ writing'[c] = Head(send[c])
        /\ send'[c] = Tail(send[c]) /\ writer'[c] = "writing"
        /\ UNCHANGED <<received, current, pending, broadcast, nextSeq>>
        /\ \A d \in Client \ {c} : UNCHANGED <<send[d], writer[d], writing[d]>>
    BY <1>10 DEF WriterTake, TypeOK, hubVars
  <2>2. \A d \in Client \ {c} : Ordered(d)'
    BY <1>2, <2>1, OrderFrame DEF Held
  <2>3. /\ Notes(send[c]) = Notes(send'[c]) \cup (IF IsNew(writing'[c]) THEN {writing'[c]} ELSE {})
        /\ InOrder(send[c]) => /\ InOrder(send'[c])
                               /\ IsNew(writing'[c]) => Before({writing'[c]}, Notes(send'[c]))
    BY <1>1, <2>1, NotesOfTail
  <2>4. Held(c)' = (IF IsNew(writing'[c]) THEN {writing'[c]} ELSE {}) /\ Held(c) = {}
    BY <2>1 DEF Held
  <2>5. InOrder(received[c])' /\ InOrder(send[c])'
    BY <1>2, <2>1, <2>3 DEF Ordered
  <2>6. /\ Before(Notes(received[c]), Held(c) \cup Notes(send[c]))'
        /\ Before(Held(c), Notes(send[c]))'
    BY <1>2, <2>1, <2>3, <2>4 DEF Ordered, Before
  <2>7. NotesOf(c)' = NotesOf(c)
    BY <2>1, <2>3, <2>4 DEF NotesOf
  <2>8. Ordered(c)'
    BY <1>2, <2>1, <2>5, <2>6, <2>7 DEF Ordered
  <2>9. Numbered'
    BY <1>2, <2>1 DEF Numbered
  <2> QED BY <2>2, <2>8, <2>9 DEF OrderInv
<1>11. ASSUME NEW c \in Client, WriterWrite(c) PROVE OrderInv'
  <2>1. /\ writer[c] = "writing" /\ writer'[c] = "select"
        /\ received'[c] = IF IsNew(writing[c]) THEN Append(received[c], writing[c]) ELSE received[c]
        /\ UNCHANGED <<send, current, pending, broadcast, nextSeq>>
        /\ \A d \in Client \ {c} : UNCHANGED <<received[d], writer[d], writing[d]>>
    BY <1>11 DEF WriterWrite, TypeOK, hubVars, IsNew
  <2>2. \A d \in Client \ {c} : Ordered(d)'
    BY <1>2, <2>1, OrderFrame DEF Held
  <2>3. Held(c) = (IF IsNew(writing[c]) THEN {writing[c]} ELSE {}) /\ Held(c)' = {}
    BY <2>1 DEF Held
  <2>4. /\ Notes(received'[c]) = Notes(received[c]) \cup Held(c)
        /\ InOrder(received'[c])
    <3>1. CASE IsNew(writing[c])
      <4>1. Before(Notes(received[c]), {writing[c]}) /\ InOrder(received[c])
        BY <1>2, <2>3, <3>1 DEF Ordered, Before
      <4> QED BY <1>1, <2>1, <2>3, <3>1, <4>1, NotesOfAppend
    <3>2. CASE ~IsNew(writing[c])
      BY <1>2, <2>1, <2>3, <3>2 DEF Ordered
    <3> QED BY <3>1, <3>2
  <2>5. InOrder(send[c])'
    BY <1>2, <2>1 DEF Ordered
  <2>6. /\ Before(Notes(received[c]), Held(c) \cup Notes(send[c]))'
        /\ Before(Held(c), Notes(send[c]))'
    BY <1>2, <2>1, <2>3, <2>4 DEF Ordered, Before
  <2>7. NotesOf(c)' = NotesOf(c)
    BY <2>1, <2>3, <2>4 DEF NotesOf
  <2>8. Ordered(c)'
    BY <1>2, <2>1, <2>4, <2>5, <2>6, <2>7 DEF Ordered
  <2>9. Numbered'
    BY <1>2, <2>1 DEF Numbered
  <2> QED BY <2>2, <2>8, <2>9 DEF OrderInv
<1>12. ASSUME NEW c \in Client, WriterSeesClose(c) \/ WriterFails(c) \/ HubRegister(c)
       PROVE  OrderInv'
  <2>1. \A d \in Client : Held(d)' \subseteq Held(d)
    BY <1>12 DEF WriterSeesClose, WriterFails, HubRegister, WriterExit, Held, TypeOK
  <2> QED BY <1>4, <1>12, <2>1
          DEF WriterSeesClose, WriterFails, HubRegister, WriterExit, hubVars
<1>13. ASSUME NEW c \in Client,
              \/ HubUnregister(c) \/ HubSubscribe(c) \/ HubUnsubscribe(c) \/ Connect(c)
              \/ ConnLost(c) \/ ReadError(c) \/ ReaderExit(c)
              \/ \E m \in Mailbox, type \in {"subscribe", "unsubscribe"} : ReadRequest(c, type, m)
       PROVE  OrderInv'
  BY <1>3, <1>13 DEF HubUnregister, HubSubscribe, HubUnsubscribe, Connect, ConnLost, ReadError,
                     ReaderExit, ReadRequest, hubVars
<1>14. ASSUME NEW p \in Publisher, NEW m \in Mailbox, Publish(p, m) PROVE OrderInv'
  BY <1>3, <1>14 DEF Publish, hubVars
<1>15. CASE UNCHANGED vars
  BY <1>3, <1>15 DEF vars
<1> QED
  BY <1>5, <1>6, <1>8, <1>9, <1>10, <1>11, <1>12, <1>13, <1>14, <1>15
     DEF Next, Run, ReadPump, WritePump

(* The order holds in every reachable state.                               *)
LEMMA OrderInvariant == Spec => []OrderInv
<1>1. Init => OrderInv
  <2> SUFFICES ASSUME Init PROVE OrderInv
    OBVIOUS
  <2>1. Len(<<>>) = 0 /\ Notes(<<>>) = {} /\ InOrder(<<>>)
    BY DEF Notes, InOrder
  <2>2. Numbered
    <3>1. broadcast = <<>> /\ current.seq = 0 /\ pending = {} /\ nextSeq = 1
      BY DEF Init, NewHub, ErrorFrame
    <3>2. Len(broadcast) = 0
      BY <2>1, <3>1
    <3>3. 1..0 = {}
      OBVIOUS
    <3>4. current.seq = nextSeq - Len(broadcast) - 1
      <4>1. 1 - 0 - 1 = 0
        OBVIOUS
      <4> QED BY <3>1, <3>2, <4>1, Zenon
    <3>5. \A i \in 1..Len(broadcast) : broadcast[i].seq = current.seq + i
      BY <3>2, <3>3
    <3> QED BY <3>1, <3>4, <3>5 DEF Numbered
  <2>3. \A c \in Client : received[c] = <<>> /\ send[c] = <<>> /\ Held(c) = {}
    BY DEF Init, Held
  <2>4. \A c \in Client : Ordered(c)
    BY <2>1, <2>3 DEF Ordered, NotesOf, Before
  <2> QED BY <2>2, <2>4 DEF OrderInv
<1> QED BY <1>1, TypeCorrect, ChannelInvariant, OrderStep, PTL DEF Spec

(* The parts of a pipeline in order, and each before the next: the whole   *)
(* is in order.                                                            *)
LEMMA ConcatInOrder ==
  ASSUME NEW p \in Seq(Frame), NEW q \in Seq(Frame), InOrder(p), InOrder(q),
         Before(Notes(p), Notes(q))
  PROVE  /\ InOrder(p \o q) /\ p \o q \in Seq(Frame)
         /\ Notes(p \o q) = Notes(p) \cup Notes(q)
<1>1. /\ Len(p) \in Nat /\ Len(q) \in Nat /\ Len(p \o q) = Len(p) + Len(q)
      /\ p \o q \in Seq(Frame)
      /\ \A i \in 1..(Len(p) + Len(q)) :
           (p \o q)[i] = IF i <= Len(p) THEN p[i] ELSE q[i - Len(p)]
  BY LenProperties, ConcatProperties
<1>2. \A i \in 1..(Len(p) + Len(q)) :
        i \in 1..Len(p) \/ (i > Len(p) /\ i - Len(p) \in 1..Len(q))
  BY <1>1
<1>3. Notes(p \o q) \subseteq Notes(p) \cup Notes(q)
  BY <1>1, <1>2 DEF Notes
<1>4. Notes(p) \subseteq Notes(p \o q)
  <2>1. \A i \in 1..Len(p) : i \in 1..(Len(p) + Len(q)) /\ (p \o q)[i] = p[i]
    BY <1>1
  <2> QED BY <1>1, <2>1 DEF Notes
<1>5. Notes(q) \subseteq Notes(p \o q)
  <2>1. \A i \in 1..Len(q) : /\ i + Len(p) \in 1..(Len(p) + Len(q)) /\ ~(i + Len(p) <= Len(p))
                             /\ (i + Len(p)) - Len(p) = i
    BY <1>1
  <2>2. \A i \in 1..Len(q) : (p \o q)[i + Len(p)] = q[i]
    BY <1>1, <2>1
  <2> QED BY <1>1, <2>1, <2>2 DEF Notes
<1>6. InOrder(p \o q)
  <2> SUFFICES ASSUME NEW i \in 1..(Len(p) + Len(q)), NEW j \in 1..(Len(p) + Len(q)), i < j,
                      IsNew((p \o q)[i]), IsNew((p \o q)[j])
               PROVE  (p \o q)[i].seq < (p \o q)[j].seq
    BY <1>1 DEF InOrder
  <2>1. CASE j <= Len(p)
    <3>1. i \in 1..Len(p) /\ j \in 1..Len(p) /\ (p \o q)[i] = p[i] /\ (p \o q)[j] = p[j]
      BY <1>1, <2>1
    <3> QED BY <3>1 DEF InOrder
  <2>2. CASE i > Len(p)
    <3>1. /\ i - Len(p) \in 1..Len(q) /\ j - Len(p) \in 1..Len(q) /\ i - Len(p) < j - Len(p)
          /\ (p \o q)[i] = q[i - Len(p)] /\ (p \o q)[j] = q[j - Len(p)]
      BY <1>1, <2>2
    <3> QED BY <3>1 DEF InOrder
  <2>3. CASE i <= Len(p) /\ j > Len(p)
    <3>1. /\ i \in 1..Len(p) /\ j - Len(p) \in 1..Len(q)
          /\ (p \o q)[i] = p[i] /\ (p \o q)[j] = q[j - Len(p)]
      BY <1>1, <2>3
    <3>2. p[i] \in Notes(p) /\ q[j - Len(p)] \in Notes(q)
      BY <3>1 DEF Notes
    <3> QED BY <3>1, <3>2 DEF Before
  <2> QED BY <1>1, <2>1, <2>2, <2>3
<1> QED BY <1>1, <1>3, <1>4, <1>5, <1>6

(* Notifications reach a client in the order of the broadcast channel,     *)
(* none of them twice (hub.go:144-154, client.go:82-98), for any number of *)
(* clients and any capacity of the channels.                               *)
THEOREM NotificationOrderTheorem == Spec => []NotificationOrder
<1>1. TypeOK /\ OrderInv => NotificationOrder
  <2> SUFFICES ASSUME TypeOK, OrderInv, NEW c \in Client PROVE InOrder(Pipeline(c))
    BY DEF NotificationOrder, InOrder, IsNew
  <2> DEFINE w == IF writer[c] = "writing" THEN <<writing[c]>> ELSE <<>>
  <2>1. received[c] \in Seq(Frame) /\ send[c] \in Seq(Frame) /\ w \in Seq(Frame)
    BY DEF TypeOK
  <2>2. Notes(w) = Held(c) /\ InOrder(w)
    BY DEF Notes, Held, InOrder
  <2>3. Ordered(c)
    BY DEF OrderInv
  <2>4. Pipeline(c) = (received[c] \o w) \o send[c]
    BY DEF Pipeline
  <2> HIDE DEF w
  <2>5. /\ InOrder(received[c] \o w) /\ received[c] \o w \in Seq(Frame)
        /\ Notes(received[c] \o w) = Notes(received[c]) \cup Held(c)
    <3>1. Before(Notes(received[c]), Notes(w)) /\ InOrder(received[c])
      BY <2>2, <2>3 DEF Ordered, Before
    <3> QED BY <2>1, <2>2, <3>1, ConcatInOrder
  <2>6. Before(Notes(received[c] \o w), Notes(send[c])) /\ InOrder(send[c])
    BY <2>3, <2>5 DEF Ordered, Before
  <2>7. InOrder((received[c] \o w) \o send[c])
    BY <2>1, <2>5, <2>6, ConcatInOrder
  <2> QED BY <2>4, <2>7
<1> QED BY <1>1, TypeCorrect, OrderInvariant, PTL

=============================================================================
