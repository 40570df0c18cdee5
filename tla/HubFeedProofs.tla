--------------------------- MODULE HubFeedProofs ----------------------------
(***************************************************************************)
(* The hub, the pumps and their channels implement the notification feed,  *)
(* for every set of clients, mailboxes and publishers and every channel    *)
(* capacity.                                                               *)
(***************************************************************************)
EXTENDS HubFeed, WebSocketHubProofs

(* The refinement needs to know what is where: the broadcast channel holds *)
(* what is published and not yet fanned out, and whatever is on its way to *)
(* a client is one it is entitled to.                                      *)
HistoryType == published \in Seq(Mailbox) /\ entitled \in Seq(SUBSET Client)
FannedOut == Len(entitled) = current.seq /\ Len(published) = nextSeq - 1
ChannelIsRest ==
  \A i \in 1..Len(broadcast) : published[current.seq + i] = broadcast[i].mailbox
PendingEntitled ==
  \A c \in pending : current.seq \in 1..Len(entitled) /\ c \in entitled[current.seq]
NotesEntitled ==
  \A c \in Client : \A f \in NotesOf(c) : f.seq \in 1..Len(entitled) /\ c \in entitled[f.seq]
ReceivedAreNew ==
  \A c \in Client : \A i \in 1..Len(received[c]) : IsNew(received[c][i])

FeedInv ==
  /\ HistoryType /\ FannedOut /\ ChannelIsRest
  /\ PendingEntitled /\ NotesEntitled /\ ReceivedAreNew

HubInv == TypeOK /\ ChannelInv /\ OrderInv

-----------------------------------------------------------------------------
(* A non-blocking send adds at most its frame (hub.go:148-152).            *)
LEMMA TrySendNotes ==
  ASSUME TypeOK, NEW c \in Client, NEW f \in Frame, TrySend(c, f),
         UNCHANGED <<received, writer, writing>>
  PROVE  \A d \in Client :
           NotesOf(d)' \subseteq NotesOf(d) \cup (IF d = c /\ IsNew(f) THEN {f} ELSE {})
<1>1. \A d \in Client : Held(d)' = Held(d)
  BY DEF Held
<1>2. \A d \in Client : send'[d] = send[d] \/ (d = c /\ send'[d] = Append(send[d], f))
  BY DEF TrySend, TypeOK
<1>3. Notes(Append(send[c], f)) = Notes(send[c]) \cup (IF IsNew(f) THEN {f} ELSE {})
  BY NotesOfAppend DEF TypeOK
<1> QED BY <1>1, <1>2, <1>3 DEF NotesOf

(* What is on its way to a client, or there: a step adds at most the       *)
(* notification that is being fanned out, when the client is served.       *)
LEMMA NotesStep ==
  ASSUME HubInv, [Next]_vars, NEW c \in Client
  PROVE  NotesOf(c)' \subseteq NotesOf(c) \cup (IF c \in pending THEN {current} ELSE {})
<1>1. /\ current \in Frame
      /\ \A d \in Client : /\ received[d] \in Seq(Frame) /\ send[d] \in Seq(Frame)
                           /\ writing[d] \in Frame
  BY DEF HubInv, TypeOK
<1>2. CASE UNCHANGED <<received, send>> /\ Held(c)' \subseteq Held(c)
  BY <1>2 DEF NotesOf
<1>3. ASSUME NEW d \in Client, HubDeliver(d) PROVE NotesOf(c)' \subseteq NotesOf(c) \cup (IF c \in pending THEN {current} ELSE {})
  <2>1. TrySend(d, current) /\ d \in pending /\ UNCHANGED <<received, writer, writing>>
    BY <1>3 DEF HubDeliver
  <2> QED BY <1>1, <2>1, TrySendNotes DEF HubInv
<1>4. ASSUME NEW d \in Client, ReadInvalid(d) PROVE NotesOf(c)' \subseteq NotesOf(c)
  <2>1. TrySend(d, ErrorFrame) /\ UNCHANGED <<received, writer, writing>> /\ ~IsNew(ErrorFrame)
    BY <1>4 DEF ReadInvalid, IsNew, ErrorFrame
  <2> QED BY <2>1, ErrorFrameType, TrySendNotes DEF HubInv
<1>5. ASSUME NEW d \in Client, WriterTake(d) PROVE NotesOf(c)' \subseteq NotesOf(c)
  <2>1. /\ writer[d] = "select" /\ send[d] # <<>> /\ writing'[d] = Head(send[d])
        /\ send'[d] = Tail(send[d]) /\ UNCHANGED received
        /\ d # c => UNCHANGED <<send[c], writer[c], writing[c]>>
    BY <1>5 DEF WriterTake, HubInv, TypeOK
  <2>2. Notes(send[d]) = Notes(send'[d]) \cup (IF IsNew(writing'[d]) THEN {writing'[d]} ELSE {})
    BY <1>1, <2>1, NotesOfTail
  <2>3. CASE d = c
    BY <2>1, <2>2, <2>3 DEF NotesOf, Held
  <2>4. CASE d # c
    BY <2>1, <2>4 DEF NotesOf, Held
  <2> QED BY <2>3, <2>4
<1>6. ASSUME NEW d \in Client, WriterWrite(d) PROVE NotesOf(c)' \subseteq NotesOf(c)
  <2>1. /\ writer[d] = "writing" /\ writer'[d] = "select"
        /\ received'[d] = IF IsNew(writing[d]) THEN Append(received[d], writing[d]) ELSE received[d]
        /\ UNCHANGED send
        /\ d # c => UNCHANGED <<received[c], writer[c], writing[c]>>
    BY <1>6 DEF WriterWrite, HubInv, TypeOK, IsNew
  <2>2. Notes(received'[d]) = Notes(received[d]) \cup Held(d)
    BY <1>1, <2>1, NotesOfAppend DEF Held
  <2>3. CASE d = c
    BY <2>1, <2>2, <2>3 DEF NotesOf, Held
  <2>4. CASE d # c
    BY <2>1, <2>4 DEF NotesOf, Held
  <2> QED BY <2>3, <2>4
<1>7. ASSUME \/ HubBroadcast
             \/ \E p \in Publisher : Enqueue(p) \/ \E m \in Mailbox : Publish(p, m)
             \/ \E d \in Client :
                  \/ HubUnregister(d) \/ HubSubscribe(d) \/ HubUnsubscribe(d) \/ Connect(d)
                  \/ ConnLost(d) \/ ReadError(d) \/ ReaderExit(d)
                  \/ \E m \in Mailbox, type \in {"subscribe", "unsubscribe"} : ReadRequest(d, type, m)
             \/ UNCHANGED vars
      PROVE  UNCHANGED <<received, send, writer, writing>>
  BY <1>7 DEF HubBroadcast, Enqueue, Publish, HubUnregister, HubSubscribe, HubUnsubscribe,
     Connect, ConnLost, ReadError, ReaderExit, ReadRequest, vars
<1>8. ASSUME NEW d \in Client, WriterSeesClose(d) \/ WriterFails(d) \/ HubRegister(d)
      PROVE  UNCHANGED <<received, send>> /\ Held(c)' \subseteq Held(c)
  BY <1>8 DEF WriterSeesClose, WriterFails, HubRegister, WriterExit, Held, HubInv, TypeOK
<1>9. CASE UNCHANGED <<received, send, writer, writing>>
  BY <1>2, <1>9 DEF Held
<1> QED
  BY <1>2, <1>3, <1>4, <1>5, <1>6, <1>7, <1>8, <1>9 DEF Next, Run, ReadPump, WritePump

(* The steps other than Enqueue and HubBroadcast: nothing is published and *)
(* no frame is taken.                                                      *)
Elsewhere ==
  \/ \E p \in Publisher, m \in Mailbox : Publish(p, m)
  \/ \E c \in Client :
       \/ HubRegister(c) \/ HubUnregister(c) \/ HubSubscribe(c) \/ HubUnsubscribe(c)
       \/ HubDeliver(c) \/ Connect(c) \/ ConnLost(c) \/ ReadPump(c) \/ WritePump(c)

(* Elsewhere the numbers, the channel and the history stay as they are.    *)
LEMMA ElsewhereFrame ==
  ASSUME Elsewhere, Record
  PROVE  UNCHANGED <<nextSeq, current, broadcast, published, entitled>> /\ pending' \subseteq pending
<1>1. UNCHANGED <<nextSeq, current, broadcast>> /\ pending' \subseteq pending
  BY DEF Elsewhere, Publish, HubRegister, HubUnregister, HubSubscribe, HubUnsubscribe,
     HubDeliver, Connect, ConnLost, ReadPump, ReadRequest, ReadInvalid, ReadError, ReaderExit,
     WritePump, WriterTake, WriterSeesClose, WriterWrite, WriterFails, hubVars
<1> QED BY <1>1 DEF Record

(* What Record writes down when a publisher's notification enters the      *)
(* channel (hub.go:195).                                                   *)
LEMMA EnqueueRecord ==
  ASSUME HubInv, FeedInv, NEW p \in Publisher, Enqueue(p), Record
  PROVE  /\ publishing[p] \in Mailbox
         /\ published' = Append(published, publishing[p]) /\ UNCHANGED entitled
<1>1. /\ nextSeq \in Nat /\ nextSeq' = nextSeq + 1 /\ UNCHANGED current
      /\ publishing[p] \in Mailbox
      /\ broadcast' = Append(broadcast, Notification(publishing[p], nextSeq))
      /\ broadcast \in Seq(NewMessage)
  BY DEF Enqueue, hubVars, HubInv, TypeOK
<1>2. Notification(publishing[p], nextSeq) \in NewMessage
  BY <1>1 DEF Notification, NewMessage
<1>3. Notification(publishing[p], nextSeq).mailbox = publishing[p]
  BY DEF Notification
<1>4. Len(broadcast') = Len(broadcast) + 1 /\ Len(broadcast) \in Nat
  BY <1>1, <1>2, LenProperties
<1>5. broadcast'[Len(broadcast')].mailbox = publishing[p]
  BY <1>1, <1>2, <1>3, <1>4
<1>6. nextSeq' # nextSeq
  BY <1>1
<1> QED BY <1>1, <1>5, <1>6 DEF Record

(* What Record writes down when the hub takes the next frame (hub.go:144): *)
(* it is the next one published.                                           *)
LEMMA BroadcastRecord ==
  ASSUME HubInv, FeedInv, HubBroadcast, Record
  PROVE  /\ current'.seq = current.seq + 1 /\ UNCHANGED published
         /\ Len(entitled) < Len(published)
         /\ published[Len(entitled) + 1] = Head(broadcast).mailbox
         /\ Head(broadcast).mailbox \in Mailbox
         /\ entitled' = Append(entitled, subscriptions[Head(broadcast).mailbox])
<1>1. /\ broadcast # <<>> /\ current' = Head(broadcast) /\ UNCHANGED nextSeq
      /\ broadcast \in Seq(NewMessage) /\ current.seq \in Nat /\ nextSeq \in Nat
  BY DEF HubBroadcast, HubInv, TypeOK, Frame, NewMessage, ErrorFrame
<1>2. /\ Len(broadcast) \in Nat /\ Len(broadcast) > 0 /\ Head(broadcast) = broadcast[1]
      /\ Head(broadcast) \in NewMessage
  BY <1>1, HeadTailProperties, LenProperties, EmptySeq
<1>3. 1 \in 1..Len(broadcast)
  BY <1>2
<1>4. broadcast[1].seq = current.seq + 1 /\ published[current.seq + 1] = broadcast[1].mailbox
  BY <1>3 DEF HubInv, OrderInv, Numbered, FeedInv, ChannelIsRest
<1>5. current.seq = nextSeq - Len(broadcast) - 1
  BY DEF HubInv, OrderInv, Numbered
<1>6. Len(entitled) = current.seq /\ Len(published) = nextSeq - 1
  BY DEF FeedInv, FannedOut
<1>7. Len(entitled) < Len(published)
  BY <1>1, <1>2, <1>5, <1>6
<1>8. current' # current
  BY <1>1, <1>2, <1>4
<1>9. Head(broadcast).mailbox \in Mailbox
  BY <1>2 DEF NewMessage
<1> QED BY <1>1, <1>2, <1>4, <1>6, <1>7, <1>8, <1>9 DEF Record

(* Every step keeps it.                                                    *)
LEMMA FeedInvStep ==
  ASSUME HubInv, FeedInv, HubFeedNext
  PROVE  FeedInv'
<1>1. /\ Next /\ Record /\ current.seq \in Nat /\ nextSeq \in Nat
      /\ broadcast \in Seq(NewMessage) /\ Len(broadcast) \in Nat
      /\ published \in Seq(Mailbox) /\ entitled \in Seq(SUBSET Client)
      /\ Len(published) \in Nat /\ Len(entitled) \in Nat
  BY LenProperties DEF HubFeedNext, HubInv, TypeOK, Frame, NewMessage, ErrorFrame, FeedInv,
                       HistoryType
<1>2. /\ Len(entitled) = current.seq /\ Len(published) = nextSeq - 1
      /\ current.seq = nextSeq - Len(broadcast) - 1
  BY DEF FeedInv, FannedOut, HubInv, OrderInv, Numbered
<1>3. \A c \in Client : NotesOf(c)' \subseteq NotesOf(c) \cup (IF c \in pending THEN {current} ELSE {})
  BY <1>1, NotesStep
<1>4. \A c \in Client : \A f \in NotesOf(c)' : f.seq \in 1..Len(entitled) /\ c \in entitled[f.seq]
  BY <1>3 DEF FeedInv, NotesEntitled, PendingEntitled
<1>5. ReceivedAreNew'
  <2>1. ASSUME NEW c \in Client, WriterWrite(c) PROVE ReceivedAreNew'
    <3>1. /\ received \in [Client -> Seq(Frame)] /\ writing[c] \in Frame
          /\ received' = IF IsNew(writing[c])
                         THEN [received EXCEPT ![c] = Append(received[c], writing[c])]
                         ELSE received
      BY <2>1 DEF WriterWrite, IsNew, HubInv, TypeOK
    <3>2. /\ Len(received[c]) \in Nat
          /\ Len(Append(received[c], writing[c])) = Len(received[c]) + 1
          /\ \A i \in 1..Len(received[c]) : Append(received[c], writing[c])[i] = received[c][i]
          /\ Append(received[c], writing[c])[Len(received[c]) + 1] = writing[c]
      BY <3>1, LenProperties
    <3>3. \A i \in 1..(Len(received[c]) + 1) : i \in 1..Len(received[c]) \/ i = Len(received[c]) + 1
      BY <3>2
    <3>4. IsNew(writing[c]) =>
            \A i \in 1..Len(received'[c]) : IsNew(received'[c][i])
      BY <3>1, <3>2, <3>3 DEF FeedInv, ReceivedAreNew
    <3> QED BY <3>1, <3>4 DEF FeedInv, ReceivedAreNew
  <2>2. CASE UNCHANGED received
    BY <2>2 DEF FeedInv, ReceivedAreNew
  <2>3. UNCHANGED received \/ \E c \in Client : WriterWrite(c)
    BY <1>1 DEF Next, Run, ReadPump, WritePump, Publish, Enqueue, HubRegister, HubUnregister,
       HubSubscribe, HubUnsubscribe, HubDeliver, HubBroadcast, Connect, ConnLost, ReadRequest,
       ReadInvalid, ReadError, ReaderExit, WriterTake, WriterSeesClose, WriterFails
  <2> QED BY <2>1, <2>2, <2>3
<1>6. ASSUME NEW p \in Publisher, Enqueue(p) PROVE FeedInv'
  <2> DEFINE f == Notification(publishing[p], nextSeq)
  <2>1. /\ publishing[p] \in Mailbox /\ published' = Append(published, publishing[p])
        /\ UNCHANGED entitled
    BY <1>1, <1>6, EnqueueRecord
  <2>2. /\ broadcast' = Append(broadcast, f) /\ nextSeq' = nextSeq + 1
        /\ UNCHANGED <<current, pending>>
    BY <1>6 DEF Enqueue, hubVars
  <2>3. f \in NewMessage /\ f.mailbox = publishing[p]
    BY <1>1, <2>1 DEF Notification, NewMessage
  <2> HIDE DEF f
  <2>4. /\ Len(broadcast') = Len(broadcast) + 1 /\ Len(published') = Len(published) + 1
        /\ published' \in Seq(Mailbox)
    BY <1>1, <2>1, <2>2, <2>3
  <2>5. FannedOut' /\ HistoryType'
    BY <1>1, <1>2, <2>1, <2>2, <2>4 DEF FannedOut, HistoryType
  <2>6. ChannelIsRest'
    <3> SUFFICES ASSUME NEW i \in 1..(Len(broadcast) + 1)
                 PROVE  published'[current.seq + i] = broadcast'[i].mailbox
      BY <2>2, <2>4 DEF ChannelIsRest
    <3>1. CASE i \in 1..Len(broadcast)
      <4>1. broadcast'[i] = broadcast[i]
        BY <1>1, <2>2, <2>3, <3>1
      <4>2. current.seq + i \in 1..Len(published)
        BY <1>1, <1>2, <3>1
      <4>3. published'[current.seq + i] = published[current.seq + i]
        BY <1>1, <2>1, <4>2
      <4>4. published[current.seq + i] = broadcast[i].mailbox
        BY <3>1 DEF FeedInv, ChannelIsRest
      <4> QED BY <4>1, <4>3, <4>4
    <3>2. CASE i = Len(broadcast) + 1
      <4>1. broadcast'[i] = f
        BY <1>1, <2>2, <2>3, <3>2
      <4>2. current.seq + i = Len(published) + 1
        BY <1>1, <1>2, <3>2
      <4>3. published'[Len(published) + 1] = publishing[p]
        BY <1>1, <2>1
      <4> QED BY <2>3, <4>1, <4>2, <4>3
    <3> QED BY <1>1, <3>1, <3>2
  <2>7. PendingEntitled' /\ NotesEntitled'
    BY <1>4, <2>1, <2>2 DEF FeedInv, PendingEntitled, NotesEntitled
  <2> QED BY <1>5, <2>5, <2>6, <2>7 DEF FeedInv
<1>7. CASE HubBroadcast
  <2> DEFINE m == Head(broadcast).mailbox
  <2>1. /\ current'.seq = current.seq + 1 /\ UNCHANGED published
        /\ entitled' = Append(entitled, subscriptions[m]) /\ m \in Mailbox
    BY <1>1, <1>7, BroadcastRecord
  <2>2. /\ broadcast # <<>> /\ broadcast' = Tail(broadcast) /\ UNCHANGED nextSeq
        /\ pending' = subscriptions[m]
    BY <1>7 DEF HubBroadcast
  <2>3. subscriptions[m] \in SUBSET Client
    BY <2>1 DEF HubInv, TypeOK
  <2> HIDE DEF m
  <2>4. /\ entitled' \in Seq(SUBSET Client) /\ Len(entitled') = Len(entitled) + 1
        /\ \A i \in 1..Len(entitled) : entitled'[i] = entitled[i]
        /\ entitled'[Len(entitled) + 1] = subscriptions[m]
    BY <1>1, <2>1, <2>3
  <2>5. /\ Len(broadcast) > 0 /\ Len(broadcast') = Len(broadcast) - 1
        /\ \A i \in 1..(Len(broadcast) - 1) : broadcast'[i] = broadcast[i + 1]
    BY <1>1, <2>2, HeadTailProperties, EmptySeq
  <2>6. FannedOut' /\ HistoryType'
    BY <1>1, <1>2, <2>1, <2>2, <2>4 DEF FannedOut, HistoryType
  <2>7. ChannelIsRest'
    <3> SUFFICES ASSUME NEW i \in 1..(Len(broadcast) - 1)
                 PROVE  published[current'.seq + i] = broadcast'[i].mailbox
      BY <2>1, <2>5 DEF ChannelIsRest
    <3>1. i + 1 \in 1..Len(broadcast)
      BY <1>1
    <3>2. current'.seq + i = current.seq + (i + 1)
      <4>1. (current.seq + 1) + i = current.seq + (i + 1)
        BY <1>1
      <4> QED BY <2>1, <4>1
    <3>3. published[current.seq + (i + 1)] = broadcast[i + 1].mailbox
      BY <3>1 DEF FeedInv, ChannelIsRest
    <3> QED BY <2>5, <3>2, <3>3
  <2>8. PendingEntitled'
    <3>1. current'.seq = Len(entitled) + 1 /\ current'.seq \in 1..Len(entitled')
      BY <1>1, <1>2, <2>1, <2>4
    <3> QED BY <2>2, <2>4, <3>1 DEF PendingEntitled
  <2>9. NotesEntitled'
    <3>1. 1..Len(entitled) \subseteq 1..Len(entitled')
      BY <1>1, <2>4
    <3> QED BY <1>4, <2>4, <3>1 DEF NotesEntitled
  <2> QED BY <1>5, <2>6, <2>7, <2>8, <2>9 DEF FeedInv
<1>8. CASE Elsewhere
  <2>1. UNCHANGED <<nextSeq, current, broadcast, published, entitled>> /\ pending' \subseteq pending
    BY <1>1, <1>8, ElsewhereFrame
  <2>2. HistoryType' /\ FannedOut' /\ ChannelIsRest'
    BY <2>1 DEF FeedInv, HistoryType, FannedOut, ChannelIsRest
  <2>3. PendingEntitled' /\ NotesEntitled'
    BY <1>4, <2>1 DEF FeedInv, PendingEntitled, NotesEntitled
  <2> QED BY <1>5, <2>2, <2>3 DEF FeedInv
<1> QED BY <1>1, <1>6, <1>7, <1>8 DEF Next, Run, Elsewhere

-----------------------------------------------------------------------------
(* The numbers in a sequence of frames.                                    *)
Numbers(q) == [i \in 1..Len(q) |-> q[i].seq]

(* One more frame is one more number.                                      *)
LEMMA NumbersOfAppend ==
  ASSUME NEW q \in Seq(Frame), NEW f \in Frame
  PROVE  /\ Numbers(q) \in Seq(Nat) /\ Len(Numbers(q)) = Len(q)
         /\ Numbers(Append(q, f)) = Append(Numbers(q), f.seq)
<1>1. Len(q) \in Nat /\ \A i \in 1..Len(q) : q[i] \in Frame
  BY LenProperties, ElementOfSeq
<1>2. \A g \in Frame : g.seq \in Nat
  BY DEF Frame, NewMessage, ErrorFrame
<1>3. Numbers(q) \in [1..Len(q) -> Nat]
  BY <1>1, <1>2 DEF Numbers
<1>4. Numbers(q) \in Seq(Nat) /\ Len(Numbers(q)) = Len(q)
  BY <1>1, <1>3
<1>5. Numbers(Append(q, f)) = Append(Numbers(q), f.seq)
  <2>1. Append(q, f) \in Seq(Frame) /\ Len(Append(q, f)) = Len(q) + 1
    BY <1>1
  <2>2. f.seq \in Nat /\ Append(Numbers(q), f.seq) \in Seq(Nat)
        /\ Len(Append(Numbers(q), f.seq)) = Len(q) + 1
    BY <1>2, <1>4
  <2>3. \A i \in 1..(Len(q) + 1) : Append(q, f)[i].seq = Append(Numbers(q), f.seq)[i]
    <3> SUFFICES ASSUME NEW i \in 1..(Len(q) + 1)
                 PROVE  Append(q, f)[i].seq = Append(Numbers(q), f.seq)[i]
      OBVIOUS
    <3>1. CASE i \in 1..Len(q)
      <4>1. Append(q, f)[i] = q[i] /\ Append(Numbers(q), f.seq)[i] = Numbers(q)[i]
        BY <1>1, <1>4, <2>2, <3>1
      <4> QED BY <3>1, <4>1 DEF Numbers
    <3>2. CASE i = Len(q) + 1
      BY <1>1, <1>4, <2>2, <3>2
    <3>3. i \in 1..Len(q) \/ i = Len(q) + 1
      BY <1>1
    <3> QED BY <3>1, <3>2, <3>3
  <2>4. Append(Numbers(q), f.seq) = [i \in 1..(Len(q) + 1) |-> Append(Numbers(q), f.seq)[i]]
    BY <1>1, <2>2
  <2> QED BY <2>1, <2>3, <2>4 DEF Numbers
<1> QED BY <1>4, <1>5

(* A notification handed to the socket is one the client is entitled to,   *)
(* later than all before it (client.go:82-98).                             *)
LEMMA ReceiveStep ==
  ASSUME HubInv, FeedInv, Record, NEW c \in Client, WriterWrite(c), IsNew(writing[c])
  PROVE  \E n \in 1..Len(entitled) : Feed!Receive(c, n)
<1> DEFINE n == writing[c].seq
<1>1. /\ received \in [Client -> Seq(Frame)] /\ writing[c] \in Frame
      /\ received' = [received EXCEPT ![c] = Append(received[c], writing[c])]
      /\ UNCHANGED <<subscriptions, published, entitled>>
  <2>1. Elsewhere
    BY DEF Elsewhere, WritePump
  <2> QED BY <2>1, ElsewhereFrame DEF WriterWrite, IsNew, HubInv, TypeOK, hubVars
<1>2. writing[c] \in Held(c)
  BY DEF WriterWrite, Held
<1>3. n \in 1..Len(entitled) /\ c \in entitled[n]
  BY <1>2 DEF FeedInv, NotesEntitled, NotesOf
<1>4. received[c] \in Seq(Frame) /\ Len(received[c]) \in Nat
  BY <1>1, LenProperties
<1>5. \A i \in 1..Len(received[c]) : received[c][i].seq < n
  <2>1. \A i \in 1..Len(received[c]) : received[c][i] \in Notes(received[c])
    BY DEF FeedInv, ReceivedAreNew, Notes
  <2>2. Before(Notes(received[c]), Held(c) \cup Notes(send[c]))
    BY DEF HubInv, OrderInv, Ordered
  <2> QED BY <1>2, <2>1, <2>2 DEF Before
<1>6. /\ Received[c] = Numbers(received[c]) /\ Received[c] \in Seq(Nat)
      /\ Len(Received[c]) = Len(received[c])
      /\ Numbers(Append(received[c], writing[c])) = Append(Received[c], n)
  BY <1>1, <1>4, NumbersOfAppend DEF Received, Numbers
<1>7. n > Feed!LastReceived(c)
  <2>1. CASE Received[c] = <<>>
    BY <1>3, <2>1 DEF Feed!LastReceived
  <2>2. CASE Received[c] # <<>>
    <3>1. Len(received[c]) \in 1..Len(received[c])
      BY <1>4, <1>6, <2>2, EmptySeq
    <3>2. Received[c][Len(Received[c])] = received[c][Len(received[c])].seq
      BY <1>6, <3>1 DEF Numbers
    <3>3. received[c][Len(received[c])].seq \in Nat /\ n \in Nat
      BY <1>1, <1>4, <3>1, ElementOfSeq DEF Frame, NewMessage, ErrorFrame
    <3> QED BY <1>5, <2>2, <3>1, <3>2, <3>3 DEF Feed!LastReceived
  <2> QED BY <2>1, <2>2
<1>8. Received' = [Received EXCEPT ![c] = Append(Received[c], n)]
  <2>1. \A d \in Client : Received'[d] = Numbers(received'[d]) /\ Received[d] = Numbers(received[d])
    BY DEF Received, Numbers
  <2>2. /\ Received'[c] = Append(Received[c], n)
        /\ \A d \in Client \ {c} : Received'[d] = Received[d]
    BY <1>1, <1>6, <2>1
  <2>3. /\ Received' = [d \in Client |-> Received'[d]]
        /\ [Received EXCEPT ![c] = Append(Received[c], n)] =
             [d \in Client |-> IF d = c THEN Append(Received[c], n) ELSE Received[d]]
    BY DEF Received
  <2> QED BY <2>2, <2>3
<1>9. Feed!Receive(c, n)
  BY <1>1, <1>3, <1>7, <1>8 DEF Feed!Receive
<1> QED BY <1>3, <1>9

(* Every step is a step of the feed or none: a publication, a fan-out, a   *)
(* subscription, its end, the end of a client, or a notification received. *)
LEMMA FeedStep ==
  ASSUME HubInv, FeedInv, [HubFeedNext]_hubFeedVars
  PROVE  [Feed!FeedNext]_(Feed!feedVars)
<1> USE DEF Feed!FeedNext
<1>1. CASE UNCHANGED <<published, entitled, subscriptions, received>>
  BY <1>1 DEF Feed!feedVars, Received
<1>2. CASE UNCHANGED hubFeedVars
  BY <1>1, <1>2 DEF hubFeedVars, vars
<1>3. ASSUME Record, NEW p \in Publisher, Enqueue(p) PROVE Feed!FeedNext
  <2>1. /\ publishing[p] \in Mailbox
        /\ published' = Append(published, publishing[p]) /\ UNCHANGED entitled
    BY <1>3, EnqueueRecord
  <2>2. UNCHANGED subscriptions /\ UNCHANGED Received
    BY <1>3 DEF Enqueue, hubVars, Received
  <2>3. Feed!Publish(publishing[p])
    BY <2>1, <2>2 DEF Feed!Publish
  <2> QED BY <2>1, <2>3
<1>4. ASSUME Record, HubBroadcast PROVE Feed!FeedNext
  <2>1. /\ UNCHANGED published /\ Len(entitled) < Len(published)
        /\ published[Len(entitled) + 1] = Head(broadcast).mailbox
        /\ entitled' = Append(entitled, subscriptions[Head(broadcast).mailbox])
    BY <1>4, BroadcastRecord
  <2>2. UNCHANGED subscriptions /\ UNCHANGED Received
    BY <1>4 DEF HubBroadcast, Received
  <2>3. Feed!FanOut
    BY <2>1, <2>2 DEF Feed!FanOut
  <2> QED BY <2>3
<1>5. ASSUME Record, NEW c \in Client, HubSubscribe(c) \/ HubUnsubscribe(c) PROVE Feed!FeedNext
  <2>1. UNCHANGED published /\ UNCHANGED entitled
    BY <1>5, ElsewhereFrame DEF Elsewhere
  <2>2. UNCHANGED Received /\ request[c] \in Mailbox
    BY <1>5 DEF HubSubscribe, HubUnsubscribe, Received, HubInv, TypeOK
  <2>3. Feed!Subscribe(c, request[c]) \/ Feed!Unsubscribe(c, request[c])
    BY <1>5, <2>1, <2>2 DEF HubSubscribe, HubUnsubscribe, Feed!Subscribe, Feed!Unsubscribe
  <2> QED BY <2>2, <2>3
<1>6. ASSUME Record, NEW c \in Client, HubUnregister(c) PROVE [Feed!FeedNext]_(Feed!feedVars)
  <2>1. UNCHANGED published /\ UNCHANGED entitled
    BY <1>6, ElsewhereFrame DEF Elsewhere
  <2>2. UNCHANGED received /\ UNCHANGED Received
    BY <1>6 DEF HubUnregister, Received
  <2>3. CASE c \in clients
    <3>1. Feed!Leave(c)
      BY <1>6, <2>1, <2>2, <2>3 DEF HubUnregister, Feed!Leave
    <3> QED BY <3>1
  <2>4. CASE c \notin clients
    BY <1>1, <1>6, <2>1, <2>2, <2>4 DEF HubUnregister
  <2> QED BY <2>3, <2>4
<1>7. ASSUME Record, NEW c \in Client, WriterWrite(c) PROVE [Feed!FeedNext]_(Feed!feedVars)
  <2>1. CASE IsNew(writing[c])
    BY <1>7, <2>1, ReceiveStep
  <2>2. CASE ~IsNew(writing[c])
    <3>1. UNCHANGED published /\ UNCHANGED entitled
      BY <1>7, ElsewhereFrame DEF Elsewhere, WritePump
    <3> QED BY <1>1, <1>7, <2>2, <3>1 DEF WriterWrite, IsNew, hubVars
  <2> QED BY <2>1, <2>2
<1>8. ASSUME Record,
             \/ \E p \in Publisher, m \in Mailbox : Publish(p, m)
             \/ \E c \in Client :
                  \/ HubRegister(c) \/ HubDeliver(c) \/ Connect(c) \/ ConnLost(c) \/ ReadPump(c)
                  \/ WriterTake(c) \/ WriterSeesClose(c) \/ WriterFails(c)
      PROVE  [Feed!FeedNext]_(Feed!feedVars)
  <2>1. UNCHANGED published /\ UNCHANGED entitled
    BY <1>8, ElsewhereFrame DEF Elsewhere, WritePump
  <2>2. UNCHANGED <<subscriptions, received>>
    BY <1>8 DEF Publish, HubRegister, HubDeliver, Connect, ConnLost, ReadPump, ReadRequest,
       ReadInvalid, ReadError, ReaderExit, WriterTake, WriterSeesClose, WriterFails, hubVars
  <2> QED BY <1>1, <2>1, <2>2
<1> QED
  BY <1>2, <1>3, <1>4, <1>5, <1>6, <1>7, <1>8 DEF HubFeedNext, Next, Run, WritePump

(* The history only watches.                                               *)
LEMMA HubFeedIsHub == HubFeedSpec => Spec
<1>1. [HubFeedNext]_hubFeedVars => [Next]_vars
  BY DEF HubFeedNext, hubFeedVars
<1>2. HubFeedInit => Init
  BY DEF HubFeedInit
<1> QED BY <1>1, <1>2, PTL DEF HubFeedSpec, Spec

(* The hub implements the feed: a client gets only notifications of        *)
(* mailboxes it was subscribed to when the hub took them, in the order     *)
(* SMTP sessions announced them and none twice, however subscribes,        *)
(* unsubscribes, full buffers and dying connections interleave with the    *)
(* fan-out (hub.go:144-154, client.go:82-98).                              *)
THEOREM FeedRefinement == HubFeedSpec => ImplementsFeed
<1>1. HubFeedInit => FeedInv /\ Feed!FeedInit
  <2> SUFFICES ASSUME HubFeedInit PROVE FeedInv /\ Feed!FeedInit
    OBVIOUS
  <2>1. /\ published = <<>> /\ entitled = <<>> /\ broadcast = <<>> /\ pending = {}
        /\ nextSeq = 1 /\ current.seq = 0 /\ subscriptions = [m \in Mailbox |-> {}]
        /\ \A c \in Client : received[c] = <<>> /\ send[c] = <<>> /\ Held(c) = {}
    BY DEF HubFeedInit, Init, NewHub, ErrorFrame, Held
  <2>2. Len(<<>>) = 0 /\ Notes(<<>>) = {} /\ 1..0 = {}
    BY DEF Notes
  <2>3. HistoryType /\ PendingEntitled /\ NotesEntitled /\ ReceivedAreNew /\ ChannelIsRest
    BY <2>1, <2>2 DEF HistoryType, PendingEntitled, NotesEntitled, ReceivedAreNew, ChannelIsRest,
                      NotesOf
  <2>4. FannedOut
    BY <2>1, <2>2 DEF FannedOut
  <2>5. Received = [c \in Client |-> <<>>]
    <3>1. \A c \in Client : [i \in 1..Len(received[c]) |-> received[c][i].seq] = <<>>
      BY <2>1, <2>2
    <3> QED BY <3>1 DEF Received
  <2> QED BY <2>1, <2>3, <2>4, <2>5 DEF FeedInv, Feed!FeedInit
<1>2. HubInv /\ FeedInv /\ [HubFeedNext]_hubFeedVars => FeedInv'
  <2>1. FeedInv /\ UNCHANGED hubFeedVars => FeedInv'
    BY DEF hubFeedVars, vars, FeedInv, HistoryType, FannedOut, ChannelIsRest, PendingEntitled,
           NotesEntitled, ReceivedAreNew, NotesOf, Held
  <2> QED BY <2>1, FeedInvStep
<1>3. HubInv /\ FeedInv /\ [HubFeedNext]_hubFeedVars => [Feed!FeedNext]_(Feed!feedVars)
  BY FeedStep
<1>4. HubFeedSpec => []HubInv
  BY HubFeedIsHub, TypeCorrect, ChannelInvariant, OrderInvariant, PTL DEF HubInv
<1> QED
  BY <1>1, <1>2, <1>3, <1>4, PTL DEF HubFeedSpec, ImplementsFeed, Feed!FeedSpec

=============================================================================
