------------------------- MODULE MailDeliveryProofs -------------------------
(***************************************************************************)
(* TLAPS proofs about MailDelivery, for any sessions, domains, addresses   *)
(* and mails, and whatever errors, crashes and API requests there are.     *)
(***************************************************************************)
EXTENDS MailDelivery, SequenceTheorems, TLAPS

\* What a session may have in its locals where.
ControlInv ==
  \A s \in Session :
    /\ session[s].pc = "command" => session[s].idx = 0
    /\ session[s].pc # "command" => /\ session[s].idx >= 1
                                    /\ session[s].mail \in 1..lastId["mail"]
    /\ session[s].pc \notin {"command", "domain"} => session[s].idx <= Len(session[s].rcpts)
    /\ session[s].pc \notin {"save", "commit", "notify"} =>
         session[s].saved = <<>> /\ session[s].att = 0

\* The files a session has saved for its recipient, and those not yet in a row.
Elements(q) == {q[i] : i \in 1..Len(q)}
Saved(s) == Elements(session[s].saved)
Unused(s) == IF session[s].pc \in {"save", "commit"} THEN Saved(s) ELSE {}

(* Every file belongs to one session until it is in the rows of one        *)
(* message.                                                                *)
FileInv ==
  /\ AttachmentHasFile
  /\ FilesNotShared
  /\ \A s \in Session : Saved(s) \subseteq 1..Len(files)
  /\ \A s \in Session, a \in attachments : a.file \notin Unused(s)
  /\ \A s, t \in Session : s # t => Unused(s) \cap Unused(t) = {}

\* DATA is being handled.
Busy(s) == session[s].pc # "command"

(* No two sessions handle the same mail, a mail has messages for the       *)
(* recipients before the current one only, and all of them are announced   *)
(* but the one that is about to be and those whose COMMIT was not          *)
(* answered.                                                               *)
OwnMail == \A s, t \in Session : Busy(s) /\ Busy(t) /\ session[s].mail = session[t].mail => s = t
IdsUsed ==
  /\ \A m \in messages : m.id \in 1..lastId["message"] /\ m.mail \in 1..lastId["mail"]
  /\ \A m, n \in messages : m.id = n.id => m = n
ToAnnounce(s, m) ==
  /\ session[s].pc = "notify"
  /\ m.rcpt = session[s].idx /\ m.id = session[s].message /\ m.mailbox = session[s].mailbox
Settled(m) == [mailbox |-> m.mailbox, message |-> m.id] \in announced \/ m.id \in unanswered
StoredSoFar ==
  \A s \in Session, m \in messages : Busy(s) /\ m.mail = session[s].mail =>
    (m.rcpt < session[s].idx /\ Settled(m)) \/ ToAnnounce(s, m)
NotifiedIsStored ==
  \A s \in Session : session[s].pc = "notify" =>
    /\ session[s].message \in 1..lastId["message"]
    /\ \A m \in messages : m.id = session[s].message => m.mailbox = session[s].mailbox
CompletedIsOver ==
  \A t \in completed : /\ t.mail \in 1..lastId["mail"]
                       /\ \A s \in Session : Busy(s) => session[s].mail # t.mail

MessageInv ==
  /\ OwnMail
  /\ IdsUsed
  /\ StoredSoFar
  /\ NotifiedIsStored
  /\ CompletedIsOver
  /\ AtMostOnce
  /\ AnnouncedAsStored

MailInv == TypeOK /\ ControlInv /\ FileInv /\ MessageInv

-----------------------------------------------------------------------------
(* NewSession and Reset give a typed session that is not busy.             *)
LEMMA BlankType ==
  /\ Blank \in SessionState /\ Blank.pc = "command" /\ Blank.idx = 0 /\ Blank.att = 0
  /\ Blank.saved = <<>> /\ Blank.rcpts = <<>>
<1>1. (CHOOSE e \in Email : TRUE) \in Email
  BY EmailAssumption
<1>2. <<>> \in Seq(Address) /\ <<>> \in Seq(Nat)
  BY EmptySeq
<1> QED BY <1>1, <1>2 DEF Blank, SessionState, Control

(* What Append and the empty sequence do to the elements of a sequence.    *)
LEMMA ElementsOf ==
  ASSUME NEW S, NEW q \in Seq(S), NEW e \in S
  PROVE  /\ Elements(Append(q, e)) = Elements(q) \cup {e}
         /\ Elements(<<>>) = {}
         /\ Elements(q) \subseteq S
<1>1. Len(q) \in Nat /\ Len(Append(q, e)) = Len(q) + 1
  BY LenProperties
<1>2. \A i \in 1..Len(q) : Append(q, e)[i] = q[i]
  BY <1>1
<1>3. Append(q, e)[Len(q) + 1] = e
  BY <1>1
<1>4. 1..(Len(q) + 1) = 1..Len(q) \cup {Len(q) + 1}
  BY <1>1
<1>5. Elements(Append(q, e)) = Elements(q) \cup {e}
  BY <1>1, <1>2, <1>3, <1>4 DEF Elements
<1>6. Elements(<<>>) = {}
  BY DEF Elements
<1>7. Elements(q) \subseteq S
  BY <1>1, ElementOfSeq DEF Elements
<1> QED BY <1>5, <1>6, <1>7

(* A session that is given a new state leaves the others alone.            *)
LEMMA SessionSet ==
  ASSUME session \in [Session -> SessionState], NEW s \in Session, NEW new \in SessionState,
         session' = [session EXCEPT ![s] = new]
  PROVE  /\ session' \in [Session -> SessionState] /\ session'[s] = new
         /\ \A t \in Session : t # s => session'[t] = session[t]
OBVIOUS

(* The end of processEmail: the next recipient, with nothing saved.        *)
LEMMA NextRecipientEffect ==
  ASSUME TypeOK, NEW s \in Session, NextRecipient(s)
  PROVE  /\ session' \in [Session -> SessionState]
         /\ \A t \in Session : t # s => session'[t] = session[t]
         /\ session'[s].pc = "domain" /\ session'[s].idx = session[s].idx + 1
         /\ session'[s].att = 0 /\ session'[s].saved = <<>>
         /\ session'[s].mail = session[s].mail /\ session'[s].rcpts = session[s].rcpts
         /\ session'[s].email = session[s].email
<1> DEFINE new == [session[s] EXCEPT !.pc = "domain", !.idx = session[s].idx + 1, !.domain = 0,
                     !.mailbox = 0, !.att = 0, !.saved = <<>>, !.message = 0]
<1>1. session \in [Session -> SessionState] /\ session[s] \in SessionState
  BY DEF TypeOK
<1>2. <<>> \in Seq(Nat) /\ session[s].idx + 1 \in Nat
  BY <1>1, EmptySeq DEF SessionState
<1>3. new \in SessionState
  BY <1>1, <1>2 DEF SessionState, Control
<1>4. /\ new.pc = "domain" /\ new.idx = session[s].idx + 1 /\ new.att = 0 /\ new.saved = <<>>
      /\ new.mail = session[s].mail /\ new.rcpts = session[s].rcpts
      /\ new.email = session[s].email
  BY <1>1 DEF SessionState
<1>5. session' = [session EXCEPT ![s] = new]
  BY DEF NextRecipient
<1> HIDE DEF new
<1> QED BY <1>1, <1>3, <1>4, <1>5, SessionSet

(* A step inside processEmail that leaves the files, the messages and the  *)
(* announcements alone.                                                    *)
QuietStep(s) ==
  \/ StatementFails(s) \/ LookupDomain(s) \/ FindMailbox(s) \/ CreateMailbox(s)
  \/ CreateUnanswered(s) \/ RefetchMailbox(s) \/ SaveFails(s) \/ SavesDone(s) \/ CommitFails(s)

QuietEffect(s) ==
  /\ session' \in [Session -> SessionState]
  /\ \A t \in Session : t # s => session'[t] = session[t]
  /\ Busy(s) /\ session[s].pc # "notify" /\ session'[s].pc \notin {"command", "notify"}
  /\ session'[s].mail = session[s].mail /\ session'[s].rcpts = session[s].rcpts
  /\ session'[s].email = session[s].email
  /\ session'[s].att <= Attachments[session[s].email]
  /\ session[s].idx <= Len(session[s].rcpts)
  /\ \/ /\ session'[s].pc = "domain" /\ session'[s].idx = session[s].idx + 1
        /\ session'[s].saved = <<>> /\ session'[s].att = 0
     \/ /\ session'[s].pc # "domain" /\ session'[s].idx = session[s].idx
        /\ session'[s].saved = session[s].saved
        /\ \/ session'[s].pc \in {"save", "commit"} /\ session[s].pc \in {"save", "commit"}
           \/ session[s].saved = <<>> /\ session'[s].att = 0

(* What every quiet step does to the session.                              *)
LEMMA QuietSession ==
  ASSUME TypeOK, ControlInv, NEW s \in Session, QuietStep(s)
  PROVE  QuietEffect(s)
<1>1. /\ session \in [Session -> SessionState] /\ session[s] \in SessionState
      /\ session[s].att \in Nat /\ session[s].idx \in Nat
      /\ session[s].email \in Email /\ session[s].att <= Attachments[session[s].email]
      /\ Attachments[session[s].email] \in Nat
  BY EmailAssumption DEF TypeOK, SessionState
<1>2. /\ Busy(s) /\ session[s].pc \notin {"notify", "command"}
      /\ session[s].idx <= Len(session[s].rcpts)
  BY DEF QuietStep, StatementFails, LookupDomain, FindMailbox, CreateMailbox, CreateUnanswered,
         RefetchMailbox, SaveFails, SavesDone, CommitFails, AtRecipient, Busy, ControlInv
<1>3. CASE NextRecipient(s)
  BY <1>1, <1>2, <1>3, NextRecipientEffect DEF QuietEffect
<1>4. ASSUME NEW new \in SessionState, session' = [session EXCEPT ![s] = new],
             new.mail = session[s].mail, new.rcpts = session[s].rcpts,
             new.email = session[s].email, new.idx = session[s].idx,
             new.saved = session[s].saved,
             new.pc \in {"find", "create", "refetch", "save", "commit"},
             \/ /\ new.pc \in {"save", "commit"} /\ session[s].pc \in {"save", "commit"}
                /\ new.att <= Attachments[session[s].email]
             \/ new.att = session[s].att /\ session[s].pc \in {"domain", "find", "create", "refetch"}
      PROVE  QuietEffect(s)
  <2>1. /\ session' \in [Session -> SessionState] /\ session'[s] = new
        /\ \A t \in Session : t # s => session'[t] = session[t]
    BY <1>1, <1>4, SessionSet
  <2>2. session[s].pc \in {"domain", "find", "create", "refetch"} =>
          session[s].saved = <<>> /\ session[s].att = 0
    BY DEF ControlInv
  <2>3. new.att <= Attachments[session[s].email]
    BY <1>1, <1>4
  <2>4. \/ new.pc \in {"save", "commit"} /\ session[s].pc \in {"save", "commit"}
        \/ session[s].saved = <<>> /\ new.att = 0
    BY <1>4, <2>2
  <2> QED BY <1>2, <1>4, <2>1, <2>3, <2>4 DEF QuietEffect
<1>5. CASE LookupDomain(s)
  <2>1. SUFFICES ASSUME ~NextRecipient(s) PROVE QuietEffect(s)
    BY <1>3
  <2> DEFINE new == [session[s] EXCEPT !.pc = "find",
                       !.domain = GetByName(DomainOf[Recipient(s)]).id]
  <2>2. session' = [session EXCEPT ![s] = new] /\ session[s].pc = "domain"
    BY <1>5, <2>1 DEF LookupDomain, AtRecipient
  <2>3. GetByName(DomainOf[Recipient(s)]).id \in Nat
    <3>1. session[s].idx \in 1..Len(session[s].rcpts) /\ session[s].rcpts \in Seq(Address)
      BY <1>1, <1>2 DEF ControlInv, Busy, SessionState
    <3>2. Recipient(s) \in Address
      BY <3>1, ElementOfSeq, AddressAssumption DEF Recipient
    <3> QED BY <3>2, AddressAssumption DEF GetByName, TypeOK, DomainRow
  <2>4. /\ new \in SessionState /\ new.pc = "find" /\ new.mail = session[s].mail
        /\ new.rcpts = session[s].rcpts /\ new.email = session[s].email
        /\ new.idx = session[s].idx /\ new.saved = session[s].saved /\ new.att = session[s].att
    BY <1>1, <2>3 DEF SessionState, Control
  <2> HIDE DEF new
  <2> QED BY <1>4, <2>2, <2>4
<1>6. ASSUME NEW b \in Nat, session[s].pc \in {"find", "create", "refetch"},
             session' = [session EXCEPT ![s].pc = "save", ![s].mailbox = b]
      PROVE  QuietEffect(s)
  <2> DEFINE new == [session[s] EXCEPT !.pc = "save", !.mailbox = b]
  <2>1. session' = [session EXCEPT ![s] = new]
    BY <1>6
  <2>2. /\ new \in SessionState /\ new.pc = "save" /\ new.mail = session[s].mail
        /\ new.rcpts = session[s].rcpts /\ new.email = session[s].email
        /\ new.idx = session[s].idx /\ new.saved = session[s].saved /\ new.att = session[s].att
    BY <1>1 DEF SessionState, Control
  <2> HIDE DEF new
  <2> QED BY <1>4, <1>6, <2>1, <2>2
<1>7. ASSUME NEW pc \in {"create", "refetch", "commit"},
             session' = [session EXCEPT ![s].pc = pc],
             \/ pc = "commit" /\ session[s].pc = "save"
             \/ pc # "commit" /\ session[s].pc \in {"find", "create"}
      PROVE  QuietEffect(s)
  <2> DEFINE new == [session[s] EXCEPT !.pc = pc]
  <2>1. session' = [session EXCEPT ![s] = new]
    BY <1>7
  <2>2. /\ new \in SessionState /\ new.pc = pc /\ new.mail = session[s].mail
        /\ new.rcpts = session[s].rcpts /\ new.email = session[s].email
        /\ new.idx = session[s].idx /\ new.saved = session[s].saved /\ new.att = session[s].att
    BY <1>1 DEF SessionState, Control
  <2> HIDE DEF new
  <2> QED BY <1>1, <1>4, <1>7, <2>1, <2>2
<1>8. CASE FindMailbox(s)
  <2>1. CASE session' = [session EXCEPT ![s].pc = "create"]
    BY <1>7, <1>8, <2>1 DEF FindMailbox
  <2>2. ASSUME NEW b \in mailboxes, session' = [session EXCEPT ![s].pc = "save", ![s].mailbox = b.id]
        PROVE  QuietEffect(s)
    <3>1. b.id \in Nat
      BY DEF TypeOK, MailboxRow
    <3> QED BY <1>6, <1>8, <2>2, <3>1 DEF FindMailbox
  <2> QED BY <1>8, <2>1, <2>2 DEF FindMailbox, GetByAddress
<1>9. CASE CreateMailbox(s)
  <2>1. CASE session' = [session EXCEPT ![s].pc = "refetch"]
    BY <1>7, <1>9, <2>1 DEF CreateMailbox
  <2>2. CASE session' = [session EXCEPT ![s].pc = "save", ![s].mailbox = lastId["mailbox"] + 1]
    <3>1. lastId["mailbox"] + 1 \in Nat
      BY DEF TypeOK
    <3> QED BY <1>6, <1>9, <2>2, <3>1 DEF CreateMailbox
  <2> QED BY <1>3, <1>9, <2>1, <2>2 DEF CreateMailbox
<1>10. CASE RefetchMailbox(s)
  <2>1. ASSUME NEW b \in mailboxes, session' = [session EXCEPT ![s].pc = "save", ![s].mailbox = b.id]
        PROVE  QuietEffect(s)
    <3>1. b.id \in Nat
      BY DEF TypeOK, MailboxRow
    <3> QED BY <1>6, <1>10, <2>1, <3>1 DEF RefetchMailbox
  <2> QED BY <1>3, <1>10, <2>1 DEF RefetchMailbox, GetByAddress
<1>11. CASE SaveFails(s)
  <2>1. PICK read \in SUBSET {NextAttachment(s)} :
          session' = [session EXCEPT ![s].att = @ + 1, ![s].drained = @ \cup read]
    BY <1>11 DEF SaveFails
  <2> DEFINE new == [session[s] EXCEPT !.att = session[s].att + 1,
                                       !.drained = session[s].drained \cup read]
  <2>2. session' = [session EXCEPT ![s] = new] /\ session[s].pc = "save"
    BY <1>11, <2>1 DEF SaveFails
  <2>3. session[s].att + 1 \in Nat /\ session[s].att + 1 <= Attachments[session[s].email]
    BY <1>1, <1>11 DEF SaveFails, AttachmentLeft, NextAttachment, ParsedAttachments
  <2>4. session[s].drained \cup read \in SUBSET Nat
    BY <1>1, <2>3 DEF SessionState, NextAttachment
  <2>5. /\ new \in SessionState /\ new.pc = "save" /\ new.mail = session[s].mail
        /\ new.rcpts = session[s].rcpts /\ new.email = session[s].email
        /\ new.idx = session[s].idx /\ new.saved = session[s].saved
        /\ new.att = session[s].att + 1
    BY <1>1, <2>2, <2>3, <2>4 DEF SessionState
  <2> HIDE DEF new
  <2> QED BY <1>4, <2>2, <2>3, <2>5
<1>12. CASE SavesDone(s)
  BY <1>7, <1>12 DEF SavesDone
<1>13. CASE StatementFails(s) \/ CommitFails(s) \/ CreateUnanswered(s)
  BY <1>3, <1>13 DEF StatementFails, CommitFails, CreateUnanswered
<1> QED BY <1>5, <1>8, <1>9, <1>10, <1>11, <1>12, <1>13 DEF QuietStep

(* What every quiet step does to the tables: at most a new mailbox.        *)
LEMMA QuietTables ==
  ASSUME TypeOK, ControlInv, NEW s \in Session, QuietStep(s)
  PROVE  /\ UNCHANGED <<domains, messages, attachments, files, history>>
         /\ mailboxes' \subseteq MailboxRow
         /\ lastId' \in [{"domain", "mailbox", "message", "mail"} -> Nat]
         /\ lastId'["mail"] = lastId["mail"] /\ lastId'["message"] = lastId["message"]
<1>1. UNCHANGED <<domains, messages, attachments, files, history>>
  BY DEF QuietStep, StatementFails, LookupDomain, FindMailbox, CreateMailbox, CreateUnanswered,
         RefetchMailbox, SaveFails, SavesDone, CommitFails, dbVars
<1>2. CASE InsertMailbox(s) /\ session[s].pc = "create"
  <2>1. /\ session[s].idx \in 1..Len(session[s].rcpts) /\ session[s].rcpts \in Seq(Address)
        /\ session[s].domain \in Nat
    BY <1>2 DEF ControlInv, TypeOK, SessionState
  <2>2. Recipient(s) \in Address
    BY <2>1, ElementOfSeq, AddressAssumption DEF Recipient
  <2>3. lastId["mailbox"] + 1 \in Nat
    BY DEF TypeOK
  <2>4. [id |-> lastId["mailbox"] + 1, address |-> Recipient(s), domain |-> session[s].domain]
          \in MailboxRow
    BY <2>1, <2>2, <2>3 DEF MailboxRow
  <2>5. /\ mailboxes' = mailboxes \cup {[id |-> lastId["mailbox"] + 1, address |-> Recipient(s),
                                         domain |-> session[s].domain]}
        /\ lastId' = [lastId EXCEPT !["mailbox"] = lastId["mailbox"] + 1]
    BY <1>2 DEF InsertMailbox
  <2>6. mailboxes' \subseteq MailboxRow
    BY <2>4, <2>5 DEF TypeOK
  <2> QED BY <1>1, <2>3, <2>5, <2>6 DEF TypeOK
<1>3. CASE UNCHANGED <<mailboxes, lastId>>
  BY <1>1, <1>3 DEF TypeOK
<1> QED
  BY <1>2, <1>3 DEF QuietStep, StatementFails, LookupDomain, FindMailbox, CreateMailbox,
              CreateUnanswered, RefetchMailbox, SaveFails, SavesDone, CommitFails, dbVars

(* A step that adds no file and no row, and gives no session a file, keeps *)
(* the files apart.                                                        *)
LEMMA FileFrame ==
  ASSUME FileInv, UNCHANGED files, attachments' \subseteq attachments,
         \A s \in Session : /\ Elements(session'[s].saved) \subseteq Saved(s)
                            /\ Unused(s)' \subseteq Unused(s)
  PROVE  FileInv'
<1>1. AttachmentHasFile'
  BY DEF FileInv, AttachmentHasFile
<1>2. FilesNotShared'
  BY DEF FileInv, FilesNotShared
<1>3. \A s \in Session : Saved(s)' \subseteq 1..Len(files')
  BY DEF FileInv, Saved
<1>4. \A s \in Session, a \in attachments' : a.file \notin Unused(s)'
  BY DEF FileInv
<1>5. \A s, t \in Session : s # t => Unused(s)' \cap Unused(t)' = {}
  BY DEF FileInv
<1> QED BY <1>1, <1>2, <1>3, <1>4, <1>5 DEF FileInv

(* A step that stores, announces and completes nothing keeps what is said  *)
(* about messages, when sessions only go on with their mail or drop it.    *)
LEMMA MessageFrame ==
  ASSUME TypeOK, MessageInv, UNCHANGED history, messages' \subseteq messages,
         lastId'["mail"] = lastId["mail"], lastId'["message"] = lastId["message"],
         \A s \in Session : Busy(s)' =>
           \/ session'[s] = session[s]
           \/ /\ Busy(s) /\ session[s].pc # "notify" /\ session'[s].pc # "notify"
              /\ session'[s].mail = session[s].mail
              /\ session'[s].idx \in Nat /\ session'[s].idx >= session[s].idx
  PROVE  MessageInv'
<1>0. UNCHANGED <<announced, completed, unanswered>> /\ \A m : Settled(m)' <=> Settled(m)
  BY DEF history, Settled
<1>1. \A s \in Session : Busy(s)' => Busy(s) /\ session'[s].mail = session[s].mail
  BY DEF Busy
<1>2. OwnMail' /\ CompletedIsOver'
  BY <1>0, <1>1 DEF MessageInv, OwnMail, CompletedIsOver
<1>3. IdsUsed' /\ AtMostOnce' /\ AnnouncedAsStored'
  BY <1>0 DEF MessageInv, IdsUsed, AtMostOnce, AnnouncedAsStored
<1>4. NotifiedIsStored'
  <2>1. \A s \in Session : session'[s].pc = "notify" => session'[s] = session[s]
    BY DEF Busy
  <2> QED BY <2>1 DEF MessageInv, NotifiedIsStored
<1>5. StoredSoFar'
  <2> SUFFICES ASSUME NEW s \in Session, NEW m \in messages, Busy(s)', m.mail = session'[s].mail
               PROVE  (m.rcpt < session'[s].idx /\ Settled(m)) \/ ToAnnounce(s, m)'
    BY <1>0 DEF StoredSoFar
  <2>1. (m.rcpt < session[s].idx /\ Settled(m)) \/ ToAnnounce(s, m)
    BY <1>1 DEF MessageInv, StoredSoFar
  <2>2. CASE session'[s] = session[s]
    BY <2>1, <2>2 DEF ToAnnounce
  <2>3. CASE session'[s] # session[s]
    <3>1. ~ToAnnounce(s, m) /\ session'[s].idx \in Nat /\ session'[s].idx >= session[s].idx
      BY <2>3 DEF ToAnnounce
    <3>2. m.rcpt \in Nat /\ session[s].idx \in Nat
      BY DEF TypeOK, MessageRow, SessionState
    <3> QED BY <2>1, <3>1, <3>2
  <2> QED BY <2>2, <2>3
<1> QED BY <1>2, <1>3, <1>4, <1>5 DEF MessageInv

-----------------------------------------------------------------------------
(* The invariant, action by action.  First the steps inside processEmail   *)
(* that store nothing (session.go:164-197, 226).                           *)
LEMMA QuietKeeps ==
  ASSUME MailInv, NEW s \in Session, QuietStep(s)
  PROVE  MailInv'
<1> USE DEF MailInv
<1>1. /\ QuietEffect(s)
      /\ UNCHANGED <<domains, messages, attachments, files, history>>
      /\ mailboxes' \subseteq MailboxRow
      /\ lastId' \in [{"domain", "mailbox", "message", "mail"} -> Nat]
      /\ lastId'["mail"] = lastId["mail"] /\ lastId'["message"] = lastId["message"]
  BY QuietSession, QuietTables
<1>2. session[s].idx \in Nat /\ Len(session[s].rcpts) \in Nat
  BY LenProperties DEF TypeOK, SessionState
<1>3. \A t \in Session : t # s => session'[t] = session[t]
  BY <1>1 DEF QuietEffect
<1>4. TypeOK'
  <2>1. /\ session'[s].idx <= Len(session'[s].rcpts) + 1
        /\ session'[s].att <= Attachments[session'[s].email]
    BY <1>1, <1>2 DEF QuietEffect
  <2>2. \A t \in Session : /\ session'[t].idx <= Len(session'[t].rcpts) + 1
                           /\ session'[t].att <= Attachments[session'[t].email]
    BY <1>3, <2>1 DEF TypeOK
  <2> QED BY <1>1, <2>2 DEF TypeOK, QuietEffect, history
<1>5. ControlInv'
  <2>1. ASSUME NEW t \in Session, t # s
        PROVE  /\ session'[t].pc = "command" => session'[t].idx = 0
               /\ session'[t].pc # "command" => /\ session'[t].idx >= 1
                                                /\ session'[t].mail \in 1..lastId'["mail"]
               /\ session'[t].pc \notin {"command", "domain"} =>
                    session'[t].idx <= Len(session'[t].rcpts)
               /\ session'[t].pc \notin {"save", "commit", "notify"} =>
                    session'[t].saved = <<>> /\ session'[t].att = 0
    BY <1>1, <1>3, <2>1 DEF ControlInv
  <2>2. /\ session'[s].pc # "command" /\ session'[s].idx >= 1
        /\ session'[s].mail \in 1..lastId'["mail"]
        /\ session'[s].pc \notin {"command", "domain"} => session'[s].idx <= Len(session'[s].rcpts)
        /\ session'[s].pc \notin {"save", "commit", "notify"} =>
             session'[s].saved = <<>> /\ session'[s].att = 0
    BY <1>1, <1>2 DEF ControlInv, QuietEffect, Busy
  <2> QED BY <2>1, <2>2 DEF ControlInv
<1>6. FileInv'
  <2>1. /\ Elements(session'[s].saved) \subseteq Saved(s)
        /\ Unused(s)' \subseteq Unused(s)
    <3>1. Elements(<<>>) = {}
      BY DEF Elements
    <3>2. \/ session'[s].saved = <<>>
          \/ session'[s].saved = session[s].saved /\ session'[s].pc \in {"save", "commit"}
             /\ session[s].pc \in {"save", "commit"}
      BY <1>1 DEF QuietEffect
    <3> QED BY <3>1, <3>2 DEF Saved, Unused
  <2>2. \A t \in Session : /\ Elements(session'[t].saved) \subseteq Saved(t)
                           /\ Unused(t)' \subseteq Unused(t)
    BY <1>3, <2>1 DEF Saved, Unused
  <2> QED BY <1>1, <2>2, FileFrame
<1>7. MessageInv'
  <2>1. /\ Busy(s) /\ session[s].pc # "notify" /\ session'[s].pc # "notify"
        /\ session'[s].mail = session[s].mail
        /\ session'[s].idx \in Nat /\ session'[s].idx >= session[s].idx
    BY <1>1, <1>2 DEF QuietEffect
  <2> QED BY <1>1, <1>3, <2>1, MessageFrame
<1> QED BY <1>4, <1>5, <1>6, <1>7

(* A step that only ends sessions or changes what a client has said so     *)
(* far: MAIL, RCPT, RSET, a lost process or connection.                    *)
LEMMA IdleKeeps ==
  ASSUME MailInv, UNCHANGED <<dbVars, files, history>>,
         session' \in [Session -> SessionState],
         \A s \in Session :
           \/ session'[s] = session[s]
           \/ /\ session'[s].pc = "command" /\ session'[s].idx = 0 /\ session'[s].att = 0
              /\ session'[s].saved = <<>>
  PROVE  MailInv'
<1> USE DEF MailInv
<1>1. ASSUME NEW s \in Session
      PROVE  /\ session'[s].idx <= Len(session'[s].rcpts) + 1
             /\ session'[s].att <= Attachments[session'[s].email]
  <2>1. session'[s].rcpts \in Seq(Address) /\ session'[s].email \in Email
    BY DEF SessionState
  <2>2. Len(session'[s].rcpts) \in Nat /\ Attachments[session'[s].email] \in Nat
    BY <2>1, LenProperties, EmailAssumption
  <2> QED BY <2>2 DEF TypeOK
<1>2. TypeOK'
  BY <1>1 DEF TypeOK, dbVars, history
<1>3. ControlInv'
  BY DEF ControlInv, dbVars
<1>4. FileInv'
  <2>1. Elements(<<>>) = {}
    BY DEF Elements
  <2>2. \A t \in Session : /\ Elements(session'[t].saved) \subseteq Saved(t)
                           /\ Unused(t)' \subseteq Unused(t)
    BY <2>1 DEF Saved, Unused
  <2> QED BY <2>2, FileFrame DEF dbVars
<1>5. MessageInv'
  <2>1. \A s \in Session : Busy(s)' => session'[s] = session[s]
    BY DEF Busy
  <2> QED BY <2>1, MessageFrame DEF dbVars, history
<1> QED BY <1>2, <1>3, <1>4, <1>5

(* The deletions of API requests, with their cascades, and whatever they   *)
(* do to domains and mailboxes.                                            *)
LEMMA ApiKeeps ==
  ASSUME MailInv, UNCHANGED <<files, session, history>>,
         messages' \subseteq messages, attachments' \subseteq attachments,
         domains' \in [Domain -> DomainRow], mailboxes' \subseteq MailboxRow,
         lastId' \in [{"domain", "mailbox", "message", "mail"} -> Nat],
         lastId'["mail"] = lastId["mail"], lastId'["message"] = lastId["message"]
  PROVE  MailInv'
<1> USE DEF MailInv
<1>1. TypeOK'
  BY DEF TypeOK, history
<1>2. ControlInv'
  BY DEF ControlInv
<1>3. FileInv'
  BY FileFrame DEF Saved, Unused
<1>4. MessageInv'
  BY MessageFrame DEF history
<1> QED BY <1>1, <1>2, <1>3, <1>4

(* A saved attachment gets a file nobody else has (session.go:199-218).    *)
LEMMA SaveKeeps ==
  ASSUME MailInv, NEW s \in Session, SaveAttachment(s)
  PROVE  MailInv'
<1> USE DEF MailInv
<1> DEFINE f == Len(files) + 1
           k == NextAttachment(s)
           new == [session[s] EXCEPT !.att = k, !.saved = Append(session[s].saved, f),
                                     !.drained = session[s].drained \cup {k}]
<1>1. /\ session \in [Session -> SessionState] /\ session[s] \in SessionState
      /\ session[s].saved \in Seq(Nat) /\ session[s].att \in Nat
      /\ session[s].drained \in SUBSET Nat /\ session[s].email \in Email
      /\ files \in Seq({"full", "short"}) /\ Len(files) \in Nat
  BY LenProperties DEF TypeOK, SessionState
<1>2. k \in Nat /\ f \in Nat /\ k <= Attachments[session[s].email]
  BY <1>1, EmailAssumption DEF SaveAttachment, AttachmentLeft, NextAttachment, ParsedAttachments
<1>3. Append(session[s].saved, f) \in Seq(Nat)
  BY <1>1, <1>2
<1>4. session' = [session EXCEPT ![s] = new] /\ session[s].pc = "save"
  BY DEF SaveAttachment
<1>5. /\ new \in SessionState /\ new.pc = session[s].pc /\ new.mail = session[s].mail
      /\ new.rcpts = session[s].rcpts /\ new.email = session[s].email
      /\ new.idx = session[s].idx /\ new.saved = Append(session[s].saved, f) /\ new.att = k
  BY <1>1, <1>2, <1>3 DEF SessionState
<1> HIDE DEF new
<1>6. /\ session' \in [Session -> SessionState] /\ session'[s] = new
      /\ \A t \in Session : t # s => session'[t] = session[t]
  BY <1>1, <1>4, <1>5, SessionSet
<1>7. /\ UNCHANGED <<dbVars, history>>
      /\ files' \in Seq({"full", "short"}) /\ Len(files') = f
  BY <1>1 DEF SaveAttachment
<1> HIDE DEF f, k
<1>8. TypeOK'
  <2>1. \A t \in Session : /\ session'[t].idx <= Len(session'[t].rcpts) + 1
                           /\ session'[t].att <= Attachments[session'[t].email]
    BY <1>2, <1>5, <1>6 DEF TypeOK
  <2> QED BY <1>6, <1>7, <2>1 DEF TypeOK, dbVars, history
<1>9. ControlInv'
  BY <1>4, <1>5, <1>6, <1>7 DEF ControlInv, dbVars
<1>10. /\ Saved(s)' = Saved(s) \cup {f} /\ Unused(s)' = Unused(s) \cup {f}
       /\ \A t \in Session : t # s => Saved(t)' = Saved(t) /\ Unused(t)' = Unused(t)
  <2>1. Elements(Append(session[s].saved, f)) = Elements(session[s].saved) \cup {f}
    BY <1>1, <1>2, ElementsOf
  <2> QED BY <1>4, <1>5, <1>6, <2>1 DEF Saved, Unused
<1>11. FileInv'
  <2>1. 1..Len(files') = 1..Len(files) \cup {f} /\ f \notin 1..Len(files)
    BY <1>1, <1>7 DEF f
  <2>2. \A t \in Session : f \notin Unused(t)
    BY <2>1 DEF FileInv, Unused
  <2>3. AttachmentHasFile' /\ FilesNotShared'
    BY <1>7, <2>1 DEF FileInv, AttachmentHasFile, FilesNotShared, dbVars
  <2>4. \A t \in Session : Saved(t)' \subseteq 1..Len(files')
    BY <1>10, <2>1 DEF FileInv
  <2>5. \A t \in Session, a \in attachments' : a.file \notin Unused(t)'
    <3>1. attachments' = attachments /\ \A a \in attachments : a.file # f
      BY <1>7, <2>1 DEF FileInv, AttachmentHasFile, dbVars
    <3> QED BY <1>10, <3>1 DEF FileInv
  <2>6. \A t, u \in Session : t # u => Unused(t)' \cap Unused(u)' = {}
    BY <1>10, <2>2 DEF FileInv
  <2> QED BY <2>3, <2>4, <2>5, <2>6 DEF FileInv
<1>12. MessageInv'
  <2>1. /\ Busy(s) /\ session[s].pc # "notify" /\ session'[s].pc # "notify"
        /\ session'[s].mail = session[s].mail
        /\ session'[s].idx \in Nat /\ session'[s].idx >= session[s].idx
    BY <1>1, <1>4, <1>5, <1>6 DEF Busy, SessionState
  <2> QED BY <1>6, <1>7, <2>1, MessageFrame DEF dbVars, history
<1> QED BY <1>8, <1>9, <1>11, <1>12

(* DATA begins with a mail of its own (session.go:113-143).                *)
LEMMA DataKeeps ==
  ASSUME MailInv, NEW s \in Session, NEW e \in Email, Data(s, e)
  PROVE  MailInv'
<1> USE DEF MailInv
<1> DEFINE n == lastId["mail"] + 1
           new == [session[s] EXCEPT !.pc = "domain", !.idx = 1, !.email = e, !.mail = n]
<1>1. /\ session \in [Session -> SessionState] /\ session[s] \in SessionState
      /\ lastId["mail"] \in Nat /\ lastId["message"] \in Nat /\ n \in Nat
      /\ Attachments[e] \in Nat /\ session[s].rcpts \in Seq(Address)
      /\ Len(session[s].rcpts) \in Nat
  BY LenProperties, EmailAssumption DEF TypeOK, SessionState
<1>2. /\ session' = [session EXCEPT ![s] = new] /\ session[s].pc = "command"
      /\ lastId' = [lastId EXCEPT !["mail"] = n]
      /\ UNCHANGED <<domains, mailboxes, messages, attachments, files>>
      /\ UNCHANGED <<announced, completed, unanswered>>
  BY DEF Data, history
<1>3. session[s].att = 0 /\ session[s].saved = <<>>
  BY <1>2 DEF ControlInv
<1>4. /\ new \in SessionState /\ new.pc = "domain" /\ new.mail = n
      /\ new.rcpts = session[s].rcpts /\ new.email = e /\ new.idx = 1
      /\ new.saved = session[s].saved /\ new.att = session[s].att
  BY <1>1 DEF SessionState, Control
<1>5. /\ lastId' \in [{"domain", "mailbox", "message", "mail"} -> Nat]
      /\ lastId'["mail"] = n /\ lastId'["message"] = lastId["message"]
  BY <1>1, <1>2 DEF TypeOK
<1> HIDE DEF new
<1>6. /\ session' \in [Session -> SessionState] /\ session'[s] = new
      /\ \A t \in Session : t # s => session'[t] = session[t]
  BY <1>1, <1>2, <1>4, SessionSet
<1>7. TypeOK'
  <2>1. \A t \in Session : /\ session'[t].idx <= Len(session'[t].rcpts) + 1
                           /\ session'[t].att <= Attachments[session'[t].email]
    BY <1>1, <1>3, <1>4, <1>6 DEF TypeOK
  <2> QED BY <1>2, <1>5, <1>6, <2>1 DEF TypeOK
<1>8. ControlInv'
  BY <1>1, <1>3, <1>4, <1>5, <1>6 DEF ControlInv
<1>9. FileInv'
  <2>1. \A t \in Session : /\ Elements(session'[t].saved) \subseteq Saved(t)
                           /\ Unused(t)' \subseteq Unused(t)
    BY <1>4, <1>6 DEF Saved, Unused
  <2> QED BY <1>2, <2>1, FileFrame
<1>10. \A t \in Session : Busy(t) => session[t].mail \in 1..lastId["mail"]
  BY DEF ControlInv, Busy
<1>11. n \notin 1..lastId["mail"] /\ 1..lastId["mail"] \subseteq 1..n
  BY <1>1
<1>12. MessageInv'
  <2>1. \A t \in Session : t # s => (Busy(t)' <=> Busy(t)) /\ session'[t].mail = session[t].mail
    BY <1>6 DEF Busy
  <2>2. OwnMail'
    BY <1>4, <1>6, <1>10, <1>11, <2>1 DEF MessageInv, OwnMail
  <2>3. IdsUsed' /\ AtMostOnce' /\ AnnouncedAsStored'
    BY <1>2, <1>5, <1>11 DEF MessageInv, IdsUsed, AtMostOnce, AnnouncedAsStored
  <2>4. NotifiedIsStored'
    BY <1>2, <1>4, <1>5, <1>6 DEF MessageInv, NotifiedIsStored
  <2>5. StoredSoFar'
    <3>1. \A m \in messages : m.mail # n
      BY <1>11 DEF MessageInv, IdsUsed
    <3>2. \A m : Settled(m)' <=> Settled(m)
      BY <1>2 DEF Settled
    <3> QED BY <1>2, <1>4, <1>6, <2>1, <3>1, <3>2 DEF MessageInv, StoredSoFar, ToAnnounce
  <2>6. CompletedIsOver'
    BY <1>2, <1>4, <1>5, <1>6, <1>11, <2>1 DEF MessageInv, CompletedIsOver
  <2> QED BY <2>2, <2>3, <2>4, <2>5, <2>6 DEF MessageInv
<1> QED BY <1>7, <1>8, <1>9, <1>12

\* The session after its message was stored: it announces the message, or it
\* has got an error and goes on with the next recipient.
Stored(s) ==
  LET id == lastId["message"] + 1
  IN  \/ /\ session'[s].pc = "notify" /\ session'[s].idx = session[s].idx
         /\ session'[s].message = id /\ session'[s].mailbox = session[s].mailbox
         /\ session'[s].saved = session[s].saved /\ session'[s].att = session[s].att
         /\ UNCHANGED unanswered
      \/ /\ session'[s].pc = "domain" /\ session'[s].idx = session[s].idx + 1
         /\ session'[s].saved = <<>> /\ session'[s].att = 0
         /\ unanswered' = unanswered \cup {id}

(* CreateWithAttachments: a new message, with rows for the files that its  *)
(* session has saved (session.go:222, message_repository.go), whether or   *)
(* not the session learns of it.                                           *)
LEMMA InsertKeeps ==
  ASSUME MailInv, NEW s \in Session, InsertMessage(s), Stored(s),
         session' \in [Session -> SessionState],
         \A t \in Session : t # s => session'[t] = session[t],
         session'[s].mail = session[s].mail, session'[s].rcpts = session[s].rcpts,
         session'[s].email = session[s].email
  PROVE  MailInv'
<1> USE DEF MailInv
<1> DEFINE id == lastId["message"] + 1
           msg == [id |-> id, mailbox |-> session[s].mailbox, mail |-> session[s].mail,
                   rcpt |-> session[s].idx]
           rows == {[message |-> id, file |-> session[s].saved[i], size |-> "full"] :
                      i \in 1..Len(session[s].saved)}
<1>a. session \in [Session -> SessionState] /\ session[s] \in SessionState
  BY DEF TypeOK
<1>b. lastId["message"] \in Nat /\ lastId["mail"] \in Nat
  BY DEF TypeOK
<1>c. /\ session[s].saved \in Seq(Nat) /\ session[s].mailbox \in Nat
      /\ session[s].mail \in Nat /\ session[s].idx \in Nat
      /\ session[s].rcpts \in Seq(Address) /\ session[s].email \in Email
  BY <1>a DEF SessionState
<1>0. Len(session[s].rcpts) \in Nat /\ Attachments[session[s].email] \in Nat
  BY <1>c, LenProperties, EmailAssumption
<1>1. /\ session \in [Session -> SessionState] /\ session[s] \in SessionState
      /\ session[s].saved \in Seq(Nat) /\ session[s].mailbox \in Nat
      /\ session[s].mail \in Nat /\ session[s].idx \in Nat
      /\ lastId["message"] \in Nat /\ lastId["mail"] \in Nat /\ id \in Nat
  BY <1>a, <1>b, <1>c
<1>2. /\ messages' = messages \cup {msg} /\ attachments' = attachments \cup rows
      /\ lastId' = [lastId EXCEPT !["message"] = id]
      /\ session[s].pc = "commit"
      /\ UNCHANGED <<domains, mailboxes, files, announced, completed>>
  BY DEF InsertMessage
<1>3. /\ msg \in MessageRow /\ msg.id = id /\ msg.mailbox = session[s].mailbox
      /\ msg.mail = session[s].mail /\ msg.rcpt = session[s].idx
  BY <1>1 DEF MessageRow
<1>4. /\ rows \subseteq AttachmentRow
      /\ \A a \in rows : a.message = id /\ a.file \in Saved(s)
  <2>1. \A i \in 1..Len(session[s].saved) : session[s].saved[i] \in Nat
    BY <1>1, ElementOfSeq
  <2> QED BY <1>1, <2>1 DEF AttachmentRow, Saved, Elements
<1>5. session[s].idx >= 1 /\ session[s].idx <= Len(session[s].rcpts)
  BY <1>2 DEF ControlInv
<1>6. /\ lastId' \in [{"domain", "mailbox", "message", "mail"} -> Nat]
      /\ lastId'["mail"] = lastId["mail"] /\ lastId'["message"] = id
  BY <1>1, <1>2 DEF TypeOK
<1> HIDE DEF msg, rows
<1>7. unanswered \subseteq unanswered' /\ unanswered' \subseteq unanswered \cup {id}
  BY DEF Stored
<1>8. TypeOK'
  <2>1. \A t \in Session : /\ session'[t].idx <= Len(session'[t].rcpts) + 1
                           /\ session'[t].att <= Attachments[session'[t].email]
    <3>1. /\ session'[s].idx <= Len(session[s].rcpts) + 1
          /\ session'[s].att <= Attachments[session[s].email]
      BY <1>0, <1>1, <1>5 DEF Stored, TypeOK
    <3> QED BY <3>1 DEF TypeOK
  <2> QED BY <1>1, <1>2, <1>3, <1>4, <1>6, <1>7, <2>1 DEF TypeOK
<1>9. ControlInv'
  <2>1. /\ session'[s].pc # "command" /\ session'[s].idx >= 1
        /\ session'[s].mail \in 1..lastId'["mail"]
        /\ session'[s].pc # "domain" => session'[s].idx <= Len(session'[s].rcpts)
        /\ session'[s].pc # "notify" => session'[s].saved = <<>> /\ session'[s].att = 0
    BY <1>0, <1>1, <1>2, <1>5, <1>6 DEF Stored, ControlInv
  <2> QED BY <1>6, <2>1 DEF ControlInv
<1>10. FileInv'
  <2>1. /\ Unused(s) = Saved(s) /\ Unused(s)' = {}
        /\ \A t \in Session : Saved(t)' \subseteq Saved(t)
        /\ \A t \in Session : t # s => Unused(t)' = Unused(t)
    <3>1. Elements(<<>>) = {}
      BY DEF Elements
    <3> QED BY <1>2, <3>1 DEF Stored, Saved, Unused
  <2>2. AttachmentHasFile'
    BY <1>2, <1>4 DEF FileInv, AttachmentHasFile
  <2>3. FilesNotShared'
    BY <1>2, <1>4, <2>1 DEF FileInv, FilesNotShared
  <2>4. \A t \in Session : Saved(t)' \subseteq 1..Len(files')
    BY <1>2, <2>1 DEF FileInv
  <2>5. \A t \in Session, a \in attachments' : a.file \notin Unused(t)'
    BY <1>2, <1>4, <2>1 DEF FileInv
  <2>6. \A t, u \in Session : t # u => Unused(t)' \cap Unused(u)' = {}
    BY <2>1 DEF FileInv
  <2> QED BY <2>2, <2>3, <2>4, <2>5, <2>6 DEF FileInv
<1>11. MessageInv'
  <2>1. /\ Busy(s) /\ \A t \in Session : Busy(t)' <=> Busy(t)
        /\ \A t \in Session : session'[t].mail = session[t].mail
    BY <1>2 DEF Stored, Busy
  <2>2. session[s].mail \in 1..lastId["mail"]
    BY <1>2 DEF ControlInv
  <2>3. /\ id \in 1..id /\ 1..lastId["message"] \subseteq 1..id /\ id \notin 1..lastId["message"]
        /\ \A m \in messages : m.id # id
    BY <1>1 DEF MessageInv, IdsUsed
  <2>4. OwnMail'
    BY <2>1 DEF MessageInv, OwnMail
  <2>5. IdsUsed'
    BY <1>2, <1>3, <1>6, <2>2, <2>3 DEF MessageInv, IdsUsed
  \* The mail has messages for earlier recipients only.
  <2>6. \A m \in messages : m.mail = session[s].mail =>
          /\ m.rcpt # session[s].idx
          /\ m.rcpt < session[s].idx
          /\ Settled(m)
    <3>1. \A m \in messages : m.rcpt \in Nat
      BY DEF TypeOK, MessageRow
    <3> QED BY <1>1, <1>2, <2>1, <3>1 DEF MessageInv, StoredSoFar, ToAnnounce
  <2>7. AtMostOnce'
    <3>1. \A m \in messages : ~(m.mail = msg.mail /\ m.rcpt = msg.rcpt)
      BY <1>3, <2>6
    <3>2. AtMostOnce /\ messages' = messages \cup {msg}
      BY <1>2 DEF MessageInv
    <3> QED BY <3>1, <3>2 DEF AtMostOnce
  <2>8. StoredSoFar'
    <3>0. \A m : Settled(m) => Settled(m)'
      BY <1>2, <1>7 DEF Settled
    <3> SUFFICES ASSUME NEW t \in Session, NEW m \in messages', Busy(t), m.mail = session[t].mail
                 PROVE  (m.rcpt < session'[t].idx /\ Settled(m)') \/ ToAnnounce(t, m)'
      BY <2>1 DEF StoredSoFar
    <3>1. CASE t = s /\ m = msg
      <4>1. CASE session'[s].pc = "notify"
        BY <1>3, <3>1, <4>1 DEF Stored, ToAnnounce
      <4>2. CASE session'[s].pc # "notify"
        <5>1. session'[s].idx = session[s].idx + 1 /\ id \in unanswered'
          BY <4>2 DEF Stored
        <5>2. Settled(m)'
          BY <1>3, <3>1, <5>1 DEF Settled
        <5> QED BY <1>1, <1>3, <3>1, <5>1, <5>2
      <4> QED BY <4>1, <4>2
    <3>2. CASE t = s /\ m # msg
      <4>1. m \in messages /\ m.rcpt < session[s].idx /\ Settled(m)
        BY <1>2, <2>6, <3>2
      <4>2. m.rcpt \in Nat /\ session'[s].idx \in {session[s].idx, session[s].idx + 1}
        BY <4>1 DEF TypeOK, MessageRow, Stored
      <4> QED BY <1>1, <3>0, <3>2, <4>1, <4>2
    <3>3. CASE t # s
      <4>1. m # msg
        BY <1>3, <2>1, <3>3 DEF MessageInv, OwnMail
      <4>2. (m.rcpt < session[t].idx /\ Settled(m)) \/ ToAnnounce(t, m)
        BY <1>2, <4>1 DEF MessageInv, StoredSoFar
      <4> QED BY <3>0, <3>3, <4>2 DEF ToAnnounce
    <3> QED BY <3>1, <3>2, <3>3
  <2>9. NotifiedIsStored'
    <3> SUFFICES ASSUME NEW t \in Session, session'[t].pc = "notify"
                 PROVE  /\ session'[t].message \in 1..id
                        /\ \A m \in messages' : m.id = session'[t].message =>
                                                  m.mailbox = session'[t].mailbox
      BY <1>6 DEF NotifiedIsStored
    <3>1. CASE t = s
      <4>1. session'[s].message = id /\ session'[s].mailbox = session[s].mailbox
        BY <3>1 DEF Stored
      <4> QED BY <1>2, <1>3, <2>3, <3>1, <4>1
    <3>2. CASE t # s
      <4>1. /\ session'[t] = session[t] /\ session[t].message \in 1..lastId["message"]
            /\ \A m \in messages : m.id = session[t].message => m.mailbox = session[t].mailbox
        BY <3>2 DEF MessageInv, NotifiedIsStored
      <4> QED BY <1>2, <1>3, <2>3, <4>1
    <3> QED BY <3>1, <3>2
  <2>10. CompletedIsOver'
    BY <1>2, <1>6, <2>1 DEF MessageInv, CompletedIsOver
  <2>11. AnnouncedAsStored'
    <3>1. \A n \in announced : n.message \in 1..lastId["message"] /\ n.message # id
      BY <2>3 DEF MessageInv, AnnouncedAsStored
    <3>2. \A n \in announced' :
            /\ n.message \in 1..lastId'["message"]
            /\ \A m \in messages' : m.id = n.message => m.mailbox = n.mailbox
      BY <1>2, <1>3, <1>6, <2>3, <3>1 DEF MessageInv, AnnouncedAsStored
    <3>3. \A t \in completed : msg.mail # t.mail
      BY <1>3, <2>1 DEF MessageInv, CompletedIsOver
    <3>4. \A t \in completed', m \in messages' :
            m.mail = t.mail => \/ [mailbox |-> m.mailbox, message |-> m.id] \in announced'
                               \/ m.id \in unanswered'
      BY <1>2, <1>7, <3>3 DEF MessageInv, AnnouncedAsStored
    <3> QED BY <3>2, <3>4 DEF AnnouncedAsStored
  <2> QED BY <2>4, <2>5, <2>7, <2>8, <2>9, <2>10, <2>11 DEF MessageInv
<1> QED BY <1>8, <1>9, <1>10, <1>11

(* A transaction that is answered.                                         *)
LEMMA CommitKeeps ==
  ASSUME MailInv, NEW s \in Session, Commit(s)
  PROVE  MailInv'
<1> DEFINE id == lastId["message"] + 1
           new == [session[s] EXCEPT !.pc = "notify", !.message = id]
<1>1. session \in [Session -> SessionState] /\ session[s] \in SessionState /\ id \in Nat
  BY DEF MailInv, TypeOK
<1>2. InsertMessage(s) /\ session' = [session EXCEPT ![s] = new] /\ UNCHANGED unanswered
  BY DEF Commit
<1>3. /\ new \in SessionState /\ new.pc = "notify" /\ new.mail = session[s].mail
      /\ new.rcpts = session[s].rcpts /\ new.email = session[s].email
      /\ new.idx = session[s].idx /\ new.saved = session[s].saved
      /\ new.att = session[s].att /\ new.mailbox = session[s].mailbox /\ new.message = id
  BY <1>1 DEF SessionState, Control
<1> HIDE DEF new
<1>4. /\ session' \in [Session -> SessionState] /\ session'[s] = new
      /\ \A t \in Session : t # s => session'[t] = session[t]
  BY <1>1, <1>2, <1>3, SessionSet
<1>5. Stored(s)
  BY <1>2, <1>3, <1>4 DEF Stored
<1> QED BY <1>2, <1>3, <1>4, <1>5, InsertKeeps

(* A transaction that takes effect and is reported as failed.              *)
LEMMA CommitUnansweredKeeps ==
  ASSUME MailInv, NEW s \in Session, CommitUnanswered(s)
  PROVE  MailInv'
<1>1. /\ InsertMessage(s) /\ NextRecipient(s)
      /\ unanswered' = unanswered \cup {lastId["message"] + 1}
  BY DEF CommitUnanswered
<1>2. /\ session' \in [Session -> SessionState]
      /\ \A t \in Session : t # s => session'[t] = session[t]
      /\ session'[s].pc = "domain" /\ session'[s].idx = session[s].idx + 1
      /\ session'[s].att = 0 /\ session'[s].saved = <<>>
      /\ session'[s].mail = session[s].mail /\ session'[s].rcpts = session[s].rcpts
      /\ session'[s].email = session[s].email
  BY <1>1, NextRecipientEffect DEF MailInv
<1>3. Stored(s)
  BY <1>1, <1>2 DEF Stored
<1> QED BY <1>1, <1>2, <1>3, InsertKeeps

(* BroadcastNewMessage announces the message that was just stored, in the  *)
(* mailbox it is in (session.go:228-235).                                  *)
LEMMA NotifyKeeps ==
  ASSUME MailInv, NEW s \in Session, Notify(s)
  PROVE  MailInv'
<1> USE DEF MailInv
<1> DEFINE note == [mailbox |-> session[s].mailbox, message |-> session[s].message]
<1>1. /\ session[s].pc = "notify" /\ NextRecipient(s) /\ announced' = announced \cup {note}
      /\ UNCHANGED <<domains, mailboxes, messages, attachments, lastId, files>>
      /\ UNCHANGED <<completed, unanswered>>
  BY DEF Notify, dbVars
<1>2. /\ session \in [Session -> SessionState] /\ session[s] \in SessionState
      /\ session[s].mailbox \in Nat /\ session[s].message \in Nat /\ session[s].idx \in Nat
      /\ session[s].email \in Email /\ Attachments[session[s].email] \in Nat
      /\ Len(session[s].rcpts) \in Nat
  BY LenProperties, EmailAssumption DEF TypeOK, SessionState
<1>3. /\ session' \in [Session -> SessionState]
      /\ \A t \in Session : t # s => session'[t] = session[t]
      /\ session'[s].pc = "domain" /\ session'[s].idx = session[s].idx + 1
      /\ session'[s].att = 0 /\ session'[s].saved = <<>>
      /\ session'[s].mail = session[s].mail /\ session'[s].rcpts = session[s].rcpts
      /\ session'[s].email = session[s].email
  BY <1>1, NextRecipientEffect
<1>4. /\ note \in [mailbox : Nat, message : Nat] /\ note.mailbox = session[s].mailbox
      /\ note.message = session[s].message
  BY <1>2
<1>5. session[s].idx <= Len(session[s].rcpts)
  BY <1>1 DEF ControlInv
<1>6. TypeOK'
  <2>1. \A t \in Session : /\ session'[t].idx <= Len(session'[t].rcpts) + 1
                           /\ session'[t].att <= Attachments[session'[t].email]
    <3>1. /\ session[s].idx + 1 <= Len(session[s].rcpts) + 1
          /\ 0 <= Attachments[session[s].email]
      BY <1>2, <1>5
    <3> QED BY <1>3, <3>1 DEF TypeOK
  <2> QED BY <1>1, <1>3, <1>4, <2>1 DEF TypeOK
<1>7. ControlInv'
  BY <1>1, <1>2, <1>3 DEF ControlInv
<1>8. FileInv'
  <2>1. Elements(<<>>) = {}
    BY DEF Elements
  <2>2. \A t \in Session : /\ Elements(session'[t].saved) \subseteq Saved(t)
                           /\ Unused(t)' \subseteq Unused(t)
    BY <1>3, <2>1 DEF Saved, Unused
  <2> QED BY <1>1, <2>2, FileFrame
<1>9. MessageInv'
  <2>1. /\ Busy(s) /\ \A t \in Session : Busy(t)' <=> Busy(t)
        /\ \A t \in Session : session'[t].mail = session[t].mail
    BY <1>1, <1>3 DEF Busy
  <2>2. OwnMail' /\ CompletedIsOver'
    BY <1>1, <2>1 DEF MessageInv, OwnMail, CompletedIsOver
  <2>3. IdsUsed' /\ AtMostOnce'
    BY <1>1 DEF MessageInv, IdsUsed, AtMostOnce
  <2>4. NotifiedIsStored'
    BY <1>1, <1>3 DEF MessageInv, NotifiedIsStored
  <2>5. AnnouncedAsStored'
    <3>1. /\ session[s].message \in 1..lastId["message"]
          /\ \A m \in messages : m.id = session[s].message => m.mailbox = session[s].mailbox
      BY <1>1 DEF MessageInv, NotifiedIsStored
    <3> HIDE DEF note
    <3> QED BY <1>1, <1>4, <3>1 DEF MessageInv, AnnouncedAsStored
  <2>6. StoredSoFar'
    <3> SUFFICES ASSUME NEW t \in Session, NEW m \in messages, Busy(t), m.mail = session[t].mail
                 PROVE  (m.rcpt < session'[t].idx /\ Settled(m)') \/ ToAnnounce(t, m)'
      BY <1>1, <2>1 DEF StoredSoFar
    <3>1. (m.rcpt < session[t].idx /\ Settled(m)) \/ ToAnnounce(t, m)
      BY DEF MessageInv, StoredSoFar
    <3>2. m.rcpt \in Nat /\ (Settled(m) => Settled(m)')
      BY <1>1 DEF TypeOK, MessageRow, Settled
    <3>3. CASE t = s /\ ToAnnounce(t, m)
      <4>1. [mailbox |-> m.mailbox, message |-> m.id] = note /\ m.rcpt < session[s].idx + 1
        BY <1>2, <3>3 DEF ToAnnounce
      <4>2. Settled(m)'
        BY <1>1, <4>1 DEF Settled
      <4> QED BY <1>3, <3>3, <4>1, <4>2
    <3>4. CASE t = s /\ ~ToAnnounce(t, m)
      BY <1>1, <1>2, <1>3, <3>1, <3>2, <3>4
    <3>5. CASE t # s
      BY <1>1, <1>3, <3>1, <3>2, <3>5 DEF ToAnnounce
    <3> QED BY <3>3, <3>4, <3>5
  <2> QED BY <2>2, <2>3, <2>4, <2>5, <2>6 DEF MessageInv
<1> QED BY <1>6, <1>7, <1>8, <1>9

(* The answer to DATA: everything stored for the mail is announced.        *)
LEMMA DataDoneKeeps ==
  ASSUME MailInv, NEW s \in Session, DataDone(s)
  PROVE  MailInv'
<1> USE DEF MailInv
<1> DEFINE done == [mail |-> session[s].mail, rcpts |-> session[s].rcpts]
<1>1. /\ session[s].pc = "domain" /\ session' = [session EXCEPT ![s] = Blank]
      /\ completed' = completed \cup {done}
      /\ UNCHANGED <<domains, mailboxes, messages, attachments, lastId, files>>
      /\ UNCHANGED <<announced, unanswered>>
  BY DEF DataDone, dbVars
<1>2. /\ session \in [Session -> SessionState] /\ session[s].mail \in Nat
      /\ session[s].rcpts \in Seq(Address)
  BY DEF TypeOK, SessionState
<1>3. /\ session' \in [Session -> SessionState] /\ session'[s] = Blank
      /\ \A t \in Session : t # s => session'[t] = session[t]
  BY <1>1, <1>2, BlankType, SessionSet
<1>4. done \in [mail : Nat, rcpts : Seq(Address)] /\ done.mail = session[s].mail
  BY <1>2
<1>5. Len(Blank.rcpts) = 0 /\ Blank.email \in Email /\ Attachments[Blank.email] \in Nat
  BY BlankType, EmptySeq, EmailAssumption DEF SessionState
<1>6. TypeOK'
  <2>1. \A t \in Session : /\ session'[t].idx <= Len(session'[t].rcpts) + 1
                           /\ session'[t].att <= Attachments[session'[t].email]
    <3>1. Blank.idx <= Len(Blank.rcpts) + 1 /\ Blank.att <= Attachments[Blank.email]
      BY <1>5, BlankType
    <3> QED BY <1>3, <3>1 DEF TypeOK
  <2> QED BY <1>1, <1>3, <1>4, <2>1 DEF TypeOK
<1>7. ControlInv'
  BY <1>1, <1>3, BlankType DEF ControlInv
<1>8. FileInv'
  <2>1. Elements(<<>>) = {}
    BY DEF Elements
  <2>2. \A t \in Session : /\ Elements(session'[t].saved) \subseteq Saved(t)
                           /\ Unused(t)' \subseteq Unused(t)
    BY <1>3, <2>1, BlankType DEF Saved, Unused
  <2> QED BY <1>1, <2>2, FileFrame
<1>9. MessageInv'
  <2>1. Busy(s) /\ \A t \in Session : Busy(t)' <=> Busy(t) /\ t # s
    BY <1>1, <1>3, BlankType DEF Busy
  <2>2. OwnMail' /\ IdsUsed' /\ AtMostOnce'
    BY <1>1, <1>3, <2>1 DEF MessageInv, OwnMail, IdsUsed, AtMostOnce
  <2>3. NotifiedIsStored'
    BY <1>1, <1>3, BlankType DEF MessageInv, NotifiedIsStored
  <2>4. StoredSoFar'
    BY <1>1, <1>3, <2>1 DEF MessageInv, StoredSoFar, ToAnnounce, Settled
  <2>5. CompletedIsOver'
    <3>1. done.mail \in 1..lastId["mail"]
      BY <1>1, <1>4 DEF ControlInv
    <3>2. \A t \in Session : t # s /\ Busy(t) => session[t].mail # done.mail
      BY <1>4, <2>1 DEF MessageInv, OwnMail
    <3> HIDE DEF done
    <3> QED BY <1>1, <1>3, <2>1, <3>1, <3>2 DEF MessageInv, CompletedIsOver
  <2>6. AnnouncedAsStored'
    <3>1. \A m \in messages : m.mail = done.mail => Settled(m)
      BY <1>1, <1>4, <2>1 DEF MessageInv, StoredSoFar, ToAnnounce
    <3> HIDE DEF done
    <3> QED BY <1>1, <3>1 DEF MessageInv, AnnouncedAsStored, Settled
  <2> QED BY <2>2, <2>3, <2>4, <2>5, <2>6 DEF MessageInv
<1> QED BY <1>6, <1>7, <1>8, <1>9

-----------------------------------------------------------------------------
(* Sessions end without an answer: the process or a connection is lost.    *)
Dropped ==
  /\ \E gone \in SUBSET Session :
       session' = [s \in Session |-> IF s \in gone THEN Blank ELSE session[s]]
  /\ UNCHANGED <<dbVars, files, history>>

(* MAIL, RCPT, RSET and lost sessions keep the invariant.                  *)
LEMMA CommandKeeps ==
  ASSUME MailInv,
         \/ \E s \in Session : Mail(s) \/ Reset(s) \/ \E to \in Address : Rcpt(s, to)
         \/ Dropped
  PROVE  MailInv'
<1>1. session \in [Session -> SessionState]
  BY DEF MailInv, TypeOK
<1>2. \A s \in Session : session[s].pc = "command" =>
        session[s].idx = 0 /\ session[s].att = 0 /\ session[s].saved = <<>>
  BY DEF MailInv, ControlInv
<1>3. ASSUME NEW s \in Session, NEW new \in SessionState, session[s].pc = "command",
             session' = [session EXCEPT ![s] = new], UNCHANGED <<dbVars, files, history>>,
             new.pc = "command", new.idx = 0, new.att = 0, new.saved = <<>>
      PROVE  MailInv'
  <2>1. /\ session' \in [Session -> SessionState] /\ session'[s] = new
        /\ \A t \in Session : t # s => session'[t] = session[t]
    BY <1>1, <1>3, SessionSet
  <2> QED BY <1>3, <2>1, IdleKeeps
<1>4. ASSUME NEW s \in Session, Mail(s) PROVE MailInv'
  <2> DEFINE new == [session[s] EXCEPT !.from = TRUE]
  <2>1. /\ session' = [session EXCEPT ![s] = new] /\ session[s].pc = "command"
        /\ UNCHANGED <<dbVars, files, history>>
    BY <1>4 DEF Mail
  <2>2. /\ new \in SessionState /\ new.pc = session[s].pc /\ new.idx = session[s].idx
        /\ new.att = session[s].att /\ new.saved = session[s].saved
    BY <1>1 DEF SessionState
  <2> HIDE DEF new
  <2> QED BY <1>2, <1>3, <2>1, <2>2
<1>5. ASSUME NEW s \in Session, NEW to \in Address, Rcpt(s, to) PROVE MailInv'
  <2> DEFINE new == [session[s] EXCEPT !.rcpts = Append(session[s].rcpts, to)]
  <2>1. /\ session' = [session EXCEPT ![s] = new] /\ session[s].pc = "command"
        /\ UNCHANGED <<dbVars, files, history>>
    BY <1>5 DEF Rcpt
  <2>2. Append(session[s].rcpts, to) \in Seq(Address)
    BY <1>1 DEF SessionState
  <2>3. /\ new \in SessionState /\ new.pc = session[s].pc /\ new.idx = session[s].idx
        /\ new.att = session[s].att /\ new.saved = session[s].saved
    BY <1>1, <2>2 DEF SessionState
  <2> HIDE DEF new
  <2> QED BY <1>2, <1>3, <2>1, <2>3
<1>6. ASSUME NEW s \in Session, Reset(s) PROVE MailInv'
  BY <1>3, <1>6, BlankType DEF Reset
<1>7. CASE Dropped
  <2>1. /\ session' \in [Session -> SessionState]
        /\ \A s \in Session : session'[s] \in {session[s], Blank}
    BY <1>1, <1>7, BlankType DEF Dropped
  <2> QED BY <1>7, <2>1, BlankType, IdleKeeps DEF Dropped
<1> QED BY <1>4, <1>5, <1>6, <1>7

(* The API requests keep the invariant: they store no mail, and a deletion *)
(* takes rows away.                                                        *)
LEMMA ApiStepKeeps ==
  ASSUME MailInv, Api
  PROVE  MailInv'
<1>0. /\ lastId \in [{"domain", "mailbox", "message", "mail"} -> Nat]
      /\ domains \in [Domain -> DomainRow] /\ mailboxes \subseteq MailboxRow
      /\ NoDomain \in DomainRow
  BY DEF MailInv, TypeOK, NoDomain, DomainRow
<1>1. ASSUME NEW d \in Domain, CreateDomain(d) PROVE MailInv'
  <2>1. /\ lastId' = [lastId EXCEPT !["domain"] = lastId["domain"] + 1]
        /\ domains' = [domains EXCEPT ![d] = [id |-> lastId["domain"] + 1, active |-> FALSE]]
        /\ UNCHANGED <<mailboxes, messages, attachments, files, session, history>>
    BY <1>1 DEF CreateDomain
  <2>2. lastId["domain"] + 1 \in Nat
    BY <1>0
  <2>3. [id |-> lastId["domain"] + 1, active |-> FALSE] \in DomainRow
    BY <2>2 DEF DomainRow
  <2>4. domains' \in [Domain -> DomainRow]
    BY <1>0, <2>1, <2>3
  <2>5. /\ lastId' \in [{"domain", "mailbox", "message", "mail"} -> Nat]
        /\ lastId'["mail"] = lastId["mail"] /\ lastId'["message"] = lastId["message"]
    BY <1>0, <2>1, <2>2
  <2> QED BY <1>0, <2>1, <2>4, <2>5, ApiKeeps
<1>2. ASSUME NEW d \in Domain, NEW name \in Domain, NEW active \in BOOLEAN,
             UpdateDomain(d, name, active)
      PROVE  MailInv'
  <2>1. [id |-> domains[d].id, active |-> active] \in DomainRow
    BY <1>0 DEF DomainRow
  <2>2. domains' \in [Domain -> DomainRow]
    BY <1>0, <1>2, <2>1 DEF UpdateDomain
  <2> QED BY <1>0, <1>2, <2>2, ApiKeeps DEF UpdateDomain
<1>3. ASSUME NEW d \in Domain, DeleteDomain(d) PROVE MailInv'
  <2>1. domains' \in [Domain -> DomainRow]
    BY <1>0, <1>3 DEF DeleteDomain
  <2> QED BY <1>0, <1>3, <2>1, ApiKeeps DEF DeleteDomain, DeleteMailboxes, DeleteMessages
<1>4. ASSUME NEW a \in Address, ApiCreateMailbox(a) PROVE MailInv'
  <2>1. lastId["mailbox"] + 1 \in Nat /\ domains[DomainOf[a]].id \in Nat
    BY <1>0, AddressAssumption DEF DomainRow
  <2>2. [id |-> lastId["mailbox"] + 1, address |-> a, domain |-> domains[DomainOf[a]].id]
          \in MailboxRow
    BY <2>1 DEF MailboxRow
  <2>3. mailboxes' \subseteq MailboxRow
    BY <1>0, <1>4, <2>2 DEF ApiCreateMailbox
  <2>4. /\ lastId' \in [{"domain", "mailbox", "message", "mail"} -> Nat]
        /\ lastId'["mail"] = lastId["mail"] /\ lastId'["message"] = lastId["message"]
    BY <1>0, <1>4, <2>1 DEF ApiCreateMailbox
  <2> QED BY <1>0, <1>4, <2>3, <2>4, ApiKeeps DEF ApiCreateMailbox
<1>5. ASSUME NEW b \in mailboxes, DeleteMailbox(b) PROVE MailInv'
  BY <1>0, <1>5, ApiKeeps DEF DeleteMailbox, DeleteMailboxes, DeleteMessages
<1>6. ASSUME NEW m \in messages, DeleteMessage(m) PROVE MailInv'
  BY <1>0, <1>6, ApiKeeps DEF DeleteMessage, DeleteMessages
<1> QED BY <1>1, <1>2, <1>3, <1>4, <1>5, <1>6 DEF Api

(* Every step of sessions, API requests and faults keeps the invariant.    *)
LEMMA MailStep == MailInv /\ [Next]_vars => MailInv'
<1> SUFFICES ASSUME MailInv, [Next]_vars PROVE MailInv'
  OBVIOUS
<1>1. ASSUME NEW s \in Session, Mail(s) \/ Reset(s) \/ \E to \in Address : Rcpt(s, to)
      PROVE  MailInv'
  BY <1>1, CommandKeeps
<1>2. ASSUME NEW s \in Session, NEW e \in Email, Data(s, e) PROVE MailInv'
  BY <1>2, DataKeeps
<1>3. ASSUME NEW s \in Session, Process(s) PROVE MailInv'
  BY <1>3, QuietKeeps, SaveKeeps, CommitKeeps, CommitUnansweredKeeps, NotifyKeeps, DataDoneKeeps
     DEF Process, DbError, QuietStep
<1>4. CASE Crash
  <2>1. session' = [s \in Session |-> IF s \in Session THEN Blank ELSE session[s]]
    BY <1>4 DEF Crash
  <2>2. Dropped
    BY <1>4, <2>1 DEF Crash, Dropped
  <2> QED BY <2>2, CommandKeeps
<1>5. CASE Api
  BY <1>5, ApiStepKeeps
<1>6. CASE UNCHANGED vars
  <2>1. UNCHANGED <<dbVars, files, history, session>>
    BY <1>6 DEF vars
  <2>2. session' \in [Session -> SessionState]
    BY <2>1 DEF MailInv, TypeOK
  <2> QED BY <2>1, <2>2, IdleKeeps
<1> QED BY <1>1, <1>2, <1>3, <1>4, <1>5, <1>6 DEF Next

(* Empty tables and blank sessions.                                        *)
LEMMA MailInit == Init => MailInv
<1> SUFFICES ASSUME Init PROVE MailInv
  OBVIOUS
<1>1. /\ session = [s \in Session |-> Blank] /\ session \in [Session -> SessionState]
      /\ \A s \in Session : session[s] = Blank /\ ~Busy(s)
  BY BlankType DEF Init, Busy
<1>2. Len(Blank.rcpts) = 0 /\ Blank.email \in Email /\ Attachments[Blank.email] \in Nat
  BY BlankType, EmptySeq, EmailAssumption DEF SessionState
<1>3. TypeOK
  <2>1. Blank.idx <= Len(Blank.rcpts) + 1 /\ Blank.att <= Attachments[Blank.email]
    BY <1>2, BlankType
  <2>2. domains \in [Domain -> DomainRow]
    BY DEF Init, NoDomain, DomainRow
  <2>3. files \in Seq({"full", "short"})
    BY EmptySeq DEF Init
  <2> QED BY <1>1, <2>1, <2>2, <2>3 DEF Init, TypeOK
<1>4. ControlInv
  BY <1>1, BlankType DEF ControlInv
<1>5. FileInv
  <2>1. \A s \in Session : Saved(s) = {} /\ Unused(s) = {}
    BY <1>1, BlankType DEF Saved, Unused, Elements
  <2> QED BY <2>1 DEF Init, FileInv, AttachmentHasFile, FilesNotShared
<1>6. MessageInv
  BY <1>1, BlankType
     DEF Init, MessageInv, OwnMail, IdsUsed, StoredSoFar, NotifiedIsStored, CompletedIsOver,
         AtMostOnce, AnnouncedAsStored
<1> QED BY <1>3, <1>4, <1>5, <1>6 DEF MailInv

(* The invariant holds in every reachable state.                           *)
LEMMA MailInvariant == Spec => []MailInv
BY MailInit, MailStep, PTL DEF Spec

-----------------------------------------------------------------------------
(* Type correctness of the tables, the files and the sessions.             *)
THEOREM TypeCorrect == Spec => []TypeOK
<1>1. MailInv => TypeOK
  BY DEF MailInv
<1> QED BY <1>1, MailInvariant, PTL

(* No attachment row without its file (session.go:199-224), whichever      *)
(* statement or save fails and wherever the process stops.                 *)
THEOREM AttachmentHasFileTheorem == Spec => []AttachmentHasFile
<1>1. MailInv => AttachmentHasFile
  BY DEF MailInv, FileInv
<1> QED BY <1>1, MailInvariant, PTL

(* No two messages share an attachment file (session.go:143, 200), with    *)
(* any number of sessions saving files at a time.                          *)
THEOREM FilesNotSharedTheorem == Spec => []FilesNotShared
<1>1. MailInv => FilesNotShared
  BY DEF MailInv, FileInv
<1> QED BY <1>1, MailInvariant, PTL

(* A mail is stored at most once for each RCPT (session.go:143-152).       *)
THEOREM AtMostOnceTheorem == Spec => []AtMostOnce
<1>1. MailInv => AtMostOnce
  BY DEF MailInv, MessageInv
<1> QED BY <1>1, MailInvariant, PTL

(* Subscribers hear of stored messages only, under their mailbox, and once *)
(* the mail is answered of every one whose transaction was not reported as *)
(* failed (session.go:222-235).                                            *)
THEOREM AnnouncedAsStoredTheorem == Spec => []AnnouncedAsStored
<1>1. MailInv => AnnouncedAsStored
  BY DEF MailInv, MessageInv
<1> QED BY <1>1, MailInvariant, PTL

=============================================================================
