---------------------------- MODULE MailDelivery ----------------------------
(***************************************************************************)
(* The mail path: SMTP sessions (internal/smtp/session.go) that accept     *)
(* recipients and store mail through the repositories and the attachment   *)
(* storage, while API requests create, rename, deactivate and delete       *)
(* domains, mailboxes and messages under them.                             *)
(*                                                                         *)
(* Every database statement and every file save is one step, so that       *)
(* sessions and API requests interleave between any two of them.  Tables   *)
(* are sets of rows whose ids are never used again; a foreign key makes an *)
(* insert fail and ON DELETE CASCADE removes dependent rows.  Read flags   *)
(* and access times are left out: no other step looks at them.             *)
(***************************************************************************)
EXTENDS Integers, Sequences, FiniteSets

CONSTANTS
  Session,        \* SMTP connections
  Domain,         \* domain names, lower case
  Address,        \* recipient addresses as a client spells them
  Lower,          \* [Address -> Address]: what parseEmailAddress makes of one
  DomainOf,       \* [Address -> Domain]
  Email,          \* contents that may be sent
  Attachments,    \* [Email -> Nat]: how many attachments each has
  AutoProvision,  \* AUTO_PROVISIONING_ENABLED
  Disturbances,   \* which of "db", "disk", "crash" errors happen, and whether
                  \* "api" requests take away what sessions work with
  MaxMail,        \* bound of the model: DATA commands
  MaxRcpt,        \* MaxRecipients of the SMTP server
  MaxApiRows      \* bound of the model: rows the API creates

ASSUME AddressAssumption ==
  /\ Lower \in [Address -> Address]
  /\ \A a \in Address : Lower[Lower[a]] = Lower[a]
  /\ DomainOf \in [Address -> Domain]
  /\ \A a \in Address : DomainOf[Lower[a]] = DomainOf[a]
ASSUME EmailAssumption == Email # {} /\ Attachments \in [Email -> Nat]
ASSUME ConfigAssumption ==
  /\ AutoProvision \in BOOLEAN
  /\ Disturbances \subseteq {"db", "disk", "crash", "api"}
  /\ MaxMail \in Nat /\ MaxRcpt \in Nat \ {0} /\ MaxApiRows \in Nat

VARIABLES
  domains,      \* table domains: the row of every name, id 0 when absent
  mailboxes,    \* table mailboxes
  messages,     \* table messages
  attachments,  \* table attachments
  lastId,       \* the last id of each table
  files,        \* attachment storage: contents of every file ever saved
  session,      \* the SMTP sessions
  announced,    \* history: BroadcastNewMessage calls
  completed,    \* history: DATA commands that returned nil, with their recipients
  unanswered    \* history: messages whose COMMIT took effect and was not answered

dbVars == <<domains, mailboxes, messages, attachments, lastId>>
history == <<announced, completed, unanswered>>
vars == <<dbVars, files, session, history>>

-----------------------------------------------------------------------------
DomainRow == [id : Nat, active : BOOLEAN]
MailboxRow == [id : Nat, address : Address, domain : Nat]
MessageRow == [id : Nat, mailbox : Nat, mail : Nat, rcpt : Nat]
AttachmentRow == [message : Nat, file : Nat, size : {"full"}]
NoDomain == [id |-> 0, active |-> FALSE]

Control == {"command", "domain", "find", "create", "refetch", "save", "commit",
            "notify"}

(* Session, with the locals of Data and processEmail while they run: the   *)
(* mail and its recipients, the one being processed, what was looked up    *)
(* for it, the next attachment, the files saved, the attachment readers    *)
(* that are no longer at their start, the stored message.                  *)
SessionState ==
  [pc : Control, from : BOOLEAN, rcpts : Seq(Address), mail : Nat, email : Email,
   idx : Nat, domain : Nat, mailbox : Nat, att : Nat, saved : Seq(Nat),
   drained : SUBSET Nat, message : Nat]

\* NewSession and Reset.
Blank ==
  [pc |-> "command", from |-> FALSE, rcpts |-> <<>>, mail |-> 0,
   email |-> CHOOSE e \in Email : TRUE, idx |-> 0, domain |-> 0, mailbox |-> 0,
   att |-> 0, saved |-> <<>>, drained |-> {}, message |-> 0]

TypeOK ==
  /\ domains \in [Domain -> DomainRow]
  /\ mailboxes \subseteq MailboxRow
  /\ messages \subseteq MessageRow
  /\ attachments \subseteq AttachmentRow
  /\ lastId \in [{"domain", "mailbox", "message", "mail"} -> Nat]
  /\ files \in Seq({"full", "short"})
  /\ session \in [Session -> SessionState]
  /\ \A s \in Session : /\ session[s].idx <= Len(session[s].rcpts) + 1
                        /\ session[s].att <= Attachments[session[s].email]
  /\ announced \subseteq [mailbox : Nat, message : Nat]
  /\ completed \subseteq [mail : Nat, rcpts : Seq(Address)]
  /\ unanswered \subseteq Nat

Init ==
  /\ domains = [d \in Domain |-> NoDomain]
  /\ mailboxes = {} /\ messages = {} /\ attachments = {}
  /\ lastId = [t \in {"domain", "mailbox", "message", "mail"} |-> 0]
  /\ files = <<>>
  /\ session = [s \in Session |-> Blank]
  /\ announced = {} /\ completed = {} /\ unanswered = {}

-----------------------------------------------------------------------------
(* What the repositories read.                                             *)
GetByName(d) == domains[d]
GetByAddress(a) == {b \in mailboxes : b.address = a}
DomainIds == {domains[d].id : d \in Domain} \ {0}
MailboxIds == {b.id : b \in mailboxes}

\* DELETE with the cascades of the schema: messages, then their attachments.
DeleteMessages(gone) ==
  /\ messages' = messages \ gone
  /\ attachments' = {a \in attachments : a.message \notin {m.id : m \in gone}}

DeleteMailboxes(gone) ==
  /\ mailboxes' = mailboxes \ gone
  /\ DeleteMessages({m \in messages : m.mailbox \in {b.id : b \in gone}})

-----------------------------------------------------------------------------
(* SMTP commands.  go-smtp lets RCPT follow MAIL only, and no command run  *)
(* while DATA does.                                                        *)
Mail(s) ==
  /\ session[s].pc = "command"
  /\ session' = [session EXCEPT ![s].from = TRUE]
  /\ UNCHANGED <<dbVars, files, history>>

(* An accepted RCPT; every other outcome (550, 451, 452) changes nothing.  *)
(* The mailbox is looked up under the address as spelled, not lower-cased. *)
Rcpt(s, to) ==
  /\ session[s].pc = "command"
  /\ session[s].from
  /\ Len(session[s].rcpts) < MaxRcpt
  /\ GetByName(DomainOf[to]).id # 0
  /\ GetByName(DomainOf[to]).active
  /\ AutoProvision \/ GetByAddress(to) # {}
  /\ session' = [session EXCEPT ![s].rcpts = Append(@, to)]
  /\ UNCHANGED <<dbVars, files, history>>

(* RSET, and a DATA whose content ParseEmail refuses (550): Data returns   *)
(* and go-smtp resets.  A DATA without recipients (503) changes nothing.   *)
Reset(s) ==
  /\ session[s].pc = "command"
  /\ session' = [session EXCEPT ![s] = Blank]
  /\ UNCHANGED <<dbVars, files, history>>

Data(s, e) ==
  /\ session[s].pc = "command"
  /\ session[s].rcpts # <<>>
  /\ lastId["mail"] < MaxMail
  /\ lastId' = [lastId EXCEPT !["mail"] = @ + 1]
  /\ session' = [session EXCEPT ![s].pc = "domain", ![s].idx = 1, ![s].email = e,
                                ![s].mail = lastId["mail"] + 1]
  /\ UNCHANGED <<domains, mailboxes, messages, attachments, files, history>>

-----------------------------------------------------------------------------
(* processEmail, for recipient idx.                                        *)
Recipient(s) == Lower[session[s].rcpts[session[s].idx]]
AtRecipient(s, pc) == session[s].pc = pc /\ session[s].idx <= Len(session[s].rcpts)

\* Fault: the list of saved attachments is declared outside the loop.
NextRecipientKeepsSaved(s) ==
  session' = [session EXCEPT ![s] =
    [session[s] EXCEPT !.pc = "domain", !.idx = session[s].idx + 1, !.domain = 0, !.mailbox = 0,
                       !.att = 0, !.message = 0]]

(* processEmail returns, with or without an error, and the loop in Data    *)
(* goes on.  The attachment readers are those of the one ParsedEmail.      *)
NextRecipient(s) ==
  session' = [session EXCEPT ![s] =
    [session[s] EXCEPT !.pc = "domain", !.idx = session[s].idx + 1, !.domain = 0, !.mailbox = 0,
                       !.att = 0, !.saved = <<>>, !.message = 0]]

\* An error at any statement, which then did nothing, ends the work for this recipient.
StatementFails(s) ==
  /\ session[s].pc \in {"find", "create", "refetch", "commit"} \/ AtRecipient(s, "domain")
  /\ NextRecipient(s)
  /\ UNCHANGED <<dbVars, files, history>>

DbError(s) == "db" \in Disturbances /\ StatementFails(s)

LookupDomain(s) ==
  /\ AtRecipient(s, "domain")
  /\ LET d == GetByName(DomainOf[Recipient(s)])
     IN \/ /\ d.id # 0
           /\ session' = [session EXCEPT ![s].pc = "find", ![s].domain = d.id]
        \/ d.id = 0 /\ NextRecipient(s)
  /\ UNCHANGED <<dbVars, files, history>>

\* GetOrCreate: the first GetByAddress.
FindMailbox(s) ==
  /\ session[s].pc = "find"
  /\ \/ \E b \in GetByAddress(Recipient(s)) :
          session' = [session EXCEPT ![s].pc = "save", ![s].mailbox = b.id]
     \/ /\ GetByAddress(Recipient(s)) = {}
        /\ session' = [session EXCEPT ![s].pc = "create"]
  /\ UNCHANGED <<dbVars, files, history>>

InsertMailbox(s) ==
  LET id == lastId["mailbox"] + 1
  IN  /\ mailboxes' = mailboxes \cup
           {[id |-> id, address |-> Recipient(s), domain |-> session[s].domain]}
      /\ lastId' = [lastId EXCEPT !["mailbox"] = id]

\* GetOrCreate: Create, refused by the unique index or by the foreign key.
CreateMailbox(s) ==
  /\ session[s].pc = "create"
  /\ \/ /\ GetByAddress(Recipient(s)) # {}
        /\ session' = [session EXCEPT ![s].pc = "refetch"]
        /\ UNCHANGED <<mailboxes, lastId>>
     \/ /\ GetByAddress(Recipient(s)) = {}
        /\ session[s].domain \notin DomainIds
        /\ NextRecipient(s)
        /\ UNCHANGED <<mailboxes, lastId>>
     \/ /\ GetByAddress(Recipient(s)) = {}
        /\ session[s].domain \in DomainIds
        /\ InsertMailbox(s)
        /\ session' = [session EXCEPT ![s].pc = "save", ![s].mailbox = lastId["mailbox"] + 1]
  /\ UNCHANGED <<domains, messages, attachments, files, history>>

\* The row is inserted and the connection to the database lost before the answer.
CreateUnanswered(s) ==
  /\ "db" \in Disturbances
  /\ session[s].pc = "create"
  /\ GetByAddress(Recipient(s)) = {}
  /\ session[s].domain \in DomainIds
  /\ InsertMailbox(s)
  /\ NextRecipient(s)
  /\ UNCHANGED <<domains, messages, attachments, files, history>>

\* GetOrCreate: the GetByAddress after ErrDuplicateEntry.
RefetchMailbox(s) ==
  /\ session[s].pc = "refetch"
  /\ \/ \E b \in GetByAddress(Recipient(s)) :
          session' = [session EXCEPT ![s].pc = "save", ![s].mailbox = b.id]
     \/ GetByAddress(Recipient(s)) = {} /\ NextRecipient(s)
  /\ UNCHANGED <<dbVars, files, history>>

\* ParseEmail: the attachments of a mail, each with a reader of its own.
ParsedAttachments(e) == 1..Attachments[e]
NextAttachment(s) == session[s].att + 1
AttachmentLeft(s) == NextAttachment(s) \in ParsedAttachments(session[s].email)

\* fileStorage.Save copies what is left in the attachment's reader.
SaveAttachment(s) ==
  /\ session[s].pc = "save"
  /\ AttachmentLeft(s)
  /\ LET k == NextAttachment(s)
     IN  /\ files' = Append(files, IF k \in session[s].drained THEN "short" ELSE "full")
         /\ session' = [session EXCEPT ![s].att = k,
                                       ![s].saved = Append(@, Len(files) + 1),
                                       ![s].drained = @ \cup {k}]
  /\ UNCHANGED <<dbVars, history>>

\* Fault: the attachment of a failed Save is listed all the same.
SaveFailsNoContinue(s) ==
  /\ "disk" \in Disturbances
  /\ session[s].pc = "save"
  /\ AttachmentLeft(s)
  /\ session' = [session EXCEPT ![s].att = @ + 1, ![s].saved = Append(@, Len(files) + 1)]
  /\ UNCHANGED <<dbVars, files, history>>

\* Fault: one attachment too many is tried.
SaveFailsOffByOne(s) ==
  /\ "disk" \in Disturbances
  /\ session[s].pc = "save"
  /\ session[s].att <= Attachments[session[s].email]
  /\ session' = [session EXCEPT ![s].att = @ + 1]
  /\ UNCHANGED <<dbVars, files, history>>

\* A failed Save leaves no file; whether it had read anything depends on when.
SaveFails(s) ==
  /\ "disk" \in Disturbances
  /\ session[s].pc = "save"
  /\ AttachmentLeft(s)
  /\ \E read \in SUBSET {NextAttachment(s)} :
       session' = [session EXCEPT ![s].att = @ + 1, ![s].drained = @ \cup read]
  /\ UNCHANGED <<dbVars, files, history>>

\* Fault: the message waits for the attachments that could not be saved.
SavesDoneWaits(s) ==
  /\ session[s].pc = "save"
  /\ Len(session[s].saved) = Attachments[session[s].email]
  /\ session' = [session EXCEPT ![s].pc = "commit"]
  /\ UNCHANGED <<dbVars, files, history>>

SavesDone(s) ==
  /\ session[s].pc = "save"
  /\ ~AttachmentLeft(s)
  /\ session' = [session EXCEPT ![s].pc = "commit"]
  /\ UNCHANGED <<dbVars, files, history>>

\* Fault: the transaction is repeated although it went through.
CommitRepeated(s) ==
  /\ session[s].pc = "commit"
  /\ session[s].mailbox \in MailboxIds
  /\ LET id == lastId["message"] + 1
     IN  /\ messages' = messages \cup
              {[id |-> id, mailbox |-> session[s].mailbox,
                mail |-> session[s].mail, rcpt |-> session[s].idx]}
         /\ lastId' = [lastId EXCEPT !["message"] = id]
         /\ session' = [session EXCEPT ![s].message = id,
              ![s].pc = IF session[s].message = 0 THEN "commit" ELSE "notify"]
  /\ UNCHANGED <<domains, mailboxes, attachments, files, history>>

(* CreateWithAttachments: message and attachment rows in one transaction,  *)
(* refused when the mailbox is gone.                                       *)
InsertMessage(s) ==
  /\ session[s].pc = "commit"
  /\ session[s].mailbox \in MailboxIds
  /\ LET id == lastId["message"] + 1
     IN  /\ messages' = messages \cup
              {[id |-> id, mailbox |-> session[s].mailbox,
                mail |-> session[s].mail, rcpt |-> session[s].idx]}
         /\ attachments' = attachments \cup
              {[message |-> id, file |-> session[s].saved[i], size |-> "full"] :
                 i \in 1..Len(session[s].saved)}
         /\ lastId' = [lastId EXCEPT !["message"] = id]
  /\ UNCHANGED <<domains, mailboxes, files, announced, completed>>

Commit(s) ==
  /\ InsertMessage(s)
  /\ session' = [session EXCEPT ![s].pc = "notify", ![s].message = lastId["message"] + 1]
  /\ UNCHANGED unanswered

(* COMMIT takes effect and the connection to the database is lost before   *)
(* the answer: processEmail returns the error and announces nothing.       *)
CommitUnanswered(s) ==
  /\ "db" \in Disturbances
  /\ InsertMessage(s)
  /\ NextRecipient(s)
  /\ unanswered' = unanswered \cup {lastId["message"] + 1}

\* Fault: the error of CreateWithAttachments is not checked.
CommitErrorIgnored(s) ==
  /\ session[s].pc = "commit"
  /\ session[s].mailbox \notin MailboxIds
  /\ session' = [session EXCEPT ![s].pc = "notify"]
  /\ UNCHANGED <<dbVars, files, history>>

CommitFails(s) ==
  /\ session[s].pc = "commit"
  /\ session[s].mailbox \notin MailboxIds
  /\ NextRecipient(s)
  /\ UNCHANGED <<dbVars, files, history>>

Notify(s) ==
  /\ session[s].pc = "notify"
  /\ announced' = announced \cup {[mailbox |-> session[s].mailbox, message |-> session[s].message]}
  /\ NextRecipient(s)
  /\ UNCHANGED <<dbVars, files, completed, unanswered>>

\* Data returns nil whatever processEmail returned; go-smtp answers 250 and resets.
DataDone(s) ==
  /\ session[s].pc = "domain"
  /\ session[s].idx > Len(session[s].rcpts)
  /\ completed' = completed \cup {[mail |-> session[s].mail, rcpts |-> session[s].rcpts]}
  /\ session' = [session EXCEPT ![s] = Blank]
  /\ UNCHANGED <<dbVars, files, announced, unanswered>>

Process(s) ==
  \/ DbError(s) \/ LookupDomain(s) \/ FindMailbox(s) \/ CreateMailbox(s)
  \/ CreateUnanswered(s) \/ RefetchMailbox(s) \/ SaveAttachment(s) \/ SaveFails(s)
  \/ SavesDone(s) \/ Commit(s) \/ CommitUnanswered(s) \/ CommitFails(s) \/ Notify(s)
  \/ DataDone(s)

\* The process ends and restarts: sessions are lost, rows and files are not.
Crash ==
  /\ "crash" \in Disturbances
  /\ \E s \in Session : session[s].pc # "command"
  /\ session' = [s \in Session |-> Blank]
  /\ UNCHANGED <<dbVars, files, history>>

-----------------------------------------------------------------------------
(* API requests.  A handler that reads a row and then writes is one step.  *)
CreateDomain(d) ==
  /\ domains[d].id = 0
  /\ lastId["domain"] < MaxApiRows
  /\ lastId' = [lastId EXCEPT !["domain"] = @ + 1]
  /\ domains' = [domains EXCEPT ![d] = [id |-> lastId["domain"] + 1, active |-> FALSE]]
  /\ UNCHANGED <<mailboxes, messages, attachments, files, session, history>>

(* PUT /api/domains/:id sets the name and the active flag; the addresses   *)
(* of the domain's mailboxes stay as they are.                             *)
UpdateDomain(d, name, active) ==
  /\ domains[d].id # 0
  /\ name = d \/ domains[name].id = 0
  /\ <<name, active>> # <<d, domains[d].active>>
  /\ "api" \in Disturbances \/ (name = d /\ active)
  /\ domains' = [domains EXCEPT ![d] = NoDomain,
                                ![name] = [id |-> domains[d].id, active |-> active]]
  /\ UNCHANGED <<mailboxes, messages, attachments, lastId, files, session, history>>

DeleteDomain(d) ==
  /\ "api" \in Disturbances
  /\ domains[d].id # 0
  /\ domains' = [domains EXCEPT ![d] = NoDomain]
  /\ DeleteMailboxes({b \in mailboxes : b.domain = domains[d].id})
  /\ UNCHANGED <<lastId, files, session, history>>

\* POST /api/mailboxes keeps the local part as spelled.
ApiCreateMailbox(a) ==
  /\ lastId["mailbox"] < MaxApiRows
  /\ domains[DomainOf[a]].active
  /\ GetByAddress(a) = {}
  /\ lastId' = [lastId EXCEPT !["mailbox"] = @ + 1]
  /\ mailboxes' = mailboxes \cup
       {[id |-> lastId["mailbox"] + 1, address |-> a, domain |-> domains[DomainOf[a]].id]}
  /\ UNCHANGED <<domains, messages, attachments, files, session, history>>

DeleteMailbox(b) ==
  /\ "api" \in Disturbances
  /\ DeleteMailboxes({b})
  /\ UNCHANGED <<domains, lastId, files, session, history>>

DeleteMessage(m) ==
  /\ "api" \in Disturbances
  /\ DeleteMessages({m})
  /\ UNCHANGED <<domains, mailboxes, lastId, files, session, history>>

Api ==
  \/ \E d \in Domain : \/ CreateDomain(d) \/ DeleteDomain(d)
                       \/ \E name \in Domain, active \in BOOLEAN : UpdateDomain(d, name, active)
  \/ \E a \in Address : ApiCreateMailbox(a)
  \/ \E b \in mailboxes : DeleteMailbox(b)
  \/ \E m \in messages : DeleteMessage(m)

Next ==
  \/ \E s \in Session :
       \/ Mail(s) \/ Reset(s)
       \/ \E to \in Address : Rcpt(s, to)
       \/ \E e \in Email : Data(s, e)
       \/ Process(s)
  \/ Crash
  \/ Api

Spec == Init /\ [][Next]_vars

(* A session's goroutine keeps running while it handles DATA; clients, API *)
(* users and faults owe nothing.                                           *)
FairSpec == Spec /\ \A s \in Session : WF_vars(Process(s))

-----------------------------------------------------------------------------
(* No attachment row without its file: files are saved before the rows and *)
(* a failed save adds no row (session.go:199-224), also when the process   *)
(* stops in between.                                                       *)
AttachmentHasFile == \A a \in attachments : a.file \in 1..Len(files)

(* No two messages share an attachment file, although all recipients of a  *)
(* mail are served from one ParsedEmail (session.go:143, 200).             *)
FilesNotShared ==
  \A a, b \in attachments : a.file = b.file => a.message = b.message

(* A mail is stored at most once for each RCPT, whatever fails or is       *)
(* deleted meanwhile (session.go:143-152).                                 *)
AtMostOnce ==
  \A m, n \in messages : m.mail = n.mail /\ m.rcpt = n.rcpt => m = n

(* Subscribers hear of stored messages only, under the mailbox they are    *)
(* in, and once the mail is answered of every one whose transaction was    *)
(* not reported as failed (session.go:222-235).                            *)
AnnouncedAsStored ==
  /\ \A n \in announced :
       /\ n.message \in 1..lastId["message"]
       /\ \A m \in messages : m.id = n.message => m.mailbox = n.mailbox
  /\ \A t \in completed, m \in messages :
       m.mail = t.mail => \/ [mailbox |-> m.mailbox, message |-> m.id] \in announced
                          \/ m.id \in unanswered

\* The message stored for recipient i of mail t, in the mailbox of its address.
StoredFor(t, i) ==
  {m \in messages : /\ m.mail = t.mail /\ m.rcpt = i
                    /\ \E b \in GetByAddress(Lower[t.rcpts[i]]) : b.id = m.mailbox}

(* DATA is answered: no failed lookup, save or insert keeps the session    *)
(* busy for ever (session.go:113-162).                                     *)
DataIsAnswered ==
  \A s \in Session : session[s].pc # "command" ~> session[s].pc = "command"

(* docs/openapi.yaml:332: size_bytes is the size of the attachment, that   *)
(* is, of the file its download serves.                                    *)
SizeIsFileSize == \A a \in attachments : files[a.file] = a.size

=============================================================================
