---------------------------- MODULE ServerProofs ----------------------------
(***************************************************************************)
(* Proofs about the process, for any sessions, requests and mail.  The     *)
(* order of main's steps keeps the database open until the renewal loop    *)
(* has ended and until no session has a connection left; mail that was     *)
(* acknowledged is stored.                                                 *)
(***************************************************************************)
EXTENDS Server, MailDeliveryProofs, FiniteSetTheorems, TLAPS

\* Past wg.Wait the loop is off and nobody starts it; the database is open
\* until main has closed it.
ShutdownInv ==
  /\ main \in {"serving", "renewal"} \/ (loop = "off" /\ ~running)
  /\ main = "renewal" => ~running
  /\ dbOpen \/ main \in {"return", "gone"}

\* A step of mail sessions and HTTP requests leaves all of this alone.
LEMMA ElsewhereUnchanged ==
  ASSUME \/ ApiStep
         \/ \E r \in Request : RequestBegins(r) \/ RequestEnds(r)
         \/ \E s \in Session : Connect(s) \/ Disconnect(s) \/ Command(s) \/ Deliver(s) \/ Answer(s)
  PROVE  UNCHANGED <<main, dbOpen, running, loop>>
  BY DEF ApiStep, RequestBegins, RequestEnds, Connect, Disconnect, Command, Deliver,
         Answer, process

\* Each step of main, of the renewal loop and of the others keeps it.
LEMMA ShutdownStep == ShutdownInv /\ [ServerNext]_serverVars => ShutdownInv'
<1> SUFFICES ASSUME ShutdownInv, [ServerNext]_serverVars PROVE ShutdownInv'
  OBVIOUS
<1> USE DEF ShutdownInv
<1>1. CASE Boot
  BY <1>1 DEF Boot, Renewal!Start, Renewal!Off
<1>2. CASE Shutdown
  BY <1>2 DEF Shutdown, Renewal!Stop
<1>3. CASE ContextOver
  BY <1>3 DEF ContextOver
<1>4. CASE RenewalStopped
  BY <1>4 DEF RenewalStopped
<1>5. CASE HttpStopped
  BY <1>5 DEF HttpStopped
<1>6. CASE SmtpClose
  BY <1>6 DEF SmtpClose
<1>7. CASE DbClose
  BY <1>7 DEF DbClose
<1>8. CASE Return
  BY <1>8 DEF Return
<1>9. CASE RenewalLoop
  BY <1>9 DEF RenewalLoop, Renewal!CheckEnds, Renewal!Tick, Renewal!LoopEnds
<1>10. CASE UNCHANGED <<main, dbOpen, running, loop>>
  BY <1>10
<1> QED
  BY <1>1, <1>2, <1>3, <1>4, <1>5, <1>6, <1>7, <1>8, <1>9, <1>10, ElsewhereUnchanged
  DEF ServerNext, MainStep, serverVars, process

(* An orderly shutdown never takes the database away from a renewal, nor   *)
(* ends the process under it (main.go:306-325, cert_renewal.go:70-83).     *)
THEOREM RenewalNotCutTheorem == ServerSpec => []RenewalNotCut
<1>1. ServerInit => ShutdownInv
  BY DEF ServerInit, ShutdownInv
<1>2. ShutdownInv => RenewalNotCut
  BY DEF ShutdownInv, RenewalNotCut
<1> QED
  BY <1>1, <1>2, ShutdownStep, PTL DEF ServerSpec

-----------------------------------------------------------------------------
(* Whatever takes mail sessions and rows a step in the process takes them  *)
(* a step in MailDelivery, and a lost connection is a dropped session: the *)
(* invariant of the mail path holds in the process too.                    *)
LEMMA MailStepInServer == MailInv /\ [ServerNext]_serverVars => MailInv'
<1> SUFFICES ASSUME MailInv, [ServerNext]_serverVars PROVE MailInv'
  OBVIOUS
<1>1. CASE UNCHANGED vars
  BY <1>1, MailStep
<1>2. CASE ApiStep
  BY <1>2, ApiStepKeeps DEF ApiStep
<1>3. ASSUME NEW gone \in SUBSET Session, Closed(gone) PROVE MailInv'
  <2> DEFINE idle == {s \in gone : session[s].pc = "command"}
  <2>1. session' = [s \in Session |-> IF s \in idle THEN Blank ELSE session[s]]
    BY <1>3 DEF Closed
  <2>2. Dropped
    BY <1>3, <2>1 DEF Closed, Dropped
  <2> QED BY <2>2, CommandKeeps
<1>4. CASE Return
  <2>1. session' = [s \in Session |-> IF s \in Session THEN Blank ELSE session[s]]
    BY <1>4 DEF Return
  <2>2. Dropped
    BY <1>4, <2>1 DEF Return, Dropped
  <2> QED BY <2>2, CommandKeeps
<1>5. ASSUME NEW s \in Session, Command(s) PROVE MailInv'
  BY <1>5, CommandKeeps, DataKeeps DEF Command
<1>6. ASSUME NEW s \in Session, Deliver(s) PROVE MailInv'
  BY <1>6, QuietKeeps, SaveKeeps, CommitKeeps, NotifyKeeps DEF Deliver, Statement, QuietStep
<1>7. ASSUME NEW s \in Session, Answer(s) PROVE MailInv'
  BY <1>7, DataDoneKeeps DEF Answer
<1>8. ASSUME NEW s \in Session, Disconnect(s) PROVE MailInv'
  BY <1>3, <1>8 DEF Disconnect
<1>9. CASE SmtpClose
  BY <1>3, <1>9 DEF SmtpClose
<1>10. ASSUME Boot \/ Shutdown \/ ContextOver \/ RenewalStopped \/ HttpStopped \/ DbClose
              \/ RenewalLoop \/ (\E r \in Request : RequestBegins(r) \/ RequestEnds(r))
              \/ (\E s \in Session : Connect(s))
       PROVE  UNCHANGED vars
  BY <1>10 DEF Boot, Shutdown, ContextOver, RenewalStopped, HttpStopped, DbClose, RenewalLoop,
               RequestBegins, RequestEnds, Connect
<1>11. CASE UNCHANGED serverVars
  BY <1>1, <1>11 DEF serverVars
<1> QED
  BY <1>1, <1>2, <1>4, <1>5, <1>6, <1>7, <1>8, <1>9, <1>10, <1>11 DEF ServerNext, MainStep

(* The steps of one session that leave the others and the process alone.   *)
LEMMA SessionLocal ==
  ASSUME MailInv, NEW s \in Session, Command(s) \/ Deliver(s) \/ Answer(s)
  PROVE  /\ \A t \in Session : t # s => session'[t] = session[t]
         /\ UNCHANGED process /\ UNCHANGED conn
         /\ conn[s] \/ Busy(s)
<1>1. session \in [Session -> SessionState]
  BY DEF MailInv, TypeOK
<1>2. \A t \in Session : t # s => session'[t] = session[t]
  <2>1. CASE Command(s)
    BY <1>1, <2>1 DEF Command, Mail, Reset, Rcpt, Data
  <2>2. CASE Deliver(s)
    BY <1>1, <2>2 DEF Deliver, Statement, LookupDomain, FindMailbox, CreateMailbox,
       RefetchMailbox, Commit, InsertMessage, CommitFails, StatementFails, SaveAttachment, SavesDone, Notify,
       NextRecipient
  <2>3. CASE Answer(s)
    BY <1>1, <2>3 DEF Answer, DataDone
  <2> QED BY <2>1, <2>2, <2>3
<1>3. UNCHANGED process /\ UNCHANGED conn
  BY DEF Command, Deliver, Answer
<1>4. conn[s] \/ Busy(s)
  BY DEF Command, Deliver, Answer, Statement, LookupDomain, FindMailbox, CreateMailbox,
     RefetchMailbox, Commit, InsertMessage, CommitFails, StatementFails, SaveAttachment, SavesDone, Notify,
     DataDone, AtRecipient, Busy
<1> QED BY <1>2, <1>3, <1>4

-----------------------------------------------------------------------------
ProcessInv == ShutdownInv /\ MailInv /\ ServerTypeOK

(* Each step keeps what the shutdown leaves for the next: connections are  *)
(* closed before the database, and nothing starts once main has returned.  *)
LEMMA ProcessStep == ProcessInv /\ [ServerNext]_serverVars => ProcessInv'
<1> SUFFICES ASSUME ProcessInv, [ServerNext]_serverVars PROVE ServerTypeOK'
  BY ShutdownStep, MailStepInServer DEF ProcessInv
<1>1. ServerTypeOK /\ ShutdownInv /\ MailInv
  BY DEF ProcessInv
<1> USE DEF ServerTypeOK, MainStates
<1>2. CASE Boot
  BY <1>1, <1>2 DEF Boot, Renewal!Start
<1>3. CASE Shutdown
  BY <1>1, <1>3 DEF Shutdown, Renewal!Stop
<1>4. CASE ContextOver
  BY <1>1, <1>4 DEF ContextOver, vars
<1>5. CASE RenewalStopped
  BY <1>1, <1>5 DEF RenewalStopped
<1>6. CASE HttpStopped
  BY <1>1, <1>6 DEF HttpStopped
<1>7. CASE SmtpClose
  <2>1. conn' \in [Session -> BOOLEAN] /\ \A s \in Session : ~conn'[s]
    BY <1>7 DEF SmtpClose, Closed
  <2> QED BY <1>1, <1>7, <2>1 DEF SmtpClose
<1>8. CASE DbClose
  BY <1>1, <1>8 DEF DbClose
<1>9. CASE Return
  BY <1>1, <1>9 DEF Return
<1>10. CASE RenewalLoop
  BY <1>1, <1>10 DEF RenewalLoop, Renewal!CheckEnds, Renewal!Tick, Renewal!LoopEnds, vars
<1>11. CASE ApiStep
  <2>1. UNCHANGED session
    BY <1>11 DEF ApiStep, Api, CreateDomain, DeleteDomain, UpdateDomain, ApiCreateMailbox,
                 DeleteMailbox, DeleteMessage
  <2> QED BY <1>1, <1>11, <2>1 DEF ApiStep, process
<1>12. ASSUME NEW r \in Request, RequestBegins(r) \/ RequestEnds(r) PROVE ServerTypeOK'
  BY <1>1, <1>12 DEF RequestBegins, RequestEnds, vars
<1>13. ASSUME NEW s \in Session, Connect(s) PROVE ServerTypeOK'
  BY <1>1, <1>13 DEF Connect, process
<1>14. ASSUME NEW s \in Session, Disconnect(s) PROVE ServerTypeOK'
  <2>1. conn' \in [Session -> BOOLEAN] /\ \A t \in Session : ~conn[t] => ~conn'[t]
    BY <1>1, <1>14 DEF Disconnect, Closed
  <2>2. main # "gone"
    BY <1>1, <1>14 DEF Disconnect
  <2> QED BY <1>1, <1>14, <2>1, <2>2 DEF Disconnect, process
<1>15. ASSUME NEW s \in Session, Command(s) \/ Deliver(s) \/ Answer(s) PROVE ServerTypeOK'
  <2>1. UNCHANGED process /\ UNCHANGED conn /\ (conn[s] \/ Busy(s))
    BY <1>1, <1>15, SessionLocal
  <2>2. main # "gone"
    BY <1>1, <2>1, BlankType DEF Busy
  <2> QED BY <1>1, <2>1, <2>2 DEF process
<1>16. CASE UNCHANGED serverVars
  BY <1>1, <1>16 DEF serverVars, process, vars
<1> QED
  BY <1>2, <1>3, <1>4, <1>5, <1>6, <1>7, <1>8, <1>9, <1>10, <1>11, <1>12, <1>13, <1>14, <1>15,
     <1>16 DEF ServerNext, MainStep

(* The process before its first start.                                     *)
LEMMA ProcessInit == ServerInit => ProcessInv
<1>1. ServerInit => ShutdownInv /\ MailInv
  BY MailInit DEF ServerInit, ShutdownInv
<1>2. ServerInit => ServerTypeOK
  BY DEF ServerInit, ServerTypeOK, MainStates, Init
<1> QED BY <1>1, <1>2 DEF ProcessInv

(* The steps of main leave what the next one relies on (main.go:303-325):  *)
(* no session has its connection when the database is closed, the renewal  *)
(* service is running only while the server serves, and when main has      *)
(* returned no session and no request is left.                             *)
THEOREM ServerTypeCorrect == ServerSpec => []ServerTypeOK
<1>1. ProcessInv => ServerTypeOK
  BY DEF ProcessInv
<1> QED BY <1>1, ProcessInit, ProcessStep, PTL DEF ServerSpec

-----------------------------------------------------------------------------
(* Why acknowledged mail is stored, as long as no API request takes rows   *)
(* away: what a session has found is still there when it goes on, so it    *)
(* gives up on a recipient only when the database is closed, and then its  *)
(* connection is closed as well.                                           *)
Undelivered(s) ==
  conn[s] /\ Busy(s) /\ \E i \in 1..Len(session[s].rcpts) :
    /\ i < session[s].idx \/ (session[s].pc = "notify" /\ i = session[s].idx)
    /\ StoredFor(session[s], i) = {}

SessionDelivers(s) ==
  /\ \A i \in 1..Len(session[s].rcpts) : domains[DomainOf[session[s].rcpts[i]]].id # 0
  /\ session[s].pc \in {"find", "create"} => session[s].domain \in DomainIds
  /\ session[s].pc = "refetch" => GetByAddress(Recipient(s)) # {}
  /\ session[s].pc \in {"save", "commit", "notify"} =>
       \E b \in GetByAddress(Recipient(s)) : b.id = session[s].mailbox
  /\ ~Undelivered(s)

AckedStored ==
  \A t \in acked : t \in completed /\ \A i \in 1..Len(t.rcpts) : StoredFor(t, i) # {}

DeliveryInv == AckedStored /\ \A s \in Session : SessionDelivers(s)

\* No row is taken away.
Grows ==
  /\ messages \subseteq messages' /\ mailboxes \subseteq mailboxes'
  /\ \A d \in Domain : domains[d].id # 0 => domains'[d].id = domains[d].id

(* Without deletions, renames and deactivations, rows stay.                *)
LEMMA TablesGrow ==
  ASSUME "api" \notin Disturbances, MailInv, [ServerNext]_serverVars
  PROVE  Grows
<1>1. domains \in [Domain -> DomainRow]
  BY DEF MailInv, TypeOK
<1>2. CASE UNCHANGED <<domains, mailboxes, messages>>
  BY <1>2 DEF Grows
<1>3. CASE ApiStep
  <2>1. ASSUME NEW d \in Domain, CreateDomain(d) PROVE Grows
    BY <1>1, <2>1 DEF CreateDomain, Grows
  <2>2. ASSUME NEW d \in Domain, NEW name \in Domain, NEW active \in BOOLEAN,
               UpdateDomain(d, name, active)
        PROVE  Grows
    <3>1. name = d /\ domains' = [domains EXCEPT ![d] = [id |-> domains[d].id, active |-> active]]
      BY <1>1, <2>2 DEF UpdateDomain
    <3> QED BY <1>1, <2>2, <3>1 DEF UpdateDomain, Grows
  <2>3. ASSUME NEW a \in Address, ApiCreateMailbox(a) PROVE Grows
    BY <2>3 DEF ApiCreateMailbox, Grows
  <2> QED BY <1>3, <2>1, <2>2, <2>3 DEF ApiStep, Api, DeleteDomain, DeleteMailbox, DeleteMessage
<1>4. ASSUME NEW s \in Session, Deliver(s) PROVE Grows
  BY <1>4 DEF Grows, Deliver, Statement, LookupDomain, FindMailbox, CreateMailbox, InsertMailbox,
     RefetchMailbox, Commit, InsertMessage, CommitFails, StatementFails, SaveAttachment, SavesDone, Notify, dbVars
<1>5. ASSUME NEW s \in Session, Command(s) \/ Answer(s) \/ Disconnect(s) \/ Connect(s)
      PROVE  UNCHANGED <<domains, mailboxes, messages>>
  BY <1>5 DEF Command, Mail, Reset, Rcpt, Data, Answer, DataDone, Disconnect, Closed, Connect,
     vars, dbVars
<1>6. ASSUME Boot \/ Shutdown \/ ContextOver \/ MainStep \/ RenewalLoop
             \/ (\E r \in Request : RequestBegins(r) \/ RequestEnds(r))
      PROVE  UNCHANGED <<domains, mailboxes, messages>>
  BY <1>6 DEF Boot, Shutdown, ContextOver, MainStep, RenewalStopped, HttpStopped, SmtpClose,
     DbClose, Return, RenewalLoop, RequestBegins, RequestEnds, Closed, vars, dbVars
<1>7. CASE UNCHANGED serverVars
  BY <1>2, <1>7 DEF serverVars, vars, dbVars
<1> QED
  BY <1>2, <1>3, <1>4, <1>5, <1>6, <1>7 DEF ServerNext

(* What is there stays there.                                              *)
LEMMA GrowsKeeps ==
  ASSUME TypeOK, Grows
  PROVE  /\ DomainIds \subseteq DomainIds'
         /\ \A a : GetByAddress(a) \subseteq GetByAddress(a)'
         /\ \A t, i : StoredFor(t, i) \subseteq StoredFor(t, i)'
<1>1. DomainIds \subseteq DomainIds'
  BY DEF Grows, DomainIds
<1>2. \A a : GetByAddress(a) \subseteq GetByAddress(a)'
  BY DEF Grows, GetByAddress
<1>3. \A t, i : StoredFor(t, i) \subseteq StoredFor(t, i)'
  BY <1>2 DEF Grows, StoredFor
<1> QED BY <1>1, <1>2, <1>3

(* A session that does nothing meanwhile.                                  *)
LEMMA IdleDelivers ==
  ASSUME MailInv, Grows, NEW s \in Session, SessionDelivers(s), session'[s] = session[s],
         conn'[s] => conn[s] \/ ~Busy(s)
  PROVE  SessionDelivers(s)'
<1>1. /\ DomainIds \subseteq DomainIds'
      /\ \A a : GetByAddress(a) \subseteq GetByAddress(a)'
      /\ \A t, i : StoredFor(t, i) \subseteq StoredFor(t, i)'
  BY GrowsKeeps DEF MailInv
<1>2. \A i \in 1..Len(session[s].rcpts) : domains'[DomainOf[session[s].rcpts[i]]].id # 0
  <2>1. \A i \in 1..Len(session[s].rcpts) : session[s].rcpts[i] \in Address
    BY ElementOfSeq DEF MailInv, TypeOK, SessionState
  <2> QED BY <2>1, AddressAssumption DEF SessionDelivers, Grows
<1>3. Recipient(s)' = Recipient(s)
  BY DEF Recipient
<1>4. ~Undelivered(s)'
  BY <1>1 DEF SessionDelivers, Undelivered, Busy
<1> QED BY <1>1, <1>2, <1>3, <1>4 DEF SessionDelivers

(* A session that goes on with its recipient and has not stored its mail   *)
(* for this one yet: what is left to show is what the step has found.      *)
LEMMA SameRecipient ==
  ASSUME MailInv, Grows, NEW s \in Session, SessionDelivers(s), UNCHANGED conn,
         session[s].pc \notin {"command", "notify"}, session'[s].pc # "notify",
         session'[s].rcpts = session[s].rcpts, session'[s].mail = session[s].mail,
         session'[s].idx = session[s].idx
  PROVE  /\ Recipient(s)' = Recipient(s)
         /\ \A i \in 1..Len(session'[s].rcpts) : domains'[DomainOf[session'[s].rcpts[i]]].id # 0
         /\ ~Undelivered(s)'
<1>1. \A i \in 1..Len(session[s].rcpts) : session[s].rcpts[i] \in Address
  BY ElementOfSeq DEF MailInv, TypeOK, SessionState
<1>2. \A i \in 1..Len(session[s].rcpts) : domains'[DomainOf[session[s].rcpts[i]]].id # 0
  BY <1>1, AddressAssumption DEF SessionDelivers, Grows
<1>3. \A i : StoredFor(session[s], i) # {} => StoredFor(session[s], i)' # {}
  BY DEF StoredFor, Grows, GetByAddress
<1>4. ~Undelivered(s)'
  BY <1>3 DEF SessionDelivers, Undelivered, Busy
<1> QED BY <1>2, <1>4 DEF Recipient

(* Every step of processEmail: what was found is still there, so that the  *)
(* next recipient's turn comes only after this one's mail is stored, or    *)
(* when the connection is gone.                                            *)
LEMMA DeliverDelivers ==
  ASSUME ProcessInv, Grows, NEW s \in Session, SessionDelivers(s), Deliver(s)
  PROVE  SessionDelivers(s)'
<1>1. /\ session \in [Session -> SessionState] /\ session[s] \in SessionState
      /\ session[s].rcpts \in Seq(Address) /\ session[s].idx \in Nat
      /\ Len(session[s].rcpts) \in Nat
  BY LenProperties DEF ProcessInv, MailInv, TypeOK, SessionState
<1>2. /\ MailInv /\ TypeOK /\ ControlInv /\ UNCHANGED conn
  BY DEF ProcessInv, MailInv, Deliver
<1>3. Busy(s)
  BY DEF Deliver, Statement, LookupDomain, FindMailbox, CreateMailbox, RefetchMailbox, Commit,
     InsertMessage, CommitFails, StatementFails, SaveAttachment, SavesDone, Notify, AtRecipient, Busy
<1>4. /\ DomainIds \subseteq DomainIds'
      /\ \A a : GetByAddress(a) \subseteq GetByAddress(a)'
  BY <1>2, GrowsKeeps
<1>5. \A i \in 1..Len(session[s].rcpts) :
        session[s].rcpts[i] \in Address /\ domains'[DomainOf[session[s].rcpts[i]]].id # 0
  <2>1. \A i \in 1..Len(session[s].rcpts) : session[s].rcpts[i] \in Address
    BY <1>1, ElementOfSeq
  <2> QED BY <2>1, AddressAssumption DEF SessionDelivers, Grows
<1>6. ASSUME NextRecipient(s), conn[s] => session[s].pc = "notify" PROVE SessionDelivers(s)'
  <2>1. /\ session'[s].pc = "domain" /\ session'[s].idx = session[s].idx + 1
        /\ session'[s].mail = session[s].mail /\ session'[s].rcpts = session[s].rcpts
    BY <1>2, <1>6, NextRecipientEffect
  <2>2. \A i : StoredFor(session[s], i) # {} => StoredFor(session[s], i)' # {}
    BY <2>1 DEF StoredFor, Grows, GetByAddress
  <2>3. \A i \in 1..Len(session[s].rcpts) :
          conn[s] /\ i < session[s].idx + 1 => StoredFor(session[s], i) # {}
    <3> SUFFICES ASSUME NEW i \in 1..Len(session[s].rcpts), conn[s], i < session[s].idx + 1
                 PROVE  StoredFor(session[s], i) # {}
      OBVIOUS
    <3>1. i < session[s].idx \/ i = session[s].idx
      BY <1>1
    <3> QED BY <1>3, <1>6, <3>1 DEF SessionDelivers, Undelivered
  <2>4. ~Undelivered(s)'
    BY <1>2, <2>1, <2>2, <2>3 DEF Undelivered
  <2> QED BY <1>5, <2>1, <2>4 DEF SessionDelivers
<1>7. ASSUME session[s].pc # "notify", session'[s].pc # "notify",
             session'[s].rcpts = session[s].rcpts, session'[s].mail = session[s].mail,
             session'[s].idx = session[s].idx
      PROVE  /\ Recipient(s)' = Recipient(s) /\ ~Undelivered(s)'
             /\ \A i \in 1..Len(session'[s].rcpts) :
                  domains'[DomainOf[session'[s].rcpts[i]]].id # 0
  BY <1>2, <1>3, <1>7, SameRecipient DEF Busy
<1>8. CASE ~dbOpen /\ StatementFails(s)
  <2>1. ~conn[s] /\ NextRecipient(s)
    BY <1>8 DEF ProcessInv, ShutdownInv, ServerTypeOK, StatementFails
  <2> QED BY <1>6, <2>1
<1>9. CASE LookupDomain(s)
  <2>1. session[s].idx \in 1..Len(session[s].rcpts)
    BY <1>1, <1>2, <1>9 DEF LookupDomain, AtRecipient, ControlInv
  <2>2. DomainOf[Recipient(s)] \in Domain /\ domains[DomainOf[Recipient(s)]].id # 0
    BY <1>5, <2>1, AddressAssumption DEF Recipient, SessionDelivers
  <2>3. session' = [session EXCEPT ![s].pc = "find", ![s].domain = domains[DomainOf[Recipient(s)]].id]
    BY <1>9, <2>2 DEF LookupDomain, GetByName
  <2>4. /\ session'[s].pc = "find" /\ session'[s].domain = domains[DomainOf[Recipient(s)]].id
        /\ session'[s].rcpts = session[s].rcpts /\ session'[s].mail = session[s].mail
        /\ session'[s].idx = session[s].idx /\ session[s].pc = "domain"
    BY <1>1, <1>9, <2>3 DEF SessionState, LookupDomain, AtRecipient
  <2>5. session'[s].domain \in DomainIds'
    BY <1>4, <2>2, <2>4 DEF DomainIds
  <2> QED BY <1>7, <2>4, <2>5 DEF SessionDelivers
<1>10. ASSUME NEW b, b \in GetByAddress(Recipient(s))', session[s].pc \in {"find", "create", "refetch"},
              session' = [session EXCEPT ![s].pc = "save", ![s].mailbox = b.id]
       PROVE  SessionDelivers(s)'
  <2>1. /\ session'[s].pc = "save" /\ session'[s].mailbox = b.id
        /\ session'[s].rcpts = session[s].rcpts /\ session'[s].mail = session[s].mail
        /\ session'[s].idx = session[s].idx
    BY <1>1, <1>10 DEF SessionState
  <2> QED BY <1>7, <1>10, <2>1 DEF SessionDelivers
<1>11. ASSUME NEW pc \in {"create", "refetch", "commit"}, session[s].pc # "notify",
              session' = [session EXCEPT ![s].pc = pc]
       PROVE  /\ Recipient(s)' = Recipient(s) /\ ~Undelivered(s)'
              /\ \A i \in 1..Len(session'[s].rcpts) :
                   domains'[DomainOf[session'[s].rcpts[i]]].id # 0
              /\ session'[s].pc = pc /\ session'[s].domain = session[s].domain
              /\ session'[s].mailbox = session[s].mailbox
  <2>1. /\ session'[s].pc = pc /\ session'[s].domain = session[s].domain
        /\ session'[s].mailbox = session[s].mailbox
        /\ session'[s].rcpts = session[s].rcpts /\ session'[s].mail = session[s].mail
        /\ session'[s].idx = session[s].idx
    BY <1>1, <1>11 DEF SessionState
  <2> QED BY <1>7, <1>11, <2>1
<1>12. CASE FindMailbox(s)
  <2>1. session[s].pc = "find" /\ session[s].domain \in DomainIds
    BY <1>12 DEF FindMailbox, SessionDelivers
  <2>2. CASE session' = [session EXCEPT ![s].pc = "create"]
    <3>1. session'[s].pc = "create" /\ session'[s].domain \in DomainIds'
      BY <1>4, <1>11, <2>1, <2>2
    <3> QED BY <1>11, <2>1, <2>2, <3>1 DEF SessionDelivers
  <2>3. ASSUME NEW b \in GetByAddress(Recipient(s)),
               session' = [session EXCEPT ![s].pc = "save", ![s].mailbox = b.id]
        PROVE  SessionDelivers(s)'
    <3>1. Recipient(s)' = Recipient(s)
      BY <1>1, <2>3 DEF Recipient, SessionState
    <3>2. b \in GetByAddress(Recipient(s))'
      BY <1>4, <2>3, <3>1
    <3> QED BY <1>10, <2>1, <2>3, <3>2
  <2> QED BY <1>12, <2>2, <2>3 DEF FindMailbox
<1>13. CASE CreateMailbox(s)
  <2>1. session[s].pc = "create" /\ session[s].domain \in DomainIds
    BY <1>13 DEF CreateMailbox, SessionDelivers
  <2>2. CASE GetByAddress(Recipient(s)) # {}
    <3>1. session' = [session EXCEPT ![s].pc = "refetch"]
      BY <1>13, <2>2 DEF CreateMailbox
    <3>2. Recipient(s)' = Recipient(s) /\ session'[s].pc = "refetch"
      BY <1>11, <2>1, <3>1
    <3>3. GetByAddress(Recipient(s))' # {}
      BY <1>4, <2>2, <3>2
    <3> QED BY <1>11, <2>1, <3>1, <3>2, <3>3 DEF SessionDelivers
  <2>3. CASE GetByAddress(Recipient(s)) = {}
    <3> DEFINE id == lastId["mailbox"] + 1
               b == [id |-> id, address |-> Recipient(s), domain |-> session[s].domain]
    <3>1. /\ mailboxes' = mailboxes \cup {b}
          /\ session' = [session EXCEPT ![s].pc = "save", ![s].mailbox = b.id]
      BY <1>13, <2>1, <2>3 DEF CreateMailbox, InsertMailbox
    <3>2. Recipient(s)' = Recipient(s)
      BY <1>1, <3>1 DEF Recipient, SessionState
    <3>3. b \in GetByAddress(Recipient(s))'
      BY <3>1, <3>2 DEF GetByAddress
    <3> HIDE DEF b
    <3> QED BY <1>10, <2>1, <3>1, <3>3
  <2> QED BY <2>2, <2>3
<1>14. CASE RefetchMailbox(s)
  <2>1. session[s].pc = "refetch" /\ GetByAddress(Recipient(s)) # {}
    BY <1>14 DEF RefetchMailbox, SessionDelivers
  <2>2. PICK b \in GetByAddress(Recipient(s)) :
          session' = [session EXCEPT ![s].pc = "save", ![s].mailbox = b.id]
    BY <1>14, <2>1 DEF RefetchMailbox
  <2>3. Recipient(s)' = Recipient(s)
    BY <1>1, <2>2 DEF Recipient, SessionState
  <2>4. b \in GetByAddress(Recipient(s))'
    BY <1>4, <2>2, <2>3
  <2> QED BY <1>10, <2>1, <2>2, <2>4
<1>15. CASE SaveAttachment(s)
  <2>1. /\ session'[s].pc = "save" /\ session[s].pc = "save"
        /\ session'[s].mailbox = session[s].mailbox /\ session'[s].idx = session[s].idx
        /\ session'[s].rcpts = session[s].rcpts /\ session'[s].mail = session[s].mail
    BY <1>1, <1>15 DEF SaveAttachment, SessionState
  <2>2. \E b \in GetByAddress(Recipient(s)) : b.id = session[s].mailbox
    BY <2>1 DEF SessionDelivers
  <2>3. \E b \in GetByAddress(Recipient(s))' : b.id = session'[s].mailbox
    BY <1>4, <1>7, <2>1, <2>2
  <2> QED BY <1>7, <2>1, <2>3 DEF SessionDelivers
<1>16. CASE SavesDone(s)
  <2>1. session[s].pc = "save" /\ session' = [session EXCEPT ![s].pc = "commit"]
    BY <1>16 DEF SavesDone
  <2>2. \E b \in GetByAddress(Recipient(s)) : b.id = session[s].mailbox
    BY <2>1 DEF SessionDelivers
  <2>3. session'[s].pc = "commit" /\ \E b \in GetByAddress(Recipient(s))' : b.id = session'[s].mailbox
    BY <1>4, <1>11, <2>1, <2>2
  <2> QED BY <1>11, <2>1, <2>3 DEF SessionDelivers
<1>17. CASE CommitFails(s)
  <2>1. \E b \in GetByAddress(Recipient(s)) : b.id = session[s].mailbox
    BY <1>17 DEF CommitFails, SessionDelivers
  <2>2. FALSE
    BY <1>17, <2>1 DEF CommitFails, GetByAddress, MailboxIds
  <2> QED BY <2>2
<1>18. CASE Notify(s)
  BY <1>6, <1>18 DEF Notify
<1>19. CASE Commit(s)
  <2> DEFINE m == [id |-> lastId["message"] + 1, mailbox |-> session[s].mailbox,
                   mail |-> session[s].mail, rcpt |-> session[s].idx]
  <2>1. /\ session'[s].pc = "notify" /\ session[s].pc = "commit"
        /\ session'[s].mailbox = session[s].mailbox /\ session'[s].idx = session[s].idx
        /\ session'[s].rcpts = session[s].rcpts /\ session'[s].mail = session[s].mail
        /\ messages' = messages \cup {m}
    BY <1>1, <1>19 DEF Commit, InsertMessage, SessionState
  <2>2. PICK b \in GetByAddress(Recipient(s)) : b.id = session[s].mailbox
    BY <2>1 DEF SessionDelivers
  <2>3. Recipient(s)' = Recipient(s) /\ b \in GetByAddress(Recipient(s))'
    BY <1>4, <2>1 DEF Recipient
  <2>4. m.mail = session[s].mail /\ m.rcpt = session[s].idx /\ m.mailbox = session[s].mailbox
    OBVIOUS
  <2>5. m \in StoredFor(session[s], session[s].idx)'
    <3> HIDE DEF m
    <3> QED BY <2>1, <2>2, <2>3, <2>4 DEF StoredFor, Recipient
  <2>6. \A i : StoredFor(session[s], i) # {} => StoredFor(session[s], i)' # {}
    BY <2>1 DEF StoredFor, Grows, GetByAddress
  <2>7. ~Undelivered(s)'
    BY <1>2, <1>3, <2>1, <2>5, <2>6 DEF Undelivered, SessionDelivers
  <2> QED BY <1>5, <2>1, <2>2, <2>3, <2>7 DEF SessionDelivers
<1> QED BY <1>8, <1>9, <1>12, <1>13, <1>14, <1>15, <1>16, <1>17, <1>18, <1>19
        DEF Deliver, Statement

(* A session that has no mail in work and accepted recipients only.        *)
LEMMA CommandDelivers ==
  ASSUME MailInv, Grows, NEW s \in Session, SessionDelivers(s), Command(s)
  PROVE  SessionDelivers(s)'
<1>1. /\ session \in [Session -> SessionState] /\ session[s] \in SessionState
      /\ session[s].rcpts \in Seq(Address) /\ Len(session[s].rcpts) \in Nat
  BY LenProperties DEF MailInv, TypeOK, SessionState
<1>2. \A i \in 1..Len(session[s].rcpts) :
        session[s].rcpts[i] \in Address /\ domains'[DomainOf[session[s].rcpts[i]]].id # 0
  <2>1. \A i \in 1..Len(session[s].rcpts) : session[s].rcpts[i] \in Address
    BY <1>1, ElementOfSeq
  <2> QED BY <2>1, AddressAssumption DEF SessionDelivers, Grows
<1>3. CASE Mail(s)
  <2>1. session'[s].pc = "command" /\ session'[s].rcpts = session[s].rcpts
    BY <1>1, <1>3 DEF Mail, SessionState
  <2> QED BY <1>2, <2>1 DEF SessionDelivers, Undelivered, Busy
<1>4. CASE Reset(s)
  <2>1. session'[s] = Blank /\ Len(Blank.rcpts) = 0
    BY <1>1, <1>4, BlankType, EmptySeq DEF Reset
  <2>2. 1..0 = {}
    OBVIOUS
  <2> QED BY <2>1, <2>2, BlankType DEF SessionDelivers, Undelivered, Busy
<1>5. ASSUME NEW to \in Address, Rcpt(s, to) PROVE SessionDelivers(s)'
  <2>1. session'[s].pc = "command" /\ session'[s].rcpts = Append(session[s].rcpts, to)
    BY <1>1, <1>5 DEF Rcpt, SessionState
  <2>2. domains'[DomainOf[to]].id # 0
    BY <1>5, AddressAssumption DEF Rcpt, GetByName, Grows
  <2>3. \A i \in 1..Len(session'[s].rcpts) : domains'[DomainOf[session'[s].rcpts[i]]].id # 0
    <3> SUFFICES ASSUME NEW i \in 1..(Len(session[s].rcpts) + 1)
                 PROVE  domains'[DomainOf[Append(session[s].rcpts, to)[i]]].id # 0
      BY <1>1, <2>1
    <3>1. CASE i = Len(session[s].rcpts) + 1
      BY <1>1, <2>2, <3>1
    <3>2. CASE i \in 1..Len(session[s].rcpts)
      BY <1>1, <1>2, <3>2
    <3> QED BY <1>1, <3>1, <3>2
  <2> QED BY <2>1, <2>3 DEF SessionDelivers, Undelivered, Busy
<1>6. ASSUME NEW e \in Email, Data(s, e) PROVE SessionDelivers(s)'
  <2>1. /\ session'[s].pc = "domain" /\ session'[s].rcpts = session[s].rcpts
        /\ session'[s].idx = 1
    BY <1>1, <1>6 DEF Data, SessionState
  <2>2. \A i \in 1..Len(session[s].rcpts) : ~(i < 1)
    BY <1>1
  <2>3. ~Undelivered(s)'
    BY <2>1, <2>2 DEF Undelivered
  <2> QED BY <1>2, <2>1, <2>3 DEF SessionDelivers
<1> QED BY <1>3, <1>4, <1>5, <1>6 DEF Command

(* Every step keeps what was answered with 250 stored, and what sessions   *)
(* have done so far for those who still wait for the answer.               *)
LEMMA DeliveryStep ==
  ASSUME "api" \notin Disturbances, ProcessInv, DeliveryInv, [ServerNext]_serverVars
  PROVE  DeliveryInv'
<1>1. MailInv /\ TypeOK /\ ServerTypeOK /\ Grows
  BY TablesGrow DEF ProcessInv, MailInv
<1>2. /\ \A t, i : StoredFor(t, i) \subseteq StoredFor(t, i)'
      /\ \A s \in Session : SessionDelivers(s)
  BY <1>1, GrowsKeeps DEF DeliveryInv
<1>3. ASSUME completed \subseteq completed', UNCHANGED acked PROVE AckedStored'
  BY <1>2, <1>3 DEF DeliveryInv, AckedStored
<1>4. ASSUME NEW s \in Session, session'[s] = Blank PROVE SessionDelivers(s)'
  <2>1. Len(Blank.rcpts) = 0 /\ 1..0 = {}
    BY BlankType, EmptySeq
  <2> QED BY <1>4, <2>1, BlankType DEF SessionDelivers, Undelivered, Busy
<1>5. ASSUME NEW s \in Session, session'[s] = session[s], conn'[s] => conn[s] \/ ~Busy(s)
      PROVE  SessionDelivers(s)'
  BY <1>1, <1>2, <1>5, IdleDelivers
<1>6. CASE UNCHANGED <<session, conn, acked, completed>>
  BY <1>3, <1>5, <1>6 DEF DeliveryInv
<1>7. ASSUME NEW gone \in SUBSET Session, Closed(gone) PROVE DeliveryInv'
  <2>1. \A s \in Session : /\ session'[s] \in {session[s], Blank}
                           /\ conn'[s] => conn[s]
    BY <1>7 DEF Closed
  <2>2. AckedStored'
    BY <1>3, <1>7 DEF Closed, history
  <2> QED BY <1>4, <1>5, <2>1, <2>2 DEF DeliveryInv
<1>8. CASE Return
  <2>1. \A s \in Session : session'[s] = Blank
    BY <1>8 DEF Return
  <2>2. AckedStored'
    BY <1>3, <1>8 DEF Return, history
  <2> QED BY <1>4, <2>1, <2>2 DEF DeliveryInv
<1>9. ASSUME NEW s \in Session, Connect(s) PROVE DeliveryInv'
  <2>1. \A t \in Session : session'[t] = session[t] /\ (conn'[t] => conn[t] \/ ~Busy(t))
    BY <1>1, <1>9, BlankType DEF Connect, vars, ServerTypeOK, Busy
  <2>2. AckedStored'
    BY <1>3, <1>9 DEF Connect, vars, history
  <2> QED BY <1>5, <2>1, <2>2 DEF DeliveryInv
<1>10. ASSUME NEW s \in Session, Command(s) PROVE DeliveryInv'
  <2>1. UNCHANGED <<conn, acked, completed>>
    BY <1>10 DEF Command, Mail, Reset, Rcpt, Data, history
  <2>2. \A t \in Session : t # s => SessionDelivers(t)'
    BY <1>1, <1>5, <1>10, <2>1, SessionLocal
  <2>3. SessionDelivers(s)'
    BY <1>1, <1>2, <1>10, CommandDelivers
  <2> QED BY <1>3, <2>1, <2>2, <2>3 DEF DeliveryInv
<1>11. ASSUME NEW s \in Session, Deliver(s) PROVE DeliveryInv'
  <2>1. UNCHANGED <<conn, acked, completed>>
    BY <1>11 DEF Deliver, Statement, LookupDomain, FindMailbox, CreateMailbox, RefetchMailbox,
       Commit, InsertMessage, CommitFails, StatementFails, SaveAttachment, SavesDone, Notify, history
  <2>2. \A t \in Session : t # s => SessionDelivers(t)'
    BY <1>1, <1>5, <1>11, <2>1, SessionLocal
  <2>3. SessionDelivers(s)'
    BY <1>1, <1>2, <1>11, DeliverDelivers
  <2> QED BY <1>3, <2>1, <2>2, <2>3 DEF DeliveryInv
<1>12. ASSUME NEW s \in Session, Answer(s) PROVE DeliveryInv'
  <2> DEFINE t == [mail |-> session[s].mail, rcpts |-> session[s].rcpts]
  <2>1. /\ session[s].pc = "domain" /\ session[s].idx > Len(session[s].rcpts)
        /\ completed' = completed \cup {t} /\ session' = [session EXCEPT ![s] = Blank]
        /\ acked' = IF conn[s] THEN acked \cup (completed' \ completed) ELSE acked
        /\ UNCHANGED <<messages, mailboxes, conn>>
    BY <1>12 DEF Answer, DataDone, dbVars
  <2>2. \A u \in Session : u # s => SessionDelivers(u)'
    BY <1>1, <1>5, <1>12, <2>1, SessionLocal
  <2>3. SessionDelivers(s)'
    BY <1>1, <1>4, <2>1 DEF TypeOK
  <2>4. CASE ~conn[s]
    BY <1>3, <2>1, <2>2, <2>3, <2>4 DEF DeliveryInv
  <2>5. CASE conn[s]
    <3>1. \A i \in 1..Len(session[s].rcpts) : i < session[s].idx
      BY <1>1, <2>1, LenProperties DEF TypeOK, SessionState
    <3>2. \A i \in 1..Len(session[s].rcpts) : StoredFor(session[s], i) # {}
      BY <1>2, <2>1, <2>5, <3>1 DEF SessionDelivers, Undelivered, Busy
    <3>3. t.mail = session[s].mail /\ t.rcpts = session[s].rcpts
      OBVIOUS
    <3> HIDE DEF t
    <3>4. \A i : StoredFor(t, i) = StoredFor(session[s], i)
      BY <3>3 DEF StoredFor
    <3>5. \A i \in 1..Len(t.rcpts) : StoredFor(t, i) # {}
      BY <3>2, <3>3, <3>4
    <3>6. ASSUME NEW u \in acked' PROVE u \in completed' /\ (u = t \/ u \in acked)
      BY <2>1, <2>5, <3>6 DEF DeliveryInv, AckedStored
    <3>7. \A v, i : StoredFor(v, i)' = StoredFor(v, i)
      BY <2>1 DEF StoredFor, GetByAddress
    <3>8. ASSUME NEW u \in acked', NEW i \in 1..Len(u.rcpts) PROVE StoredFor(u, i) # {}
      BY <3>5, <3>6, <3>8 DEF DeliveryInv, AckedStored
    <3>9. AckedStored'
      BY <3>6, <3>7, <3>8 DEF AckedStored
    <3> QED BY <2>2, <2>3, <3>9 DEF DeliveryInv
  <2> QED BY <2>4, <2>5
<1>13. CASE ApiStep
  BY <1>6, <1>13 DEF ApiStep, Api, CreateDomain, DeleteDomain, UpdateDomain, ApiCreateMailbox,
                     DeleteMailbox, DeleteMessage, history
<1>14. CASE Boot \/ Shutdown \/ ContextOver \/ RenewalStopped \/ HttpStopped \/ DbClose
            \/ RenewalLoop \/ (\E r \in Request : RequestBegins(r) \/ RequestEnds(r))
  BY <1>6, <1>14 DEF Boot, Shutdown, ContextOver, RenewalStopped, HttpStopped, DbClose,
     RenewalLoop, RequestBegins, RequestEnds, vars, history
<1>15. CASE UNCHANGED serverVars
  BY <1>6, <1>15 DEF serverVars, vars, history
<1>16. ASSUME SmtpClose \/ (\E s \in Session : Disconnect(s)) PROVE DeliveryInv'
  BY <1>7, <1>16 DEF SmtpClose, Disconnect
<1> QED
  BY <1>8, <1>9, <1>10, <1>11, <1>12, <1>13, <1>14, <1>15, <1>16 DEF ServerNext, MainStep

(* A mail that was answered with 250 is stored once for each of its        *)
(* recipients, in the mailbox of that recipient's address: sessions that   *)
(* race to provision an address lose nothing                               *)
(* (mailbox_repository.go:74-106), and a session that meets the closed     *)
(* database has no connection left to answer on (main.go:316-325).  The    *)
(* one hypothesis is that API requests delete, rename and deactivate       *)
(* nothing.                                                                *)
THEOREM AcknowledgedIsStoredTheorem ==
  ASSUME "api" \notin Disturbances
  PROVE  ServerSpec => []AcknowledgedIsStored
<1>1. ServerInit => DeliveryInv
  <2> SUFFICES ASSUME ServerInit PROVE DeliveryInv
    OBVIOUS
  <2>1. \A s \in Session : session[s] = Blank
    BY DEF ServerInit, Init
  <2>2. Len(Blank.rcpts) = 0 /\ 1..0 = {}
    BY BlankType, EmptySeq
  <2>3. \A s \in Session : SessionDelivers(s)
    BY <2>1, <2>2, BlankType DEF SessionDelivers, Undelivered, Busy
  <2> QED BY <2>3 DEF ServerInit, DeliveryInv, AckedStored
<1>2. ProcessInv /\ DeliveryInv /\ [ServerNext]_serverVars => DeliveryInv'
  BY DeliveryStep
<1>3. ProcessInv /\ DeliveryInv => AcknowledgedIsStored
  <2> SUFFICES ASSUME ProcessInv, DeliveryInv, NEW t \in acked, NEW i \in 1..Len(t.rcpts)
               PROVE  Cardinality(StoredFor(t, i)) = 1
    BY DEF AcknowledgedIsStored
  <2>1. StoredFor(t, i) # {}
    BY DEF DeliveryInv, AckedStored
  <2>2. PICK m : m \in StoredFor(t, i)
    BY <2>1
  <2>3. \A n \in StoredFor(t, i) : n = m
    BY <2>2 DEF ProcessInv, MailInv, MessageInv, AtMostOnce, StoredFor
  <2>4. StoredFor(t, i) = {m}
    BY <2>2, <2>3
  <2> QED BY <2>4, FS_Singleton
<1> QED BY <1>1, <1>2, <1>3, ProcessInit, ProcessStep, PTL DEF ServerSpec

=============================================================================
