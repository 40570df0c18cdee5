------------------------------- MODULE Server -------------------------------
(***************************************************************************)
(* The process (cmd/server/main.go): its start, and its orderly shutdown   *)
(* while SMTP sessions deliver mail, HTTP requests run and the renewal     *)
(* loop checks certificates.  Mail sessions are those of MailDelivery, the *)
(* renewal loop is what RenewalService promises (CertRenewal implements    *)
(* it), HTTP requests matter here by how long they take.                   *)
(*                                                                         *)
(* A statement on the closed database fails; files are written and         *)
(* announcements made until the process is gone.                           *)
(***************************************************************************)
EXTENDS MailDelivery

CONSTANT Request  \* HTTP requests that may be running at a time

VARIABLES
  main,     \* control state of main
  dbOpen,   \* the connection pool is open
  running,  \* CertRenewalService.running
  loop,     \* the renewal loop
  busy,     \* HTTP requests being handled
  ctxOver,  \* the ten seconds of the shutdown's context are over
  conn,     \* whether a session's TCP connection is open
  acked     \* history: mails whose 250 was written to an open connection

process == <<main, dbOpen, running, loop, busy, ctxOver>>
serverVars == <<vars, process, conn, acked>>

Renewal == INSTANCE RenewalService

MainStates == {"serving", "renewal", "http", "smtp", "db", "return", "gone"}

(* What each step of the shutdown leaves for the next: no session has its  *)
(* connection when the database is closed, and nothing runs in the end.    *)
ServerTypeOK ==
  /\ main \in MainStates
  /\ dbOpen \in BOOLEAN
  /\ running => main = "serving"
  /\ loop \in {"off", "checking", "waiting"}
  /\ busy \subseteq Request /\ ctxOver \in BOOLEAN
  /\ conn \in [Session -> BOOLEAN]
  /\ main \in {"db", "return", "gone"} => \A s \in Session : ~conn[s]
  /\ main = "gone" => session = [s \in Session |-> Blank] /\ busy = {}

ServerInit ==
  /\ Init
  /\ main = "gone" /\ dbOpen = FALSE
  /\ running = FALSE /\ loop = "off"
  /\ busy = {} /\ ctxOver = FALSE
  /\ conn = [s \in Session |-> FALSE]
  /\ acked = {}

-----------------------------------------------------------------------------
(* main.  Database, renewal service, listeners: nothing comes in before    *)
(* everything is there.  Without certificate storage or ACME client there  *)
(* is no renewal service; a database or listener that fails exits.         *)
Boot ==
  /\ main = "gone"
  /\ main' = "serving"
  /\ dbOpen' = TRUE
  /\ Renewal!Start \/ UNCHANGED <<running, loop>>
  /\ ctxOver' = FALSE
  /\ UNCHANGED <<vars, busy, conn, acked>>

\* Fault: Stop does not wait for the loop.
ShutdownNoWait ==
  /\ main = "serving"
  /\ main' = "http"
  /\ Renewal!Stop \/ (~running /\ UNCHANGED <<running, loop>>)
  /\ UNCHANGED <<vars, dbOpen, busy, ctxOver, conn, acked>>

(* A signal, or a listener that fails: the context's ten seconds begin,    *)
(* and certRenewalService.Stop, if there is one, waits for the loop.       *)
Shutdown ==
  /\ main = "serving"
  /\ main' = "renewal"
  /\ Renewal!Stop \/ (~running /\ UNCHANGED <<running, loop>>)
  /\ UNCHANGED <<vars, dbOpen, busy, ctxOver, conn, acked>>

ContextOver ==
  /\ main \notin {"serving", "gone"}
  /\ ~ctxOver
  /\ ctxOver' = TRUE
  /\ UNCHANGED <<vars, main, dbOpen, running, loop, busy, conn, acked>>

\* wg.Wait returns, and router.Shutdown closes the HTTP listener.
RenewalStopped ==
  /\ main = "renewal"
  /\ loop = "off"
  /\ main' = "http"
  /\ UNCHANGED <<vars, dbOpen, running, loop, busy, ctxOver, conn, acked>>

\* Fault: the HTTP shutdown has no time limit.
HttpStoppedWaits ==
  /\ main = "http"
  /\ busy = {}
  /\ main' = "smtp"
  /\ UNCHANGED <<vars, dbOpen, running, loop, busy, ctxOver, conn, acked>>

\* router.Shutdown returns: no request is left, or the context is over.
HttpStopped ==
  /\ main = "http"
  /\ busy = {} \/ ctxOver
  /\ main' = "smtp"
  /\ UNCHANGED <<vars, dbOpen, running, loop, busy, ctxOver, conn, acked>>

\* The sessions of closed connections: one that runs Data goes on.
Closed(gone) ==
  /\ conn' = [s \in Session |-> conn[s] /\ s \notin gone]
  /\ session' = [s \in Session |-> IF s \in gone /\ session[s].pc = "command"
                                   THEN Blank ELSE session[s]]
  /\ UNCHANGED <<dbVars, files, history, acked>>

\* Fault: the listener is closed, the connections are not.
SmtpCloseListener ==
  /\ main = "smtp"
  /\ main' = "db"
  /\ UNCHANGED <<vars, dbOpen, running, loop, busy, ctxOver, conn, acked>>

\* smtpServer.Close: the listener and every connection.
SmtpClose ==
  /\ main = "smtp"
  /\ main' = "db"
  /\ Closed(Session)
  /\ UNCHANGED <<dbOpen, running, loop, busy, ctxOver>>

\* Fault: the database is closed before the SMTP server.
DbCloseFirst ==
  /\ main \in {"smtp", "db"}
  /\ dbOpen' = FALSE
  /\ main' = IF main = "db" THEN "return" ELSE "smtp"
  /\ UNCHANGED <<vars, running, loop, busy, ctxOver, conn, acked>>

DbClose ==
  /\ main = "db"
  /\ dbOpen' = FALSE
  /\ main' = "return"
  /\ UNCHANGED <<vars, running, loop, busy, ctxOver, conn, acked>>

\* main returns, and whatever still runs ends with it.
Return ==
  /\ main = "return"
  /\ main' = "gone"
  /\ busy' = {}
  /\ session' = [s \in Session |-> Blank]
  /\ UNCHANGED <<dbVars, files, history, dbOpen, running, loop, ctxOver, conn, acked>>

MainStep == RenewalStopped \/ HttpStopped \/ SmtpClose \/ DbClose \/ Return

-----------------------------------------------------------------------------
(* What main has started.                                                  *)
RenewalLoop ==
  /\ Renewal!CheckEnds \/ Renewal!Tick \/ Renewal!LoopEnds
  /\ UNCHANGED <<vars, main, dbOpen, busy, ctxOver, conn, acked>>

RequestBegins(r) ==
  /\ main \in {"serving", "renewal"}
  /\ r \notin busy
  /\ busy' = busy \cup {r}
  /\ UNCHANGED <<vars, main, dbOpen, running, loop, ctxOver, conn, acked>>

RequestEnds(r) ==
  /\ r \in busy
  /\ busy' = busy \ {r}
  /\ UNCHANGED <<vars, main, dbOpen, running, loop, ctxOver, conn, acked>>

\* A handler's work on the tables, and that of SMTP sessions.
ApiStep ==
  /\ busy # {} /\ dbOpen
  /\ Api
  /\ UNCHANGED <<process, conn, acked>>

\* The SMTP listener is open until smtpServer.Close.
Connect(s) ==
  /\ main \in {"serving", "renewal", "http", "smtp"}
  /\ ~conn[s]
  /\ session[s] = Blank
  /\ conn' = [conn EXCEPT ![s] = TRUE]
  /\ UNCHANGED <<vars, process, acked>>

\* The peer hangs up, or an SMTP timeout ends the connection.
Disconnect(s) ==
  /\ conn[s]
  /\ Closed({s})
  /\ UNCHANGED process

Command(s) ==
  /\ conn[s]
  /\ \/ Mail(s) \/ Reset(s)
     \/ dbOpen /\ \E to \in Address : Rcpt(s, to)
     \/ \E e \in Email : Data(s, e)
  /\ UNCHANGED <<process, conn, acked>>

Statement(s) ==
  \/ LookupDomain(s) \/ FindMailbox(s) \/ CreateMailbox(s) \/ RefetchMailbox(s)
  \/ Commit(s) \/ CommitFails(s)

Deliver(s) ==
  /\ \/ dbOpen /\ Statement(s)
     \/ ~dbOpen /\ StatementFails(s)
     \/ SaveAttachment(s) \/ SavesDone(s) \/ Notify(s)
  /\ UNCHANGED <<process, conn, acked>>

\* Data returns; the 250 reaches nobody once the connection is closed.
Answer(s) ==
  /\ DataDone(s)
  /\ acked' = IF conn[s] THEN acked \cup (completed' \ completed) ELSE acked
  /\ UNCHANGED <<process, conn>>

ServerNext ==
  \/ Boot \/ Shutdown \/ ContextOver \/ MainStep \/ RenewalLoop \/ ApiStep
  \/ \E r \in Request : RequestBegins(r) \/ RequestEnds(r)
  \/ \E s \in Session : Connect(s) \/ Disconnect(s) \/ Command(s) \/ Deliver(s) \/ Answer(s)

(* main and the clock go on, the renewal loop is as fair as it promises;   *)
(* HTTP requests and mail sessions may take as long as they like.          *)
ServerSpec ==
  /\ ServerInit /\ [][ServerNext]_serverVars
  /\ WF_serverVars(MainStep) /\ WF_serverVars(ContextOver)
  /\ Renewal!ServiceFairness

-----------------------------------------------------------------------------
(* A mail that was answered with 250 is stored for each of its recipients: *)
(* sessions that race to provision one address lose nothing                *)
(* (mailbox_repository.go:74-106), and a shutdown at any moment lets a     *)
(* session that meets the closed database tell nobody that its mail was    *)
(* taken (main.go:316-325).  Nothing else fails and nothing is deleted.    *)
AcknowledgedIsStored ==
  \A t \in acked : \A i \in 1..Len(t.rcpts) : Cardinality(StoredFor(t, i)) = 1

(* An orderly shutdown never takes the database away from a renewal, nor   *)
(* ends the process under it, between the new files and the row that       *)
(* belongs to them (main.go:306-308, cert_renewal.go:70-83).               *)
RenewalNotCut == ~dbOpen => loop = "off"

(* A shutdown that has begun ends, even if a request never does and        *)
(* whatever the renewal loop is doing (main.go:303-325).                   *)
ShutdownEnds == main \notin {"serving", "gone"} ~> main = "gone"

=============================================================================
