# Infinimail backend: TLA+ models, checks and proofs

The backend receives mail by SMTP for the domains its users have set up, stores
it in PostgreSQL and on disk, announces it over WebSocket, and serves it by an
HTTP API. A domain gets its TLS certificate through a guided ACME flow. This
directory models the parts of it that are concurrent, keep state over several
steps or have to survive failures.

## 1. The system

| Component | State | Operations | Talks to |
|---|---|---|---|
| WebSocket hub (`internal/websocket/hub.go`) | clients, subscriptions per mailbox, four unbuffered channels, the buffered `broadcast` | `Run` (one goroutine), `Register`, `Unregister`, `Subscribe`, `Unsubscribe`, `BroadcastNewMessage` | pumps, SMTP sessions |
| WebSocket client (`client.go`, `/ws` in `cmd/server/main.go`) | the socket, the bounded `send` channel | `ReadPump`, `WritePump`, `handleMessage`, `sendError` | hub, peer |
| SMTP session (`internal/smtp`) | sender, recipients, the parsed mail during DATA | `Mail`, `Rcpt`, `Data`, `processEmail`, `Reset` | repositories, attachment storage, hub |
| Tables (`internal/repository`, `internal/models`) | domains, mailboxes, messages, attachments, domain_certificates | single statements, one transaction (`CreateWithAttachments`), cascades | everybody |
| Attachment storage (`internal/storage`) | files under fresh names | `Save`, `Get`, `Delete` | sessions, API |
| Domain set-up (`api/handlers/domain_handler.go`, `services/domain_manager.go`, `services/certificate_manager.go`) | the domain row: status, active flag, token, challenge | create, update, delete, verify-dns, request-, verify- and submit-acme-challenge, acme-status, retry | ACME client, DNS, certificate storage and store |
| ACME client (`services/acme_client.go`) | `activeOrders`, `activeChallenges` in memory | `GetDNSChallenge`, `CompleteDNSChallenge`, `RequestCertificate` | the CA |
| Certificate storage and SNI store (`cert_storage.go`, `cert_store.go`, `smtp/backend.go`) | two PEM files per domain; the loaded pairs | `SaveCertificate`, `LoadAndAddCertificate`, `ReloadAll`, `GetCertificateFunc` | certificate manager, SMTP TLS |
| Renewal service (`cert_renewal.go`) | running flag, stop channel | `Start`, `Stop`, loop, `ForceCheck` | certificate manager |
| Process (`cmd/server/main.go`) | the servers, the renewal loop, the connection pool | start; shutdown in the order renewal, HTTP, SMTP, database | all of them |
| Rate limiter (`middleware/ratelimit.go`) | a limiter per address | `GetLimiter`, `CleanupOldEntries` | HTTP |
| Domain setup log (`services/acme_logger.go`, `acme_log_handler.go`) | a log per domain in memory under an RWMutex, a JSON file behind it | `StartDomainLog`, `Log...`, `MarkSuccess`, `MarkFailed`, `GetDomainLog`, `GetAllLogs` | certificate manager, ACME client, log pages |
| DNS exporter, configuration, validation, authentication, responses | little or none | formatting and stateless checks | |

What is hard here: goroutines that share channels which get closed; sessions and
API requests that interleave between any two database statements; handlers that
read a row, talk to the CA for minutes and save the whole row; files and rows
that are not written together; process memory (orders, sessions) that a restart
loses while rows stay; a renewal that replaces files, row and loaded pair one after
the other; a shutdown that takes connections and database away from running
sessions. `PROJECT.json` lists these places under `hazards`, each
with the properties that watch it.

What makes each component correct:

* hub: no panic, no leak of dead clients, order of notifications, publishers are
  never blocked for good;
* delivery: what is accepted is stored once, in the right mailbox, with its
  files, and announced; DATA is always answered;
* set-up: a status that speaks of a certificate is true, and so is one that speaks of
  a running request; every request ends;
* certificates: a renewal that stops half way is repaired, certificates are renewed
  before they expire, clients get the renewed ones;
* process: the shutdown ends, loses no acknowledged mail and cuts no renewal;
* setup log: memory, file and pages agree, whoever writes, reads or restarts.

## 2. Modules

### WebSocketHub

Sources: `hub.go`, `client.go`, `/ws` handler. One action per case of the hub's
`select` (`HubRegister`, `HubUnregister`, `HubSubscribe`, `HubUnsubscribe`,
`HubBroadcast`) plus one per iteration of the fan-out (`HubDeliver`; between two
of them the pumps run). An unbuffered channel is a rendezvous: the sender waits in
a state of its own (`reader[c] = "subscribe"`) until the hub's action takes it.
`broadcast` and `send[c]` are sequences bounded by the capacities. `TrySend` is
the `select` with `default`: it skips when the buffer is full and panics when the
channel is closed, and `panic` stops the model as it stops the process.
`ReadError` and `WriterFails` cover closed connections, the pong timeout, the
ping, the write deadline and the frame limit; they may happen at any time.
Payloads are replaced by their position in `broadcast`. At shutdown
`cmd/server/main.go` does not stop the hub, so the model has no stop.

### NotificationFeed and HubFeed

`NotificationFeed` is what a WebSocket user may count on, without pumps and
channels: notifications are published in an order, each one is meant for those
who are subscribed when its turn comes, and a client receives some of those meant
for it, in that order and none twice. `HubFeed` adds to WebSocketHub the history
this needs (`published`, the mailboxes in the order they entered `broadcast`;
`entitled`, the subscribers when the hub took each one) and states, with
`INSTANCE NotificationFeed WITH`, that every step of the hub and the pumps is a
step of the feed or none: `ImplementsFeed`. What was written to the socket is
what was received. `NotificationOrder` is stated by positions in what a client has
received and what is on its way.

### MailDelivery

Sources: `session.go`, `parser.go`, mail repositories, `file_storage.go`, the
handlers that create and delete domains, mailboxes and messages. Each database
statement and each file save of `processEmail` is one action; API requests happen
between any two. Tables are sets of rows with ids that are never reused; unique
indexes, foreign keys and cascades of the schema decide what an insert or a
delete does. Addresses keep their spelling (`Lower` is `parseEmailAddress`), as
RCPT, the API and delivery normalise differently. `Disturbances` says which of
database errors, disk errors, crashes and destructive API requests happen.
`StatementFails` is any statement that returns an error; `DbError` lets it happen
as a disturbance, the module Server once the database is closed. `CreateUnanswered`
and `CommitUnanswered` are the other kind of error: the insert or the COMMIT took
effect and its answer was lost. `unanswered` remembers the messages stored that way,
of which nobody is told.
Handlers that read a row and then write (`PUT`, mailbox creation) are one step
here; the races of `PUT` are in DomainLifecycle. A request that changes nothing
(a refused RCPT, a DATA without recipients) is no action.

### DomainLifecycle

Sources: the setup handlers, both managers, `acme_client.go`, the two PEM files,
the SNI store and the reload at start, for one domain. A request is a process
with the copy of the row that it read (`copy`); reading, saving, each exchange
with the CA and each file write are separate steps. `Save` is gorm's `Save`:
UPDATE, else INSERT. `ClearACMEChallenge` has a copy of its own. The CA is a
sequence of orders, which validation makes ready or invalid. An order's number stands
for its token, its challenge, its certificate and its key. What the clock says of a
challenge's 24 hours and what DNS answers are free choices. A handler and the manager
method it calls read the row twice and check it twice; the model reads once, since the
first check alone changes nothing.

`Failures` says what may go wrong. `ca`: the CA refuses, cannot be reached, or its
answer is lost. `db`: a statement returns an error, and a write may have taken effect
all the same; from `GetCertRow` on such an error leaves the status as it is, as the
code does. `disk`: a write fails and may have truncated its file, a load fails. An
order that is still pending in `RequestCertificate` is waited for: `WaitOrder` has only
the context of the HTTP request, which has no deadline.

`Crash` restarts the process. It also stands for the runtime's reaction to
concurrent access of the two unguarded maps; short of that, map operations are
atomic. `Cancel` ends a request at its next call with a context, as when the
client disconnects or the renewal's five minutes are over.

Left out of this module: renaming by `PUT`; `generate-cert`, whose handler demands
`dns_verified` (`domain_handler.go:344`) while the manager refuses it
(`certificate_manager.go:170`), so that it never changes anything.

### RenewalService and CertRenewal

`RenewalService` is what the rest of the server sees of the renewal service: it
starts with a check, the ticker brings more, `Stop` asks the loop to end, and the
loop ends between two checks, eventually.

`CertRenewal` (`cert_renewal.go`, `RenewCertificate`, `cert_storage.go`,
`cert_store.go`, the TLS side of `smtp/backend.go`) implements it
(`ImplementsService`, with its fairness). Time is in days: a certificate is its
number of days left, `NextDay` makes all of them older and lets the ticker fire. The
check takes the list of due certificates, most urgent first, and renews one after
the other; writing the certificate file, the key file, the row and the two
entries of the SNI store (`name` and `mail.name`) are steps of their own, each of
which may fail or be the last one before a crash; an update of the row may also take
effect and be reported as failed. The exchange with the CA is one step with its
outcomes. All renewals of a check share five minutes, and any of them may use up what
is left, with or without success; after that nothing that needs the context succeeds.
`Boot` is the start of the process: `ReloadAll`, which may fail for any of the domains
or for all, then `Start`, unless storage or ACME client are missing. `unloaded` is
history: the domains whose files were not loaded when they should have been, at the
start or after a renewal. `Presented` is what a handshake gets.

`ForceCheck` is left out: only tests call it. Two goroutines that call `Stop` and
`Start` at once could make the old loop read the new stop channel; `main` calls
each once. `RenewCertificate` asks the CA for a new challenge whose value it shows to
nobody, so with a CA that does not reuse the earlier authorization every renewal
fails or stalls; both are outcomes of the model.

### Server

`cmd/server/main.go` around MailDelivery and RenewalService. `main` is the control
state of the shutdown; each wait or close is one action. The server may run without a
renewal service, when it was started without storage or ACME client. A signal and a listener
error are the same step. The context of ten seconds begins before `Stop` and may be
over at any moment after it. HTTP requests count by whether they are running
(`busy`); while one is, API steps of MailDelivery may happen. Closing a
connection does not end the session's `Data` (go-smtp calls `Logout`, which does
nothing here): it goes on storing, fails at statements once the database is closed,
and its 250 reaches nobody. `acked` holds the mails whose 250 could still be written.
When `main` returns, the rest ends with it, and the process may be started again.

### SetupLog

Sources: `acme_logger.go` and the handlers of the log pages, for one domain. Each
exported method is the sequence of critical sections it goes through
(`Sections`): `MarkFailed`, for example, takes the lock three times. Taking the
lock, changing the log and writing the file are separate steps, so a crash may
hit the write. `GetDomainLog` gives up its read lock, takes the write lock, loads
the file and takes a read lock again to match its deferred calls; `GetAllLogs`
loads under the read lock. Two pages that do so at once write a map concurrently,
for which the Go runtime stops the process: `ConcurrentMapWrites`. The RWMutex lets one
writer at a time get in line (`Queue`), who then holds new readers back; after an
`Unlock` readers that wait may get in before the next writer, also between two
sections of one call. A log is its
session, its number of entries and whether its status is final; `ErrorSummary`
and the other fields are left out. `unsaved` and `saw` are history: whether the
last save failed, and what a page may count on.

Operators marked `Fault:` in the modules are plausible bugs. They are not part of
any specification; `PROJECT.json` names, for every property, one that violates it.

## 3. Runs

`hub`, `feed` and the runs of mail and set-up say `CHECK_DEADLOCK FALSE`: connections,
notifications, mails and orders are bounded, so those models stop when the bounds
are used up. The others may restart, and TLC checks that they never get stuck.

| Run | Instance | Shows |
|---|---|---|
| hub | 1 connection, 1 mailbox, 2 publishers, `SendCap` 1, `BroadcastCap` 2, 4 notifications | `PublisherNeverStalls`, `BufferedIsWritten`, `DeadClientIsForgotten` |
| feed | 1 connection, 2 mailboxes, 2 publishers, both capacities 1, 4 notifications | `NoPanic`, `SubscribersAreRegistered`, `NotificationOrder` (broadcast order, no duplicates, whatever is skipped), `ImplementsFeed`, `TypeOK` |
| setup_log | 2 callers, 3 sessions, 2 entries, failing saves, restarts | `FileIsCurrent`, `PageIsRecent`, `NeverBackwards`, `CallsReturn`, `TypeOK` |
| server | 2 sessions, 1 address, 2 mails with an attachment, 1 HTTP request | `AcknowledgedIsStored`: neither racing provisioning nor a shutdown loses an acknowledged mail; `RenewalNotCut`, `ShutdownEnds`, `ServerTypeOK` |
| mail_faults | 1 session, a mail with 2 RCPTs and an attachment, 2 domain names, all disturbances | `AttachmentHasFile`, `FilesNotShared`, `AtMostOnce`, `AnnouncedAsStored`, `DataIsAnswered`, `TypeOK` |
| domain_setup | 2 requests, all operations, all failures, 2 ids, 1 order | `IssuedHasCertificate`, `TypeOK` |
| domain_ends | 2 requests, 2 orders, legacy row, issuing and renewal, no failures | `WaitsForAnother`, `RequestsEnd` |
| renewal | 2 domains, certificates of 4 days that are due at 2, all failures | `TornIsDue`, `NotDueIsServed`, `ExpiresOnlyTried`, `ImplementsService`, `TypeOK` |

Runs that show a disagreement between the code and what a comment or a document
says of it (`findings` in `PROJECT.json` quotes both):

| Run | Counterexample |
|---|---|
| mail_sizes | the attachment reader is drained by the first recipient; the second one's file is empty |
| domain_pending | the client of a submit disconnects: `pending_certificate` stays, and nobody generates a certificate. Database errors and restarts do the same |
| domain_deleted | a save after `DELETE` inserts the domain again |
| domain_stuck | a submit cut off before its last step leaves `certificate_issued`, which no route leads out of by activation |

Further consequences are plain in the code and not kept as runs:

* the challenge that `ClearACMEChallenge` clears is written back by its caller's save
  (`certificate_manager.go:821`, `828`), and a `PUT` writes back the status it read
  (`domain_handler.go:162`);
* the attachment files of a deleted message stay on disk (`message_repository.go:124`);
* with auto-provisioning off, delivery still creates mailboxes: `processEmail`
  lower-cases the address and calls `GetOrCreate` whatever the setting
  (`session.go:178`), so mail to an API mailbox spelled `John`, or deleted after RCPT,
  makes a new one;
* a crash between the two file writes of a renewal leaves a pair that does not load,
  and an active domain without TLS after the restart (`cert_storage.go:101`), until a
  renewal succeeds: `TornIsDue` is the part of it that does hold. A submit writes the
  same files for a row that is not due, so a pair it breaks, or that two requests mix,
  has no such promise;
* a certificate that has expired is never renewed again
  (`certificate_repository.go:148`), and renewals that use up the five minutes keep the
  rest from being tried: `ExpiresOnlyTried` says how far;
* a `ReloadAll` or hot reload that fails is logged or ignored (`main.go:136-138`,
  `certificate_manager.go:485`), and until the next one clients get an older certificate
  or none: `NotDueIsServed` excepts these domains;
* a submit whose order a parallel request has replaced waits for the new order under a
  context without deadline (`acme_client.go:437`), perhaps until its client goes away:
  `WaitsForAnother` says that this is the only unlimited wait for an order;
* a message whose COMMIT took effect and was reported as failed is stored and never
  announced (`session.go:222-224`);
* the shutdown's ten seconds run while `Stop` waits for the renewal loop, up to five
  minutes: HTTP requests may get none of them (`main.go:303-308`);
* once `SMTP_TLS_CERT` and `SMTP_TLS_KEY` load, `NewSecureServer` uses the legacy
  TLS configuration and never asks the SNI store (`backend.go:157`, `288-295`), though
  the comment at line 285 says it is used "if no SNI GetCertificate is provided". The
  model is of a server without these variables.

Why the bounds are enough: the hub treats connections alike and they interact
only through the hub; a connection is disturbed by its own pumps, by the hub and
by publishers, of which there are two. A buffer of one frame and four
notifications give every combination of full, skipped and closed. For more
connections the safety properties are proved; that one connection does not hold
up another rests on `TrySend` not blocking and is not checked with two. Two
callers of the log are a page and whoever writes in its gap.
Two sessions are the race of `GetOrCreate`; two RCPTs are what sharing a
`ParsedEmail` takes, and as mailboxes are deleted and created again meanwhile, both
may be for one address and yet end in two mailboxes. `AutoProvision` is true: RCPT
then accepts all it accepts otherwise. One HTTP request that never ends is enough
to hold up a shutdown. Certificates of four days that are due at two have days on
which they are not due, one on which they are, and one on which they expire next; two
domains are one that is tried and one that comes after it. Two requests and two orders
are what mixes the entries of the ACME client's maps, in `domain_ends`; in
`domain_setup`, where everything may fail, one order is enough for stale saves, since
what they lose is in the row. Larger values are covered by the proofs of section 4, for safety; liveness is checked on
these instances only.

Symmetry is used in the safety run of two requests only, which no definition tells
apart.

### Fairness

* Hub: weak fairness for steps that stay possible (taking from a buffer, failing
  on a closed connection, a write that ends by its deadline), strong fairness for
  rendezvous with the hub and for sends into `broadcast`: Go's `select` picks at
  random among ready cases and blocked senders queue in order. Peers and
  publishers start nothing by fairness.
* Setup log: goroutines go on, and the RWMutex starves nobody, as its
  documentation promises: strong fairness for getting in line and for readers, weak
  for a writer in line, whom new readers do not overtake.
* Renewal: the check goes on, since every call it makes has the five minute context
  or answers (weak); a closed stop channel is always ready at the `select`, which
  does not prefer the ticker for ever (strong, as a check makes it unready).
* Server: `main` goes on and its context runs out; of the renewal loop no more than
  RenewalService's own fairness, which `ImplementsService` shows CertRenewal to
  have; nothing of HTTP requests, mail sessions and users.
* Delivery: a session's goroutine keeps running while it handles DATA.
* Set-up: a request takes its next step when it can. The code limits DNS look-ups (ten
  seconds) and the poll of the authorization (five minutes, and two for the order
  after it); that database and CA
  answer every other call, and that the CA comes to an end with an order it processes,
  is an assumption about them, as neither `http.Client` nor context has a timeout.
  Nothing is assumed of an order that is pending. `domain_stuck` also
  assumes that the user presses retry whenever that does something, to show that
  it is no way out.

## 4. Proofs

TLAPS proves every safety property that a passing run checks, invariants and
action properties, for all values of the constants that satisfy the named
assumptions. Theorems with further hypotheses state them; the runs satisfy these
hypotheses. Each proof has the form `Init => I`, `I /\ [Next]_vars => I'`, `I =>` the
property, one case per action; what follows is `I` and why it is needed.

`WebSocketHubProofs`, for all sets of clients, mailboxes and publishers and all
capacities (`MailboxAssumption`, `CapAssumption`):

* `TypeCorrect`: `Spec => []TypeOK`, buffer bounds included;
* `NoPanicTheorem`: `Spec => []NoPanic`, and `SubscribersTheorem`:
  `Spec => []SubscribersAreRegistered`. Neither is inductive. A send is safe because
  its target is registered, and registered because the hub is the only one to close;
  a subscribe is safe because a client that waits in `subscribe` has not
  unregistered. `ChannelInv` says so: registered clients are exactly those whose
  reader is between registration and unregistration (`ClientsAreLive`), their
  channels are open (`LiveAreOpen`), subscribers and the targets of the current
  fan-out are registered (`SubscribersAreRegistered`, `PendingAreRegistered`);
* `NotificationOrderTheorem`: `Spec => []NotificationOrder`. The order of what a
  client has says nothing about what it gets next, so `OrderInv` adds that the
  broadcast channel holds consecutive numbers after the current one (`Numbered`) and
  that a client has none past the current one, nor the current one itself as long as
  it is still pending for it (`Ordered`).

`HubFeedProofs`: `FeedRefinement`, `HubFeedSpec => ImplementsFeed`. `FeedInv` ties the
history to the channels: the broadcast channel is the published rest that is not
fanned out (`FannedOut`, `ChannelIsRest`), and whatever is pending, buffered or being
written for a client is one it was entitled to (`PendingEntitled`, `NotesEntitled`).
With `OrderInv` a finished write of a notification is then a step `Receive` of the
feed. `HubBroadcast` is `FanOut`, the send into `broadcast` is `Publish`, the hub's
handling of subscriptions is `Subscribe`, `Unsubscribe` and `Leave`; the rest stutters.

`MailDeliveryProofs`, for any sessions, domains, addresses and mails (at least one
kind of mail: `EmailAssumption`) and any `Disturbances`:

* `TypeCorrect`, `AttachmentHasFileTheorem`, `FilesNotSharedTheorem`,
  `AtMostOnceTheorem`, `AnnouncedAsStoredTheorem`: the invariants of the run
  `mail_faults`. `MailInv` has three parts beside the types. `ControlInv`: what the
  locals of a session hold at which step. `FileInv`: a file belongs to the one
  session that saved it until its rows are committed, and to one message after.
  `MessageInv`: no two sessions handle one mail (`OwnMail`), a mail has messages for
  recipients before the current one only, all announced or `unanswered` but the one
  that is about to be (`StoredSoFar`, `NotifiedIsStored`), and completed mails are over
  (`CompletedIsOver`).

`SetupLogProofs`, for any number of callers and bounds:

* `TypeCorrect`, `FileIsCurrentTheorem`, `PageIsRecentTheorem`: `Spec => []...`, and
  `NeverBackwardsTheorem`: `Spec => NeverBackwards`. `LockInv`: who holds the RWMutex
  is told by the steps, writers exclude everybody, and whoever is on its way to a
  critical section has one left. `LogInv`: only a running save may find the file
  behind, sessions in memory and file have begun, and what a page may count on is in
  memory or, before anything is, in the file (`PromiseKept`). That a page which loads
  the file in the gap of `GetDomainLog` brings nothing old back follows from the last.

`DomainLifecycleProofs`, for any number of requests, any operations and failures and any
bounds:

* `TypeCorrect`: `Spec => []TypeOK`; it needs that orders which requests have picked up
  exist (`PickedUp`) and that ids in the row and in all copies have been given out
  (`IdsGivenOut`);
* `IssuedHasCertificateTheorem`: `Spec => []IssuedHasCertificate`. The danger are stale
  copies. `CertifiedInv`: not only the row but every copy that may still be saved claims
  a certificate only if there is one or the domain has been deleted (`Backed`), a request
  keeps to one id, and past `PutCertRow` the certificate row of that id is there until
  `DELETE`. A save after `DELETE` brings a row back without its certificate row, so the
  exception is needed;
* `WaitsTheorem`: `Spec => []WaitsForAnother`. `WaitInv`: the order that the ACME client
  remembers is the last one, and at `finalize` the order a request has had validated is
  no longer pending; what it finds pending after that is a later one.

`CertRenewalProofs`, for any domains, any renewal window and lifetime with
`Lifetime > RenewalDays > 0` (`DomainAssumption`, `DaysAssumption`):

* `TypeCorrect`: `Spec => []TypeOK`;
* `TornTheorem`: `Spec => []TornIsDue`, and `ServedTheorem`: `Spec => []NotDueIsServed`,
  from one inductive invariant `IInv`: what the check has still to look at is due
  (`ListedAreDue`), so a write that breaks a pair breaks a due one; the row is
  updated only for a whole pair (`PairBeforeRow`) and never promises more than the
  file has (`RowIsBehind`), so a reload at start serves what rows promise; the store
  has what rows promise, but for the entry being added and for what was not loaded
  (`StoreIsCurrent`);
* `ExpiresTheorem`: `Spec => ExpiresOnlyTried`, from `UrgentInv`: what expires next is
  still listed or excused (`UrgentAreListed`, `CheckedAreExcused`), and once the time of
  a check is over either nothing that expires next is left or one of those was tried,
  since the most urgent come first (`OutOfTime`);
* `ServiceRefinement`: `Spec => Service!Off /\ [][Service!ServiceNext]_...`, the safety
  part of `ImplementsService`.

`ServerProofs`, for any sessions, requests and mails:

* `RenewalNotCutTheorem`: `ServerSpec => []RenewalNotCut`, from `ShutdownInv`: past the
  wait the loop is off, and the database is open until after;
* `ServerTypeCorrect`: `ServerSpec => []ServerTypeOK`;
* `AcknowledgedIsStoredTheorem`: `ServerSpec => []AcknowledgedIsStored` when `"api"` is
  not in `Disturbances`: what RCPT or a look-up has found must not be deleted before
  it is used, or that recipient gets nothing and the 250 is sent all the same
  (`session.go:143-152`). MailDelivery's
  `MailInv` is used again, as every step of a session in Server is one there.
  `DeliveryInv` adds that what a session has found is still there and that a session
  whose connection is open has stored its mail for every recipient behind it
  (`SessionDelivers`): a statement fails only once the database is closed, and that
  is after the connections.

Only model-checked: liveness, which needs fairness and ENABLED and is out of the
prover's reach: `PublisherNeverStalls`, `BufferedIsWritten`, `DeadClientIsForgotten`,
`CallsReturn`, `DataIsAnswered`, `RequestsEnd`, `ShutdownEnds`, and the fairness that
`ImplementsService` asks of CertRenewal. Nothing is proved about the four runs that
end in a counterexample.

## 5. Not modelled

See `components` in `PROJECT.json`. In short: parsing and formatting (MIME, DNS
records, JSON, log pages), configuration, authentication, CORS, validation and
origin checks, the database itself beyond keys and cascades, read flags and
access times, listings and downloads. The rate limiter is a map under a mutex around
a library's token bucket; as the router wires it (`router.go:54-58`) entries are
never removed, so there is no interleaving that could matter. `ForceCheck`,
`RemoveCertificate`, `ReloadCertificates`, `SetDefaultCertificate` and
`attachmentRepository.Delete` have no caller in the server.

## 6. Plan

Done, in this order: WebSocketHub with its proofs, MailDelivery, DomainLifecycle,
SetupLog, NotificationFeed and HubFeed, RenewalService and CertRenewal, Server; then
the proofs of all safety properties.
Next:

1. Set-up as a whole: under a user who follows `getNextStepForStatus`, which
   statuses lead to `active`, and which do not, after crashes and lost orders.
2. How far `AcknowledgedIsStored` survives `DELETE` and `PUT`.
3. The files of a submit next to a renewal of the same domain: what can be said of
   certificate and key when both are replaced in place by two requests.
