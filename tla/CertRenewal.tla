---------------------------- MODULE CertRenewal -----------------------------
(***************************************************************************)
(* Certificates over time: the renewal service (cert_renewal.go) with its  *)
(* daily check, the rows, PEM files and SNI entries a renewal replaces one *)
(* after the other, and the TLS handshakes that are answered from them     *)
(* (cert_store.go, smtp/backend.go).  The process may be stopped, crash    *)
(* and start again at any point.                                           *)
(*                                                                         *)
(* A certificate is its number of days left; 0 is expired.  The ACME       *)
(* exchange of a renewal is one step with its outcomes, its details are in *)
(* DomainLifecycle; so are requests that issue certificates meanwhile.     *)
(***************************************************************************)
EXTENDS Integers, FiniteSets

CONSTANTS
  Domain,       \* domains with a row in domain_certificates
  AutoRenew,    \* those with auto_renew
  RenewalDays,  \* CERT_RENEWAL_DAYS, 30 by default
  Lifetime      \* days a new certificate is valid, 90 at Let's Encrypt

ASSUME DomainAssumption == Domain # {} /\ AutoRenew \subseteq Domain
ASSUME DaysAssumption ==
  /\ RenewalDays \in Nat \ {0} /\ Lifetime \in Nat /\ Lifetime > RenewalDays

VARIABLES
  row,      \* days until expires_at of every row
  pem,      \* certificate file: its days left, and whether the pair loads
  sni,      \* certificateStore.certificates: under the name, under mail.name
  running,  \* CertRenewalService.running
  loop,     \* control state of renewalLoop, and of the check while it runs
  due,      \* certificates the check has still to look at
  at,       \* the certificate being saved, Default when there is none
  inTime,   \* the five minutes of the check's context are not over
  tried,    \* history: certificates whose renewal was tried today
  last,     \* history: one of them had only one day left
  checked,  \* history: a check went through all due certificates today
  unloaded  \* history: the last load of their files failed or was left out

certs == <<row, pem, sni>>
check == <<due, at, inTime>>
history == <<tried, last, checked>>
vars == <<certs, running, loop, check, history, unloaded>>

-----------------------------------------------------------------------------
None == -1   \* no entry in the store
Days == 0..Lifetime
Default == CHOOSE d \in Domain : TRUE
NoEntry == [name |-> None, mail |-> None]
Entry == [name : Days \cup {None}, mail : Days \cup {None}]
Saving == {"cert", "key", "row", "add", "add_mail"}
LoopStates == {"off", "list", "renew", "select"} \cup Saving

TypeOK ==
  /\ row \in [Domain -> Days]
  /\ pem \in [Domain -> [left : Days, whole : BOOLEAN]]
  /\ sni \in [Domain -> Entry]
  /\ running \in BOOLEAN
  /\ loop \in LoopStates /\ (running => loop # "off")
  /\ due \subseteq Domain /\ at \in Domain
  /\ loop \in Saving => at \in due \cap AutoRenew
  /\ inTime \in BOOLEAN
  /\ tried \subseteq AutoRenew /\ last \in BOOLEAN /\ checked \in BOOLEAN
  /\ unloaded \subseteq Domain

\* The process is down; what was issued before is on disk.
Init ==
  /\ row \in [Domain -> Days]
  /\ pem = [d \in Domain |-> [left |-> row[d], whole |-> TRUE]]
  /\ sni = [d \in Domain |-> NoEntry]
  /\ running = FALSE /\ loop = "off"
  /\ due = {} /\ at = Default /\ inTime = FALSE
  /\ tried = {} /\ last = FALSE /\ checked = FALSE
  /\ unloaded = Domain

-----------------------------------------------------------------------------
(* The SNI store.                                                          *)
LoadCertificate(d) == IF pem[d].whole THEN pem[d].left ELSE None

(* ReloadAll: every row whose pair loads, under both names, nothing else.  *)
(* A file that cannot be read leaves its domain out; a query that fails    *)
(* leaves the new store as empty as it was.                                *)
ReloadAll(failed) ==
  [d \in Domain |-> IF d \in failed THEN NoEntry
                    ELSE [name |-> LoadCertificate(d), mail |-> LoadCertificate(d)]]

\* GetCertificateFunc: the exact name, then the name without its first label.
GetCertificateFunc(d, kind) ==
  IF sni[d][kind] # None THEN sni[d][kind] ELSE sni[d].name

(* The certificate of d a client gets that asks for d or mail.d: what      *)
(* getCertificateWithFallback finds in the store.  SMTP_TLS_CERT is unset; *)
(* set, it puts one fixed pair in the place of all of this.                *)
Presented(d, kind) == GetCertificateFunc(d, kind)

-----------------------------------------------------------------------------
(* main: ReloadAll before anything is served, then Start.  Errors of the   *)
(* first are only logged; without certificate storage there is no store,   *)
(* and without storage or ACME client no renewal service.                  *)
Boot ==
  /\ ~running /\ loop = "off"
  /\ \E failed \in SUBSET Domain : sni' = ReloadAll(failed) /\ unloaded' = failed
  /\ \/ running' = TRUE /\ loop' = "list" /\ inTime' = TRUE
     \/ UNCHANGED <<running, loop, inTime>>
  /\ UNCHANGED <<row, pem, due, at, history>>

\* Stop: the flag and the channel; the caller then waits for the loop.
Stop ==
  /\ running
  /\ running' = FALSE
  /\ UNCHANGED <<certs, loop, check, history, unloaded>>

\* <-stopCh
LoopEnds ==
  /\ ~running
  /\ loop = "select"
  /\ loop' = "off"
  /\ UNCHANGED <<certs, running, check, history, unloaded>>

\* The process is gone, and what it had loaded.
Crash ==
  /\ running' = FALSE
  /\ loop' = "off"
  /\ due' = {} /\ at' = Default /\ inTime' = FALSE
  /\ sni' = [d \in Domain |-> NoEntry]
  /\ unloaded' = Domain
  /\ UNCHANGED <<row, pem, history>>

(* A day passes.  Checks take minutes, so none is running; the ticker,     *)
(* every 24 hours, brings the next one when the loop is at its select.     *)
Older(left) == IF left > 0 THEN left - 1 ELSE left

NextDay ==
  /\ loop \in {"off", "select"}
  /\ row' = [d \in Domain |-> Older(row[d])]
  /\ pem' = [d \in Domain |-> [pem[d] EXCEPT !.left = Older(@)]]
  /\ sni' = [d \in Domain |-> [name |-> Older(sni[d].name), mail |-> Older(sni[d].mail)]]
  /\ tried' = {} /\ last' = FALSE /\ checked' = FALSE
  /\ loop' = IF loop = "select" THEN "list" ELSE "off"
  /\ inTime' = (loop = "select")
  /\ UNCHANGED <<running, due, at, unloaded>>

-----------------------------------------------------------------------------
(* checkAndRenewCertificates.                                              *)
\* Fault: certificates that have expired are listed as well.
GetExpiringAndExpired == {d \in Domain : row[d] <= RenewalDays}

\* expires_at <= now + days AND expires_at > now
GetExpiringCertificates == {d \in Domain : row[d] <= RenewalDays /\ row[d] > 0}

ListExpiring ==
  /\ loop = "list"
  /\ due' = GetExpiringCertificates
  /\ loop' = "renew"
  /\ UNCHANGED <<certs, running, at, inTime, history, unloaded>>

\* Fault: a list that fails ends the goroutine, and not only its check.
ListFailsForGood ==
  /\ loop = "list"
  /\ loop' = "off"
  /\ inTime' = FALSE
  /\ UNCHANGED <<certs, running, due, at, history, unloaded>>

\* The database fails, and the check with it; its context is cancelled.
ListFails ==
  /\ loop = "list"
  /\ loop' = "select"
  /\ inTime' = FALSE
  /\ UNCHANGED <<certs, running, due, at, history, unloaded>>

\* ORDER BY expires_at; on one day, any of them may be first.
IsNext(d) == d \in due /\ \A e \in due : row[d] <= row[e]

\* The loop goes on with the next certificate.
Done(d) == loop' = "renew" /\ due' = due \ {d} /\ at' = Default

\* A renewal is tried, which takes some of the context's time, or the rest.
Try(d) ==
  /\ tried' = tried \cup {d}
  /\ last' = (last \/ row[d] = 1)
  /\ inTime' \in BOOLEAN

\* Auto-renewal is off, or the context is over: the first query fails.
Skip(d) ==
  /\ loop = "renew"
  /\ IsNext(d)
  /\ d \notin AutoRenew \/ ~inTime
  /\ Done(d)
  /\ UNCHANGED <<certs, running, inTime, history, unloaded>>

(* RenewCertificate up to the new certificate: a new challenge, its        *)
(* validation, the order.  It may fail, and it may use up what is left of  *)
(* the context: it polls every five seconds and waits for the order; a     *)
(* certificate that comes too late fails at the row.                       *)
RenewCertificate(d) ==
  /\ loop = "renew"
  /\ IsNext(d)
  /\ d \in AutoRenew /\ inTime
  /\ Try(d)
  /\ \/ Done(d)
     \/ loop' = "cert" /\ at' = d /\ UNCHANGED due
  /\ UNCHANGED <<certs, running, checked, unloaded>>

\* The five minutes end while a certificate is being stored.
ContextEnds ==
  /\ loop \in Saving /\ inTime
  /\ inTime' = FALSE
  /\ UNCHANGED <<certs, running, loop, due, at, history, unloaded>>

\* Fault: while something is still due, the next check begins at once.
CheckAgainWhileDue ==
  /\ loop = "renew"
  /\ due = {}
  /\ loop' = IF GetExpiringCertificates = {} THEN "select" ELSE "list"
  /\ inTime' = (GetExpiringCertificates # {})
  /\ checked' = TRUE
  /\ UNCHANGED <<certs, running, due, at, tried, last, unloaded>>

CheckDone ==
  /\ loop = "renew"
  /\ due = {}
  /\ loop' = "select"
  /\ inTime' = FALSE
  /\ checked' = TRUE
  /\ UNCHANGED <<certs, running, due, at, tried, last, unloaded>>

\* Fault: the row is updated before the files are written.
SaveCertificateAfterRow ==
  /\ loop = "cert"
  /\ pem' = [pem EXCEPT ![at] = [left |-> Lifetime, whole |-> FALSE]]
  /\ row' = [row EXCEPT ![at] = Lifetime]
  /\ loop' = "key"
  /\ UNCHANGED <<sni, running, check, history, unloaded>>

(* SaveCertificate: fullchain.pem, then privkey.pem, in place.  A write    *)
(* that fails may have truncated its file; the clean-up after the second   *)
(* removes the certificate.                                                *)
SaveCertificate ==
  /\ loop = "cert"
  /\ pem' = [pem EXCEPT ![at] = [left |-> Lifetime, whole |-> FALSE]]
  /\ loop' = "key"
  /\ UNCHANGED <<row, sni, running, check, history, unloaded>>

SaveKey ==
  /\ loop = "key"
  /\ pem' = [pem EXCEPT ![at].whole = TRUE]
  /\ loop' = "row"
  /\ UNCHANGED <<row, sni, running, check, history, unloaded>>

SaveFails ==
  /\ loop \in {"cert", "key"}
  /\ \/ pem' = [pem EXCEPT ![at].whole = FALSE]
     \/ loop = "cert" /\ UNCHANGED pem
  /\ Done(at)
  /\ UNCHANGED <<row, sni, running, inTime, history, unloaded>>

\* certRepo.Update, which the end of the context or the database prevents.
UpdateRow ==
  /\ loop = "row"
  /\ inTime
  /\ row' = [row EXCEPT ![at] = pem[at].left]
  /\ loop' = "add"
  /\ UNCHANGED <<pem, sni, running, check, history, unloaded>>

UpdateFails ==
  /\ loop = "row"
  /\ Done(at)
  /\ UNCHANGED <<certs, running, inTime, history, unloaded>>

\* The row is updated, and the connection lost before the answer: no hot reload.
UpdateUnanswered ==
  /\ loop = "row"
  /\ inTime
  /\ row' = [row EXCEPT ![at] = pem[at].left]
  /\ unloaded' = unloaded \cup {at}
  /\ Done(at)
  /\ UNCHANGED <<pem, sni, running, inTime, history>>

\* Fault: the hot reload adds the certificate under the bare name only.
AddMailOmitted ==
  /\ loop = "add_mail"
  /\ Done(at)
  /\ UNCHANGED <<certs, running, inTime, history, unloaded>>

(* triggerHotReload: LoadAndAddCertificate, two entries under two locks.   *)
(* Its error, when a file cannot be read, is ignored.                      *)
AddCertificate ==
  /\ loop = "add"
  /\ \/ /\ sni' = [sni EXCEPT ![at].name = LoadCertificate(at)]
        /\ unloaded' = unloaded \ {at}
        /\ loop' = "add_mail"
        /\ UNCHANGED <<due, at>>
     \/ /\ unloaded' = unloaded \cup {at}
        /\ Done(at)
        /\ UNCHANGED sni
  /\ UNCHANGED <<row, pem, running, inTime, history>>

AddMailCertificate ==
  /\ loop = "add_mail"
  /\ sni' = [sni EXCEPT ![at].mail = LoadCertificate(at)]
  /\ Done(at)
  /\ UNCHANGED <<row, pem, running, inTime, history, unloaded>>

CheckStep ==
  \/ ListExpiring \/ ListFails \/ CheckDone
  \/ \E d \in Domain : Skip(d) \/ RenewCertificate(d)
  \/ SaveCertificate \/ SaveKey \/ SaveFails \/ UpdateRow \/ UpdateFails \/ UpdateUnanswered
  \/ AddCertificate \/ AddMailCertificate

Next == Boot \/ Stop \/ LoopEnds \/ Crash \/ NextDay \/ ContextEnds \/ CheckStep

(* The check goes on: every call has the context or answers.  A closed     *)
(* stop channel is not passed over for the ticker again and again.         *)
Spec == Init /\ [][Next]_vars
FairSpec == Spec /\ WF_vars(CheckStep) /\ SF_vars(LoopEnds)

-----------------------------------------------------------------------------
(* One context covers the renewals of all certificates (cert_renewal.go:   *)
(* 114): those tried first may leave no time for the rest, and one that    *)
(* has expired is never tried again (certificate_repository.go:147).       *)
(* Still, on a day with a complete check no certificate expires untried,   *)
(* unless another that was to expire the same day was tried: the query     *)
(* leaves out what has expired, and its order puts the most urgent first.  *)
ExpiresOnlyTried ==
  [][\A d \in AutoRenew :
       row[d] = 1 /\ row'[d] = 0 => ~checked \/ d \in tried \/ last]_vars

(* A pair of files that a renewal left broken, by a crash or a failed      *)
(* write, is due: its row is updated after the files                       *)
(* (certificate_manager.go:391-402), so that the checks go on trying to    *)
(* replace it until it expires.                                            *)
TornIsDue == \A d \in Domain : ~pem[d].whole => row[d] <= RenewalDays

(* cert_store.go:12: certificates are reloaded "without server restart".   *)
(* A row that is not due is what clients get, for the domain and for its   *)
(* mail host, unless the hot reload is about to add it; whichever of row,  *)
(* files and store a stop or a failed write came between.  The exception   *)
(* is a load that failed, at the start or in the hot reload, of which at   *)
(* most the log knows, or one left out since the update of the row was     *)
(* reported as failed and was not: until the next load clients get         *)
(* something older, or nothing.                                            *)
NotDueIsServed ==
  \A d \in Domain \ unloaded, kind \in {"name", "mail"} :
    \/ row[d] <= RenewalDays
    \/ loop \in {"add", "add_mail"} /\ at = d
    \/ Presented(d, kind) >= row[d]

Service == INSTANCE RenewalService WITH
  loop <- CASE loop = "off" -> "off" [] loop = "select" -> "waiting"
            [] OTHER -> "checking"

(* To the rest of the server this is a loop that checks and waits, and     *)
(* that ends after Stop, whatever the check is doing (cert_renewal.go:     *)
(* 52-110).                                                                *)
ImplementsService == Service!ServiceSpec

=============================================================================
