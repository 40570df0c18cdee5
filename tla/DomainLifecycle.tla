-------------------------- MODULE DomainLifecycle ---------------------------
(***************************************************************************)
(* The setup of one mail domain: the domain handlers                       *)
(* (internal/api/handlers/domain_handler.go), the domain and certificate   *)
(* managers, the ACME client's memory of its order and challenge, and the  *)
(* rows and files they leave behind.                                       *)
(*                                                                         *)
(* Handlers run concurrently.  Each reads the domain row, works on its     *)
(* copy, sometimes for minutes, and saves the whole copy: every read,      *)
(* every save and every exchange with the CA is a step of its own.         *)
(* Domains share nothing but the maps of the ACME client, which are keyed  *)
(* by name, so one domain is modelled.  Its name does not change.          *)
(***************************************************************************)
EXTENDS Integers, Sequences, FiniteSets

CONSTANTS
  Request,        \* HTTP requests, and the renewal loop, that run at a time
  Ops,            \* the operations that may be called
  Failures,       \* which of "crash", "cancel", "ca", "db" and "disk" may happen
  LegacyDomain,   \* start with a row from before the setup flow existed
  MaxIds,         \* bound of the model: domain ids
  MaxOrders       \* bound of the model: ACME orders

AllOps == {"create", "delete", "update", "verify_dns", "request_challenge",
           "verify_acme", "acme_status", "submit", "retry", "renew"}

ASSUME OpsAssumption == Ops \subseteq AllOps
ASSUME FailuresAssumption == Failures \subseteq {"crash", "cancel", "ca", "db", "disk"}
ASSUME BoundsAssumption ==
  MaxIds \in Nat /\ MaxOrders \in Nat /\ LegacyDomain \in BOOLEAN

VARIABLES
  row,              \* the row of the domain, id 0 when there is none
  certRow,          \* domain id of the row in domain_certificates, 0 when none
  certFile,         \* order of the certificate in fullchain.pem, 0 when none
  keyFile,          \* order of the key in privkey.pem, 0 when none
  store,            \* order of the pair the SNI store serves, 0 when none
  activeOrder,      \* acmeClient.activeOrders[name], 0 when absent
  activeChallenge,  \* acmeClient.activeChallenges[name], 0 when absent
  orders,           \* the CA's orders, in the order they were made
  lastId,           \* last domain id given out
  deleted,          \* history: ids that DELETE has removed
  proc              \* the running requests

db   == <<row, certRow, lastId, deleted>>
acme == <<activeOrder, activeChallenge, orders>>
disk == <<certFile, keyFile, store>>
vars == <<db, acme, disk, proc>>

-----------------------------------------------------------------------------
Status == {"pending_dns", "dns_verified", "pending_acme_challenge",
           "acme_challenge_ready", "pending_certificate", "certificate_issued",
           "active", "failed"}

\* token: DNSChallenge is set.  challenge: the order whose token is stored.
Row == [id : Nat, status : Status, active : BOOLEAN, token : BOOLEAN,
        challenge : Nat, verified : BOOLEAN]
NoRow == [id |-> 0, status |-> "pending_dns", active |-> FALSE, token |-> FALSE,
          challenge |-> 0, verified |-> FALSE]

Steps == {"idle", "dns", "read", "save", "request", "new_order", "new_challenge",
          "lookup", "complete", "validate", "finalize", "finalizing", "store",
          "store_key", "cert_get", "cert_put", "clear_read", "clear_save", "issue", "reload",
          "activate"}

\* What may follow a save.
AfterSave == {"idle", "request", "complete", "reload"}

(* A request: its operation, the step it is at, the step after a save, the *)
(* id it works on, its copy of the row and the one ClearACMEChallenge      *)
(* makes, the challenge and order it has picked up, whether it found a     *)
(* certificate row.                                                        *)
Process == [op : Ops \cup {"none"}, pc : Steps, then : AfterSave, id : Nat, copy : Row,
            clear : Row, challenge : Nat, order : Nat, found : BOOLEAN]
Idle == [op |-> "none", pc |-> "idle", then |-> "idle", id |-> 0, copy |-> NoRow,
         clear |-> NoRow, challenge |-> 0, order |-> 0, found |-> FALSE]

TypeOK ==
  /\ row \in Row
  /\ certRow \in Nat
  /\ {certFile, keyFile, store} \subseteq 0..Len(orders)
  /\ activeOrder \in 0..Len(orders) /\ activeChallenge \in 0..Len(orders)
  /\ orders \in Seq({"pending", "ready", "final", "invalid"})
  /\ lastId \in Nat /\ deleted \subseteq 1..lastId
  /\ proc \in [Request -> Process]
  /\ \A r \in Request : proc[r].pc \in {"validate", "finalize", "finalizing"} =>
       {proc[r].challenge, proc[r].order} \subseteq 1..Len(orders)

Init ==
  /\ row = IF LegacyDomain THEN [NoRow EXCEPT !.id = 1, !.active = TRUE] ELSE NoRow
  /\ lastId = row.id
  /\ deleted = {}
  /\ certRow = 0
  /\ certFile = 0 /\ keyFile = 0 /\ store = 0
  /\ activeOrder = 0 /\ activeChallenge = 0 /\ orders = <<>>
  /\ proc = [r \in Request |-> Idle]

-----------------------------------------------------------------------------
(* Building blocks of a request.                                           *)
At(r, pc) == proc[r].pc = pc
Goto(r, pc) == proc' = [proc EXCEPT ![r].pc = pc]
Return(r) == proc' = [proc EXCEPT ![r] = Idle]
GetByID(id) == row.id = id /\ id # 0

(* The database is away.  A read or a write then returns an error, and a   *)
(* write may have taken effect all the same.                               *)
DbFails == "db" \in Failures

\* What LoadX509KeyPair makes of the two files: a pair, or an error.
LoadCertificate == IF certFile = keyFile THEN certFile ELSE 0

\* A new request of operation op, at step pc, with its copy of the row.
Begin(r, op, pc, then, copy) ==
  /\ op \in Ops
  /\ At(r, "idle")
  /\ row.id # 0
  /\ proc' = [proc EXCEPT ![r] = [Idle EXCEPT !.op = op, !.pc = pc, !.then = then,
                                              !.id = row.id, !.copy = copy]]

\* Work on the copy is done; save it and go on at step then.
ThenSave(r, copy, then) ==
  proc' = [proc EXCEPT ![r].pc = "save", ![r].copy = copy, ![r].then = then]

(* gorm's Save: UPDATE by id and, if that matches no row, INSERT.  The     *)
(* insert fails when another row has taken the name.                       *)
SaveSucceeds(copy) == row.id = copy.id \/ row.id = 0
Save(copy) == row' = copy

\* domainRepo.Update of the copy; an error ends the request.
SaveRow(r) ==
  /\ At(r, "save")
  /\ \/ /\ SaveSucceeds(proc[r].copy)
        /\ Save(proc[r].copy)
        /\ \/ proc[r].then # "idle" /\ Goto(r, proc[r].then)
           \/ (proc[r].then = "idle" \/ DbFails) /\ Return(r)
     \/ /\ ~SaveSucceeds(proc[r].copy) \/ DbFails
        /\ Return(r)
        /\ UNCHANGED row
  /\ UNCHANGED <<certRow, lastId, deleted, acme, disk>>

-----------------------------------------------------------------------------
(* Create and delete.                                                      *)
CreateDomain ==
  /\ "create" \in Ops
  /\ row.id = 0
  /\ lastId < MaxIds
  /\ lastId' = lastId + 1
  /\ row' = [NoRow EXCEPT !.id = lastId + 1, !.token = TRUE]
  /\ UNCHANGED <<certRow, deleted, acme, disk, proc>>

\* The certificate row goes with it, files and SNI store stay.
DeleteDomain ==
  /\ "delete" \in Ops
  /\ row.id # 0
  /\ row' = NoRow
  /\ certRow' = 0
  /\ deleted' = deleted \cup {row.id}
  /\ UNCHANGED <<lastId, acme, disk, proc>>

\* PUT: read, set is_active, save.
UpdateDomain(r) ==
  /\ \E active \in BOOLEAN :
       Begin(r, "update", "save", "idle", [row EXCEPT !.active = active])
  /\ UNCHANGED <<db, acme, disk>>

-----------------------------------------------------------------------------
(* verify-dns.  A row without token gets one and waits for DNS again.      *)
MayVerifyDNS == \/ row.active /\ row.status # "active"
                \/ row.status \in {"pending_dns", "failed"}

\* GenerateChallengeForLegacyDomain.
WithToken(copy) == [copy EXCEPT !.token = TRUE, !.status = "pending_dns"]

VerifyDNS(r) ==
  /\ MayVerifyDNS
  /\ \/ row.token /\ Begin(r, "verify_dns", "dns", "idle", row)
     \/ ~row.token /\ Begin(r, "verify_dns", "save", "idle", WithToken(row))
  /\ UNCHANGED <<db, acme, disk>>

\* The DNS verifier ends, after up to three rounds of lookups and retries.
DNSChecked(r) ==
  /\ At(r, "dns")
  /\ \/ proc' = [proc EXCEPT ![r].pc = "read", ![r].copy.status = "dns_verified"]
     \/ Return(r)
  /\ UNCHANGED <<db, acme, disk>>

\* UpdateStatus: read the row again, set the status, save.
UpdateStatus(r) ==
  /\ At(r, "read")
  /\ \/ /\ GetByID(proc[r].id)
        /\ ThenSave(r, [row EXCEPT !.status = proc[r].copy.status], "idle")
     \/ (~GetByID(proc[r].id) \/ DbFails) /\ Return(r)
  /\ UNCHANGED <<db, acme, disk>>

\* The statuses retry may go to; from the others it changes nothing.
RetryTargets ==
  CASE row.status = "failed" -> {"dns_verified", "pending_dns", "pending_acme_challenge"}
    [] row.status = "pending_dns" -> {"pending_dns"}
    [] row.status \in {"pending_acme_challenge", "pending_certificate"} -> {"dns_verified"}
    [] OTHER -> {}

Retry(r) ==
  /\ \E target \in RetryTargets :
       Begin(r, "retry", "read", "idle", [row EXCEPT !.status = target])
  /\ UNCHANGED <<db, acme, disk>>

-----------------------------------------------------------------------------
(* request-acme-challenge.                                                 *)
RequestACMEChallenge(r) ==
  /\ row.status = "dns_verified"
  /\ Begin(r, "request_challenge", "new_order", "idle", row)
  /\ UNCHANGED <<db, acme, disk>>

\* GetDNSChallenge up to activeOrders[domain] = order.
NewOrder(r) ==
  /\ At(r, "new_order")
  /\ Len(orders) < MaxOrders
  /\ orders' = Append(orders, "pending")
  /\ activeOrder' = Len(orders) + 1
  /\ proc' = [proc EXCEPT ![r].pc = "new_challenge", ![r].challenge = Len(orders) + 1]
  /\ UNCHANGED <<activeChallenge, db, disk>>

(* The rest of it; RequestACMEChallenge then stores the challenge in the   *)
(* copy it read before.                                                    *)
NewChallenge(r) ==
  /\ At(r, "new_challenge")
  /\ activeChallenge' = proc[r].challenge
  /\ \/ /\ proc[r].op = "renew"
        /\ Goto(r, "complete")
     \/ /\ proc[r].op # "renew"
        /\ ThenSave(r, [proc[r].copy EXCEPT !.challenge = proc[r].challenge,
                          !.verified = FALSE, !.status = "pending_acme_challenge"], "idle")
  /\ UNCHANGED <<activeOrder, orders, db, disk>>

\* The CA refuses or cannot be reached, or the bound on orders is reached.
NewOrderFails(r) ==
  /\ proc[r].pc \in {"new_order", "new_challenge"}
  /\ "ca" \in Failures \/ (At(r, "new_order") /\ Len(orders) = MaxOrders)
  /\ Return(r)
  /\ UNCHANGED <<db, acme, disk>>

-----------------------------------------------------------------------------
(* verify-acme-dns: an expired challenge is replaced, whatever the status. *)
(* A look at the clock decides whether its 24 hours are over, and one at   *)
(* the TXT records of _acme-challenge whether its value is published: both *)
(* may find either.                                                        *)
HasChallenge == row.challenge # 0

VerifyACMEDNS(r) ==
  /\ HasChallenge
  /\ \/ Begin(r, "verify_acme", "save", "request", [row EXCEPT !.status = "dns_verified"])
     \/ Begin(r, "verify_acme", "lookup", "idle", row)
  /\ UNCHANGED <<db, acme, disk>>

\* GET acme-status, when it is more than a read: the challenge has expired.
GetACMEStatus(r) ==
  /\ row.status = "pending_acme_challenge" /\ HasChallenge
  /\ Begin(r, "acme_status", "save", "request", [row EXCEPT !.status = "dns_verified"])
  /\ UNCHANGED <<db, acme, disk>>

\* Both then call RequestACMEChallenge, which reads the row again.
AutoRequest(r) ==
  /\ At(r, "request")
  /\ \/ /\ GetByID(proc[r].id)
        /\ row.status = "dns_verified"
        /\ proc' = [proc EXCEPT ![r].pc = "new_order", ![r].copy = row]
     \/ /\ ~(GetByID(proc[r].id) /\ row.status = "dns_verified") \/ DbFails
        /\ Return(r)
  /\ UNCHANGED <<db, acme, disk>>

LookupTXT(r) ==
  /\ At(r, "lookup")
  /\ \/ ThenSave(r, [proc[r].copy EXCEPT !.verified = TRUE,
                                         !.status = "acme_challenge_ready"], "idle")
     \/ Return(r)
  /\ UNCHANGED <<db, acme, disk>>

-----------------------------------------------------------------------------
(* submit-acme-challenge, and from "complete" to "reload" also the         *)
(* renewal of a certificate.                                               *)
MaySubmit == row.status = "acme_challenge_ready" /\ row.verified

SubmitACMEChallenge(r) ==
  /\ MaySubmit
  /\ Begin(r, "submit", "save", "complete", [row EXCEPT !.status = "pending_certificate"])
  /\ UNCHANGED <<db, acme, disk>>

RenewCertificate(r) ==
  /\ certRow = row.id
  /\ Begin(r, "renew", "new_order", "idle", row)
  /\ UNCHANGED <<db, acme, disk>>

\* Fault: the return after a failure is missing.
IssueFailsGoesOn(r) ==
  Goto(r, IF proc[r].op = "submit" THEN "clear_read" ELSE "reload")

\* An error: submit saves its copy as failed, a renewal just ends.
IssueFails(r) ==
  \/ /\ proc[r].op = "submit"
     /\ ThenSave(r, [proc[r].copy EXCEPT !.status = "failed"], "idle")
  \/ proc[r].op = "renew" /\ Return(r)

\* CompleteDNSChallenge: look up challenge and order.
CompleteDNSChallenge(r) ==
  /\ At(r, "complete")
  /\ \/ /\ activeChallenge # 0 /\ activeOrder # 0
        /\ proc' = [proc EXCEPT ![r].pc = "validate", ![r].challenge = activeChallenge,
                                ![r].order = activeOrder]
     \/ /\ activeChallenge = 0 \/ activeOrder = 0
        /\ IssueFails(r)
  /\ UNCHANGED <<db, acme, disk>>

(* Accept the challenge: the CA looks at the TXT record.  Then poll the    *)
(* authorization of the order: it is valid, invalid, or stays pending      *)
(* until the timeout.                                                      *)
Validated(c) ==
  IF orders[c] = "pending"
  THEN {[orders EXCEPT ![c] = status] : status \in {"ready", "invalid"}}
  ELSE {orders}

\* Fault: an authorization that is not valid is polled for ever.
ValidateNoTimeout(r) ==
  /\ At(r, "validate")
  /\ orders' \in Validated(proc[r].challenge)
  /\ orders'[proc[r].order] \in {"ready", "final"}
  /\ Goto(r, "finalize")
  /\ UNCHANGED <<activeOrder, activeChallenge, db, disk>>

\* Fault: the challenge is accepted, and the answer of the CA not awaited.
ValidateNoPoll(r) ==
  /\ At(r, "validate")
  /\ Goto(r, "finalize")
  /\ UNCHANGED <<db, acme, disk>>

Validate(r) ==
  /\ At(r, "validate")
  /\ orders' \in Validated(proc[r].challenge)
  /\ \/ orders'[proc[r].order] \in {"ready", "final"} /\ Goto(r, "finalize")
     \/ /\ orders'[proc[r].order] \notin {"ready", "final"} \/ "ca" \in Failures
        /\ IssueFails(r)
  /\ UNCHANGED <<activeOrder, activeChallenge, db, disk>>

\* Fault: the order is not missed when it is gone.
FindOrderUnchecked(r) ==
  /\ At(r, "finalize")
  /\ proc' = [proc EXCEPT ![r].pc = "finalizing", ![r].order = activeOrder]
  /\ UNCHANGED <<db, acme, disk>>

\* RequestCertificate looks the order up again.
FindOrder(r) ==
  /\ At(r, "finalize")
  /\ \/ activeOrder # 0 /\ proc' = [proc EXCEPT ![r].pc = "finalizing", ![r].order = activeOrder]
     \/ activeOrder = 0 /\ IssueFails(r)
  /\ UNCHANGED <<db, acme, disk>>

(* WaitOrder: an order that is still pending is waited for, as long as the *)
(* request's context lives.  It must come out ready; once the certificate  *)
(* is there, whatever is stored under the name is deleted.  The answer of  *)
(* the CA may get lost.                                                    *)
RequestCertificate(r) ==
  /\ At(r, "finalizing")
  /\ \/ /\ orders[proc[r].order] = "ready"
        /\ orders' = [orders EXCEPT ![proc[r].order] = "final"]
        /\ \/ /\ activeOrder' = 0 /\ activeChallenge' = 0
              /\ Goto(r, "store")
           \/ /\ "ca" \in Failures
              /\ IssueFails(r)
              /\ UNCHANGED <<activeOrder, activeChallenge>>
     \/ /\ orders[proc[r].order] \in {"final", "invalid"}
        /\ IssueFails(r)
        /\ UNCHANGED acme
  /\ UNCHANGED <<db, disk>>

\* The CA refuses the order or cannot be reached.
RequestFails(r) ==
  /\ At(r, "finalizing")
  /\ "ca" \in Failures
  /\ IssueFails(r)
  /\ UNCHANGED <<db, acme, disk>>

(* certStorage.SaveCertificate writes the certificate, then the key and    *)
(* the chain, over the old files.  A write that fails may have truncated   *)
(* its file; after the first one the clean-up removes what was there.      *)
StoreCertificate(r) ==
  /\ At(r, "store")
  /\ \/ certFile' = proc[r].order /\ Goto(r, "store_key")
     \/ /\ "disk" \in Failures
        /\ certFile' \in {certFile, 0}
        /\ IssueFails(r)
  /\ UNCHANGED <<keyFile, store, db, acme>>

StoreKey(r) ==
  /\ At(r, "store_key")
  /\ \/ /\ keyFile' = proc[r].order
        /\ Goto(r, "cert_get")
        /\ UNCHANGED certFile
     \/ /\ "disk" \in Failures
        /\ certFile' = 0
        /\ keyFile' \in {keyFile, 0}
        /\ IssueFails(r)
  /\ UNCHANGED <<store, db, acme>>

(* certRepo.GetByDomainID; a renewal has its row from the start.  From here *)
(* on an error of the database leaves the status as it is.                 *)
GetCertRow(r) ==
  /\ At(r, "cert_get")
  /\ \/ proc' = [proc EXCEPT ![r].pc = "cert_put",
                             ![r].found = certRow = proc[r].id \/ proc[r].op = "renew"]
     \/ DbFails /\ proc[r].op = "submit" /\ Return(r)
  /\ UNCHANGED <<db, acme, disk>>

\* certRepo.Create is refused by the unique index.
CreateSucceeds(r) == certRow # proc[r].id

(* Create, or Update, which like any Save inserts a missing row.  Neither  *)
(* works without the domain.                                               *)
PutCertRow(r) ==
  /\ At(r, "cert_put")
  /\ \/ /\ GetByID(proc[r].id)
        /\ proc[r].found \/ CreateSucceeds(r)
        /\ certRow' = proc[r].id
        /\ \/ Goto(r, IF proc[r].op = "submit" THEN "clear_read" ELSE "reload")
           \/ DbFails /\ Return(r)
     \/ /\ ~GetByID(proc[r].id) \/ (~proc[r].found /\ ~CreateSucceeds(r)) \/ DbFails
        /\ Return(r)
        /\ UNCHANGED certRow
  /\ UNCHANGED <<row, lastId, deleted, acme, disk>>

\* ClearACMEChallenge works on a copy of its own; its errors are ignored.
ClearRead(r) ==
  /\ At(r, "clear_read")
  /\ \/ /\ GetByID(proc[r].id)
        /\ proc' = [proc EXCEPT ![r].pc = "clear_save",
                      ![r].clear = [row EXCEPT !.challenge = 0, !.verified = FALSE]]
     \/ (~GetByID(proc[r].id) \/ DbFails) /\ Goto(r, "issue")
  /\ UNCHANGED <<db, acme, disk>>

ClearSave(r) ==
  /\ At(r, "clear_save")
  /\ \/ SaveSucceeds(proc[r].clear) /\ Save(proc[r].clear)
     \/ (~SaveSucceeds(proc[r].clear) \/ DbFails) /\ UNCHANGED row
  /\ proc' = [proc EXCEPT ![r].pc = "issue", ![r].clear = NoRow]
  /\ UNCHANGED <<certRow, lastId, deleted, acme, disk>>

\* The copy read at the start is saved as certificate_issued.
MarkIssued(r) ==
  /\ At(r, "issue")
  /\ ThenSave(r, [proc[r].copy EXCEPT !.status = "certificate_issued"], "reload")
  /\ UNCHANGED <<db, acme, disk>>

\* triggerHotReload: when the pair does not load the store keeps what it has.
HotReload(r) ==
  /\ At(r, "reload")
  /\ \/ LoadCertificate # 0 /\ store' = LoadCertificate
     \/ (LoadCertificate = 0 \/ "disk" \in Failures) /\ UNCHANGED store
  /\ IF proc[r].op = "submit" THEN Goto(r, "activate") ELSE Return(r)
  /\ UNCHANGED <<certFile, keyFile, db, acme>>

\* The handler's check and ActivateDomain.
ActivateDomain(r) ==
  /\ At(r, "activate")
  /\ \/ /\ GetByID(proc[r].id)
        /\ row.status = "certificate_issued"
        /\ ThenSave(r, [row EXCEPT !.status = "active", !.active = TRUE], "idle")
     \/ /\ ~(GetByID(proc[r].id) /\ row.status = "certificate_issued") \/ DbFails
        /\ Return(r)
  /\ UNCHANGED <<db, acme, disk>>

-----------------------------------------------------------------------------
(* The world around the requests.                                          *)
(* The client goes away, or the renewal's five minutes are over: the next  *)
(* call that takes the context fails, and so do the saves of the error     *)
(* path.  Writing the files and reloading take no context.                 *)
Cancel(r) ==
  /\ "cancel" \in Failures
  /\ proc[r].pc \notin {"idle", "store", "store_key", "reload"}
  /\ Return(r)
  /\ UNCHANGED <<db, acme, disk>>

(* Restart, also after the runtime has stopped the process for an access   *)
(* to the ACME client's unguarded maps.  They are empty again; ReloadAll   *)
(* fills the SNI store from the certificate rows and the files, or fails.  *)
Crash ==
  /\ "crash" \in Failures
  /\ proc' = [r \in Request |-> Idle]
  /\ activeOrder' = 0 /\ activeChallenge' = 0
  /\ \/ certRow # 0 /\ store' = LoadCertificate
     \/ (certRow = 0 \/ {"db", "disk"} \cap Failures # {}) /\ store' = 0
  /\ UNCHANGED <<orders, certFile, keyFile, db>>

Handle(r) ==
  \/ SaveRow(r) \/ DNSChecked(r) \/ UpdateStatus(r) \/ NewOrder(r)
  \/ NewChallenge(r) \/ NewOrderFails(r) \/ AutoRequest(r) \/ LookupTXT(r)
  \/ CompleteDNSChallenge(r) \/ Validate(r) \/ FindOrder(r) \/ RequestCertificate(r)
  \/ StoreCertificate(r) \/ StoreKey(r) \/ GetCertRow(r) \/ PutCertRow(r)
  \/ ClearRead(r) \/ ClearSave(r) \/ MarkIssued(r) \/ HotReload(r) \/ ActivateDomain(r)

Call(r) ==
  \/ UpdateDomain(r) \/ VerifyDNS(r) \/ Retry(r) \/ RequestACMEChallenge(r)
  \/ VerifyACMEDNS(r) \/ GetACMEStatus(r) \/ SubmitACMEChallenge(r)
  \/ RenewCertificate(r)

Next ==
  \/ CreateDomain \/ DeleteDomain
  \/ \E r \in Request : Call(r) \/ Handle(r) \/ RequestFails(r) \/ Cancel(r)
  \/ Crash

Spec == Init /\ [][Next]_vars

(* A request goes on as soon as it can: the database and the CA answer     *)
(* every call, and the CA comes to an end with an order it processes; the  *)
(* HTTP client has no timeout of its own.  What the code itself limits is  *)
(* the poll of the authorization.                                          *)
FairSpec == Spec /\ \A r \in Request : WF_vars(Handle(r))

\* The owner of the domain presses retry as long as that does something.
OwnerSpec == FairSpec /\ WF_vars(\E r \in Request : Retry(r))

-----------------------------------------------------------------------------
(* A domain that is shown as issued or active has a certificate row, so    *)
(* that it is renewed and reloaded after a restart: no stale save of a     *)
(* parallel request, no error and no restart between the writes brings     *)
(* such a status without it (certificate_manager.go:786-830,               *)
(* domain_manager.go:198-220).  A domain that came back after its deletion *)
(* came without.                                                           *)
IssuedHasCertificate ==
  row.status \in {"certificate_issued", "active"} => certRow = row.id \/ row.id \in deleted

Waits(r) == At(r, "finalizing") /\ orders[proc[r].order] = "pending"

(* RequestCertificate looks the order up a second time and waits for it    *)
(* without a limit (acme_client.go:431-437), while CompleteDNSChallenge    *)
(* polls for minutes.  The order a request waits for is never the one it   *)
(* had validated: it is a later one, which a parallel request has put in   *)
(* its place and which nobody may ever validate.                           *)
WaitsForAnother == \A r \in Request : Waits(r) => proc[r].order > proc[r].challenge

(* Every request comes to its end, whatever the others, the CA and the     *)
(* file system do, but for this wait: no other path of the handlers and of *)
(* the ACME client waits for something that may never happen               *)
(* (acme_client.go:276-342).                                               *)
RequestsEnd == \A r \in Request : ~At(r, "idle") ~> At(r, "idle") \/ Waits(r)

(* models/domain.go:19: pending_certificate "indicates certificate         *)
(* generation is in progress".                                             *)
PendingMeansInProgress ==
  row.status = "pending_certificate" => \E r \in Request : proc[r].op = "submit"

(* domain_repository.go:101: a deleted domain is deleted; it does not come *)
(* back under its id.                                                      *)
DeletedStaysDeleted == row.id \notin deleted

(* domain_handler.go:614: the next step of a domain whose certificate is   *)
(* issued is to activate it; it does become active, is replaced or fails.  *)
IssuedIsActivated == row.status = "certificate_issued" ~> row.status # "certificate_issued"

=============================================================================
