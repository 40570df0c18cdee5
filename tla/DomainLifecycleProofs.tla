----------------------- MODULE DomainLifecycleProofs ------------------------
(***************************************************************************)
(* TLAPS proofs about DomainLifecycle, for every set of requests, every    *)
(* choice of operations and failures, and whatever the bounds on ids and   *)
(* orders.                                                                 *)
(***************************************************************************)
EXTENDS DomainLifecycle, TLAPS

(* What a request has picked up from the ACME client are orders of the CA, *)
(* and at these steps it has picked up both.                               *)
Picking == {"validate", "finalize", "finalizing"}
PickedUp ==
  \A r \in Request : proc[r].challenge <= Len(orders) /\ proc[r].order <= Len(orders)

TypeInv == TypeOK /\ PickedUp

\* The ids in the row and in the copies of it have been given out.
IdsGivenOut ==
  /\ row.id <= lastId
  /\ \A r \in Request : proc[r].copy.id <= lastId /\ proc[r].clear.id <= lastId

(* A row, or a copy of it that may still be saved, that claims a           *)
(* certificate has one, or is one of a domain that has been deleted.       *)
Has(id) == certRow = id \/ id \in deleted
Claims == {"certificate_issued", "active"}
Backed(x) == x.status \in Claims => x.id # 0 /\ Has(x.id)

(* A request works on one id.  Once it has written the certificate row     *)
(* there is one for that id, until it is deleted.                          *)
AfterCertRow == {"clear_read", "clear_save", "issue", "reload", "activate"}
Issued(r) == proc[r].pc \in AfterCertRow \/ (At(r, "save") /\ proc[r].then = "reload")

Certified(r) ==
  /\ Backed(proc[r].copy)
  /\ Backed(proc[r].clear)
  /\ ~At(r, "idle") => proc[r].id # 0 /\ proc[r].copy.id = proc[r].id
  /\ Issued(r) => Has(proc[r].id)

CertifiedInv ==
  /\ certRow \in {0, row.id}
  /\ Backed(row)
  /\ \A r \in Request : Certified(r)

(* The order the ACME client remembers is the last one; the one a request  *)
(* has had validated is settled, and the one it waits for came after it.   *)
InOrder(r) ==
  /\ proc[r].pc \in {"validate", "finalize"} => proc[r].challenge <= proc[r].order
  /\ At(r, "finalize") => orders[proc[r].order] # "pending"
  /\ Waits(r) => proc[r].order > proc[r].challenge

WaitInv == activeOrder \in {0, Len(orders)} /\ \A r \in Request : InOrder(r)

-----------------------------------------------------------------------------
(* What a step of one request does to the requests, in terms of their      *)
(* fields.                                                                 *)
Elsewhere(r) ==
  /\ proc' \in [Request -> Process]
  /\ \A s \in Request : s # r => proc'[s] = proc[s]

Ends(r) == Elsewhere(r) /\ proc'[r] = Idle

\* The request goes on at step pc, still the same operation on the same id.
GoesTo(r, pc) ==
  /\ Elsewhere(r)
  /\ proc'[r].pc = pc
  /\ proc'[r].op = proc[r].op
  /\ proc'[r].id = proc[r].id

SameCopy(r) == proc'[r].copy = proc[r].copy
SameClear(r) == proc'[r].clear = proc[r].clear
SamePick(r) == proc'[r].challenge = proc[r].challenge /\ proc'[r].order = proc[r].order

\* It goes on and keeps everything it has.
Walks(r, pc) ==
  /\ GoesTo(r, pc) /\ SameCopy(r) /\ SameClear(r) /\ SamePick(r)
  /\ proc'[r].then = proc[r].then /\ proc'[r].found = proc[r].found

(* The row of a domain that does not exist, and an idle request.           *)
LEMMA EmptyTypes ==
  /\ NoRow \in Row
  /\ NoRow.id = 0 /\ NoRow.status = "pending_dns" /\ NoRow.active = FALSE
  /\ Idle \in Process
  /\ Idle.pc = "idle" /\ Idle.op = "none" /\ Idle.id = 0 /\ Idle.then = "idle"
  /\ Idle.copy = NoRow /\ Idle.clear = NoRow
  /\ Idle.challenge = 0 /\ Idle.order = 0 /\ Idle.found = FALSE
<1>1. /\ NoRow \in Row
      /\ NoRow.id = 0 /\ NoRow.status = "pending_dns" /\ NoRow.active = FALSE
  BY DEF NoRow, Row, Status
<1> HIDE DEF NoRow, Row
<1> QED BY <1>1 DEF Idle, Process, Steps, AfterSave

(* Return ends a request.                                                  *)
LEMMA ReturnEnds ==
  ASSUME proc \in [Request -> Process], NEW r \in Request, Return(r)
  PROVE  Ends(r)
BY EmptyTypes DEF Return, Ends, Elsewhere

(* Goto changes the step and nothing else.                                 *)
LEMMA GotoGoes ==
  ASSUME proc \in [Request -> Process], NEW r \in Request, NEW pc \in Steps, Goto(r, pc)
  PROVE  Walks(r, pc)
<1> DEFINE new == [proc[r] EXCEPT !.pc = pc]
<1>1. proc' = [proc EXCEPT ![r] = new]
  BY DEF Goto
<1>2. /\ new \in Process
      /\ new.pc = pc /\ new.op = proc[r].op /\ new.id = proc[r].id
      /\ new.copy = proc[r].copy /\ new.clear = proc[r].clear
      /\ new.challenge = proc[r].challenge /\ new.order = proc[r].order
      /\ new.then = proc[r].then /\ new.found = proc[r].found
  BY DEF Process
<1> HIDE DEF new
<1> QED BY <1>1, <1>2 DEF Walks, GoesTo, Elsewhere, SameCopy, SameClear, SamePick

(* ThenSave hands a copy to SaveRow.                                       *)
LEMMA ThenSaveGoes ==
  ASSUME proc \in [Request -> Process], NEW r \in Request, NEW x \in Row,
         NEW then \in AfterSave, ThenSave(r, x, then)
  PROVE  GoesTo(r, "save") /\ SameClear(r) /\ SamePick(r)
         /\ proc'[r].copy = x /\ proc'[r].then = then
<1> DEFINE new == [proc[r] EXCEPT !.pc = "save", !.copy = x, !.then = then]
<1>1. proc' = [proc EXCEPT ![r] = new]
  BY DEF ThenSave
<1>2. /\ new \in Process
      /\ new.pc = "save" /\ new.op = proc[r].op /\ new.id = proc[r].id
      /\ new.copy = x /\ new.clear = proc[r].clear /\ new.then = then
      /\ new.challenge = proc[r].challenge /\ new.order = proc[r].order
  <2> "save" \in Steps
    BY DEF Steps
  <2> QED BY DEF Process
<1> HIDE DEF new
<1> QED BY <1>1, <1>2 DEF GoesTo, Elsewhere, SameClear, SamePick

(* Begin starts a request with its copy of the row.                        *)
Begun(r, op, pc, then, x) ==
  /\ At(r, "idle") /\ row.id # 0 /\ op \in Ops
  /\ Elsewhere(r)
  /\ proc'[r].op = op /\ proc'[r].pc = pc /\ proc'[r].then = then
  /\ proc'[r].id = row.id /\ proc'[r].copy = x /\ proc'[r].clear = NoRow
  /\ proc'[r].challenge = 0 /\ proc'[r].order = 0

\* Begin does just that, when the operation is one of Ops.
LEMMA BeginBegins ==
  ASSUME TypeOK, NEW r \in Request, NEW op, NEW pc \in Steps, NEW then \in AfterSave,
         NEW x \in Row, Begin(r, op, pc, then, x)
  PROVE  Begun(r, op, pc, then, x)
<1> DEFINE new == [Idle EXCEPT !.op = op, !.pc = pc, !.then = then, !.id = row.id, !.copy = x]
<1>1. proc' = [proc EXCEPT ![r] = new] /\ op \in Ops /\ At(r, "idle") /\ row.id # 0
  BY DEF Begin
<1>2. row.id \in Nat /\ proc \in [Request -> Process]
  BY DEF TypeOK, Row
<1>3. /\ new \in Process
      /\ new.op = op /\ new.pc = pc /\ new.then = then /\ new.id = row.id
      /\ new.copy = x /\ new.clear = NoRow /\ new.challenge = 0 /\ new.order = 0
  BY <1>1, <1>2, EmptyTypes DEF Process
<1> HIDE DEF new
<1> QED BY <1>1, <1>2, <1>3 DEF Begun, Elsewhere

(* A copy with another status, and what it keeps.                          *)
LEMMA WithStatus ==
  ASSUME NEW x \in Row, NEW s \in Status
  PROVE  /\ [x EXCEPT !.status = s] \in Row
         /\ [x EXCEPT !.status = s].status = s
         /\ [x EXCEPT !.status = s].id = x.id
BY DEF Row

(* A request hands a changed copy of x, with status s, to SaveRow.         *)
Saves(r, x, s, then) ==
  /\ GoesTo(r, "save") /\ SameClear(r) /\ SamePick(r)
  /\ proc'[r].copy.id = x.id
  /\ proc'[r].copy.status = s
  /\ proc'[r].then = then

\* ThenSave of a copy that differs in its status.
LEMMA SavesCopy ==
  ASSUME proc \in [Request -> Process], NEW r \in Request, NEW x \in Row,
         NEW s \in Status, NEW then \in AfterSave,
         ThenSave(r, [x EXCEPT !.status = s], then)
  PROVE  Saves(r, x, s, then)
<1> DEFINE y == [x EXCEPT !.status = s]
<1>1. y \in Row /\ y.status = s /\ y.id = x.id
  BY WithStatus
<1>2. ThenSave(r, y, then)
  OBVIOUS
<1> HIDE DEF y
<1> QED BY <1>1, <1>2, ThenSaveGoes DEF Saves

(* Statuses, steps and the row and copies that requests work on.           *)
LEMMA Parts ==
  ASSUME TypeOK, NEW r \in Request
  PROVE  /\ row \in Row /\ proc \in [Request -> Process]
         /\ proc[r].copy \in Row /\ proc[r].clear \in Row
         /\ proc[r].pc \in Steps /\ proc[r].then \in AfterSave
         /\ proc[r].id \in Nat /\ proc[r].challenge \in Nat /\ proc[r].order \in Nat
         /\ row.id \in Nat /\ row.status \in Status /\ row.challenge \in Nat
         /\ proc[r].copy.status \in Status
<1>1. row \in Row /\ proc[r] \in Process /\ proc \in [Request -> Process]
  BY DEF TypeOK
<1>2. proc[r].copy \in Row /\ proc[r].clear \in Row
  BY <1>1 DEF Process
<1>3. /\ proc[r].pc \in Steps /\ proc[r].then \in AfterSave
      /\ proc[r].id \in Nat /\ proc[r].challenge \in Nat /\ proc[r].order \in Nat
  BY <1>1 DEF Process
<1> QED BY <1>1, <1>2, <1>3 DEF Row

-----------------------------------------------------------------------------
(* The effect of each action of a request, field by field.                 *)
SameWorld == UNCHANGED <<db, acme, disk>>

(* A call begins a request with a copy of the row, the status of which is  *)
(* as it was or does not speak of a certificate.                           *)
CallEffect(r) ==
  /\ SameWorld
  /\ \E op \in Ops, pc \in {"save", "dns", "read", "new_order", "lookup"},
        then \in {"idle", "request", "complete"}, x \in Row :
       /\ Begun(r, op, pc, then, x)
       /\ x.id = row.id
       /\ x.status = row.status \/ x.status \notin Claims

\* Every call has this effect (domain_handler.go:134-824).
LEMMA CallBegins ==
  ASSUME TypeOK, NEW r \in Request, Call(r)
  PROVE  CallEffect(r)
<1>0. /\ row \in Row /\ row.status \in Status
      /\ {"save", "dns", "read", "new_order", "lookup"} \subseteq Steps
      /\ {"idle", "request", "complete"} \subseteq AfterSave
      /\ {"pending_dns", "dns_verified", "pending_acme_challenge", "pending_certificate"}
            \subseteq Status
  BY Parts DEF Steps, Status, AfterSave
<1>1. CASE UpdateDomain(r)
  <2>1. PICK active \in BOOLEAN : Begin(r, "update", "save", "idle", [row EXCEPT !.active = active])
    BY <1>1 DEF UpdateDomain
  <2> DEFINE x == [row EXCEPT !.active = active]
  <2>2. x \in Row /\ x.id = row.id /\ x.status = row.status
    BY <1>0 DEF Row
  <2>3. Begin(r, "update", "save", "idle", x)
    BY <2>1
  <2> HIDE DEF x
  <2>4. Begun(r, "update", "save", "idle", x)
    BY <1>0, <2>2, <2>3, BeginBegins
  <2>5. "update" \in Ops
    BY <2>4 DEF Begun
  <2> QED BY <1>1, <2>2, <2>4, <2>5 DEF CallEffect, UpdateDomain, SameWorld
<1>2. CASE VerifyDNS(r)
  <2>1. CASE Begin(r, "verify_dns", "dns", "idle", row)
    <3>1. Begun(r, "verify_dns", "dns", "idle", row)
      BY <1>0, <2>1, BeginBegins
    <3>2. "verify_dns" \in Ops
      BY <3>1 DEF Begun
    <3> QED BY <1>0, <1>2, <3>1, <3>2 DEF CallEffect, VerifyDNS, SameWorld, Claims
  <2>2. CASE Begin(r, "verify_dns", "save", "idle", WithToken(row))
    <3> DEFINE x == WithToken(row)
    <3>1. x \in Row /\ x.id = row.id /\ x.status = "pending_dns"
      BY <1>0 DEF Row, WithToken
    <3> HIDE DEF x
    <3>2. Begin(r, "verify_dns", "save", "idle", x)
      BY <2>2 DEF x
    <3>3. Begun(r, "verify_dns", "save", "idle", x)
      BY <1>0, <3>1, <3>2, BeginBegins
    <3>4. "verify_dns" \in Ops
      BY <3>3 DEF Begun
    <3> QED BY <1>2, <3>1, <3>3, <3>4 DEF CallEffect, VerifyDNS, SameWorld, Claims
  <2> QED BY <1>2, <2>1, <2>2 DEF VerifyDNS
<1>3. CASE Retry(r)
  <2>1. PICK target \in RetryTargets :
          Begin(r, "retry", "read", "idle", [row EXCEPT !.status = target])
    BY <1>3 DEF Retry
  <2>2. target \in {"pending_dns", "dns_verified", "pending_acme_challenge"}
    BY <2>1 DEF RetryTargets
  <2> DEFINE x == [row EXCEPT !.status = target]
  <2>3. x \in Row /\ x.id = row.id /\ x.status = target
    BY <1>0, <2>2, WithStatus
  <2>4. Begin(r, "retry", "read", "idle", x)
    BY <2>1
  <2> HIDE DEF x
  <2>5. Begun(r, "retry", "read", "idle", x)
    BY <1>0, <2>3, <2>4, BeginBegins
  <2>6. "retry" \in Ops
    BY <2>5 DEF Begun
  <2> QED BY <1>3, <2>2, <2>3, <2>5, <2>6 DEF CallEffect, Retry, SameWorld, Claims
<1>4. CASE \/ RequestACMEChallenge(r) \/ RenewCertificate(r)
           \/ VerifyACMEDNS(r) /\ Begin(r, "verify_acme", "lookup", "idle", row)
  <2>1. SameWorld
    BY <1>4 DEF RequestACMEChallenge, RenewCertificate, VerifyACMEDNS, SameWorld
  <2>2. PICK op \in {"request_challenge", "renew", "verify_acme"}, pc \in {"new_order", "lookup"} :
          Begin(r, op, pc, "idle", row)
    BY <1>4 DEF RequestACMEChallenge, RenewCertificate
  <2>3. Begun(r, op, pc, "idle", row)
    BY <1>0, <2>2, BeginBegins
  <2>4. op \in Ops
    BY <2>3 DEF Begun
  <2> QED BY <1>0, <2>1, <2>2, <2>3, <2>4 DEF CallEffect
<1>5. ASSUME NEW op \in {"verify_acme", "acme_status", "submit"}, NEW then \in {"request", "complete"},
             NEW s \in {"dns_verified", "pending_certificate"},
             Begin(r, op, "save", then, [row EXCEPT !.status = s]),
             SameWorld
      PROVE  CallEffect(r)
  <2> DEFINE x == [row EXCEPT !.status = s]
  <2>1. x \in Row /\ x.id = row.id /\ x.status = s
    BY <1>0, WithStatus
  <2>2. Begin(r, op, "save", then, x)
    BY <1>5
  <2> HIDE DEF x
  <2>3. Begun(r, op, "save", then, x)
    BY <1>0, <2>1, <2>2, BeginBegins
  <2>4. op \in Ops
    BY <2>3 DEF Begun
  <2> QED BY <1>5, <2>1, <2>3, <2>4 DEF CallEffect, Claims
<1>6. CASE VerifyACMEDNS(r)
  BY <1>4, <1>5, <1>6 DEF VerifyACMEDNS, SameWorld
<1>7. CASE GetACMEStatus(r)
  BY <1>5, <1>7 DEF GetACMEStatus, SameWorld
<1>8. CASE SubmitACMEChallenge(r)
  BY <1>5, <1>8 DEF SubmitACMEChallenge, SameWorld
<1> QED BY <1>1, <1>2, <1>3, <1>4, <1>6, <1>7, <1>8 DEF Call

(* An error of the issuance ends a renewal and makes submit save failed.   *)
FailEffect(r) ==
  \/ proc[r].op = "submit" /\ Saves(r, proc[r].copy, "failed", "idle")
  \/ Ends(r) /\ proc[r].op = "renew"

\* IssueFails has this effect (certificate_manager.go:738-782).
LEMMA IssueFailsEffect ==
  ASSUME TypeOK, NEW r \in Request, IssueFails(r)
  PROVE  FailEffect(r)
<1>1. CASE proc[r].op = "submit" /\ ThenSave(r, [proc[r].copy EXCEPT !.status = "failed"], "idle")
  <2>1. "failed" \in Status /\ "idle" \in AfterSave
    BY DEF Status, AfterSave
  <2> QED BY <1>1, <2>1, Parts, SavesCopy DEF FailEffect
<1>2. CASE proc[r].op = "renew" /\ Return(r)
  BY <1>2, Parts, ReturnEnds DEF FailEffect
<1> QED BY <1>1, <1>2 DEF IssueFails

(* The steps up to the submission (domain_handler.go, domain_manager.go).  *)
LEMMA SaveRowEffect ==
  ASSUME TypeOK, NEW r \in Request, SaveRow(r)
  PROVE  /\ At(r, "save")
         /\ UNCHANGED <<certRow, lastId, deleted, acme, disk>>
         /\ \/ /\ row' = proc[r].copy /\ SaveSucceeds(proc[r].copy)
               /\ Ends(r) \/ (proc[r].then # "idle" /\ Walks(r, proc[r].then))
            \/ UNCHANGED row /\ Ends(r)
<1>1. Return(r) => Ends(r)
  BY Parts, ReturnEnds
<1>2. proc[r].then \in Steps
  BY Parts DEF AfterSave, Steps
<1>3. Goto(r, proc[r].then) => Walks(r, proc[r].then)
  BY <1>2, Parts, GotoGoes
<1> QED BY <1>1, <1>3 DEF SaveRow, Save

\* verify-dns gives up or goes on with the new status.
LEMMA DNSCheckedEffect ==
  ASSUME TypeOK, NEW r \in Request, DNSChecked(r)
  PROVE  /\ At(r, "dns") /\ SameWorld
         /\ \/ Ends(r)
            \/ /\ GoesTo(r, "read") /\ SameClear(r) /\ SamePick(r)
               /\ proc'[r].copy.id = proc[r].copy.id
               /\ proc'[r].copy.status = "dns_verified"
<1>1. CASE Return(r)
  BY <1>1, Parts, ReturnEnds DEF DNSChecked, SameWorld
<1>2. CASE proc' = [proc EXCEPT ![r].pc = "read", ![r].copy.status = "dns_verified"]
  <2> DEFINE x == [proc[r].copy EXCEPT !.status = "dns_verified"]
             new == [proc[r] EXCEPT !.pc = "read", !.copy = x]
  <2>1. proc' = [proc EXCEPT ![r] = new]
    BY <1>2, Parts DEF Process
  <2>2. "dns_verified" \in Status /\ "read" \in Steps /\ proc[r] \in Process
    BY Parts DEF Status, Steps
  <2>3. /\ x \in Row /\ x.status = "dns_verified" /\ x.id = proc[r].copy.id
       
    BY <2>2, Parts, WithStatus
  <2> HIDE DEF x
  <2>4. /\ new \in Process
        /\ new.pc = "read" /\ new.op = proc[r].op /\ new.id = proc[r].id
        /\ new.copy = x /\ new.clear = proc[r].clear
        /\ new.challenge = proc[r].challenge /\ new.order = proc[r].order
    BY <2>2, <2>3 DEF Process
  <2> HIDE DEF new
  <2> QED BY <1>2, <2>1, <2>3, <2>4, Parts
          DEF DNSChecked, SameWorld, GoesTo, Elsewhere, SameClear, SamePick
<1> QED BY <1>1, <1>2 DEF DNSChecked

\* UpdateStatus saves the row as it finds it with the new status.
LEMMA UpdateStatusEffect ==
  ASSUME TypeOK, NEW r \in Request, UpdateStatus(r)
  PROVE  /\ At(r, "read") /\ SameWorld
         /\ Ends(r) \/ (row.id = proc[r].id /\ Saves(r, row, proc[r].copy.status, "idle"))
<1>1. "idle" \in AfterSave
  BY DEF AfterSave
<1> QED BY <1>1, Parts, ReturnEnds, SavesCopy DEF UpdateStatus, SameWorld, GetByID

\* A new order gets the next number, and the request keeps it.
LEMMA NewOrderEffect ==
  ASSUME TypeOK, NEW r \in Request, NewOrder(r)
  PROVE  /\ At(r, "new_order") /\ UNCHANGED <<activeChallenge, db, disk>>
         /\ orders' = Append(orders, "pending") /\ activeOrder' = Len(orders) + 1
         /\ GoesTo(r, "new_challenge") /\ SameCopy(r) /\ SameClear(r)
         /\ proc'[r].challenge = Len(orders) + 1 /\ proc'[r].order = proc[r].order
<1> DEFINE new == [proc[r] EXCEPT !.pc = "new_challenge", !.challenge = Len(orders) + 1]
<1>1. proc' = [proc EXCEPT ![r] = new]
  BY DEF NewOrder
<1>2. /\ "new_challenge" \in Steps /\ proc[r] \in Process /\ Len(orders) + 1 \in Nat
      /\ proc \in [Request -> Process]
  BY DEF TypeOK, Steps
<1>3. /\ new \in Process
      /\ new.pc = "new_challenge" /\ new.op = proc[r].op /\ new.id = proc[r].id
      /\ new.copy = proc[r].copy /\ new.clear = proc[r].clear
      /\ new.challenge = Len(orders) + 1 /\ new.order = proc[r].order
  BY <1>2 DEF Process
<1> HIDE DEF new
<1>4. GoesTo(r, "new_challenge") /\ SameCopy(r) /\ SameClear(r)
      /\ proc'[r].challenge = Len(orders) + 1 /\ proc'[r].order = proc[r].order
  BY <1>1, <1>2, <1>3 DEF GoesTo, Elsewhere, SameCopy, SameClear
<1> QED BY <1>4 DEF NewOrder

\* The challenge is kept under the name; a renewal goes on, others save.
LEMMA NewChallengeEffect ==
  ASSUME TypeOK, NEW r \in Request, NewChallenge(r)
  PROVE  /\ At(r, "new_challenge") /\ UNCHANGED <<activeOrder, orders, db, disk>>
         /\ activeChallenge' = proc[r].challenge
         /\ \/ proc[r].op = "renew" /\ Walks(r, "complete")
            \/ Saves(r, proc[r].copy, "pending_acme_challenge", "idle")
<1>1. CASE Goto(r, "complete") /\ proc[r].op = "renew"
  <2>1. "complete" \in Steps
    BY DEF Steps
  <2> QED BY <1>1, <2>1, Parts, GotoGoes DEF NewChallenge
<1>2. CASE ThenSave(r, [proc[r].copy EXCEPT !.challenge = proc[r].challenge,
                          !.verified = FALSE, !.status = "pending_acme_challenge"], "idle")
  <2> DEFINE x == [proc[r].copy EXCEPT !.challenge = proc[r].challenge,
                     !.verified = FALSE, !.status = "pending_acme_challenge"]
  <2>1. "pending_acme_challenge" \in Status /\ "idle" \in AfterSave
    BY DEF Status, AfterSave
  <2>2. /\ x \in Row /\ x.id = proc[r].copy.id
        /\ x.status = "pending_acme_challenge"
    BY <2>1, Parts DEF Row
  <2>3. ThenSave(r, x, "idle")
    BY <1>2
  <2> HIDE DEF x
  <2>4. Saves(r, proc[r].copy, "pending_acme_challenge", "idle")
    BY <2>1, <2>2, <2>3, Parts, ThenSaveGoes DEF Saves
  <2> QED BY <2>4 DEF NewChallenge
<1> QED BY <1>1, <1>2 DEF NewChallenge

\* The replaced challenge is requested with a fresh copy.
LEMMA AutoRequestEffect ==
  ASSUME TypeOK, NEW r \in Request, AutoRequest(r)
  PROVE  /\ At(r, "request") /\ SameWorld
         /\ \/ Ends(r)
            \/ /\ GoesTo(r, "new_order") /\ SameClear(r) /\ SamePick(r)
               /\ proc'[r].copy = row /\ row.id = proc[r].id
<1>1. CASE Return(r)
  BY <1>1, Parts, ReturnEnds DEF AutoRequest, SameWorld
<1>2. CASE GetByID(proc[r].id) /\ proc' = [proc EXCEPT ![r].pc = "new_order", ![r].copy = row]
  <2> DEFINE new == [proc[r] EXCEPT !.pc = "new_order", !.copy = row]
  <2>1. proc' = [proc EXCEPT ![r] = new]
    BY <1>2
  <2>2. "new_order" \in Steps /\ proc[r] \in Process /\ row \in Row
    BY Parts DEF Steps
  <2>3. /\ new \in Process
        /\ new.pc = "new_order" /\ new.op = proc[r].op /\ new.id = proc[r].id
        /\ new.copy = row /\ new.clear = proc[r].clear
        /\ new.challenge = proc[r].challenge /\ new.order = proc[r].order
    BY <2>2 DEF Process
  <2> HIDE DEF new
  <2> QED BY <1>2, <2>1, <2>3, Parts
          DEF AutoRequest, SameWorld, GoesTo, Elsewhere, SameClear, SamePick, GetByID
<1> QED BY <1>1, <1>2 DEF AutoRequest

\* verify-acme-dns gives up or saves acme_challenge_ready.
LEMMA LookupEffect ==
  ASSUME TypeOK, NEW r \in Request, LookupTXT(r)
  PROVE  /\ At(r, "lookup") /\ SameWorld
         /\ Ends(r) \/ Saves(r, proc[r].copy, "acme_challenge_ready", "idle")
<1>1. CASE Return(r)
  BY <1>1, Parts, ReturnEnds DEF LookupTXT, SameWorld
<1>2. CASE ThenSave(r, [proc[r].copy EXCEPT !.verified = TRUE,
                                            !.status = "acme_challenge_ready"], "idle")
  <2> DEFINE x == [proc[r].copy EXCEPT !.verified = TRUE, !.status = "acme_challenge_ready"]
  <2>1. "acme_challenge_ready" \in Status /\ "idle" \in AfterSave
    BY DEF Status, AfterSave
  <2>2. /\ x \in Row /\ x.id = proc[r].copy.id
        /\ x.status = "acme_challenge_ready"
    BY <2>1, Parts DEF Row
  <2>3. ThenSave(r, x, "idle")
    BY <1>2
  <2> HIDE DEF x
  <2>4. Saves(r, proc[r].copy, "acme_challenge_ready", "idle")
    BY <2>1, <2>2, <2>3, Parts, ThenSaveGoes DEF Saves
  <2> QED BY <2>4 DEF LookupTXT, SameWorld
<1> QED BY <1>1, <1>2 DEF LookupTXT

(* The issuance (acme_client.go, certificate_manager.go).                  *)
LEMMA CompleteEffect ==
  ASSUME TypeOK, NEW r \in Request, CompleteDNSChallenge(r)
  PROVE  /\ At(r, "complete") /\ SameWorld
         /\ \/ FailEffect(r)
            \/ /\ GoesTo(r, "validate") /\ SameCopy(r) /\ SameClear(r)
               /\ proc'[r].challenge = activeChallenge /\ proc'[r].order = activeOrder
               /\ activeChallenge # 0 /\ activeOrder # 0
<1>1. CASE IssueFails(r)
  BY <1>1, IssueFailsEffect DEF CompleteDNSChallenge, SameWorld
<1>2. CASE /\ activeChallenge # 0 /\ activeOrder # 0
           /\ proc' = [proc EXCEPT ![r].pc = "validate", ![r].challenge = activeChallenge,
                                   ![r].order = activeOrder]
  <2> DEFINE new == [proc[r] EXCEPT !.pc = "validate", !.challenge = activeChallenge,
                                    !.order = activeOrder]
  <2>1. proc' = [proc EXCEPT ![r] = new]
    BY <1>2
  <2>2. /\ "validate" \in Steps /\ proc[r] \in Process /\ proc \in [Request -> Process]
        /\ activeChallenge \in Nat /\ activeOrder \in Nat
    BY DEF TypeOK, Steps
  <2>3. /\ new \in Process
        /\ new.pc = "validate" /\ new.op = proc[r].op /\ new.id = proc[r].id
        /\ new.copy = proc[r].copy /\ new.clear = proc[r].clear
        /\ new.challenge = activeChallenge /\ new.order = activeOrder
    BY <2>2 DEF Process
  <2> HIDE DEF new
  <2> QED BY <1>2, <2>1, <2>2, <2>3
          DEF CompleteDNSChallenge, SameWorld, GoesTo, Elsewhere, SameCopy, SameClear
<1> QED BY <1>1, <1>2 DEF CompleteDNSChallenge

\* The CA's orders: their number stays, and none becomes pending again.
OrdersGoOn ==
  /\ orders' \in Seq({"pending", "ready", "final", "invalid"})
  /\ Len(orders') = Len(orders)
  /\ \A i \in 1..Len(orders) : orders'[i] = "pending" => orders[i] = "pending"

\* A sequence with one element replaced.
LEMMA OneReplaced ==
  ASSUME NEW S, NEW o \in Seq(S), NEW c \in 1..Len(o), NEW v \in S
  PROVE  /\ [o EXCEPT ![c] = v] \in Seq(S)
         /\ Len([o EXCEPT ![c] = v]) = Len(o)
         /\ \A i \in 1..Len(o) : [o EXCEPT ![c] = v][i] = IF i = c THEN v ELSE o[i]
OBVIOUS

\* So it is when one of them gets another state,
LEMMA OrderChanges ==
  ASSUME TypeOK, NEW c \in 1..Len(orders), NEW status \in {"ready", "final", "invalid"},
         orders' = [orders EXCEPT ![c] = status]
  PROVE  OrdersGoOn
<1> DEFINE S == {"pending", "ready", "final", "invalid"}
<1>1. orders \in Seq(S) /\ status \in S /\ status # "pending"
  BY DEF TypeOK
<1> HIDE DEF S
<1>2. /\ orders' \in Seq(S)
      /\ Len(orders') = Len(orders)
      /\ \A i \in 1..Len(orders) : orders'[i] = IF i = c THEN status ELSE orders[i]
  BY <1>1, OneReplaced
<1> QED BY <1>1, <1>2 DEF OrdersGoOn, S

\* and when they all stay as they are.
LEMMA OrdersStay ==
  ASSUME TypeOK, orders' = orders
  PROVE  OrdersGoOn
BY DEF TypeOK, OrdersGoOn

\* Validation settles an order that was pending, at most.
LEMMA ValidateEffect ==
  ASSUME TypeOK, NEW r \in Request, Validate(r)
  PROVE  /\ At(r, "validate") /\ UNCHANGED <<activeOrder, activeChallenge, db, disk>>
         /\ OrdersGoOn
         /\ \/ FailEffect(r)
            \/ Walks(r, "finalize") /\ orders'[proc[r].order] # "pending"
<1>1. "finalize" \in Steps
  BY DEF Steps
<1>2. FailEffect(r) \/ (Walks(r, "finalize") /\ orders'[proc[r].order] # "pending")
  BY <1>1, Parts, GotoGoes, IssueFailsEffect DEF Validate
<1>3. OrdersGoOn
  <2>1. proc[r].challenge \in 1..Len(orders)
    BY DEF TypeOK, Validate, At
  <2> QED BY <2>1, OrderChanges, OrdersStay DEF Validate, Validated
<1> QED BY <1>2, <1>3 DEF Validate

\* The order is looked up again.
LEMMA FindOrderEffect ==
  ASSUME TypeOK, NEW r \in Request, FindOrder(r)
  PROVE  /\ At(r, "finalize") /\ SameWorld
         /\ \/ FailEffect(r)
            \/ /\ GoesTo(r, "finalizing") /\ SameCopy(r) /\ SameClear(r)
               /\ proc'[r].challenge = proc[r].challenge
               /\ proc'[r].order = activeOrder /\ activeOrder # 0
<1>1. CASE IssueFails(r)
  BY <1>1, IssueFailsEffect DEF FindOrder, SameWorld
<1>2. CASE activeOrder # 0 /\ proc' = [proc EXCEPT ![r].pc = "finalizing", ![r].order = activeOrder]
  <2> DEFINE new == [proc[r] EXCEPT !.pc = "finalizing", !.order = activeOrder]
  <2>1. proc' = [proc EXCEPT ![r] = new]
    BY <1>2
  <2>2. /\ "finalizing" \in Steps /\ proc[r] \in Process /\ proc \in [Request -> Process]
        /\ activeOrder \in Nat
    BY DEF TypeOK, Steps
  <2>3. /\ new \in Process
        /\ new.pc = "finalizing" /\ new.op = proc[r].op /\ new.id = proc[r].id
        /\ new.copy = proc[r].copy /\ new.clear = proc[r].clear
        /\ new.challenge = proc[r].challenge /\ new.order = activeOrder
    BY <2>2 DEF Process
  <2> HIDE DEF new
  <2> QED BY <1>2, <2>1, <2>2, <2>3
          DEF FindOrder, SameWorld, GoesTo, Elsewhere, SameCopy, SameClear
<1> QED BY <1>1, <1>2 DEF FindOrder

\* Finalization may delete what is stored under the name.
LEMMA RequestCertificateEffect ==
  ASSUME TypeOK, NEW r \in Request, RequestCertificate(r)
  PROVE  /\ At(r, "finalizing") /\ UNCHANGED <<db, disk>>
         /\ OrdersGoOn
         /\ activeOrder' \in {0, activeOrder} /\ activeChallenge' \in {0, activeChallenge}
         /\ FailEffect(r) \/ Walks(r, "store")
<1>1. "store" \in Steps
  BY DEF Steps
<1>2. FailEffect(r) \/ Walks(r, "store")
  BY <1>1, Parts, GotoGoes, IssueFailsEffect DEF RequestCertificate
<1>3. OrdersGoOn
  <2>1. proc[r].order \in 1..Len(orders)
    BY DEF TypeOK, RequestCertificate, At
  <2> QED BY <2>1, OrderChanges, OrdersStay DEF RequestCertificate, acme
<1> QED BY <1>2, <1>3 DEF RequestCertificate, acme

\* The CA refuses.
LEMMA RequestFailsEffect ==
  ASSUME TypeOK, NEW r \in Request, RequestFails(r)
  PROVE  At(r, "finalizing") /\ SameWorld /\ FailEffect(r)
BY IssueFailsEffect DEF RequestFails, SameWorld

\* The certificate is written, or the disk fails.
LEMMA StoreEffect ==
  ASSUME TypeOK, NEW r \in Request, StoreCertificate(r)
  PROVE  /\ At(r, "store") /\ UNCHANGED <<keyFile, store, db, acme>>
         /\ \/ certFile' = proc[r].order /\ Walks(r, "store_key")
            \/ "disk" \in Failures /\ certFile' \in {certFile, 0} /\ FailEffect(r)
<1>1. "store_key" \in Steps
  BY DEF Steps
<1> QED BY <1>1, Parts, GotoGoes, IssueFailsEffect DEF StoreCertificate

\* The key is written, or the disk fails and the clean-up removes the rest.
LEMMA StoreKeyEffect ==
  ASSUME TypeOK, NEW r \in Request, StoreKey(r)
  PROVE  /\ At(r, "store_key") /\ UNCHANGED <<store, db, acme>>
         /\ \/ keyFile' = proc[r].order /\ certFile' = certFile /\ Walks(r, "cert_get")
            \/ /\ "disk" \in Failures /\ certFile' = 0 /\ keyFile' \in {keyFile, 0}
               /\ FailEffect(r)
<1>1. "cert_get" \in Steps
  BY DEF Steps
<1> QED BY <1>1, Parts, GotoGoes, IssueFailsEffect DEF StoreKey

\* The request remembers whether there is a certificate row.
LEMMA GetCertRowEffect ==
  ASSUME TypeOK, NEW r \in Request, GetCertRow(r)
  PROVE  /\ At(r, "cert_get") /\ SameWorld
         /\ \/ Ends(r)
            \/ GoesTo(r, "cert_put") /\ SameCopy(r) /\ SameClear(r) /\ SamePick(r)
<1>1. CASE Return(r)
  BY <1>1, Parts, ReturnEnds DEF GetCertRow, SameWorld
<1>2. CASE ~Return(r)
  <2> DEFINE f == certRow = proc[r].id \/ proc[r].op = "renew"
             new == [proc[r] EXCEPT !.pc = "cert_put", !.found = f]
  <2>1. proc' = [proc EXCEPT ![r] = new] /\ At(r, "cert_get") /\ SameWorld
    BY <1>2 DEF GetCertRow, SameWorld
  <2>2. f \in BOOLEAN
    OBVIOUS
  <2>3. "cert_put" \in Steps /\ proc[r] \in Process /\ proc \in [Request -> Process]
    BY Parts DEF Steps
  <2> HIDE DEF f
  <2>4. /\ new \in Process
        /\ new.pc = "cert_put" /\ new.op = proc[r].op /\ new.id = proc[r].id
        /\ new.copy = proc[r].copy /\ new.clear = proc[r].clear
        /\ new.challenge = proc[r].challenge /\ new.order = proc[r].order
    BY <2>2, <2>3 DEF Process
  <2> HIDE DEF new
  <2> QED BY <2>1, <2>3, <2>4 DEF GoesTo, Elsewhere, SameCopy, SameClear, SamePick
<1> QED BY <1>1, <1>2

\* The certificate row is written or refused.
LEMMA PutCertRowEffect ==
  ASSUME TypeOK, NEW r \in Request, PutCertRow(r)
  PROVE  /\ At(r, "cert_put") /\ UNCHANGED <<row, lastId, deleted, acme, disk>>
         /\ \/ /\ GetByID(proc[r].id) /\ certRow' = proc[r].id
               /\ Ends(r) \/ Walks(r, "clear_read") \/ Walks(r, "reload")
            \/ certRow' = certRow /\ Ends(r)
<1>1. "clear_read" \in Steps /\ "reload" \in Steps
  BY DEF Steps
<1>2. /\ Goto(r, "clear_read") => Walks(r, "clear_read")
      /\ Goto(r, "reload") => Walks(r, "reload")
      /\ Return(r) => Ends(r)
  BY <1>1, Parts, GotoGoes, ReturnEnds
<1> QED BY <1>2 DEF PutCertRow

\* ClearACMEChallenge reads a copy of its own,
LEMMA ClearReadEffect ==
  ASSUME TypeOK, NEW r \in Request, ClearRead(r)
  PROVE  /\ At(r, "clear_read") /\ SameWorld
         /\ \/ Walks(r, "issue")
            \/ /\ GoesTo(r, "clear_save") /\ SameCopy(r) /\ SamePick(r)
               /\ proc'[r].clear.id = row.id
               /\ proc'[r].clear.status = row.status
<1>1. CASE Goto(r, "issue")
  <2>1. "issue" \in Steps
    BY DEF Steps
  <2> QED BY <1>1, <2>1, Parts, GotoGoes DEF ClearRead, SameWorld
<1>2. CASE proc' = [proc EXCEPT ![r].pc = "clear_save",
                      ![r].clear = [row EXCEPT !.challenge = 0, !.verified = FALSE]]
  <2> DEFINE x == [row EXCEPT !.challenge = 0, !.verified = FALSE]
             new == [proc[r] EXCEPT !.pc = "clear_save", !.clear = x]
  <2>1. proc' = [proc EXCEPT ![r] = new]
    BY <1>2
  <2>2. x \in Row /\ x.id = row.id /\ x.status = row.status
    BY Parts DEF Row
  <2>3. "clear_save" \in Steps /\ proc[r] \in Process /\ proc \in [Request -> Process]
    BY Parts DEF Steps
  <2> HIDE DEF x
  <2>4. /\ new \in Process
        /\ new.pc = "clear_save" /\ new.op = proc[r].op /\ new.id = proc[r].id
        /\ new.copy = proc[r].copy /\ new.clear = x
        /\ new.challenge = proc[r].challenge /\ new.order = proc[r].order
    BY <2>2, <2>3 DEF Process
  <2> HIDE DEF new
  <2> QED BY <2>1, <2>2, <2>3, <2>4
          DEF ClearRead, SameWorld, GoesTo, Elsewhere, SameCopy, SamePick
<1> QED BY <1>1, <1>2 DEF ClearRead

\* saves it and lets go of it.
LEMMA ClearSaveEffect ==
  ASSUME TypeOK, NEW r \in Request, ClearSave(r)
  PROVE  /\ At(r, "clear_save") /\ UNCHANGED <<certRow, lastId, deleted, acme, disk>>
         /\ row' = row \/ (row' = proc[r].clear /\ SaveSucceeds(proc[r].clear))
         /\ GoesTo(r, "issue") /\ SameCopy(r) /\ SamePick(r)
         /\ proc'[r].clear = NoRow
<1> DEFINE new == [proc[r] EXCEPT !.pc = "issue", !.clear = NoRow]
<1>1. proc' = [proc EXCEPT ![r] = new]
  BY DEF ClearSave
<1>2. "issue" \in Steps /\ proc[r] \in Process /\ proc \in [Request -> Process]
  BY Parts DEF Steps
<1>3. /\ new \in Process
      /\ new.pc = "issue" /\ new.op = proc[r].op /\ new.id = proc[r].id
      /\ new.copy = proc[r].copy /\ new.clear = NoRow
      /\ new.challenge = proc[r].challenge /\ new.order = proc[r].order
  BY <1>2, EmptyTypes DEF Process
<1> HIDE DEF new
<1>4. /\ GoesTo(r, "issue") /\ SameCopy(r) /\ SamePick(r)
      /\ proc'[r].clear = NoRow
  BY <1>1, <1>2, <1>3 DEF GoesTo, Elsewhere, SameCopy, SamePick
<1> QED BY <1>4 DEF ClearSave, Save

\* The copy of the start is to be saved as certificate_issued.
LEMMA MarkIssuedEffect ==
  ASSUME TypeOK, NEW r \in Request, MarkIssued(r)
  PROVE  /\ At(r, "issue") /\ SameWorld
         /\ Saves(r, proc[r].copy, "certificate_issued", "reload")
<1>1. "reload" \in AfterSave /\ "certificate_issued" \in Status
  BY DEF AfterSave, Status
<1> QED BY <1>1, Parts, SavesCopy DEF MarkIssued, SameWorld

\* The store takes a pair that loads.
LEMMA HotReloadEffect ==
  ASSUME TypeOK, NEW r \in Request, HotReload(r)
  PROVE  /\ At(r, "reload") /\ UNCHANGED <<certFile, keyFile, db, acme>>
         /\ store' \in {LoadCertificate, store}
         /\ \/ Ends(r)
            \/ proc[r].op = "submit" /\ Walks(r, "activate")
<1>1. "activate" \in Steps
  BY DEF Steps
<1>2. /\ Goto(r, "activate") => Walks(r, "activate")
      /\ Return(r) => Ends(r)
  BY <1>1, Parts, GotoGoes, ReturnEnds
<1> QED BY <1>2 DEF HotReload

\* A row that is issued is to be saved as active.
LEMMA ActivateEffect ==
  ASSUME TypeOK, NEW r \in Request, ActivateDomain(r)
  PROVE  /\ At(r, "activate") /\ SameWorld
         /\ \/ Ends(r)
            \/ /\ row.status = "certificate_issued" /\ row.id = proc[r].id
               /\ GoesTo(r, "save") /\ SameClear(r) /\ SamePick(r)
               /\ proc'[r].copy.id = row.id
               /\ proc'[r].copy.status = "active"
               /\ proc'[r].then = "idle"
<1>1. CASE Return(r)
  BY <1>1, Parts, ReturnEnds DEF ActivateDomain, SameWorld
<1>2. CASE /\ GetByID(proc[r].id) /\ row.status = "certificate_issued"
           /\ ThenSave(r, [row EXCEPT !.status = "active", !.active = TRUE], "idle")
  <2> DEFINE x == [row EXCEPT !.status = "active", !.active = TRUE]
  <2>1. "active" \in Status /\ "idle" \in AfterSave
    BY DEF Status, AfterSave
  <2>2. x \in Row /\ x.id = row.id /\ x.status = "active"
    BY <2>1, Parts DEF Row
  <2>3. ThenSave(r, x, "idle")
    BY <1>2
  <2> HIDE DEF x
  <2> QED BY <1>2, <2>1, <2>2, <2>3, Parts, ThenSaveGoes DEF ActivateDomain, SameWorld, GetByID
<1> QED BY <1>1, <1>2 DEF ActivateDomain

-----------------------------------------------------------------------------
(* Type correctness.                                                       *)
WorldOK ==
  /\ row \in Row
  /\ certRow \in Nat
  /\ {certFile, keyFile, store} \subseteq 0..Len(orders)
  /\ activeOrder \in 0..Len(orders) /\ activeChallenge \in 0..Len(orders)
  /\ orders \in Seq({"pending", "ready", "final", "invalid"})
  /\ lastId \in Nat /\ deleted \subseteq 1..lastId

(* A step of one request keeps the types when it keeps those of the rest   *)
(* and picks up an existing order.                                         *)
LEMMA TypeFrame ==
  ASSUME TypeInv, NEW r \in Request, Elsewhere(r), WorldOK',
         Len(orders) <= Len(orders'),
         proc'[r].challenge <= Len(orders'), proc'[r].order <= Len(orders'),
         proc'[r].pc \in Picking => proc'[r].challenge # 0 /\ proc'[r].order # 0
  PROVE  TypeInv'
<1>2. Len(orders) \in Nat /\ Len(orders') \in Nat
  <2>1. /\ orders \in Seq({"pending", "ready", "final", "invalid"})
        /\ orders' \in Seq({"pending", "ready", "final", "invalid"})
    BY DEF WorldOK, TypeInv, TypeOK
  <2> QED BY <2>1
<1>3. ASSUME NEW s \in Request
      PROVE  proc'[s].challenge <= Len(orders') /\ proc'[s].order <= Len(orders')
  <2>1. CASE s = r
    BY <2>1
  <2>2. CASE s # r
    <3>1. proc[s].challenge <= Len(orders) /\ proc[s].order <= Len(orders) /\ proc'[s] = proc[s]
      BY <2>2 DEF TypeInv, PickedUp, Elsewhere
    <3>2. proc[s].challenge \in Nat /\ proc[s].order \in Nat
      BY Parts DEF TypeInv
    <3> QED BY <1>2, <3>1, <3>2
  <2> QED BY <2>1, <2>2
<1>4. ASSUME NEW s \in Request, proc'[s].pc \in Picking
      PROVE  {proc'[s].challenge, proc'[s].order} \subseteq 1..Len(orders')
  <2>1. proc'[s].challenge \in Nat /\ proc'[s].order \in Nat
    BY DEF Elsewhere, Process
  <2>2. proc'[s].challenge # 0 /\ proc'[s].order # 0
    <3>1. CASE s = r
      BY <1>4, <3>1
    <3>2. CASE s # r
      BY <1>4, <3>2 DEF Elsewhere, TypeInv, TypeOK, Picking
    <3> QED BY <3>1, <3>2
  <2> QED BY <1>2, <1>3, <2>1, <2>2
<1>5. proc' \in [Request -> Process]
  BY DEF Elsewhere
<1>6. TypeOK'
  BY <1>4, <1>5 DEF WorldOK, TypeOK, Picking
<1> QED BY <1>3, <1>6 DEF TypeInv, PickedUp

(* The same, for a step that leaves the pick of the request alone and is   *)
(* not one to need it, ends it, or fails.                                  *)
Off(r) == Ends(r) \/ (Elsewhere(r) /\ SamePick(r) /\ proc'[r].pc \notin Picking)

\* Such a step keeps the types.
LEMMA TypeKeeps ==
  ASSUME TypeInv, NEW r \in Request, WorldOK', Len(orders) <= Len(orders'), Off(r)
  PROVE  TypeInv'
<1>1. Len(orders) \in Nat /\ Len(orders') \in Nat
  <2>1. /\ orders \in Seq({"pending", "ready", "final", "invalid"})
        /\ orders' \in Seq({"pending", "ready", "final", "invalid"})
    BY DEF WorldOK, TypeInv, TypeOK
  <2> QED BY <2>1
<1>2. /\ proc[r].challenge <= Len(orders) /\ proc[r].order <= Len(orders)
      /\ proc[r].challenge \in Nat /\ proc[r].order \in Nat
  BY Parts DEF TypeInv, PickedUp
<1>3. CASE Ends(r)
  BY <1>1, <1>3, EmptyTypes, TypeFrame DEF Ends, Picking
<1>4. CASE Elsewhere(r) /\ SamePick(r) /\ proc'[r].pc \notin Picking
  <2>1. proc'[r].challenge <= Len(orders') /\ proc'[r].order <= Len(orders')
    BY <1>1, <1>2, <1>4 DEF SamePick
  <2> QED BY <1>4, <2>1, TypeFrame
<1> QED BY <1>3, <1>4 DEF Off

(* The kinds of steps seen so far are steps of that sort.                  *)
LEMMA StepKinds ==
  ASSUME NEW r
  PROVE  /\ \A pc : GoesTo(r, pc) => Elsewhere(r)
         /\ \A pc : GoesTo(r, pc) /\ SamePick(r) /\ pc \notin Picking => Off(r)
         /\ \A pc : Walks(r, pc) /\ pc \notin Picking => Off(r)
         /\ \A x, s, then : Saves(r, x, s, then) => Off(r)
         /\ Ends(r) => Off(r)
         /\ FailEffect(r) => Off(r)
BY DEF GoesTo, Walks, Saves, FailEffect, Off, Picking

\* Steps that change requests only.
LEMMA SameWorldOK ==
  ASSUME TypeInv, SameWorld
  PROVE  WorldOK' /\ Len(orders) <= Len(orders')
<1>1. WorldOK /\ UNCHANGED <<row, certRow, lastId, deleted, activeOrder, activeChallenge, orders,
                             certFile, keyFile, store>>
  BY DEF TypeInv, TypeOK, WorldOK, SameWorld, db, acme, disk
<1>2. WorldOK' <=> WorldOK
  BY <1>1 DEF WorldOK
<1>3. Len(orders) \in Nat
  BY <1>1 DEF WorldOK
<1> QED BY <1>1, <1>2, <1>3

\* Types hold at the start.
LEMMA TypeInit == Init => TypeInv
<1> SUFFICES ASSUME Init PROVE TypeInv
  OBVIOUS
<1>1. row \in Row /\ row.id \in Nat
  <2>1. CASE ~LegacyDomain
    BY <2>1, EmptyTypes DEF Init
  <2>2. CASE LegacyDomain
    <3>1. row = [NoRow EXCEPT !.id = 1, !.active = TRUE]
      BY <2>2 DEF Init
    <3> QED BY <3>1, EmptyTypes DEF Row
  <2> QED BY <2>1, <2>2
<1>2. Len(orders) = 0
  BY DEF Init
<1>3. \A r \in Request : proc[r] = Idle
  BY DEF Init
<1>4. proc \in [Request -> Process]
  BY EmptyTypes DEF Init
<1>5. PickedUp
  BY <1>2, <1>3, EmptyTypes DEF PickedUp
<1>6. orders \in Seq({"pending", "ready", "final", "invalid"})
  BY DEF Init
<1>7. TypeOK
  BY <1>1, <1>2, <1>3, <1>4, <1>6, EmptyTypes DEF TypeOK, Init
<1> QED BY <1>5, <1>7 DEF TypeInv

\* Every step keeps the types.
LEMMA TypeStep ==
  ASSUME TypeInv, row.id <= lastId, [Next]_vars
  PROVE  TypeInv'
<1>0. TypeOK /\ WorldOK /\ PickedUp /\ Len(orders) \in Nat
  BY DEF TypeInv, TypeOK, WorldOK
<1>1. CASE UNCHANGED vars
  BY <1>0, <1>1 DEF vars, db, acme, disk, TypeInv, TypeOK, PickedUp
<1>2. CASE CreateDomain
  <2> DEFINE x == [NoRow EXCEPT !.id = lastId + 1, !.token = TRUE]
  <2>1. x \in Row
    <3>1. lastId + 1 \in Nat
      BY <1>0 DEF WorldOK
    <3> QED BY <3>1, EmptyTypes DEF Row
  <2>2. row' = x
    BY <1>2 DEF CreateDomain
  <2> HIDE DEF x
  <2>3. row' \in Row
    BY <2>1, <2>2
  <2>4. lastId' \in Nat /\ deleted' \subseteq 1..lastId'
    BY <1>0, <1>2 DEF CreateDomain, WorldOK
  <2> QED BY <1>0, <1>2, <2>3, <2>4
          DEF CreateDomain, WorldOK, TypeOK, TypeInv, PickedUp, acme, disk
<1>3. CASE DeleteDomain
  <2>1. row.id \in Nat /\ lastId \in Nat /\ row.id # 0
    BY <1>0, <1>3 DEF WorldOK, Row, DeleteDomain
  <2>2. row.id \in 1..lastId
    BY <2>1
  <2>3. deleted' \subseteq 1..lastId
    BY <1>0, <1>3, <2>2 DEF WorldOK, DeleteDomain
  <2> QED BY <1>0, <1>3, <2>3, EmptyTypes
          DEF DeleteDomain, WorldOK, TypeOK, TypeInv, PickedUp, acme, disk
<1>4. CASE Crash
  <2>1. store' \in 0..Len(orders)
    BY <1>0, <1>4 DEF Crash, WorldOK, LoadCertificate
  <2>2. proc' \in [Request -> Process] /\ \A r \in Request : proc'[r] = Idle
    BY <1>4, EmptyTypes DEF Crash
  <2>3. PickedUp'
    BY <1>0, <1>4, <2>2, EmptyTypes DEF PickedUp, Crash
  <2>4. \A r \in Request : proc'[r].pc = "idle"
    BY <2>2, EmptyTypes
  <2> QED BY <1>0, <1>4, <2>1, <2>2, <2>3, <2>4 DEF Crash, WorldOK, TypeOK, TypeInv, db
<1>5. ASSUME NEW r \in Request, Call(r) \/ Handle(r) \/ RequestFails(r) \/ Cancel(r)
      PROVE  TypeInv'
  <2> USE <1>0
  <2>0. /\ proc[r].challenge \in Nat /\ proc[r].order \in Nat
        /\ proc[r].challenge <= Len(orders) /\ proc[r].order <= Len(orders)
    BY Parts DEF PickedUp
  <2>1. CASE Call(r)
    <3>1. CallEffect(r)
      BY <2>1, CallBegins
    <3>2. /\ Elsewhere(r) /\ proc'[r].challenge = 0 /\ proc'[r].order = 0 /\ SameWorld
          /\ proc'[r].pc \notin Picking
      BY <3>1 DEF CallEffect, Begun, Picking
    <3>3. WorldOK' /\ Len(orders) <= Len(orders')
      BY <3>2, SameWorldOK
    <3>4. Len(orders') = Len(orders)
      BY <3>2 DEF SameWorld, acme
    <3> QED BY <3>2, <3>3, <3>4, TypeFrame
  <2>2. CASE Cancel(r) \/ NewOrderFails(r)
    <3>1. SameWorld /\ Ends(r)
      BY <2>2, Parts, ReturnEnds DEF Cancel, NewOrderFails, SameWorld
    <3> QED BY <3>1, SameWorldOK, TypeKeeps, StepKinds
  <2>3. CASE SaveRow(r)
    <3>1. /\ Off(r)
          /\ row' \in {row, proc[r].copy}
          /\ UNCHANGED <<certRow, lastId, deleted, acme, disk>>
      BY <2>3, SaveRowEffect, StepKinds, Parts DEF AfterSave, Picking
    <3>2. row' \in Row
      BY <3>1, Parts
    <3>3. WorldOK' /\ Len(orders) <= Len(orders')
      BY <3>1, <3>2 DEF WorldOK, acme, disk
    <3> QED BY <3>1, <3>3, TypeKeeps
  <2>4. CASE DNSChecked(r) \/ UpdateStatus(r) \/ AutoRequest(r) \/ LookupTXT(r)
             \/ GetCertRow(r) \/ ClearRead(r) \/ MarkIssued(r) \/ ActivateDomain(r)
    <3>1. SameWorld /\ (Off(r))
      BY <2>4, DNSCheckedEffect, UpdateStatusEffect, AutoRequestEffect, LookupEffect,
         GetCertRowEffect, ClearReadEffect, MarkIssuedEffect, ActivateEffect, StepKinds
         DEF Picking
    <3> QED BY <3>1, SameWorldOK, TypeKeeps, StepKinds
  <2>5. CASE NewOrder(r)
    <3>1. /\ orders' = Append(orders, "pending") /\ activeOrder' = Len(orders) + 1
          /\ UNCHANGED <<activeChallenge, db, disk>> /\ Elsewhere(r)
          /\ proc'[r].challenge = Len(orders) + 1 /\ proc'[r].order = proc[r].order
          /\ proc'[r].pc \notin Picking
      BY <2>5, NewOrderEffect, StepKinds DEF GoesTo, Picking
    <3>2. orders' \in Seq({"pending", "ready", "final", "invalid"}) /\ Len(orders') = Len(orders) + 1
      BY <3>1 DEF WorldOK
    <3>3. WorldOK'
      BY <3>1, <3>2 DEF WorldOK, db, disk
    <3> QED BY <2>0, <3>1, <3>2, <3>3, TypeFrame
  <2>6. CASE NewChallenge(r)
    <3>1. /\ activeChallenge' = proc[r].challenge /\ UNCHANGED <<activeOrder, orders, db, disk>>
          /\ Off(r)
      BY <2>6, NewChallengeEffect, StepKinds DEF Picking
    <3>2. WorldOK' /\ Len(orders) <= Len(orders')
      BY <2>0, <3>1 DEF WorldOK, db, disk
    <3> QED BY <3>1, <3>2, TypeKeeps
  <2>7. CASE CompleteDNSChallenge(r) \/ FindOrder(r)
    <3>1. SameWorld
      BY <2>7, CompleteEffect, FindOrderEffect
    <3>2. WorldOK' /\ Len(orders) <= Len(orders') /\ Len(orders') = Len(orders)
      BY <3>1, SameWorldOK DEF SameWorld, acme
    <3>3. CASE FailEffect(r)
      BY <3>2, <3>3, StepKinds, TypeKeeps
    <3>4. CASE /\ Elsewhere(r) /\ proc'[r].order = activeOrder
               /\ proc'[r].challenge \in {activeChallenge, proc[r].challenge}
               /\ proc'[r].challenge # 0 /\ proc'[r].order # 0
      <4>1. activeOrder <= Len(orders) /\ activeChallenge <= Len(orders)
        BY DEF WorldOK
      <4>2. proc'[r].challenge <= Len(orders') /\ proc'[r].order <= Len(orders')
        BY <2>0, <3>2, <3>4, <4>1
      <4> QED BY <3>2, <3>4, <4>2, TypeFrame
    <3>5. At(r, "finalize") => proc[r].challenge # 0
      BY DEF TypeOK, At
    <3> QED BY <2>7, <3>3, <3>4, <3>5, CompleteEffect, FindOrderEffect, StepKinds
  <2>8. CASE Validate(r) \/ RequestCertificate(r)
    <3>1. /\ UNCHANGED <<db, disk>> /\ OrdersGoOn
          /\ activeOrder' \in {0, activeOrder} /\ activeChallenge' \in {0, activeChallenge}
      BY <2>8, ValidateEffect, RequestCertificateEffect
    <3>2. WorldOK' /\ Len(orders') = Len(orders)
      BY <3>1 DEF WorldOK, OrdersGoOn, db, disk
    <3>3. CASE Off(r)
      BY <3>2, <3>3, TypeKeeps
    <3>4. CASE At(r, "validate") /\ Walks(r, "finalize")
      <4>1. proc[r].challenge # 0 /\ proc[r].order # 0
        BY <3>4 DEF TypeOK, At
      <4>2. /\ proc'[r].challenge = proc[r].challenge /\ proc'[r].order = proc[r].order
            /\ Elsewhere(r)
        BY <3>4 DEF Walks, SamePick, GoesTo
      <4> QED BY <2>0, <3>2, <4>1, <4>2, TypeFrame
    <3>5. \/ Off(r)
          \/ At(r, "validate") /\ Walks(r, "finalize")
      BY <2>8, ValidateEffect, RequestCertificateEffect, StepKinds DEF Picking
    <3> QED BY <3>3, <3>4, <3>5
  <2>9. CASE StoreCertificate(r) \/ StoreKey(r)
    <3>1. /\ Off(r)
          /\ UNCHANGED <<store, db, acme>>
          /\ {certFile', keyFile'} \subseteq {certFile, keyFile, 0, proc[r].order}
      BY <2>9, StoreEffect, StoreKeyEffect, StepKinds DEF Picking
    <3>2. {certFile', keyFile', store'} \subseteq 0..Len(orders)
      BY <2>0, <3>1 DEF WorldOK
    <3>3. WorldOK' /\ Len(orders) <= Len(orders')
      BY <3>1, <3>2 DEF WorldOK, db, acme
    <3> QED BY <3>1, <3>3, TypeKeeps
  <2>10. CASE PutCertRow(r)
    <3>1. /\ Off(r)
          /\ certRow' \in {certRow, proc[r].id}
          /\ UNCHANGED <<row, lastId, deleted, acme, disk>>
      BY <2>10, PutCertRowEffect, StepKinds DEF Picking
    <3>2. certRow' \in Nat
      BY <3>1, Parts DEF WorldOK
    <3>3. WorldOK' /\ Len(orders) <= Len(orders')
      BY <3>1, <3>2 DEF WorldOK, acme, disk
    <3> QED BY <3>1, <3>3, TypeKeeps
  <2>11. CASE ClearSave(r)
    <3>1. /\ Off(r) /\ row' \in {row, proc[r].clear}
          /\ UNCHANGED <<certRow, lastId, deleted, acme, disk>>
      BY <2>11, ClearSaveEffect, StepKinds DEF Picking
    <3>2. row' \in Row
      BY <3>1, Parts
    <3>3. WorldOK' /\ Len(orders) <= Len(orders')
      BY <3>1, <3>2 DEF WorldOK, acme, disk
    <3> QED BY <3>1, <3>3, TypeKeeps
  <2>12. CASE HotReload(r)
    <3>1. /\ Off(r)
          /\ store' \in {store, LoadCertificate}
          /\ UNCHANGED <<certFile, keyFile, db, acme>>
      BY <2>12, HotReloadEffect, StepKinds DEF Picking
    <3>2. store' \in 0..Len(orders)
      BY <3>1 DEF WorldOK, LoadCertificate
    <3>3. WorldOK' /\ Len(orders) <= Len(orders')
      BY <3>1, <3>2 DEF WorldOK, db, acme
    <3> QED BY <3>1, <3>3, TypeKeeps
  <2>13. CASE RequestFails(r)
    BY <2>13, RequestFailsEffect, SameWorldOK, TypeKeeps, StepKinds
  <2> QED BY <1>5, <2>1, <2>2, <2>3, <2>4, <2>5, <2>6, <2>7, <2>8, <2>9, <2>10, <2>11, <2>12, <2>13
          DEF Handle
<1> QED BY <1>1, <1>2, <1>3, <1>4, <1>5 DEF Next

(* Ids come from the row and from copies of it.                            *)
LEMMA IdsFrame ==
  ASSUME TypeOK, IdsGivenOut, NEW r \in Request, Elsewhere(r), lastId' = lastId,
         row'.id \in {row.id, proc[r].copy.id, proc[r].clear.id},
         proc'[r].copy.id \in {0, row.id, proc[r].copy.id},
         proc'[r].clear.id \in {0, row.id, proc[r].clear.id}
  PROVE  IdsGivenOut'
<1>1. /\ row.id <= lastId /\ proc[r].copy.id <= lastId /\ proc[r].clear.id <= lastId
      /\ lastId \in Nat
  BY DEF IdsGivenOut, TypeOK
<1>2. row'.id <= lastId' /\ proc'[r].copy.id <= lastId' /\ proc'[r].clear.id <= lastId'
  BY <1>1
<1>3. ASSUME NEW s \in Request, s # r
      PROVE  proc'[s].copy.id <= lastId' /\ proc'[s].clear.id <= lastId'
  BY <1>3 DEF IdsGivenOut, Elsewhere
<1> QED BY <1>2, <1>3 DEF IdsGivenOut

\* Every step keeps the ids among those given out.
LEMMA IdsStep ==
  ASSUME TypeOK, IdsGivenOut, [Next]_vars
  PROVE  IdsGivenOut'
<1>1. CASE UNCHANGED vars
  BY <1>1 DEF vars, db, IdsGivenOut
<1>2. CASE CreateDomain
  <2>1. lastId \in Nat /\ lastId' = lastId + 1
    BY <1>2 DEF CreateDomain, TypeOK
  <2>2. row'.id = lastId + 1
    BY <1>2, EmptyTypes DEF CreateDomain, Row
  <2>3. ASSUME NEW r \in Request
        PROVE  proc[r].copy.id <= lastId + 1 /\ proc[r].clear.id <= lastId + 1
    <3>1. proc[r].copy.id \in Nat /\ proc[r].clear.id \in Nat
      BY Parts DEF Row
    <3> QED BY <2>1, <3>1 DEF IdsGivenOut
  <2> QED BY <1>2, <2>1, <2>2, <2>3 DEF IdsGivenOut, CreateDomain
<1>3. CASE DeleteDomain
  BY <1>3, EmptyTypes DEF DeleteDomain, IdsGivenOut, TypeOK
<1>4. CASE Crash
  <2>1. /\ \A r \in Request : proc'[r] = Idle
        /\ row' = row /\ lastId' = lastId /\ lastId \in Nat
    BY <1>4 DEF Crash, db, TypeOK
  <2> QED BY <2>1, EmptyTypes DEF IdsGivenOut
<1>5. ASSUME NEW r \in Request, Call(r) \/ Handle(r) \/ RequestFails(r) \/ Cancel(r)
      PROVE  IdsGivenOut'
  <2>0. ASSUME Ends(r), row' \in {row, proc[r].copy}, lastId' = lastId
        PROVE  IdsGivenOut'
    BY <2>0, EmptyTypes, IdsFrame DEF Ends
  <2>1. ASSUME FailEffect(r), row' = row, lastId' = lastId
        PROVE  IdsGivenOut'
    BY <2>0, <2>1, IdsFrame DEF FailEffect, Saves, GoesTo, SameClear
  <2>2. ASSUME NEW pc, Walks(r, pc), row' \in {row, proc[r].copy}, lastId' = lastId
        PROVE  IdsGivenOut'
    BY <2>2, IdsFrame DEF Walks, GoesTo, SameCopy, SameClear
  <2>3. ASSUME NEW x \in {row, proc[r].copy}, NEW s, NEW then, Saves(r, x, s, then),
               row' = row, lastId' = lastId
        PROVE  IdsGivenOut'
    BY <2>3, IdsFrame DEF Saves, GoesTo, SameClear
  <2>4. SameWorld => row' = row /\ lastId' = lastId
    BY DEF SameWorld, db
  <2>5. CASE Call(r)
    <3>1. /\ Elsewhere(r) /\ proc'[r].copy.id = row.id /\ proc'[r].clear.id = 0
          /\ SameWorld
      BY <2>5, CallBegins, EmptyTypes DEF CallEffect, Begun
    <3> QED BY <2>4, <3>1, IdsFrame
  <2>6. CASE Cancel(r) \/ NewOrderFails(r)
    <3>1. SameWorld /\ Ends(r)
      BY <2>6, Parts, ReturnEnds DEF Cancel, NewOrderFails, SameWorld
    <3> QED BY <2>0, <2>4, <3>1
  <2>7. CASE SaveRow(r)
    BY <2>0, <2>2, <2>7, SaveRowEffect
  <2>8. CASE DNSChecked(r) \/ UpdateStatus(r) \/ LookupTXT(r) \/ MarkIssued(r)
    <3>1. /\ SameWorld
          /\ \/ Ends(r)
             \/ \E x \in {row, proc[r].copy} : \E s, then : Saves(r, x, s, then)
             \/ GoesTo(r, "read") /\ SameClear(r) /\ proc'[r].copy.id = proc[r].copy.id
      BY <2>8, DNSCheckedEffect, UpdateStatusEffect, LookupEffect, MarkIssuedEffect
    <3> QED BY <2>0, <2>3, <2>4, <3>1, IdsFrame DEF GoesTo, SameClear
  <2>9. CASE AutoRequest(r) \/ ActivateDomain(r)
    <3>1. /\ SameWorld
          /\ \/ Ends(r)
             \/ Elsewhere(r) /\ SameClear(r) /\ proc'[r].copy.id = row.id
      BY <2>9, AutoRequestEffect, ActivateEffect DEF GoesTo
    <3> QED BY <2>0, <2>4, <3>1, IdsFrame DEF SameClear
  <2>10. CASE NewOrder(r)
    BY <2>10, NewOrderEffect, IdsFrame DEF db, GoesTo, SameCopy, SameClear
  <2>11. CASE NewChallenge(r)
    <3>1. /\ row' = row /\ lastId' = lastId
          /\ \/ Walks(r, "complete")
             \/ Saves(r, proc[r].copy, "pending_acme_challenge", "idle")
      BY <2>11, NewChallengeEffect DEF db
    <3> QED BY <2>2, <2>3, <3>1
  <2>12. CASE CompleteDNSChallenge(r) \/ FindOrder(r) \/ GetCertRow(r) \/ RequestFails(r)
    <3>1. /\ SameWorld
          /\ Ends(r) \/ FailEffect(r) \/ (Elsewhere(r) /\ SameCopy(r) /\ SameClear(r))
      BY <2>12, CompleteEffect, FindOrderEffect, GetCertRowEffect, RequestFailsEffect DEF GoesTo
    <3> QED BY <2>0, <2>1, <2>4, <3>1, IdsFrame DEF SameCopy, SameClear
  <2>13. CASE Validate(r) \/ RequestCertificate(r) \/ StoreCertificate(r) \/ StoreKey(r)
    <3>1. /\ row' = row /\ lastId' = lastId
          /\ FailEffect(r) \/ \E pc : Walks(r, pc)
      BY <2>13, ValidateEffect, RequestCertificateEffect, StoreEffect, StoreKeyEffect DEF db
    <3> QED BY <2>1, <2>2, <3>1
  <2>14. CASE PutCertRow(r) \/ HotReload(r)
    <3>1. /\ row' = row /\ lastId' = lastId
          /\ Ends(r) \/ \E pc : Walks(r, pc)
      BY <2>14, PutCertRowEffect, HotReloadEffect DEF db
    <3> QED BY <2>0, <2>2, <3>1
  <2>15. CASE ClearRead(r)
    <3>1. /\ SameWorld
          /\ \/ Walks(r, "issue")
             \/ Elsewhere(r) /\ SameCopy(r) /\ proc'[r].clear.id = row.id
      BY <2>15, ClearReadEffect DEF GoesTo
    <3> QED BY <2>2, <2>4, <3>1, IdsFrame DEF SameCopy
  <2>16. CASE ClearSave(r)
    BY <2>16, ClearSaveEffect, EmptyTypes, IdsFrame DEF GoesTo, SameCopy
  <2> QED BY <1>5, <2>5, <2>6, <2>7, <2>8, <2>9, <2>10, <2>11, <2>12, <2>13, <2>14, <2>15, <2>16
          DEF Handle
<1> QED BY <1>1, <1>2, <1>3, <1>4, <1>5 DEF Next

\* Types and ids in every reachable state.
LEMMA TypeInvariant == Spec => [](TypeInv /\ IdsGivenOut)
<1>1. Init => TypeInv /\ IdsGivenOut
  <2> SUFFICES ASSUME Init PROVE TypeInv /\ IdsGivenOut
    OBVIOUS
  <2>1. TypeInv
    BY TypeInit
  <2>2. row.id \in Nat /\ lastId = row.id /\ \A r \in Request : proc[r] = Idle
    BY <2>1 DEF Init, TypeInv, TypeOK, Row
  <2> QED BY <2>1, <2>2, EmptyTypes DEF IdsGivenOut
<1>2. TypeInv /\ IdsGivenOut /\ [Next]_vars => (TypeInv /\ IdsGivenOut)'
  BY TypeStep, IdsStep DEF TypeInv, IdsGivenOut
<1> QED BY <1>1, <1>2, PTL DEF Spec

(* Type correctness, whatever the operations and failures: ids and orders  *)
(* that rows, files, the SNI store, the maps of the ACME client and the    *)
(* requests speak of have been given out, and a request that validates or  *)
(* finalizes has an order and a challenge (acme_client.go:192-262).        *)
THEOREM TypeCorrect == Spec => []TypeOK
<1>1. TypeInv => TypeOK
  BY DEF TypeInv
<1> QED BY <1>1, TypeInvariant, PTL

-----------------------------------------------------------------------------
(* What claims a certificate has one.                                      *)
HasStays == \A id : id # 0 /\ Has(id) => Has(id)'

(* Steps that leave the certificate row and the history alone, or write    *)
(* the certificate row of the domain that is there.                        *)
LEMMA CertRowStays ==
  ASSUME CertifiedInv, deleted' = deleted, certRow' \in {certRow, row.id}
  PROVE  HasStays
BY DEF HasStays, Has, CertifiedInv

\* A step of one request keeps the claims of the others true.
LEMMA CertifiedFrame ==
  ASSUME CertifiedInv, NEW r \in Request, Elsewhere(r), HasStays,
         certRow' \in {0, row'.id}, Backed(row)', Certified(r)'
  PROVE  CertifiedInv'
<1>1. ASSUME NEW s \in Request, s # r
      PROVE  Certified(s)'
  <2>1. Certified(s) /\ proc'[s] = proc[s]
    BY <1>1 DEF CertifiedInv, Elsewhere
  <2>2. Backed(proc[s].copy)' /\ Backed(proc[s].clear)'
    BY <2>1 DEF Certified, Backed, HasStays
  <2>3. ~(At(s, "idle"))' => proc'[s].id # 0 /\ proc'[s].copy.id = proc'[s].id
    BY <2>1 DEF Certified, At
  <2>4. Issued(s)' => Has(proc[s].id)'
    <3> SUFFICES ASSUME Issued(s)' PROVE Has(proc[s].id)'
      OBVIOUS
    <3>1. Issued(s) /\ ~At(s, "idle")
      BY <2>1 DEF Issued, At, AfterCertRow
    <3>2. Has(proc[s].id) /\ proc[s].id # 0
      BY <2>1, <3>1 DEF Certified
    <3> QED BY <2>1, <3>2 DEF HasStays, Has
  <2> QED BY <2>2, <2>3, <2>4 DEF Certified, At
<1> QED BY <1>1 DEF CertifiedInv

\* An idle request claims nothing.
LEMMA EndsCertified ==
  ASSUME NEW r \in Request, proc'[r] = Idle
  PROVE  Certified(r)'
BY EmptyTypes DEF Certified, Backed, Issued, At, AfterCertRow, Claims

\* Every step keeps claims of a certificate true.
LEMMA CertifiedStep ==
  ASSUME TypeOK, CertifiedInv, [Next]_vars
  PROVE  CertifiedInv'
<1>1. CASE UNCHANGED vars
  BY <1>1 DEF vars, db, CertifiedInv, Certified, Backed, Has, Issued, At
<1>2. CASE CreateDomain
  <2>1. /\ row'.status = "pending_dns" /\ row.id = 0
        /\ certRow' = certRow /\ proc' = proc /\ deleted' = deleted
    BY <1>2, EmptyTypes DEF CreateDomain, Row
  <2> QED BY <2>1 DEF CertifiedInv, Certified, Backed, Has, Issued, At, Claims
<1>3. CASE DeleteDomain
  <2>1. /\ row'.status = "pending_dns" /\ certRow' = 0
        /\ proc' = proc /\ deleted' = deleted \cup {row.id}
    BY <1>3, EmptyTypes DEF DeleteDomain
  <2>2. HasStays
    BY <2>1 DEF HasStays, Has, CertifiedInv
  <2>3. ASSUME NEW r \in Request
        PROVE  Certified(r)'
    <3>1. Certified(r)
      BY DEF CertifiedInv
    <3>2. Issued(r) => ~At(r, "idle")
      BY DEF Issued, At, AfterCertRow
    <3> QED BY <2>1, <2>2, <3>1, <3>2 DEF Certified, Backed, HasStays, Has, Issued, At
  <2> QED BY <2>1, <2>3 DEF CertifiedInv, Backed, Claims
<1>4. CASE Crash
  <2>1. \A r \in Request : proc'[r] = Idle
    BY <1>4 DEF Crash
  <2>2. row' = row /\ certRow' = certRow /\ deleted' = deleted
    BY <1>4 DEF Crash, db
  <2>3. \A r \in Request : Certified(r)'
    BY <2>1, EndsCertified
  <2> QED BY <2>2, <2>3 DEF CertifiedInv, Backed, Has
<1>5. ASSUME NEW r \in Request, Call(r) \/ Handle(r) \/ RequestFails(r) \/ Cancel(r)
      PROVE  CertifiedInv'
  <2>0. /\ Certified(r) /\ Backed(row) /\ certRow \in {0, row.id}
        /\ row.id \in Nat
    BY Parts DEF CertifiedInv
  <2> DEFINE Same == row' = row /\ certRow' = certRow /\ deleted' = deleted
             Works == ~At(r, "idle") /\ proc[r].id # 0 /\ proc[r].copy.id = proc[r].id
  <2>1. SameWorld => Same
    BY DEF SameWorld, db
  <2>2. ~At(r, "idle") => Works
    BY <2>0 DEF Certified
  <2>3. ASSUME Same
        PROVE  HasStays /\ certRow' \in {0, row'.id} /\ Backed(row)'
    BY <2>0, <2>3, CertRowStays DEF Backed, Has
  <2>4. ASSUME Ends(r), HasStays, certRow' \in {0, row'.id}, Backed(row)'
        PROVE  CertifiedInv'
    BY <2>4, EndsCertified, CertifiedFrame DEF Ends
  (* A request that goes on with the copy it has, or with one that is as     *)
  (* good, and that has no new claim to a certificate row.                   *)
  <2>5. ASSUME NEW pc, GoesTo(r, pc), SameClear(r), Works, HasStays,
               pc # "idle", proc'[r].copy.id = proc[r].id,
               \/ proc'[r].copy.status \notin Claims
               \/ proc'[r].copy.status \in Claims /\ Has(proc[r].id)
               \/ SameCopy(r),
               \/ pc \notin AfterCertRow /\ (pc = "save" => proc'[r].then # "reload")
               \/ Issued(r)
               \/ Has(proc[r].id)'
        PROVE  Certified(r)' /\ Elsewhere(r)
    <3>1. Has(proc[r].id) => Has(proc[r].id)'
      BY <2>5 DEF GoesTo, HasStays, Has
    <3>2. Backed(proc[r].copy)'
      BY <2>0, <2>5, <3>1 DEF Certified, Backed, HasStays, Has, SameCopy, GoesTo
    <3>3. Backed(proc[r].clear)'
      BY <2>0, <2>5 DEF Certified, Backed, HasStays, Has, SameClear
    <3>4. Issued(r)' => Has(proc[r].id)'
      BY <2>0, <2>5, <3>1 DEF Certified, Issued, At, GoesTo, Has
    <3> QED BY <2>5, <3>2, <3>3, <3>4 DEF Certified, GoesTo, At
  <2>6. ASSUME NEW x \in {row, proc[r].copy}, NEW s, Saves(r, x, s, "idle"), Same, Works,
               x.id = proc[r].id, s \notin Claims \/ Has(proc[r].id)
        PROVE  CertifiedInv'
    <3>1. HasStays /\ certRow' \in {0, row'.id} /\ Backed(row)'
      BY <2>3, <2>6
    <3>2. Certified(r)' /\ Elsewhere(r)
      BY <2>5, <2>6, <3>1 DEF Saves, AfterCertRow
    <3> QED BY <3>1, <3>2, CertifiedFrame
  <2>7. ASSUME FailEffect(r), Same, Works
        PROVE  CertifiedInv'
    BY <2>3, <2>4, <2>6, <2>7 DEF FailEffect, Claims
  <2>8. ASSUME NEW pc, Walks(r, pc), pc \notin {"idle", "save"}, HasStays,
               certRow' \in {0, row'.id}, Backed(row)', Works,
               pc \notin AfterCertRow \/ Issued(r) \/ Has(proc[r].id)'
        PROVE  CertifiedInv'
    <3>1. GoesTo(r, pc) /\ SameClear(r) /\ SameCopy(r) /\ proc'[r].copy.id = proc[r].id
      BY <2>8 DEF Walks, SameCopy
    <3>2. Certified(r)' /\ Elsewhere(r)
      BY <2>5, <2>8, <3>1
    <3> QED BY <2>8, <3>2, CertifiedFrame
  <2>9. CASE Call(r)
    <3>1. CallEffect(r)
      BY <2>9, CallBegins
    <3>2. PICK op \in Ops, pc \in {"save", "dns", "read", "new_order", "lookup"},
               then \in {"idle", "request", "complete"}, x \in Row :
            /\ Begun(r, op, pc, then, x) /\ x.id = row.id
            /\ x.status = row.status \/ x.status \notin Claims
      BY <3>1 DEF CallEffect
    <3>3. Same /\ HasStays /\ certRow' \in {0, row'.id} /\ Backed(row)'
      BY <2>1, <2>3, <3>1 DEF CallEffect
    <3>4. /\ Elsewhere(r) /\ proc'[r].pc = pc /\ proc'[r].then = then /\ row.id # 0
          /\ proc'[r].id = row.id /\ proc'[r].copy = x /\ proc'[r].clear = NoRow
      BY <3>2 DEF Begun
    <3>5. Backed(proc[r].copy)' /\ Backed(proc[r].clear)'
      BY <2>0, <3>2, <3>3, <3>4, EmptyTypes DEF Backed, Has, Claims
    <3>6. Certified(r)'
      BY <3>2, <3>4, <3>5 DEF Certified, Issued, At, AfterCertRow
    <3> QED BY <3>3, <3>4, <3>6, CertifiedFrame
  <2>10. CASE Cancel(r) \/ NewOrderFails(r)
    <3>1. SameWorld /\ Ends(r)
      BY <2>10, Parts, ReturnEnds DEF Cancel, NewOrderFails, SameWorld
    <3> QED BY <2>1, <2>3, <2>4, <3>1
  <2>11. CASE SaveRow(r)
    <3>1. At(r, "save") /\ certRow' = certRow /\ deleted' = deleted /\ Works
      BY <2>2, <2>11, SaveRowEffect DEF At
    <3>2. HasStays
      BY <3>1, CertRowStays
    <3>3. CASE row' = row /\ Ends(r)
      BY <2>3, <2>4, <3>1, <3>3
    <3>4. CASE row' = proc[r].copy /\ SaveSucceeds(proc[r].copy)
      <4>1. certRow' \in {0, row'.id}
        BY <2>0, <3>1, <3>4 DEF SaveSucceeds
      <4>2. Backed(row)'
        BY <2>0, <3>1, <3>4 DEF Backed, Has, Certified
      <4>3. ASSUME proc[r].then # "idle", Walks(r, proc[r].then)
            PROVE  CertifiedInv'
        <5>1. proc[r].then \in {"request", "complete", "reload"}
          BY <4>3, Parts DEF AfterSave
        <5>2. proc[r].then \in AfterCertRow => Issued(r)
          BY <3>1, <5>1 DEF AfterCertRow, Issued
        <5> QED BY <2>8, <3>1, <3>2, <4>1, <4>2, <4>3, <5>1, <5>2
      <4> QED BY <2>4, <2>11, <3>2, <3>4, <4>1, <4>2, <4>3, SaveRowEffect
    <3> QED BY <2>11, <3>3, <3>4, SaveRowEffect
  <2>12. CASE DNSChecked(r)
    <3>1. Same /\ At(r, "dns") /\ Works
      BY <2>1, <2>2, <2>12, DNSCheckedEffect DEF At
    <3>2. HasStays /\ certRow' \in {0, row'.id} /\ Backed(row)'
      BY <2>3, <3>1
    <3>3. CASE Ends(r)
      BY <2>4, <3>2, <3>3
    <3>4. CASE ~Ends(r)
      <4>1. /\ GoesTo(r, "read") /\ SameClear(r) /\ proc'[r].copy.id = proc[r].copy.id
            /\ proc'[r].copy.status = "dns_verified"
        BY <2>12, <3>4, DNSCheckedEffect
      <4>2. Certified(r)' /\ Elsewhere(r)
        BY <2>5, <3>1, <3>2, <4>1 DEF Claims, AfterCertRow
      <4> QED BY <3>2, <4>2, CertifiedFrame
    <3> QED BY <3>3, <3>4
  <2>13. CASE UpdateStatus(r)
    <3>1. Same /\ At(r, "read") /\ Works
      BY <2>1, <2>2, <2>13, UpdateStatusEffect DEF At
    <3>2. proc[r].copy.status \notin Claims \/ Has(proc[r].id)
      BY <2>0, <3>1 DEF Certified, Backed
    <3> QED BY <2>3, <2>4, <2>6, <2>13, <3>1, <3>2, UpdateStatusEffect
  <2>14. CASE LookupTXT(r)
    <3>1. Same /\ At(r, "lookup") /\ Works
      BY <2>1, <2>2, <2>14, LookupEffect DEF At
    <3>2. "acme_challenge_ready" \notin Claims
      BY DEF Claims
    <3> QED BY <2>3, <2>4, <2>6, <2>14, <3>1, <3>2, LookupEffect
  <2>15. CASE MarkIssued(r)
    <3>1. Same /\ At(r, "issue") /\ Works /\ Saves(r, proc[r].copy, "certificate_issued", "reload")
      BY <2>1, <2>2, <2>15, MarkIssuedEffect DEF At
    <3>2. HasStays /\ certRow' \in {0, row'.id} /\ Backed(row)'
      BY <2>3, <3>1
    <3>3. Issued(r) /\ Has(proc[r].id)
      BY <2>0, <3>1 DEF Certified, Issued, At, AfterCertRow
    <3>4. /\ GoesTo(r, "save") /\ SameClear(r) /\ proc'[r].copy.id = proc[r].id
          /\ proc'[r].copy.status \in Claims
      BY <3>1 DEF Saves, Claims
    <3>5. Certified(r)' /\ Elsewhere(r)
      BY <2>5, <3>1, <3>2, <3>3, <3>4
    <3> QED BY <3>2, <3>5, CertifiedFrame
  <2>16. CASE ActivateDomain(r)
    <3>1. Same /\ At(r, "activate") /\ Works
      BY <2>1, <2>2, <2>16, ActivateEffect DEF At
    <3>2. HasStays /\ certRow' \in {0, row'.id} /\ Backed(row)'
      BY <2>3, <3>1
    <3>3. Issued(r) /\ Has(proc[r].id)
      BY <2>0, <3>1 DEF Certified, Issued, At, AfterCertRow
    <3>4. CASE Ends(r)
      BY <2>4, <3>2, <3>4
    <3>5. CASE ~Ends(r)
      <4>1. /\ GoesTo(r, "save") /\ SameClear(r) /\ proc'[r].copy.id = proc[r].id
            /\ proc'[r].copy.status \in Claims
        BY <2>16, <3>5, ActivateEffect DEF Claims
      <4>2. Certified(r)' /\ Elsewhere(r)
        BY <2>5, <3>1, <3>2, <3>3, <4>1
      <4> QED BY <3>2, <4>2, CertifiedFrame
    <3> QED BY <3>4, <3>5
  <2>17. CASE AutoRequest(r)
    <3>1. Same /\ At(r, "request") /\ Works
      BY <2>1, <2>2, <2>17, AutoRequestEffect DEF At
    <3>2. HasStays /\ certRow' \in {0, row'.id} /\ Backed(row)'
      BY <2>3, <3>1
    <3>3. CASE Ends(r)
      BY <2>4, <3>2, <3>3
    <3>4. CASE ~Ends(r)
      <4>1. /\ GoesTo(r, "new_order") /\ SameClear(r) /\ proc'[r].copy = row
            /\ row.id = proc[r].id
        BY <2>17, <3>4, AutoRequestEffect
      <4>2. row.status \in Claims => Has(proc[r].id)
        BY <2>0, <4>1 DEF Backed
      <4>3. Certified(r)' /\ Elsewhere(r)
        BY <2>5, <3>1, <3>2, <4>1, <4>2 DEF AfterCertRow
      <4> QED BY <3>2, <4>3, CertifiedFrame
    <3> QED BY <3>3, <3>4
  <2>18. CASE NewOrder(r) \/ CompleteDNSChallenge(r) \/ FindOrder(r) \/ GetCertRow(r) \/ RequestFails(r)
    <3>1. /\ Same /\ proc[r].pc \in {"new_order", "complete", "finalize", "finalizing", "cert_get"}
          /\ \/ Ends(r)
             \/ FailEffect(r)
             \/ /\ \E pc \in {"new_challenge", "validate", "finalizing", "cert_put"} : GoesTo(r, pc)
                /\ SameCopy(r) /\ SameClear(r)
      BY <2>1, <2>18, NewOrderEffect, CompleteEffect, FindOrderEffect, GetCertRowEffect,
         RequestFailsEffect DEF At, db
    <3>2. HasStays /\ certRow' \in {0, row'.id} /\ Backed(row)'
      BY <2>3, <3>1
    <3>3. Works
      BY <2>2, <3>1 DEF At
    <3>4. CASE Ends(r) \/ FailEffect(r)
      BY <2>4, <2>7, <3>1, <3>2, <3>3, <3>4
    <3>5. ASSUME NEW pc \in {"new_challenge", "validate", "finalizing", "cert_put"}, GoesTo(r, pc),
                 SameCopy(r), SameClear(r)
          PROVE  CertifiedInv'
      <4>1. proc'[r].copy.id = proc[r].id
        BY <3>3, <3>5 DEF SameCopy
      <4>2. Certified(r)' /\ Elsewhere(r)
        BY <2>5, <3>2, <3>3, <3>5, <4>1 DEF AfterCertRow
      <4> QED BY <3>2, <4>2, CertifiedFrame
    <3> QED BY <3>1, <3>4, <3>5
  <2>19. CASE NewChallenge(r)
    <3>1. /\ Same /\ At(r, "new_challenge")
          /\ \/ Walks(r, "complete")
             \/ Saves(r, proc[r].copy, "pending_acme_challenge", "idle")
      BY <2>19, NewChallengeEffect DEF db
    <3>2. Works
      BY <2>2, <3>1 DEF At
    <3>3. "pending_acme_challenge" \notin Claims /\ "complete" \notin AfterCertRow
      BY DEF Claims, AfterCertRow
    <3> QED BY <2>3, <2>6, <2>8, <3>1, <3>2, <3>3
  <2>20. CASE Validate(r) \/ RequestCertificate(r) \/ StoreCertificate(r) \/ StoreKey(r)
    <3>1. /\ Same /\ proc[r].pc \in {"validate", "finalizing", "store", "store_key"}
          /\ \/ FailEffect(r)
             \/ \E pc \in {"finalize", "store", "store_key", "cert_get"} : Walks(r, pc)
      BY <2>20, ValidateEffect, RequestCertificateEffect, StoreEffect, StoreKeyEffect DEF db, At
    <3>2. Works
      BY <2>2, <3>1 DEF At
    <3>3. ASSUME NEW pc \in {"finalize", "store", "store_key", "cert_get"}, Walks(r, pc)
          PROVE  CertifiedInv'
      BY <2>3, <2>8, <3>1, <3>2, <3>3 DEF AfterCertRow
    <3> QED BY <2>7, <3>1, <3>2, <3>3
  <2>21. CASE PutCertRow(r)
    <3>1. /\ At(r, "cert_put") /\ row' = row /\ deleted' = deleted
          /\ \/ /\ GetByID(proc[r].id) /\ certRow' = proc[r].id
                /\ Ends(r) \/ Walks(r, "clear_read") \/ Walks(r, "reload")
             \/ certRow' = certRow /\ Ends(r)
      BY <2>21, PutCertRowEffect
    <3>2. Works
      BY <2>2, <3>1 DEF At
    <3>3. CASE certRow' = certRow /\ Ends(r)
      BY <2>3, <2>4, <3>1, <3>3
    <3>4. CASE GetByID(proc[r].id) /\ certRow' = proc[r].id
      <4>1. certRow' = row.id /\ HasStays /\ certRow' \in {0, row'.id}
        BY <3>1, <3>4, CertRowStays DEF GetByID
      <4>2. Backed(row)'
        BY <2>0, <3>1, <4>1 DEF Backed, HasStays, Has
      <4>3. ASSUME NEW pc \in {"clear_read", "reload"}, Walks(r, pc)
            PROVE  CertifiedInv'
        <5>1. Has(proc[r].id)'
          BY <3>4, <4>3 DEF Has, Walks, GoesTo
        <5> QED BY <2>8, <3>2, <4>1, <4>2, <4>3, <5>1
      <4> QED BY <2>4, <3>1, <3>3, <4>1, <4>2, <4>3
    <3> QED BY <3>1, <3>3, <3>4
  <2>22. CASE HotReload(r)
    <3>1. /\ Same /\ At(r, "reload")
          /\ Ends(r) \/ Walks(r, "activate")
      BY <2>22, HotReloadEffect DEF db
    <3>2. Works /\ Issued(r)
      BY <2>2, <3>1 DEF At, Issued, AfterCertRow
    <3> QED BY <2>3, <2>4, <2>8, <3>1, <3>2
  <2>23. CASE ClearRead(r)
    <3>1. Same /\ At(r, "clear_read")
      BY <2>1, <2>23, ClearReadEffect
    <3>2. Works /\ Issued(r)
      BY <2>2, <3>1 DEF At, Issued, AfterCertRow
    <3>3. HasStays /\ certRow' \in {0, row'.id} /\ Backed(row)'
      BY <2>3, <3>1
    <3>4. CASE Walks(r, "issue")
      BY <2>8, <3>2, <3>3, <3>4
    <3>5. CASE ~Walks(r, "issue")
      <4>1. /\ GoesTo(r, "clear_save") /\ SameCopy(r)
            /\ proc'[r].clear.id = row.id /\ proc'[r].clear.status = row.status
        BY <2>23, <3>5, ClearReadEffect
      <4>2. Backed(proc[r].clear)' /\ Backed(proc[r].copy)'
        BY <2>0, <3>1, <4>1 DEF Backed, Has, Certified, SameCopy
      <4>3. Has(proc[r].id)' /\ Elsewhere(r)
        BY <2>0, <3>1, <3>2, <4>1 DEF Certified, Has, GoesTo
      <4>4. Certified(r)'
        BY <3>2, <4>1, <4>2, <4>3 DEF Certified, GoesTo, SameCopy, At
      <4> QED BY <3>3, <4>3, <4>4, CertifiedFrame
    <3> QED BY <3>4, <3>5
  <2>24. CASE ClearSave(r)
    <3>1. /\ At(r, "clear_save") /\ certRow' = certRow /\ deleted' = deleted
          /\ row' = row \/ (row' = proc[r].clear /\ SaveSucceeds(proc[r].clear))
          /\ GoesTo(r, "issue") /\ SameCopy(r) /\ proc'[r].clear = NoRow
      BY <2>24, ClearSaveEffect
    <3>2. Works /\ Issued(r)
      BY <2>2, <3>1 DEF At, Issued, AfterCertRow
    <3>3. HasStays
      BY <3>1, CertRowStays
    <3>4. certRow' \in {0, row'.id}
      BY <2>0, <3>1 DEF SaveSucceeds
    <3>5. Backed(row)'
      BY <2>0, <3>1 DEF Backed, Has, Certified
    <3>6. Backed(proc[r].clear)' /\ Backed(proc[r].copy)'
      BY <2>0, <3>1, EmptyTypes DEF Backed, Has, Certified, SameCopy, Claims
    <3>7. Has(proc[r].id)' /\ Elsewhere(r)
      BY <2>0, <3>1, <3>2 DEF Certified, Has, GoesTo
    <3>8. Certified(r)'
      BY <3>1, <3>2, <3>6, <3>7 DEF Certified, GoesTo, SameCopy, At
    <3> QED BY <3>3, <3>4, <3>5, <3>7, <3>8, CertifiedFrame
  <2> QED BY <1>5, <2>9, <2>10, <2>11, <2>12, <2>13, <2>14, <2>15, <2>16, <2>17, <2>18, <2>19,
             <2>20, <2>21, <2>22, <2>23, <2>24 DEF Handle
<1> QED BY <1>1, <1>2, <1>3, <1>4, <1>5 DEF Next

(* A status that speaks of a certificate is backed by a certificate row,   *)
(* whatever requests run at a time and whatever fails: errors of the CA,   *)
(* the database and the disk, clients that go away, restarts.  Only a      *)
(* domain that its deletion did not stop may be without.                   *)
THEOREM IssuedHasCertificateTheorem == Spec => []IssuedHasCertificate
<1>1. Init => CertifiedInv
  <2> SUFFICES ASSUME Init PROVE CertifiedInv
    OBVIOUS
  <2>1. row.status = "pending_dns"
    <3>1. CASE ~LegacyDomain
      BY <3>1, EmptyTypes DEF Init
    <3>2. CASE LegacyDomain
      BY <3>2, EmptyTypes DEF Init, Row
    <3> QED BY <3>1, <3>2
  <2>2. certRow = 0 /\ \A r \in Request : proc[r] = Idle
    BY DEF Init
  <2> QED BY <2>1, <2>2, EmptyTypes
          DEF CertifiedInv, Certified, Backed, Issued, At, AfterCertRow, Claims
<1>2. TypeInv /\ CertifiedInv /\ [Next]_vars => CertifiedInv'
  BY CertifiedStep DEF TypeInv
<1>3. CertifiedInv => IssuedHasCertificate
  BY DEF CertifiedInv, Backed, Has, Claims, IssuedHasCertificate
<1> QED BY <1>1, <1>2, <1>3, TypeInvariant, PTL DEF Spec

-----------------------------------------------------------------------------
(* The order a request waits for.  A step that does not bring an order     *)
(* back to pending leaves the other requests in order.                     *)
LEMMA WaitFrame ==
  ASSUME TypeOK, WaitInv, NEW r \in Request, Elsewhere(r), Len(orders) <= Len(orders'),
         \A i \in 1..Len(orders) : orders'[i] = "pending" => orders[i] = "pending",
         activeOrder' \in {0, Len(orders')}, InOrder(r)'
  PROVE  WaitInv'
<1>1. ASSUME NEW s \in Request, s # r
      PROVE  InOrder(s)'
  <2>1. InOrder(s) /\ proc'[s] = proc[s]
    BY <1>1 DEF WaitInv, Elsewhere
  <2>2. proc[s].pc \in {"finalize", "finalizing"} => proc[s].order \in 1..Len(orders)
    BY DEF TypeOK
  <2> QED BY <2>1, <2>2 DEF InOrder, Waits, At
<1> QED BY <1>1 DEF WaitInv

\* A request at any other step is in order.
LEMMA NotPicking ==
  ASSUME NEW r \in Request, proc'[r].pc \notin Picking
  PROVE  InOrder(r)'
BY DEF InOrder, Waits, At, Picking

\* Every step leaves the requests in order.
LEMMA WaitStep ==
  ASSUME TypeInv, WaitInv, [Next]_vars
  PROVE  WaitInv'
<1>0. TypeOK /\ Len(orders) \in Nat
  BY DEF TypeInv, TypeOK
<1>1. CASE UNCHANGED vars
  BY <1>1 DEF vars, acme, WaitInv, InOrder, Waits, At
<1>2. CASE CreateDomain \/ DeleteDomain
  BY <1>2 DEF CreateDomain, DeleteDomain, acme, WaitInv, InOrder, Waits, At
<1>3. CASE Crash
  <2>1. activeOrder' = 0 /\ \A r \in Request : proc'[r] = Idle
    BY <1>3 DEF Crash
  <2>2. \A r \in Request : InOrder(r)'
    BY <2>1, EmptyTypes, NotPicking DEF Picking
  <2> QED BY <2>1, <2>2 DEF WaitInv
<1>4. ASSUME NEW r \in Request, Call(r) \/ Handle(r) \/ RequestFails(r) \/ Cancel(r)
      PROVE  WaitInv'
  <2>0. InOrder(r) /\ activeOrder \in {0, Len(orders)}
    BY DEF WaitInv
  <2>1. Off(r) => Elsewhere(r) /\ InOrder(r)'
    BY EmptyTypes, NotPicking DEF Off, Ends, Picking
  <2>2. ASSUME OrdersGoOn, activeOrder' \in {0, activeOrder}, Elsewhere(r), InOrder(r)'
        PROVE  WaitInv'
    BY <1>0, <2>0, <2>2, WaitFrame DEF OrdersGoOn
  <2>3. ASSUME Off(r), UNCHANGED <<activeOrder, orders>>
        PROVE  WaitInv'
    BY <1>0, <2>1, <2>2, <2>3, OrdersStay
  <2>4. CASE Call(r)
    <3>1. SameWorld /\ Elsewhere(r) /\ proc'[r].pc \notin Picking
      BY <1>0, <2>4, CallBegins DEF CallEffect, Begun, Picking
    <3> QED BY <1>0, <2>2, <3>1, NotPicking, OrdersStay DEF SameWorld, acme
  <2>5. CASE Cancel(r) \/ NewOrderFails(r)
    <3>1. SameWorld /\ Ends(r)
      BY <1>0, <2>5, Parts, ReturnEnds DEF Cancel, NewOrderFails, SameWorld
    <3> QED BY <2>3, <3>1, StepKinds DEF SameWorld, acme
  <2>6. CASE DNSChecked(r) \/ UpdateStatus(r) \/ AutoRequest(r) \/ LookupTXT(r) \/ RequestFails(r)
             \/ GetCertRow(r) \/ ClearRead(r) \/ MarkIssued(r) \/ ActivateDomain(r)
    <3>1. SameWorld /\ Off(r)
      BY <1>0, <2>6, DNSCheckedEffect, UpdateStatusEffect, AutoRequestEffect, LookupEffect,
         GetCertRowEffect, ClearReadEffect, MarkIssuedEffect, ActivateEffect, RequestFailsEffect,
         StepKinds DEF Picking
    <3> QED BY <2>3, <3>1 DEF SameWorld, acme
  <2>7. CASE SaveRow(r)
    <3>1. Off(r) /\ UNCHANGED acme
      BY <1>0, <2>7, SaveRowEffect, StepKinds, Parts DEF AfterSave, Picking
    <3> QED BY <2>3, <3>1 DEF acme
  <2>8. CASE StoreCertificate(r) \/ StoreKey(r) \/ PutCertRow(r) \/ ClearSave(r) \/ HotReload(r)
    <3>1. Off(r) /\ UNCHANGED acme
      BY <1>0, <2>8, StoreEffect, StoreKeyEffect, PutCertRowEffect, ClearSaveEffect,
         HotReloadEffect, StepKinds DEF Picking
    <3> QED BY <2>3, <3>1 DEF acme
  <2>9. CASE NewChallenge(r)
    <3>1. Off(r) /\ UNCHANGED <<activeOrder, orders>>
      BY <1>0, <2>9, NewChallengeEffect, StepKinds DEF Picking
    <3> QED BY <2>3, <3>1
  <2>10. CASE NewOrder(r)
    <3>1. /\ orders' = Append(orders, "pending") /\ activeOrder' = Len(orders) + 1
          /\ Elsewhere(r) /\ proc'[r].pc \notin Picking
      BY <1>0, <2>10, NewOrderEffect DEF GoesTo, Picking
    <3>2. /\ Len(orders') = Len(orders) + 1
          /\ \A i \in 1..Len(orders) : orders'[i] = orders[i]
      <4>1. orders \in Seq({"pending", "ready", "final", "invalid"})
        BY <1>0 DEF TypeOK
      <4> QED BY <3>1, <4>1
    <3>3. InOrder(r)'
      BY <3>1, NotPicking
    <3> QED BY <1>0, <3>1, <3>2, <3>3, WaitFrame
  <2>11. CASE CompleteDNSChallenge(r)
    <3>1. SameWorld
      BY <1>0, <2>11, CompleteEffect
    <3>2. OrdersGoOn /\ activeOrder' = activeOrder
      BY <1>0, <3>1, OrdersStay DEF SameWorld, acme
    <3>3. CASE FailEffect(r)
      BY <2>3, <3>1, <3>3, StepKinds DEF SameWorld, acme
    <3>4. CASE ~FailEffect(r)
      <4>1. /\ GoesTo(r, "validate") /\ activeOrder # 0
            /\ proc'[r].challenge = activeChallenge /\ proc'[r].order = activeOrder
        BY <1>0, <2>11, <3>4, CompleteEffect
      <4>2. proc'[r].challenge <= proc'[r].order
        BY <1>0, <2>0, <4>1 DEF TypeOK
      <4>3. InOrder(r)' /\ Elsewhere(r)
        BY <4>1, <4>2 DEF InOrder, Waits, At, GoesTo
      <4> QED BY <2>2, <3>2, <4>3
    <3> QED BY <3>3, <3>4
  <2>12. CASE Validate(r)
    <3>1. /\ OrdersGoOn /\ activeOrder' = activeOrder /\ At(r, "validate")
          /\ \/ FailEffect(r)
             \/ Walks(r, "finalize") /\ orders'[proc[r].order] # "pending"
      BY <1>0, <2>12, ValidateEffect
    <3>2. CASE FailEffect(r)
      BY <2>1, <2>2, <3>1, <3>2, StepKinds
    <3>3. CASE Walks(r, "finalize") /\ orders'[proc[r].order] # "pending"
      <4>1. /\ proc'[r].challenge = proc[r].challenge /\ proc'[r].order = proc[r].order
            /\ proc'[r].pc = "finalize" /\ Elsewhere(r)
        BY <3>3 DEF Walks, SamePick, GoesTo
      <4>2. proc[r].challenge <= proc[r].order
        BY <2>0, <3>1 DEF InOrder, At
      <4>3. InOrder(r)'
        BY <3>3, <4>1, <4>2 DEF InOrder, Waits, At
      <4> QED BY <2>2, <3>1, <4>1, <4>3
    <3> QED BY <3>1, <3>2, <3>3
  <2>13. CASE FindOrder(r)
    <3>1. SameWorld /\ At(r, "finalize")
      BY <1>0, <2>13, FindOrderEffect
    <3>2. OrdersGoOn /\ activeOrder' = activeOrder /\ orders' = orders
      BY <1>0, <3>1, OrdersStay DEF SameWorld, acme
    <3>3. CASE FailEffect(r)
      BY <2>3, <3>1, <3>3, StepKinds DEF SameWorld, acme
    <3>4. CASE ~FailEffect(r)
      <4>1. /\ GoesTo(r, "finalizing") /\ activeOrder # 0
            /\ proc'[r].challenge = proc[r].challenge /\ proc'[r].order = activeOrder
        BY <1>0, <2>13, <3>4, FindOrderEffect
      <4>2. /\ proc[r].order \in 1..Len(orders) /\ proc[r].challenge \in 1..Len(orders)
            /\ activeOrder = Len(orders)
        BY <1>0, <2>0, <3>1, <4>1 DEF TypeOK, At
      <4>3. proc[r].challenge <= proc[r].order /\ orders[proc[r].order] # "pending"
        BY <2>0, <3>1 DEF InOrder, At
      <4>4. orders[activeOrder] = "pending" => activeOrder > proc[r].challenge
        BY <1>0, <4>2, <4>3
      <4>5. InOrder(r)' /\ Elsewhere(r)
        BY <3>2, <4>1, <4>4 DEF InOrder, Waits, At, GoesTo
      <4> QED BY <2>2, <3>2, <4>5
    <3> QED BY <3>3, <3>4
  <2>14. CASE RequestCertificate(r)
    <3>1. OrdersGoOn /\ activeOrder' \in {0, activeOrder} /\ Off(r)
      BY <1>0, <2>14, RequestCertificateEffect, StepKinds DEF Picking
    <3> QED BY <2>1, <2>2, <3>1
  <2> QED BY <1>4, <2>4, <2>5, <2>6, <2>7, <2>8, <2>9, <2>10, <2>11, <2>12, <2>13, <2>14
          DEF Handle
<1> QED BY <1>1, <1>2, <1>3, <1>4 DEF Next

(* The wait without a limit of RequestCertificate is for an order that     *)
(* came after the challenge the request has had validated, for any number  *)
(* of requests and orders (acme_client.go:431-437).                        *)
THEOREM WaitsTheorem == Spec => []WaitsForAnother
<1>1. Init => WaitInv
  <2> SUFFICES ASSUME Init PROVE WaitInv
    OBVIOUS
  <2>1. activeOrder = 0 /\ \A r \in Request : proc[r] = Idle
    BY DEF Init
  <2> QED BY <2>1, EmptyTypes DEF WaitInv, InOrder, Waits, At
<1>2. TypeInv /\ WaitInv /\ [Next]_vars => WaitInv'
  BY WaitStep
<1>3. WaitInv => WaitsForAnother
  BY DEF WaitInv, InOrder, WaitsForAnother
<1> QED BY <1>1, <1>2, <1>3, TypeInvariant, PTL DEF Spec

=============================================================================
