------------------------- MODULE CertRenewalProofs --------------------------
(***************************************************************************)
(* Proofs about CertRenewal, for any domains and any days: types, a broken *)
(* pair is due, what is not due and was loaded is what clients get, and    *)
(* what expires untried.                                                   *)
(***************************************************************************)
EXTENDS CertRenewal, TLAPS

\* Every certificate the check has still to look at is due, but for the one
\* whose row has just been updated.
ListedAreDue ==
  loop \in {"renew"} \cup Saving =>
    \A d \in due : \/ row[d] <= RenewalDays
                   \/ loop \in {"add", "add_mail"} /\ d = at

\* The row is written for a pair that loads.
PairBeforeRow == loop \in {"row", "add", "add_mail"} => pem[at].whole

\* The row never promises more days than the certificate on disk has.
RowIsBehind == \A d \in Domain : row[d] <= pem[d].left

\* The store has what the rows that are not due promise.
StoreIsCurrent ==
  /\ \A d \in Domain \ unloaded :
       \/ row[d] <= RenewalDays
       \/ loop \in {"add", "add_mail"} /\ at = d
       \/ sni[d].name >= row[d] /\ sni[d].mail >= row[d]
  /\ loop = "add_mail" => sni[at].name >= row[at]

\* TornIsDue and NotDueIsServed are not inductive; this is.
IInv == TypeOK /\ TornIsDue /\ ListedAreDue /\ PairBeforeRow /\ RowIsBehind /\ StoreIsCurrent

-----------------------------------------------------------------------------
(* Type correctness.                                                       *)

\* There is a first domain to look at (certificate_repository.go:142-155).
LEMMA DefaultType == Default \in Domain
  BY DomainAssumption DEF Default

\* The initial states have the right types (cert_renewal.go:30-49).
LEMMA TypeInit == Init => TypeOK
<1> SUFFICES ASSUME Init PROVE TypeOK
  OBVIOUS
<1>1. at \in Domain
  BY DefaultType DEF Init
<1>2. pem \in [Domain -> [left : Days, whole : BOOLEAN]] /\ sni \in [Domain -> Entry]
  BY DEF Init, NoEntry, Entry
<1> QED
  BY <1>1, <1>2 DEF Init, TypeOK, LoopStates, Saving

\* A number of days that has grown older is one still, or stays None.
LEMMA OlderType ==
  /\ \A n \in Days : Older(n) \in Days /\ Older(n) <= n
  /\ \A n \in Days \cup {None} : Older(n) \in Days \cup {None}
  /\ \A n \in Days, k \in Days \cup {None} : n > 0 /\ k >= n => Older(k) >= Older(n)
  BY DaysAssumption DEF Older, Days, None

\* What LoadCertificate returns is a number of days or None.
LEMMA LoadType == TypeOK => \A d \in Domain : LoadCertificate(d) \in Days \cup {None}
  BY DEF TypeOK, LoadCertificate

\* Every step of the service, of its check and of the process keeps the types.
LEMMA TypeStep == TypeOK /\ [Next]_vars => TypeOK'
<1> SUFFICES ASSUME TypeOK, [Next]_vars PROVE TypeOK'
  OBVIOUS
<1> USE DaysAssumption, DomainAssumption, DefaultType
<1> USE DEF TypeOK, LoopStates, Saving
<1>1. CASE Boot
  <2>1. \A failed \in SUBSET Domain : ReloadAll(failed) \in [Domain -> Entry]
    BY LoadType DEF ReloadAll, NoEntry, Entry
  <2>2. PICK failed \in SUBSET Domain : sni' = ReloadAll(failed) /\ unloaded' = failed
    BY <1>1 DEF Boot
  <2>3. sni' \in [Domain -> Entry] /\ unloaded' \subseteq Domain
    BY <2>1, <2>2
  <2>4. /\ running' \in BOOLEAN /\ inTime' \in BOOLEAN
        /\ loop' \in {"off", "list"} /\ (running' => loop' # "off")
    <3>1. CASE running' = TRUE /\ loop' = "list" /\ inTime' = TRUE
      BY <3>1
    <3>2. CASE UNCHANGED <<running, loop, inTime>>
      BY <1>1, <3>2 DEF Boot
    <3> QED BY <1>1, <3>1, <3>2 DEF Boot
  <2>5. UNCHANGED <<row, pem, due, at, tried, last, checked>>
    BY <1>1 DEF Boot, history
  <2> QED BY <2>3, <2>4, <2>5
<1>2. CASE Stop
  BY <1>2 DEF Stop, certs, check, history
<1>3. CASE LoopEnds
  BY <1>3 DEF LoopEnds, certs, check, history
<1>4. CASE Crash
  BY <1>4 DEF Crash, NoEntry, Entry, history
<1>5. CASE NextDay
  <2>1. row' \in [Domain -> Days]
    BY <1>5, OlderType DEF NextDay
  <2>2. pem' \in [Domain -> [left : Days, whole : BOOLEAN]]
    BY <1>5, OlderType DEF NextDay
  <2>3. sni' \in [Domain -> Entry]
    BY <1>5, OlderType DEF NextDay, Entry
  <2> QED BY <1>5, <2>1, <2>2, <2>3 DEF NextDay
<1>6. CASE ListExpiring
  BY <1>6 DEF ListExpiring, GetExpiringCertificates, certs, history
<1>7. CASE ListFails
  BY <1>7 DEF ListFails, certs, check, history
<1>8. CASE CheckDone
  BY <1>8 DEF CheckDone, certs, check
<1>9. ASSUME NEW d \in Domain, Skip(d) PROVE TypeOK'
  BY <1>9 DEF Skip, Done, certs, history
<1>10. ASSUME NEW d \in Domain, RenewCertificate(d) PROVE TypeOK'
  BY <1>10 DEF RenewCertificate, IsNext, Try, Done, certs
<1>11. CASE SaveCertificate
  BY <1>11 DEF SaveCertificate, check, history, Days
<1>12. CASE SaveKey
  BY <1>12 DEF SaveKey, check, history
<1>13. CASE SaveFails
  BY <1>13 DEF SaveFails, Done, history
<1>14. CASE UpdateRow
  BY <1>14 DEF UpdateRow, check, history
<1>15. CASE UpdateFails
  BY <1>15 DEF UpdateFails, Done, certs, history
<1>16. CASE AddCertificate
  BY <1>16, LoadType DEF AddCertificate, Done, Entry, history
<1>17. CASE AddMailCertificate
  BY <1>17, LoadType DEF AddMailCertificate, Entry, Done, history
<1>18. CASE ContextEnds
  BY <1>18 DEF ContextEnds, certs, history
<1>19. CASE UNCHANGED vars
  BY <1>19 DEF vars, certs, check, history
<1>20. CASE UpdateUnanswered
  BY <1>20 DEF UpdateUnanswered, Done, history
<1> QED
  BY <1>1, <1>2, <1>3, <1>4, <1>5, <1>6, <1>7, <1>8, <1>9, <1>10, <1>11, <1>12,
     <1>13, <1>14, <1>15, <1>16, <1>17, <1>18, <1>19, <1>20 DEF Next, CheckStep

\* Days, files, store and loop keep their types in every reachable state.
THEOREM TypeCorrect == Spec => []TypeOK
  BY TypeInit, TypeStep, PTL DEF Spec

-----------------------------------------------------------------------------
(* The inductive invariant.                                                *)

\* At the start everything issued is whole on disk and nothing is loaded.
LEMMA InvInit == Init => IInv
<1> SUFFICES ASSUME Init PROVE IInv
  OBVIOUS
<1>1. TypeOK
  BY TypeInit
<1>2. TornIsDue /\ RowIsBehind
  BY <1>1, DaysAssumption DEF Init, TornIsDue, RowIsBehind, Days
<1> QED
  BY <1>1, <1>2 DEF Init, IInv, ListedAreDue, PairBeforeRow, StoreIsCurrent, Saving

\* Each write of a renewal leaves what the next check or start repairs.
LEMMA InvStep == IInv /\ [Next]_vars => IInv'
<1> SUFFICES ASSUME IInv, [Next]_vars PROVE IInv'
  OBVIOUS
<1>0. TypeOK /\ TypeOK'
  BY TypeStep DEF IInv
<1> DEFINE Rest == TornIsDue /\ ListedAreDue /\ PairBeforeRow /\ RowIsBehind /\ StoreIsCurrent
<1> SUFFICES Rest'
  BY <1>0 DEF IInv
<1>r. Rest
  BY DEF IInv
<1> USE DaysAssumption DEF TypeOK, Days
<1>1. CASE Boot
  <2>1. ASSUME NEW d \in Domain \ unloaded', row[d] > RenewalDays
        PROVE  sni'[d].name >= row[d] /\ sni'[d].mail >= row[d]
    BY <1>0, <1>1, <1>r, <2>1
    DEF Boot, ReloadAll, LoadCertificate, TornIsDue, RowIsBehind
  <2> QED
    BY <1>0, <1>1, <1>r, <2>1
    DEF Boot, TornIsDue, ListedAreDue, PairBeforeRow, RowIsBehind, StoreIsCurrent, Saving
<1>2. CASE Stop
  BY <1>2, <1>r DEF Stop, certs, check, TornIsDue, ListedAreDue, PairBeforeRow,
                    RowIsBehind, StoreIsCurrent
<1>3. CASE LoopEnds
  BY <1>3, <1>r DEF LoopEnds, certs, check, TornIsDue, ListedAreDue, PairBeforeRow,
                    RowIsBehind, StoreIsCurrent, Saving
<1>4. CASE Crash
  BY <1>4, <1>r DEF Crash, TornIsDue, ListedAreDue, PairBeforeRow,
                    RowIsBehind, StoreIsCurrent, Saving
<1>5. CASE NextDay
  <2>1. TornIsDue'
    BY <1>0, <1>5, <1>r DEF NextDay, Older, TornIsDue
  <2>2. RowIsBehind'
    BY <1>0, <1>5, <1>r DEF NextDay, Older, RowIsBehind
  <2>3. ListedAreDue' /\ PairBeforeRow'
    BY <1>5 DEF NextDay, ListedAreDue, PairBeforeRow, Saving
  <2>4. ASSUME NEW d \in Domain \ unloaded, row'[d] > RenewalDays
        PROVE  sni'[d].name >= row'[d] /\ sni'[d].mail >= row'[d]
    <3>1. loop \in {"off", "select"} /\ row'[d] = Older(row[d])
      BY <1>0, <1>5, <2>4 DEF NextDay
    <3>2. row[d] > RenewalDays /\ row[d] \in Days
      BY <1>0, <2>4, <3>1 DEF Older
    <3>3. sni[d].name >= row[d] /\ sni[d].mail >= row[d]
      BY <1>r, <3>1, <3>2 DEF StoreIsCurrent
    <3>4. sni[d].name \in Days \cup {None} /\ sni[d].mail \in Days \cup {None}
      BY <1>0 DEF Entry
    <3>5. sni'[d].name = Older(sni[d].name) /\ sni'[d].mail = Older(sni[d].mail)
      BY <1>5 DEF NextDay
    <3>6. \A k \in Days \cup {None} : k >= row[d] => Older(k) >= Older(row[d])
      BY <3>2, OlderType
    <3> QED BY <3>1, <3>3, <3>4, <3>5, <3>6
  <2>5. StoreIsCurrent'
    BY <1>0, <1>5, <2>4 DEF NextDay, StoreIsCurrent
  <2> QED BY <2>1, <2>2, <2>3, <2>5
<1>6. CASE ListExpiring
  BY <1>0, <1>6, <1>r
  DEF ListExpiring, GetExpiringCertificates, certs, TornIsDue, ListedAreDue,
      PairBeforeRow, RowIsBehind, StoreIsCurrent, Saving
<1>7. CASE ListFails
  BY <1>7, <1>r DEF ListFails, certs, check, TornIsDue, ListedAreDue, PairBeforeRow,
                    RowIsBehind, StoreIsCurrent, Saving
<1>8. CASE CheckDone
  BY <1>8, <1>r DEF CheckDone, certs, check, TornIsDue, ListedAreDue, PairBeforeRow,
                    RowIsBehind, StoreIsCurrent, Saving
<1>9. ASSUME NEW d \in Domain, Skip(d) PROVE Rest'
  BY <1>9, <1>r DEF Skip, Done, certs, TornIsDue, ListedAreDue, PairBeforeRow,
                    RowIsBehind, StoreIsCurrent, Saving
<1>10. ASSUME NEW d \in Domain, RenewCertificate(d) PROVE Rest'
  BY <1>10, <1>r DEF RenewCertificate, Try, Done, certs, TornIsDue, ListedAreDue,
                     PairBeforeRow, RowIsBehind, StoreIsCurrent, Saving
<1>11. CASE SaveCertificate
  BY <1>0, <1>11, <1>r DEF SaveCertificate, check, TornIsDue, ListedAreDue,
                     PairBeforeRow, RowIsBehind, StoreIsCurrent, Saving
<1>12. CASE SaveKey
  BY <1>0, <1>12, <1>r DEF SaveKey, check, TornIsDue, ListedAreDue,
                     PairBeforeRow, RowIsBehind, StoreIsCurrent, Saving
<1>13. CASE SaveFails
  <2>1. /\ row' = row /\ sni' = sni /\ unloaded' = unloaded /\ loop' = "renew" /\ due' = due \ {at}
        /\ loop \in {"cert", "key"} /\ at \in due
    BY <1>0, <1>13 DEF SaveFails, Done, Saving
  <2>2. row[at] <= RenewalDays
    BY <1>r, <2>1 DEF ListedAreDue, Saving
  <2>3. \A d \in Domain : /\ pem'[d].left = pem[d].left
                          /\ d # at => pem'[d].whole = pem[d].whole
    BY <1>0, <1>13 DEF SaveFails
  <2>4. TornIsDue' /\ RowIsBehind'
    BY <1>r, <2>1, <2>2, <2>3 DEF TornIsDue, RowIsBehind
  <2> QED
    BY <1>r, <2>1, <2>4 DEF ListedAreDue, PairBeforeRow, StoreIsCurrent, Saving
<1>14. CASE UpdateRow
  BY <1>0, <1>14, <1>r DEF UpdateRow, check, TornIsDue, ListedAreDue,
                     PairBeforeRow, RowIsBehind, StoreIsCurrent, Saving
<1>15. CASE UpdateFails
  BY <1>0, <1>15, <1>r DEF UpdateFails, Done, certs, TornIsDue, ListedAreDue,
                     PairBeforeRow, RowIsBehind, StoreIsCurrent, Saving
<1>16. CASE AddCertificate
  BY <1>0, <1>16, <1>r DEF AddCertificate, LoadCertificate, Done, TornIsDue, ListedAreDue,
                     PairBeforeRow, RowIsBehind, StoreIsCurrent, Saving, Entry
<1>17. CASE AddMailCertificate
  BY <1>0, <1>17, <1>r DEF AddMailCertificate, LoadCertificate, Done, TornIsDue,
                     ListedAreDue, PairBeforeRow, RowIsBehind, StoreIsCurrent, Saving, Entry
<1>18. CASE ContextEnds
  BY <1>18, <1>r DEF ContextEnds, certs, TornIsDue, ListedAreDue, PairBeforeRow,
                     RowIsBehind, StoreIsCurrent, Saving
<1>19. CASE UNCHANGED vars
  BY <1>19, <1>r DEF vars, certs, check, TornIsDue, ListedAreDue, PairBeforeRow,
                     RowIsBehind, StoreIsCurrent
<1>20. CASE UpdateUnanswered
  BY <1>0, <1>20, <1>r DEF UpdateUnanswered, Done, TornIsDue, ListedAreDue,
                     PairBeforeRow, RowIsBehind, StoreIsCurrent, Saving
<1> QED
  BY <1>1, <1>2, <1>3, <1>4, <1>5, <1>6, <1>7, <1>8, <1>9, <1>10, <1>11, <1>12,
     <1>13, <1>14, <1>15, <1>16, <1>17, <1>18, <1>19, <1>20 DEF Next, CheckStep

\* The invariant says what a handshake gets.
LEMMA InvServes == IInv => NotDueIsServed
<1> SUFFICES ASSUME IInv, NEW d \in Domain \ unloaded, NEW kind \in {"name", "mail"},
                    row[d] > RenewalDays,
                    ~(loop \in {"add", "add_mail"} /\ at = d)
             PROVE  Presented(d, kind) >= row[d]
  BY DaysAssumption DEF IInv, TypeOK, NotDueIsServed, Days
<1>1. sni[d].name >= row[d] /\ sni[d].mail >= row[d]
  BY DaysAssumption DEF IInv, TypeOK, StoreIsCurrent, Days
<1>2. kind = "name" \/ kind = "mail"
  OBVIOUS
<1> QED
  BY <1>1, <1>2 DEF Presented, GetCertificateFunc

(* A pair of files that does not load is due, whatever write or crash      *)
(* broke it (certificate_manager.go:391-402, cert_storage.go:71-135).      *)
THEOREM TornTheorem == Spec => []TornIsDue
<1>1. IInv => TornIsDue
  BY DEF IInv
<1> QED BY <1>1, InvInit, InvStep, PTL DEF Spec

(* Clients get what the rows that are not due promise, for the domain and  *)
(* for its mail host, unless the last load of the files has failed         *)
(* (cert_store.go:150-190, 312-335, certificate_manager.go:485).           *)
THEOREM ServedTheorem == Spec => []NotDueIsServed
  BY InvServes, InvInit, InvStep, PTL DEF Spec

-----------------------------------------------------------------------------
(* Nothing expires untried but next to one that was tried.                 *)
Renewing == loop \in {"renew"} \cup Saving

\* Tried today, or behind one that is as urgent and was.
Excused(d) == d \in tried \/ last

\* The check has still to look at what expires next, or is excused.
UrgentAreListed ==
  Renewing => \A d \in AutoRenew : row[d] = 1 => d \in due \/ Excused(d)

\* A complete check has looked at all of them.
CheckedAreExcused ==
  checked => \A d \in AutoRenew : row[d] = 1 => Excused(d)

\* The context ends, or may end, when nothing urgent is left or after one
\* that is as urgent was tried.
OutOfTime ==
  loop \in Saving \/ (Renewing /\ ~inTime) => last \/ \A e \in due : row[e] > 1

\* What is listed has not expired; a check starts with all of its time.
ListedAreValid ==
  /\ loop = "list" => inTime
  /\ Renewing => \A d \in due : row[d] > 0

\* The certificate being saved was tried.
SavedWasTried ==
  /\ loop \in Saving => at \in tried
  /\ loop \in {"key", "row"} => pem[at].left = Lifetime

UrgentInv ==
  /\ UrgentAreListed /\ CheckedAreExcused /\ OutOfTime /\ ListedAreValid /\ SavedWasTried

\* Steps that change neither rows nor history nor the list keep all of it.
LEMMA UrgentFrame ==
  ASSUME UrgentInv, UNCHANGED <<row, due, at, inTime, history>>,
         Renewing' => Renewing, loop' # "list",
         loop' \in Saving => loop \in Saving,
         loop' \in {"key", "row"} => pem'[at].left = Lifetime
  PROVE  UrgentInv'
  BY DEF UrgentInv, UrgentAreListed, CheckedAreExcused, OutOfTime, ListedAreValid,
         SavedWasTried, Excused, Renewing, Saving, history

\* Steps that take a tried or excused certificate off the list do, too.
LEMMA UrgentDone ==
  ASSUME TypeOK, UrgentInv, NEW d \in Domain, Renewing, Done(d),
         UNCHANGED <<row, inTime, history>>, loop \in Saving \/ ~inTime \/ loop = "renew",
         d \in AutoRenew /\ row[d] = 1 => Excused(d)
  PROVE  UrgentInv'
<1> loop' = "renew" /\ due' = due \ {d}
  BY DEF Done
<1>1. UrgentAreListed' /\ CheckedAreExcused'
  BY DEF UrgentInv, UrgentAreListed, CheckedAreExcused, Excused, history
<1>2. OutOfTime' /\ ListedAreValid' /\ SavedWasTried'
  BY DEF UrgentInv, OutOfTime, ListedAreValid, SavedWasTried, Renewing, Saving, history
<1> QED BY <1>1, <1>2 DEF UrgentInv

\* Every step keeps what ExpiresOnlyTried rests on.
LEMMA UrgentStep == TypeOK /\ UrgentInv /\ [Next]_vars => UrgentInv'
<1> SUFFICES ASSUME TypeOK, UrgentInv, [Next]_vars PROVE UrgentInv'
  OBVIOUS
<1>1. CASE Boot
  BY <1>1 DEF Boot, UrgentInv, UrgentAreListed, CheckedAreExcused, OutOfTime,
              ListedAreValid, SavedWasTried, Excused, Renewing, Saving, history
<1>2. CASE Stop
  BY <1>2 DEF Stop, UrgentInv, UrgentAreListed, CheckedAreExcused, OutOfTime,
              ListedAreValid, SavedWasTried, Excused, Renewing, certs, check, history
<1>3. CASE LoopEnds
  BY <1>3, UrgentFrame DEF LoopEnds, Renewing, Saving, certs, check, history
<1>4. CASE Crash
  BY <1>4 DEF Crash, UrgentInv, UrgentAreListed, CheckedAreExcused, OutOfTime,
              ListedAreValid, SavedWasTried, Excused, Renewing, Saving, certs, history
<1>5. CASE NextDay
  BY <1>5 DEF NextDay, UrgentInv, UrgentAreListed, CheckedAreExcused, OutOfTime,
              ListedAreValid, SavedWasTried, Renewing, Saving
<1>6. CASE ListExpiring
  <2>1. \A d \in AutoRenew : row[d] = 1 => d \in due'
    BY <1>6, DaysAssumption, DomainAssumption DEF ListExpiring, GetExpiringCertificates
  <2> QED
    BY <1>6, <2>1
    DEF ListExpiring, GetExpiringCertificates, UrgentInv, UrgentAreListed,
        CheckedAreExcused, OutOfTime, ListedAreValid, SavedWasTried, Excused,
        Saving, certs, history
<1>7. CASE ListFails
  BY <1>7 DEF ListFails, UrgentInv, UrgentAreListed, CheckedAreExcused, OutOfTime,
              ListedAreValid, SavedWasTried, Excused, Renewing, Saving, certs, history
<1>8. CASE CheckDone
  BY <1>8 DEF CheckDone, UrgentInv, UrgentAreListed, CheckedAreExcused, OutOfTime,
              ListedAreValid, SavedWasTried, Excused, Renewing, Saving, certs, check
<1>9. ASSUME NEW d \in Domain, Skip(d) PROVE UrgentInv'
  <2>1. ASSUME d \in AutoRenew, row[d] = 1 PROVE Excused(d)
    <3>1. ~inTime /\ Renewing /\ d \in due
      BY <1>9, <2>1 DEF Skip, IsNext, Renewing
    <3>2. last \/ row[d] > 1
      BY <3>1 DEF UrgentInv, OutOfTime
    <3> QED BY <2>1, <3>2 DEF Excused
  <2> QED
    BY <1>9, <2>1, UrgentDone DEF Skip, Renewing, certs
<1>10. ASSUME NEW d \in Domain, RenewCertificate(d) PROVE UrgentInv'
  <2>1. /\ Renewing /\ Renewing' /\ row' = row /\ checked' = checked /\ loop' # "list"
        /\ tried' = tried \cup {d} /\ d \in due /\ due' \in {due, due \ {d}}
        /\ (last \/ row[d] = 1 => last') /\ \A e \in due : row[d] <= row[e]
    BY <1>10 DEF RenewCertificate, IsNext, Try, Done, Renewing, Saving, certs
  <2>2. UrgentAreListed' /\ CheckedAreExcused'
    BY <2>1 DEF UrgentInv, UrgentAreListed, CheckedAreExcused, Excused
  <2>3. last' \/ \A e \in due' : row'[e] > 1
    <3>1. \A e \in due : row[e] \in Nat /\ row[e] > 0
      BY <2>1, DaysAssumption DEF TypeOK, Days, UrgentInv, ListedAreValid
    <3> QED BY <2>1, <3>1
  <2>4. OutOfTime' /\ ListedAreValid'
    BY <2>1, <2>3 DEF UrgentInv, OutOfTime, ListedAreValid
  <2>5. SavedWasTried'
    BY <1>10, <2>1 DEF RenewCertificate, Done, SavedWasTried, Saving
  <2> QED BY <2>2, <2>4, <2>5 DEF UrgentInv
<1>11. CASE SaveCertificate
  BY <1>11, UrgentFrame DEF SaveCertificate, TypeOK, Renewing, Saving, check, history
<1>12. CASE SaveKey
  <2>1. pem'[at].left = Lifetime
    BY <1>12 DEF SaveKey, TypeOK, UrgentInv, SavedWasTried
  <2> QED
    BY <1>12, <2>1, UrgentFrame DEF SaveKey, Renewing, Saving, check, history
<1>13. CASE SaveFails
  BY <1>13, UrgentDone
  DEF SaveFails, TypeOK, UrgentInv, SavedWasTried, Excused, Renewing, Saving
<1>14. CASE UpdateRow \/ UpdateUnanswered
  <2>1. /\ at \in tried /\ at \in Domain /\ pem[at].left = Lifetime
        /\ loop = "row" /\ (loop' = "renew" \/ (loop' = "add" /\ at' = at))
        /\ due' \in {due, due \ {at}}
        /\ UNCHANGED <<tried, last, checked>>
    BY <1>14 DEF UpdateRow, UpdateUnanswered, Done, TypeOK, UrgentInv, SavedWasTried,
                 Saving, check, history
  <2>2. /\ row'[at] = Lifetime /\ Lifetime > 1 /\ Lifetime > 0
        /\ \A d \in Domain \ {at} : row'[d] = row[d]
    BY <1>14, <2>1, DaysAssumption DEF UpdateRow, UpdateUnanswered, TypeOK
  <2>3. \A d \in AutoRenew :
          row'[d] = 1 => d # at /\ row[d] = 1 /\ (Excused(d) => Excused(d)')
    BY <2>1, <2>2, DomainAssumption DEF Excused
  <2>4. UrgentAreListed' /\ CheckedAreExcused'
    BY <2>1, <2>3 DEF UrgentInv, UrgentAreListed, CheckedAreExcused, Renewing, Saving
  <2>5. OutOfTime'
    BY <2>1, <2>2 DEF UrgentInv, OutOfTime, Saving, TypeOK
  <2>6. SavedWasTried'
    BY <2>1 DEF SavedWasTried, Saving
  <2>7. \A d \in due' : row'[d] > 0
    BY <2>1, <2>2 DEF UrgentInv, ListedAreValid, Renewing, Saving, TypeOK
  <2> QED BY <2>1, <2>4, <2>5, <2>6, <2>7 DEF UrgentInv, ListedAreValid
<1>15. CASE UpdateFails
  BY <1>15, UrgentDone
  DEF UpdateFails, TypeOK, UrgentInv, SavedWasTried, Excused, Renewing, Saving, certs
<1>16. CASE AddCertificate
  <2>1. CASE loop' = "add_mail"
    BY <1>16, <2>1, UrgentFrame DEF AddCertificate, Done, Renewing, Saving, history
  <2>2. CASE Done(at)
    BY <1>16, <2>2, UrgentDone
    DEF AddCertificate, TypeOK, UrgentInv, SavedWasTried, Excused, Renewing, Saving
  <2> QED BY <1>16, <2>1, <2>2 DEF AddCertificate
<1>17. CASE AddMailCertificate
  BY <1>17, UrgentDone
  DEF AddMailCertificate, TypeOK, UrgentInv, SavedWasTried, Excused, Renewing, Saving
<1>18. CASE ContextEnds
  BY <1>18 DEF ContextEnds, UrgentInv, UrgentAreListed, CheckedAreExcused, OutOfTime,
               ListedAreValid, SavedWasTried, Excused, Renewing, Saving, certs, history
<1>19. CASE UNCHANGED vars
  BY <1>19 DEF vars, UrgentInv, UrgentAreListed, CheckedAreExcused, OutOfTime,
               ListedAreValid, SavedWasTried, Excused, Renewing, certs, check, history
<1> QED
  BY <1>1, <1>2, <1>3, <1>4, <1>5, <1>6, <1>7, <1>8, <1>9, <1>10, <1>11, <1>12,
     <1>13, <1>14, <1>15, <1>16, <1>17, <1>18, <1>19 DEF Next, CheckStep

(* No certificate expires untried on a day with a complete check, unless   *)
(* another one that was to expire on that day was tried: one context of    *)
(* five minutes covers all renewals (cert_renewal.go:114-147,              *)
(* certificate_repository.go:142-155).                                     *)
THEOREM ExpiresTheorem == Spec => ExpiresOnlyTried
<1>1. Init => UrgentInv
  BY DEF Init, UrgentInv, UrgentAreListed, CheckedAreExcused, OutOfTime, ListedAreValid,
         SavedWasTried, Renewing, Saving
<1>2. UrgentInv => [\A d \in AutoRenew :
        row[d] = 1 /\ row'[d] = 0 => ~checked \/ d \in tried \/ last]_vars
  BY DEF UrgentInv, CheckedAreExcused, Excused
<1> QED
  BY <1>1, <1>2, UrgentStep, TypeCorrect, PTL DEF Spec, ExpiresOnlyTried

-----------------------------------------------------------------------------
(* What the rest of the server sees of the loop.                           *)
Seen == CASE loop = "off" -> "off" [] loop = "select" -> "waiting" [] OTHER -> "checking"

\* A step inside the check, of a day that passes while nothing runs, is none
\* of the service (cert_renewal.go:112-160).
LEMMA ServiceStutters ==
  ASSUME UNCHANGED running, UNCHANGED Seen
  PROVE  UNCHANGED Service!serviceVars
BY DEF Service!serviceVars, Seen

\* Every step is a step of the service or none (cert_renewal.go:52-110).
LEMMA ServiceStep == [Next]_vars => [Service!ServiceNext]_(Service!serviceVars)
<1> SUFFICES ASSUME [Next]_vars PROVE [Service!ServiceNext]_(Service!serviceVars)
  OBVIOUS
<1> USE DEF Service!ServiceNext
<1>1. CASE Boot
  <2>1. CASE running' = TRUE /\ loop' = "list"
    BY <1>1, <2>1 DEF Boot, Service!Start, Service!Off
  <2>2. CASE UNCHANGED <<running, loop, inTime>>
    BY <2>2, ServiceStutters DEF Seen
  <2> QED BY <1>1, <2>1, <2>2 DEF Boot
<1>2. CASE Stop
  BY <1>2 DEF Stop, Service!Stop
<1>3. CASE LoopEnds
  BY <1>3 DEF LoopEnds, Service!LoopEnds
<1>4. CASE Crash
  BY <1>4 DEF Crash, Service!Killed
<1>5. CASE NextDay
  <2>1. CASE loop = "select"
    BY <1>5, <2>1 DEF NextDay, Service!Tick
  <2>2. CASE loop = "off"
    BY <1>5, <2>2, ServiceStutters DEF NextDay, Seen
  <2> QED BY <1>5, <2>1, <2>2 DEF NextDay
<1>6. CASE ListFails \/ CheckDone
  BY <1>6 DEF ListFails, CheckDone, Service!CheckEnds
<1>7. CASE \/ ContextEnds \/ ListExpiring \/ SaveCertificate \/ SaveKey \/ SaveFails
           \/ UpdateRow \/ UpdateFails \/ UpdateUnanswered
           \/ AddCertificate \/ AddMailCertificate
           \/ \E d \in Domain : Skip(d) \/ RenewCertificate(d)
  <2>1. UNCHANGED running
    BY <1>7 DEF ContextEnds, ListExpiring, SaveCertificate, SaveKey, SaveFails, UpdateRow,
                UpdateFails, UpdateUnanswered, AddCertificate, AddMailCertificate,
                Skip, RenewCertificate
  <2>2. loop \notin {"off", "select"} /\ loop' \notin {"off", "select"}
    BY <1>7 DEF ContextEnds, ListExpiring, SaveCertificate, SaveKey, SaveFails, UpdateRow,
                UpdateFails, UpdateUnanswered, AddCertificate, AddMailCertificate,
                Skip, RenewCertificate, Done, Saving
  <2> QED BY <2>1, <2>2, ServiceStutters DEF Seen
<1>8. CASE UNCHANGED vars
  BY <1>8, ServiceStutters DEF vars, Seen
<1> QED
  BY <1>1, <1>2, <1>3, <1>4, <1>5, <1>6, <1>7, <1>8 DEF Next, CheckStep

(* The safety part of ImplementsService: to the rest of the server the     *)
(* renewal service is a loop that checks and waits, that Start begins with *)
(* a check and that ends between two checks only, after Stop, or with the  *)
(* process (cert_renewal.go:52-110).                                       *)
THEOREM ServiceRefinement ==
  Spec => Service!Off /\ [][Service!ServiceNext]_(Service!serviceVars)
<1>1. Init => Service!Off
  BY DEF Init, Service!Off
<1> QED BY <1>1, ServiceStep, PTL DEF Spec

=============================================================================
