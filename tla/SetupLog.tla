------------------------------ MODULE SetupLog ------------------------------
(***************************************************************************)
(* The log of the setup of a domain (services/acme_logger.go): in memory   *)
(* under an RWMutex, copied to a JSON file by every call that changes it,  *)
(* and read by the log pages (api/handlers/acme_log_handler.go), which     *)
(* fall back to the file after a restart.  Logs and files are kept per     *)
(* domain, so one domain is modelled.                                      *)
(***************************************************************************)
EXTENDS Naturals, Sequences

CONSTANTS
  Caller,        \* goroutines: requests that log, and log pages
  MaxSessions,   \* bound of the model: sessions, those begun by Log included
  MaxEntries     \* bound of the model: entries of a session

ASSUME LogBoundsAssumption == MaxSessions \in Nat /\ MaxEntries \in Nat

VARIABLES
  log,          \* logs[domain]
  file,         \* the JSON file, NoLog if missing or unreadable
  writer,       \* who holds mu as a writer: a set of at most one caller
  readers,      \* who holds mu as a reader
  call,         \* the running calls
  lastSession,  \* StartedAt of the last session
  unsaved       \* history: the last save of log has failed

mu == <<writer, readers>>
vars == <<log, file, mu, call, lastSession, unsaved>>

-----------------------------------------------------------------------------
(* A log: its session (StartedAt), the number of entries, and whether      *)
(* Status is final, that is "success" or "failed".                         *)
Log == [session : Nat, entries : Nat, final : BOOLEAN]
NoLog == [session |-> 0, entries |-> 0, final |-> FALSE]

(* The critical sections of each call, in their order.  "entry" stands for *)
(* all of Log, LogInfo, LogWarning, LogDebug, LogAPIResponse,              *)
(* LogHTTPRequest, LogWithDuration and LogErrorWithCode; "summary" for the *)
(* ErrorSummary of LogError, "set" for SetMetadata, SetTotalSteps and      *)
(* IncrementStep, whose data are left out.                                 *)
Sections ==
  [StartDomainLog |-> <<"start">>,
   Log            |-> <<"entry">>,
   LogError       |-> <<"entry", "summary">>,
   Set            |-> <<"set">>,
   MarkSuccess    |-> <<"entry", "status">>,
   MarkFailed     |-> <<"entry", "summary", "status">>,
   GetDomainLog   |-> <<"load">>,
   GetAllLogs     |-> <<>>]

Pages == {"GetDomainLog", "GetAllLogs"}
Steps == {"idle", "lock", "queued", "locked", "save", "rlock", "get", "list", "relock",
          "runlock", "answer"}

(* A call: what it is, the step it is at, the critical sections before it, *)
(* the log a page may count on seeing, and the one it shows.               *)
NoCall == [op |-> "none", pc |-> "idle", todo |-> <<>>, saw |-> NoLog, answer |-> NoLog]

TypeOK ==
  /\ {log, file} \subseteq Log
  /\ \A l \in {log, file} : l.session = 0 => l = NoLog
  /\ writer \subseteq Caller /\ readers \subseteq Caller
  /\ call \in [Caller -> [op : DOMAIN Sections \cup {"none"}, pc : Steps,
                 todo : Seq({"start", "entry", "summary", "set", "status", "load"}), saw : Log, answer : Log]]
  /\ lastSession \in Nat
  /\ unsaved \in BOOLEAN

\* A start of the server, with or without a file from before.
Init ==
  /\ log = NoLog
  /\ file \in {NoLog, [NoLog EXCEPT !.session = 1, !.entries = 1]}
  /\ writer = {} /\ readers = {}
  /\ call = [c \in Caller |-> NoCall]
  /\ lastSession = file.session
  /\ unsaved = FALSE

-----------------------------------------------------------------------------
At(c, pc) == call[c].pc = pc
Goto(c, pc) == call' = [call EXCEPT ![c].pc = pc]

Call(c, op) ==
  /\ At(c, "idle")
  /\ \/ op \in Pages
     \/ /\ lastSession < MaxSessions
        /\ log.entries < MaxEntries /\ file.entries < MaxEntries
  /\ call' = [call EXCEPT ![c] =
       [NoCall EXCEPT !.op = op, !.pc = IF op \in Pages THEN "rlock" ELSE "lock",
                      !.todo = Sections[op],
                      !.saw = IF unsaved \/ op \notin Pages THEN NoLog
                              ELSE IF log # NoLog THEN log ELSE file]]
  /\ UNCHANGED <<log, file, mu, lastSession, unsaved>>

(* sync.RWMutex, external.  One writer at a time gets in line, holds new   *)
(* readers back, and has the lock once the readers before it are gone.     *)
InLine == \E d \in Caller : At(d, "queued")

Queue(c) ==
  /\ At(c, "lock")
  /\ writer = {} /\ ~InLine
  /\ Goto(c, "queued")
  /\ UNCHANGED <<log, file, mu, lastSession, unsaved>>

Lock(c) ==
  /\ At(c, "queued")
  /\ writer = {} /\ readers = {}
  /\ writer' = {c}
  /\ Goto(c, "locked")
  /\ UNCHANGED <<log, file, readers, lastSession, unsaved>>

RLock(c) ==
  /\ call[c].pc \in {"rlock", "relock"}
  /\ writer = {} /\ ~InLine
  /\ readers' = readers \cup {c}
  /\ \/ At(c, "relock") /\ Goto(c, "runlock")
     \/ At(c, "rlock") /\ Goto(c, IF call[c].op = "GetDomainLog" THEN "get" ELSE "list")
  /\ UNCHANGED <<log, file, writer, lastSession, unsaved>>

\* The deferred Unlock; a call of several sections locks again.
Unlock(c) ==
  /\ writer' = {}
  /\ call' = [call EXCEPT ![c] =
       IF Len(call[c].todo) = 1 THEN NoCall
       ELSE [call[c] EXCEPT !.pc = "lock", !.todo = Tail(call[c].todo)]]

-----------------------------------------------------------------------------
(* The critical sections of the calls that log.                            *)
Section(c, s) == At(c, "locked") /\ Head(call[c].todo) = s

ThenSave(c) == Goto(c, "save") /\ UNCHANGED <<file, mu, unsaved>>

NewLog == [NoLog EXCEPT !.session = lastSession + 1]

\* Fault: the log that an entry begins has no StartedAt.
EnsuredWithoutStart == log

\* "Ensure domain log exists": a log of the file is not looked for.
Ensured == IF log = NoLog THEN NewLog ELSE log

StartDomainLog(c) ==
  /\ Section(c, "start")
  /\ log' = [NewLog EXCEPT !.entries = 1]
  /\ lastSession' = lastSession + 1
  /\ ThenSave(c)

\* Fault: no save after the entry.
AddEntryNoSave(c) ==
  /\ Section(c, "entry")
  /\ log' = [Ensured EXCEPT !.entries = @ + 1]
  /\ lastSession' = IF log = NoLog THEN lastSession + 1 ELSE lastSession
  /\ Unlock(c)
  /\ UNCHANGED <<file, readers, unsaved>>

AddEntry(c) ==
  /\ Section(c, "entry")
  /\ log' = [Ensured EXCEPT !.entries = @ + 1]
  /\ lastSession' = IF log = NoLog THEN lastSession + 1 ELSE lastSession
  /\ ThenSave(c)

\* The second half of LogError does not save.
SetSummary(c) ==
  /\ Section(c, "summary")
  /\ Unlock(c)
  /\ UNCHANGED <<log, file, readers, lastSession, unsaved>>

\* What does not exist is not set.
NothingToSet(c) ==
  /\ Section(c, "set") \/ Section(c, "status")
  /\ log = NoLog
  /\ Unlock(c)
  /\ UNCHANGED <<log, file, readers, lastSession, unsaved>>

SetValue(c) ==
  /\ Section(c, "set")
  /\ log # NoLog
  /\ ThenSave(c)
  /\ UNCHANGED <<log, lastSession>>

\* Fault: the status is not saved.
SetStatusNoSave(c) ==
  /\ Section(c, "status")
  /\ log # NoLog
  /\ log' = [log EXCEPT !.final = TRUE]
  /\ Unlock(c)
  /\ UNCHANGED <<file, readers, lastSession, unsaved>>

SetStatus(c) ==
  /\ Section(c, "status")
  /\ log # NoLog
  /\ log' = [log EXCEPT !.final = TRUE]
  /\ ThenSave(c)
  /\ UNCHANGED lastSession

SaveToFile(c) ==
  /\ At(c, "save")
  /\ file' = log
  /\ unsaved' = FALSE
  /\ Unlock(c)
  /\ UNCHANGED <<log, readers, lastSession>>

(* Every caller ignores the error.  The file is as it was or truncated,    *)
(* and pages can no longer count on what they would have seen.             *)
SaveFails(c) ==
  /\ At(c, "save")
  /\ file' \in {file, NoLog}
  /\ unsaved' = TRUE
  /\ writer' = {}
  /\ call' = [d \in Caller |->
       IF d # c THEN [call[d] EXCEPT !.saw = NoLog]
       ELSE IF Len(call[c].todo) = 1 THEN NoCall
       ELSE [call[c] EXCEPT !.pc = "lock", !.todo = Tail(call[c].todo), !.saw = NoLog]]
  /\ UNCHANGED <<log, readers, lastSession>>

-----------------------------------------------------------------------------
(* The log pages.  A page renders the log after it has let go of the lock, *)
(* from the object that the writers go on changing: it shows answer or     *)
(* something newer.                                                        *)
Found(c) ==
  /\ At(c, "get")
  /\ log # NoLog
  /\ readers' = readers \ {c}
  /\ call' = [call EXCEPT ![c].pc = "answer", ![c].answer = log]
  /\ UNCHANGED <<log, file, writer, lastSession, unsaved>>

\* Fault: the read lock is kept while waiting for the write lock.
MissingUpgrades(c) ==
  /\ At(c, "get")
  /\ log = NoLog
  /\ Goto(c, "lock")
  /\ UNCHANGED <<log, file, mu, lastSession, unsaved>>

\* Fault: the file is not looked for.
MissingIsNotFound(c) ==
  /\ At(c, "get")
  /\ log = NoLog
  /\ readers' = readers \ {c}
  /\ Goto(c, "answer")
  /\ UNCHANGED <<log, file, writer, lastSession, unsaved>>

\* RUnlock and Lock, with a gap in between.
Missing(c) ==
  /\ At(c, "get")
  /\ log = NoLog
  /\ readers' = readers \ {c}
  /\ Goto(c, "lock")
  /\ UNCHANGED <<log, file, writer, lastSession, unsaved>>

(* loadFromFileLocked, without a second look at the map: what the file     *)
(* holds replaces a log that was begun in the gap.  Then Unlock.           *)
LoadFromFile(c) ==
  /\ Section(c, "load")
  /\ \/ file # NoLog /\ log' = file /\ unsaved' = FALSE
     \/ file = NoLog /\ UNCHANGED <<log, unsaved>>
  /\ writer' = {}
  /\ call' = [call EXCEPT ![c].pc = "relock", ![c].answer = file]
  /\ UNCHANGED <<file, readers, lastSession>>

\* RUnlock at the end of GetDomainLog.
RUnlock(c) ==
  /\ At(c, "runlock")
  /\ readers' = readers \ {c}
  /\ Goto(c, "answer")
  /\ UNCHANGED <<log, file, writer, lastSession, unsaved>>

\* GetAllLogs loads what is missing, under the read lock, and summarises.
MapWrite(c) == At(c, "list") /\ log = NoLog /\ file # NoLog
GetAllLogs(c) ==
  /\ At(c, "list")
  /\ log' = IF MapWrite(c) THEN file ELSE log
  /\ readers' = readers \ {c}
  /\ call' = [call EXCEPT ![c].pc = "answer", ![c].answer = log']
  /\ UNCHANGED <<file, writer, lastSession, unsaved>>

Answer(c) ==
  /\ At(c, "answer")
  /\ call' = [call EXCEPT ![c] = NoCall]
  /\ UNCHANGED <<log, file, mu, lastSession, unsaved>>

-----------------------------------------------------------------------------
(* The process stops: by a signal, by a failure anywhere in it, or by the  *)
(* runtime, when GetAllLogs writes the map while another page, which holds *)
(* the read lock as well, uses it.  A save that was going on may leave a   *)
(* truncated file.                                                         *)
Restart ==
  /\ log' = NoLog
  /\ writer' = {} /\ readers' = {}
  /\ call' = [c \in Caller |-> NoCall]
  /\ unsaved' = FALSE
  /\ file' \in IF \E c \in Caller : At(c, "save") THEN {file, NoLog} ELSE {file}
  /\ UNCHANGED lastSession

Crash == Restart

ConcurrentMapWrites ==
  /\ \E c, d \in readers : c # d /\ MapWrite(c) /\ call[d].pc \in {"get", "list"}
  /\ Restart

Step(c) ==
  \/ StartDomainLog(c) \/ AddEntry(c) \/ SetSummary(c) \/ NothingToSet(c) \/ SetValue(c)
  \/ SetStatus(c) \/ SaveToFile(c) \/ SaveFails(c)
  \/ Found(c) \/ Missing(c) \/ LoadFromFile(c) \/ RUnlock(c) \/ GetAllLogs(c) \/ Answer(c)

Next ==
  \/ \E c \in Caller : \/ \E op \in DOMAIN Sections : Call(c, op)
                       \/ Queue(c) \/ Lock(c) \/ RLock(c) \/ Step(c)
  \/ Crash \/ ConcurrentMapWrites

Spec == Init /\ [][Next]_vars

(* Goroutines keep running.  An RWMutex starves nobody: a writer in line   *)
(* holds readers back, an Unlock lets the waiting readers in first, and    *)
(* writers get in line one after the other.                                *)
FairSpec ==
  /\ Spec
  /\ \A c \in Caller : /\ WF_vars(Step(c)) /\ WF_vars(Lock(c))
                       /\ SF_vars(Queue(c)) /\ SF_vars(RLock(c))

-----------------------------------------------------------------------------
\* b continues a, or is the log of a later session.
Continues(a, b) ==
  \/ a = NoLog
  \/ b.session > a.session
  \/ /\ b.session = a.session /\ b.entries >= a.entries
     /\ a.final => b.final

(* acme_logger.go:397: "Auto-save after each entry for real-time viewing". *)
(* When nobody writes, the file holds the session, the entries and the     *)
(* status of the log in memory, unless the last save has failed: what a    *)
(* restart or the gap in GetDomainLog loads is all there was.              *)
FileIsCurrent ==
  writer = {} /\ log # NoLog /\ ~unsaved => file = log

(* The log of a session only grows and sessions do not come back: no page  *)
(* puts an older log from the file over a newer one in memory              *)
(* (acme_logger.go:429-445, 519), until a restart and as long as the saves *)
(* succeed.                                                                *)
NeverBackwards == [][log' = NoLog \/ unsaved \/ Continues(log, log')]_vars

(* A page shows at least what was logged, or left in the file by an        *)
(* earlier process, when its request began, whatever is started, written   *)
(* or loaded meanwhile.                                                    *)
PageIsRecent ==
  \A c \in Caller : At(c, "answer") => Continues(call[c].saw, call[c].answer)

(* Every call returns: the change from the read to the write lock and back *)
(* in GetDomainLog, and the calls that lock twice, block nobody for good   *)
(* (acme_logger.go:430-443, 214-224).                                      *)
CallsReturn == \A c \in Caller : ~At(c, "idle") ~> At(c, "idle")

=============================================================================
