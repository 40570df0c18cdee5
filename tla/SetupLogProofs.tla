--------------------------- MODULE SetupLogProofs ---------------------------
(***************************************************************************)
(* TLAPS proofs about SetupLog, for every set of callers and whatever the  *)
(* bounds on sessions and entries.                                         *)
(***************************************************************************)
EXTENDS SetupLog, SequenceTheorems, TLAPS

(* The lock: who holds it is told by the program counters, writers exclude *)
(* each other and the readers, and whoever is on its way to a critical     *)
(* section has one before it.                                              *)
HoldsLock == \A c \in Caller : c \in writer <=> call[c].pc \in {"locked", "save"}
HoldsRLock == \A c \in Caller : c \in readers <=> call[c].pc \in {"get", "list", "runlock"}
OneWriter == \A c, d \in writer : c = d
Excluded == writer = {} \/ readers = {}
SectionAhead ==
  \A c \in Caller :
    \/ call[c].pc \in {"lock", "queued", "locked", "save", "get"}
    \/ call[c].pc = "rlock" /\ call[c].op = "GetDomainLog"
    => call[c].todo # <<>>

LockInv == HoldsLock /\ HoldsRLock /\ OneWriter /\ Excluded /\ SectionAhead

(* The log: only a running save may find the file behind, sessions are     *)
(* those begun so far, and what a page may count on is still there, in     *)
(* memory or, before anything is in memory, in the file.                   *)
Saving == \E c \in Caller : At(c, "save")
Newest == IF log # NoLog THEN log ELSE file

SavedOrSaving == ~Saving /\ log # NoLog /\ ~unsaved => file = log
SavesSomething == Saving => log # NoLog
SessionsBegun == log.session <= lastSession /\ file.session <= lastSession
NothingPromised == unsaved => \A c \in Caller : call[c].saw = NoLog
PromiseKept == \A c \in Caller : Continues(call[c].saw, Newest)
AnswerKeepsPromise ==
  \A c \in Caller : call[c].pc \in {"relock", "runlock", "answer"}
                      => Continues(call[c].saw, call[c].answer)

LogInv ==
  /\ SavedOrSaving
  /\ SavesSomething
  /\ SessionsBegun
  /\ NothingPromised
  /\ PromiseKept
  /\ AnswerKeepsPromise

Names == {"start", "entry", "summary", "set", "status", "load"}
CallState == [op : DOMAIN Sections \cup {"none"}, pc : Steps, todo : Seq(Names),
              saw : Log, answer : Log]

-----------------------------------------------------------------------------
(* The critical sections of every call are named ones, and only GetAllLogs *)
(* has none (acme_logger.go:505).                                          *)
LEMMA SectionsType ==
  ASSUME NEW op \in DOMAIN Sections
  PROVE  /\ Sections[op] \in Seq(Names)
         /\ op # "GetAllLogs" => Sections[op] # <<>>
<1> USE DEF Sections, Names
<1>1. CASE op \in {"StartDomainLog", "Log", "Set", "GetDomainLog"}
  <2>1. \A n \in Names : <<n>> \in Seq(Names) /\ <<n>> # <<>>
    OBVIOUS
  <2> QED BY <1>1, <2>1
<1>2. CASE op = "LogError"
  BY <1>2
<1>3. CASE op = "MarkSuccess"
  BY <1>3
<1>4. CASE op = "MarkFailed"
  BY <1>4
<1>5. CASE op = "GetAllLogs"
  BY <1>5
<1> QED BY <1>1, <1>2, <1>3, <1>4, <1>5

(* The empty log has its type, and so has the empty call, which is idle    *)
(* and counts on nothing.                                                  *)
LEMMA EmptyTypes ==
  /\ NoLog \in Log
  /\ NoCall \in CallState /\ NoCall.pc = "idle" /\ NoCall.saw = NoLog
BY DEF NoLog, NoCall, Log, CallState, Steps

(* What a new session, an entry and a final status do to a log.            *)
LEMMA LogChanges ==
  ASSUME NEW l \in Log, NEW n \in Nat
  PROVE  /\ [l EXCEPT !.session = n] \in Log /\ [l EXCEPT !.session = n].session = n
         /\ [l EXCEPT !.entries = n] \in Log /\ [l EXCEPT !.entries = n].entries = n
         /\ [l EXCEPT !.entries = n].session = l.session
         /\ [l EXCEPT !.entries = n].final = l.final
         /\ [l EXCEPT !.final = TRUE] \in Log /\ [l EXCEPT !.final = TRUE].final = TRUE
         /\ [l EXCEPT !.final = TRUE].session = l.session
         /\ [l EXCEPT !.final = TRUE].entries = l.entries
BY DEF Log

(* StartDomainLog and the first entry begin a session later than the ones  *)
(* before (acme_logger.go:186-197, 369-383).                               *)
LEMMA NewLogIs ==
  ASSUME TypeOK
  PROVE  /\ NewLog \in Log /\ NewLog.session = lastSession + 1
         /\ [NewLog EXCEPT !.entries = 1] \in Log
         /\ [NewLog EXCEPT !.entries = 1].session = lastSession + 1
<1>1. lastSession + 1 \in Nat
  BY DEF TypeOK
<1>2. NewLog \in Log /\ NewLog.session = lastSession + 1
  BY <1>1, EmptyTypes, LogChanges DEF NewLog
<1> QED BY <1>2, LogChanges

(* The deferred Unlock leaves a typed call, which is idle or before its    *)
(* next section (acme_logger.go:200-224, 399-425).                         *)
LEMMA UnlockType ==
  ASSUME TypeOK, NEW c \in Caller, call[c].todo # <<>>, Unlock(c)
  PROVE  /\ call' \in [Caller -> CallState]
         /\ writer' = {}
         /\ \A d \in Caller : d # c => call'[d] = call[d]
         /\ call'[c].saw \in {call[c].saw, NoLog}
         /\ \/ call'[c].pc = "idle"
            \/ call'[c].pc = "lock" /\ call'[c].todo # <<>>
<1>1. call \in [Caller -> CallState]
  BY DEF TypeOK, CallState, Names
<1>2. call[c].todo \in Seq(Names)
  BY <1>1 DEF CallState
<1>3. CASE Len(call[c].todo) = 1
  <2>1. call' = [call EXCEPT ![c] = NoCall]
    BY <1>3 DEF Unlock
  <2>2. call' \in [Caller -> CallState] /\ call'[c] = NoCall
    BY <1>1, <2>1, EmptyTypes
  <2>3. writer' = {} /\ \A d \in Caller : d # c => call'[d] = call[d]
    BY <1>1, <2>1 DEF Unlock
  <2> QED BY <2>2, <2>3, EmptyTypes
<1>4. CASE Len(call[c].todo) # 1
  <2>1. call' = [call EXCEPT ![c] = [call[c] EXCEPT !.pc = "lock", !.todo = Tail(call[c].todo)]]
    BY <1>4 DEF Unlock
  <2>2. Tail(call[c].todo) \in Seq(Names) /\ Tail(call[c].todo) # <<>>
    <3>1. Len(call[c].todo) \in Nat \ {0, 1}
      BY <1>2, <1>4, EmptySeq
    <3>2. Tail(call[c].todo) \in Seq(Names) /\ Len(Tail(call[c].todo)) # 0
      BY <1>2, <3>1, HeadTailProperties
    <3> QED BY <3>2, EmptySeq
  <2>3. [call[c] EXCEPT !.pc = "lock", !.todo = Tail(call[c].todo)] \in CallState
    BY <1>1, <2>2 DEF CallState, Steps
  <2> QED BY <1>1, <2>1, <2>2, <2>3 DEF Unlock, CallState
<1> QED BY <1>3, <1>4

(* A call that goes to its next step keeps everything else.                *)
LEMMA GotoType ==
  ASSUME TypeOK, NEW c \in Caller, NEW pc \in Steps, Goto(c, pc)
  PROVE  /\ call' \in [Caller -> CallState]
         /\ \A d \in Caller : d # c => call'[d] = call[d]
         /\ call'[c].pc = pc /\ call'[c].todo = call[c].todo /\ call'[c].op = call[c].op
         /\ call'[c].saw = call[c].saw /\ call'[c].answer = call[c].answer
<1>1. call \in [Caller -> CallState]
  BY DEF TypeOK, CallState, Names
<1>2. call[c] \in CallState /\ call'[c] = [call[c] EXCEPT !.pc = pc]
  BY <1>1 DEF Goto
<1>3. [call[c] EXCEPT !.pc = pc] \in CallState
  BY <1>2 DEF CallState
<1>4. call' \in [Caller -> CallState] /\ \A d \in Caller : d # c => call'[d] = call[d]
  BY <1>1, <1>2, <1>3 DEF Goto
<1>5. /\ call'[c].pc = pc /\ call'[c].todo = call[c].todo /\ call'[c].op = call[c].op
      /\ call'[c].saw = call[c].saw /\ call'[c].answer = call[c].answer
  BY <1>2 DEF CallState
<1> QED BY <1>4, <1>5

(* A page that finds its answer keeps everything but the answer.           *)
LEMMA AnsweredType ==
  ASSUME TypeOK, NEW c \in Caller, NEW pc \in Steps, NEW a \in Log,
         call' = [call EXCEPT ![c].pc = pc, ![c].answer = a]
  PROVE  /\ call' \in [Caller -> CallState]
         /\ \A d \in Caller : d # c => call'[d] = call[d]
         /\ call'[c].pc = pc /\ call'[c].todo = call[c].todo /\ call'[c].op = call[c].op
         /\ call'[c].saw = call[c].saw /\ call'[c].answer = a
<1>1. call \in [Caller -> CallState]
  BY DEF TypeOK, CallState, Names
<1>2. call[c] \in CallState /\ call'[c] = [call[c] EXCEPT !.pc = pc, !.answer = a]
  BY <1>1
<1>3. [call[c] EXCEPT !.pc = pc, !.answer = a] \in CallState
  BY <1>2 DEF CallState
<1>4. call' \in [Caller -> CallState] /\ \A d \in Caller : d # c => call'[d] = call[d]
  BY <1>1, <1>2, <1>3
<1>5. /\ call'[c].pc = pc /\ call'[c].todo = call[c].todo /\ call'[c].op = call[c].op
      /\ call'[c].saw = call[c].saw /\ call'[c].answer = a
  BY <1>2 DEF CallState
<1> QED BY <1>4, <1>5

-----------------------------------------------------------------------------
(* Every step keeps the types and the discipline of the lock.  The two     *)
(* need each other: a call has a section to take off its list only because *)
(* it got there under the lock.                                            *)
LEMMA LockStep == TypeOK /\ LockInv /\ [Next]_vars => TypeOK' /\ LockInv'
<1> SUFFICES ASSUME TypeOK, LockInv, [Next]_vars PROVE TypeOK' /\ LockInv'
  OBVIOUS
<1> DEFINE Typed == call' \in [Caller -> CallState]
           Others(c) == \A d \in Caller : d # c => call'[d] = call[d]
<1> USE EmptyTypes
<1>a. call \in [Caller -> CallState]
  BY DEF TypeOK, CallState, Names
<1>b. ASSUME Typed, {log', file'} \subseteq Log, lastSession' \in Nat, unsaved' \in BOOLEAN,
             writer' \subseteq Caller, readers' \subseteq Caller,
             \A l \in {log', file'} : l.session = 0 => l = NoLog
      PROVE  TypeOK'
  BY <1>b DEF TypeOK, CallState, Names
<1>c. NewLog \in Log /\ Ensured \in Log /\ Ensured.session # 0
  <2>1. NewLog.session # 0
    BY NewLogIs DEF TypeOK
  <2> QED BY <2>1, NewLogIs DEF TypeOK, Ensured
<1>d. ASSUME NEW c \in Caller, call[c].pc \in {"locked", "save"}
      PROVE  writer = {c} /\ readers = {} /\ call[c].todo # <<>>
  BY <1>d DEF LockInv, HoldsLock, OneWriter, Excluded, SectionAhead, TypeOK
<1>e. ASSUME NEW c \in Caller, call[c].pc \in {"locked", "save"},
             Typed, Others(c), writer' = {}, UNCHANGED readers,
             \/ call'[c].pc \in {"idle", "relock"}
             \/ call'[c].pc = "lock" /\ call'[c].todo # <<>>
      PROVE  LockInv'
  BY <1>d, <1>e DEF LockInv, HoldsLock, HoldsRLock, OneWriter, Excluded, SectionAhead
<1>f. ASSUME NEW c \in Caller, At(c, "locked"), ThenSave(c)
      PROVE  Typed /\ LockInv' /\ UNCHANGED <<file, mu, unsaved>>
  <2>1. "save" \in Steps /\ Goto(c, "save") /\ UNCHANGED <<file, mu, unsaved>>
    BY <1>f DEF Steps, ThenSave
  <2> QED
    BY <1>d, <1>f, <2>1, GotoType
       DEF At, mu, LockInv, HoldsLock, HoldsRLock, OneWriter, Excluded, SectionAhead
<1>g. ASSUME NEW c \in Caller, call[c].pc \in {"get", "list", "runlock"}, Typed, Others(c),
             readers' = readers \ {c}, UNCHANGED writer,
             \/ call'[c].pc = "answer"
             \/ call'[c].pc = "lock" /\ call'[c].todo # <<>>
      PROVE  LockInv'
  BY <1>g DEF LockInv, HoldsLock, HoldsRLock, OneWriter, Excluded, SectionAhead
<1>1. ASSUME NEW c \in Caller, NEW op \in DOMAIN Sections, Call(c, op)
      PROVE  TypeOK' /\ LockInv'
  <2> DEFINE new == [NoCall EXCEPT !.op = op, !.pc = IF op \in Pages THEN "rlock" ELSE "lock",
                      !.todo = Sections[op],
                      !.saw = IF unsaved \/ op \notin Pages THEN NoLog
                              ELSE IF log # NoLog THEN log ELSE file]
  <2>1. Sections[op] \in Seq(Names) /\ (op # "GetAllLogs" => Sections[op] # <<>>)
    BY SectionsType
  <2>2. new \in CallState
    BY <2>1 DEF TypeOK, CallState, NoCall, Steps
  <2>3. /\ call' = [call EXCEPT ![c] = new] /\ call[c].pc = "idle"
        /\ UNCHANGED <<log, file, writer, readers, lastSession, unsaved>>
    BY <1>1 DEF Call, At, mu
  <2>4. Typed /\ call'[c] = new /\ Others(c)
    BY <1>a, <2>2, <2>3
  <2>5. /\ new.op = op /\ new.todo = Sections[op]
        /\ new.pc = IF op \in Pages THEN "rlock" ELSE "lock"
    BY DEF NoCall
  <2>6. TypeOK'
    BY <1>b, <2>3, <2>4 DEF TypeOK
  <2>7. call'[c].pc \in {"lock", "rlock"}
        /\ (call'[c].pc = "lock" \/ call'[c].op = "GetDomainLog" => call'[c].todo # <<>>)
    BY <2>1, <2>4, <2>5 DEF Pages
  <2> HIDE DEF new
  <2>8. LockInv'
    BY <2>3, <2>4, <2>7
       DEF LockInv, HoldsLock, HoldsRLock, OneWriter, Excluded, SectionAhead
  <2> QED BY <2>6, <2>8
<1>0. ASSUME NEW c \in Caller, Queue(c) PROVE TypeOK' /\ LockInv'
  <2>1. "queued" \in Steps /\ Goto(c, "queued") /\ UNCHANGED <<writer, readers>>
    BY <1>0 DEF Steps, Queue, mu
  <2>2. TypeOK'
    BY <1>0, <1>b, <2>1, GotoType DEF Queue, TypeOK
  <2>3. LockInv'
    BY <1>0, <2>1, GotoType
       DEF Queue, At, LockInv, HoldsLock, HoldsRLock, OneWriter, Excluded, SectionAhead
  <2> QED BY <2>2, <2>3
<1>2. ASSUME NEW c \in Caller, Lock(c) PROVE TypeOK' /\ LockInv'
  <2>1. "locked" \in Steps /\ Goto(c, "locked")
    BY <1>2 DEF Steps, Lock
  <2>2. TypeOK'
    BY <1>2, <1>b, <2>1, GotoType DEF Lock, TypeOK
  <2>3. LockInv'
    BY <1>2, <2>1, GotoType
       DEF Lock, At, LockInv, HoldsLock, HoldsRLock, OneWriter, Excluded, SectionAhead
  <2> QED BY <2>2, <2>3
<1>3. ASSUME NEW c \in Caller, RLock(c) PROVE TypeOK' /\ LockInv'
  <2>1. PICK pc \in {"runlock", "get", "list"} :
          /\ Goto(c, pc)
          /\ pc = "get" => call[c].todo # <<>>
    BY <1>3 DEF RLock, At, LockInv, SectionAhead
  <2>2. pc \in Steps
    BY DEF Steps
  <2>3. TypeOK'
    BY <1>3, <1>b, <2>1, <2>2, GotoType DEF RLock, TypeOK
  <2>4. LockInv'
    BY <1>3, <2>1, <2>2, GotoType
       DEF RLock, At, LockInv, HoldsLock, HoldsRLock, OneWriter, Excluded, SectionAhead
  <2> QED BY <2>3, <2>4
<1>4. ASSUME NEW c \in Caller, StartDomainLog(c) PROVE TypeOK' /\ LockInv'
  <2>1. At(c, "locked") /\ ThenSave(c)
    BY <1>4 DEF StartDomainLog, Section
  <2>2. log' \in Log /\ lastSession' \in Nat /\ log'.session # 0
    BY <1>4, <1>c, NewLogIs DEF StartDomainLog, TypeOK
  <2> QED BY <2>1, <2>2, <1>b, <1>f DEF TypeOK, mu
<1>5. ASSUME NEW c \in Caller, AddEntry(c) PROVE TypeOK' /\ LockInv'
  <2>1. At(c, "locked") /\ ThenSave(c)
    BY <1>5 DEF AddEntry, Section
  <2>2. log' \in Log /\ log'.session # 0
    <3>1. Ensured.entries + 1 \in Nat
      BY <1>c DEF Log
    <3> QED BY <1>5, <1>c, <3>1, LogChanges DEF AddEntry
  <2>3. lastSession' \in Nat
    BY <1>5 DEF AddEntry, TypeOK
  <2> QED BY <2>1, <2>2, <2>3, <1>b, <1>f DEF TypeOK, mu
<1>6. ASSUME NEW c \in Caller, SetSummary(c) \/ NothingToSet(c) PROVE TypeOK' /\ LockInv'
  <2>1. /\ call[c].pc \in {"locked", "save"} /\ Unlock(c)
        /\ UNCHANGED <<log, file, readers, lastSession, unsaved>>
    BY <1>6 DEF SetSummary, NothingToSet, Section, At
  <2>2. call[c].todo # <<>>
    BY <1>d, <2>1
  <2> QED BY <2>1, <2>2, <1>b, <1>e, UnlockType DEF TypeOK
<1>7. ASSUME NEW c \in Caller, SetValue(c) PROVE TypeOK' /\ LockInv'
  <2>1. At(c, "locked") /\ ThenSave(c) /\ UNCHANGED <<log, lastSession>>
    BY <1>7 DEF SetValue, Section
  <2> QED BY <2>1, <1>b, <1>f DEF TypeOK, mu
<1>8. ASSUME NEW c \in Caller, SetStatus(c) PROVE TypeOK' /\ LockInv'
  <2>1. At(c, "locked") /\ ThenSave(c) /\ UNCHANGED lastSession
    BY <1>8 DEF SetStatus, Section
  <2>2. log' \in Log /\ log'.session # 0
    BY <1>8, LogChanges DEF SetStatus, TypeOK
  <2> QED BY <2>1, <2>2, <1>b, <1>f DEF TypeOK, mu
<1>9. ASSUME NEW c \in Caller, SaveToFile(c) PROVE TypeOK' /\ LockInv'
  <2>1. /\ call[c].pc \in {"locked", "save"} /\ Unlock(c)
        /\ file' = log /\ unsaved' = FALSE /\ UNCHANGED <<log, readers, lastSession>>
    BY <1>9 DEF SaveToFile, At
  <2>2. call[c].todo # <<>>
    BY <1>d, <2>1
  <2> QED BY <2>1, <2>2, <1>b, <1>e, UnlockType DEF TypeOK
<1>10. ASSUME NEW c \in Caller, SaveFails(c) PROVE TypeOK' /\ LockInv'
  <2> DEFINE next == IF Len(call[c].todo) = 1 THEN NoCall
                     ELSE [call[c] EXCEPT !.pc = "lock", !.todo = Tail(call[c].todo),
                                          !.saw = NoLog]
  <2>1. /\ call[c].pc = "save" /\ file' \in {file, NoLog} /\ unsaved' = TRUE /\ writer' = {}
        /\ call' = [d \in Caller |-> IF d # c THEN [call[d] EXCEPT !.saw = NoLog] ELSE next]
        /\ UNCHANGED <<log, readers, lastSession>>
    BY <1>10 DEF SaveFails, At
  <2>2. call[c].todo \in Seq(Names) /\ call[c].todo # <<>>
    BY <1>a, <1>d, <2>1 DEF CallState
  <2>3. next \in CallState /\ (next.pc = "idle" \/ (next.pc = "lock" /\ next.todo # <<>>))
    <3>1. CASE Len(call[c].todo) = 1
      <4>1. next = NoCall
        BY <3>1
      <4> HIDE DEF next
      <4> QED BY <4>1
    <3>2. CASE Len(call[c].todo) # 1
      <4>1. Len(call[c].todo) \in Nat \ {0, 1}
        BY <2>2, <3>2, EmptySeq
      <4>2. Tail(call[c].todo) \in Seq(Names) /\ Len(Tail(call[c].todo)) # 0
        BY <2>2, <4>1, HeadTailProperties
      <4>3. Tail(call[c].todo) # <<>>
        BY <4>2, EmptySeq
      <4> QED BY <1>a, <3>2, <4>2, <4>3 DEF CallState, Steps
    <3> QED BY <3>1, <3>2
  <2> HIDE DEF next
  <2>4. ASSUME NEW d \in Caller, d # c
        PROVE  /\ call'[d] \in CallState /\ call'[d].pc = call[d].pc
               /\ call'[d].todo = call[d].todo /\ call'[d].op = call[d].op
    BY <1>a, <2>1, <2>4 DEF CallState
  <2>5. call'[c] = next
    BY <2>1
  <2>6. Typed
    <3>1. \A d \in Caller : call'[d] \in CallState
      BY <2>3, <2>4, <2>5
    <3> QED BY <2>1, <3>1
  <2>7. TypeOK'
    BY <1>b, <2>1, <2>6 DEF TypeOK
  <2>8. LockInv'
    BY <1>d, <2>1, <2>3, <2>4, <2>5
       DEF LockInv, HoldsLock, HoldsRLock, OneWriter, Excluded, SectionAhead
  <2> QED BY <2>7, <2>8
<1>11. ASSUME NEW c \in Caller, Found(c) PROVE TypeOK' /\ LockInv'
  <2>1. /\ "answer" \in Steps /\ log \in Log
        /\ call' = [call EXCEPT ![c].pc = "answer", ![c].answer = log]
    BY <1>11 DEF Steps, Found, TypeOK
  <2>2. TypeOK'
    <3>1. Typed
      BY <2>1, AnsweredType
    <3>2. \A l \in {log', file'} : l.session = 0 => l = NoLog
      BY <1>11 DEF Found, TypeOK
    <3> QED BY <1>11, <1>b, <2>1, <3>1, <3>2 DEF Found, TypeOK
  <2>3. LockInv'
    <3>1. /\ Typed /\ Others(c) /\ call'[c].pc = "answer"
      BY <2>1, AnsweredType
    <3> QED BY <1>11, <1>g, <3>1 DEF Found, At
  <2> QED BY <2>2, <2>3
<1>12. ASSUME NEW c \in Caller, Missing(c) PROVE TypeOK' /\ LockInv'
  <2>1. "lock" \in Steps /\ Goto(c, "lock") /\ call[c].todo # <<>>
    BY <1>12 DEF Steps, Missing, At, LockInv, SectionAhead
  <2>2. TypeOK'
    BY <1>12, <1>b, <2>1, GotoType DEF Missing, TypeOK
  <2>3. LockInv'
    BY <1>12, <1>g, <2>1, GotoType DEF Missing, At
  <2> QED BY <2>2, <2>3
<1>13. ASSUME NEW c \in Caller, LoadFromFile(c) PROVE TypeOK' /\ LockInv'
  <2>1. /\ "relock" \in Steps /\ file \in Log /\ log' \in Log /\ unsaved' \in BOOLEAN
        /\ call' = [call EXCEPT ![c].pc = "relock", ![c].answer = file]
    BY <1>13 DEF Steps, LoadFromFile, TypeOK
  <2>2. TypeOK'
    BY <1>13, <1>b, <2>1, AnsweredType DEF LoadFromFile, TypeOK
  <2>3. LockInv'
    <3>1. /\ Typed /\ Others(c) /\ call'[c].pc = "relock"
      BY <2>1, AnsweredType
    <3> QED BY <1>13, <1>e, <3>1 DEF LoadFromFile, Section, At
  <2> QED BY <2>2, <2>3
<1>14. ASSUME NEW c \in Caller, RUnlock(c) PROVE TypeOK' /\ LockInv'
  <2>1. "answer" \in Steps /\ Goto(c, "answer")
    BY <1>14 DEF Steps, RUnlock
  <2>2. TypeOK'
    BY <1>14, <1>b, <2>1, GotoType DEF RUnlock, TypeOK
  <2>3. LockInv'
    BY <1>14, <1>g, <2>1, GotoType DEF RUnlock, At
  <2> QED BY <2>2, <2>3
<1>15. ASSUME NEW c \in Caller, GetAllLogs(c) PROVE TypeOK' /\ LockInv'
  <2>1. /\ "answer" \in Steps /\ log' \in Log
        /\ call' = [call EXCEPT ![c].pc = "answer", ![c].answer = log']
    BY <1>15 DEF Steps, GetAllLogs, TypeOK
  <2>2. TypeOK'
    <3>1. Typed
      BY <2>1, AnsweredType
    <3>2. \A l \in {log', file'} : l.session = 0 => l = NoLog
      BY <1>15 DEF GetAllLogs, TypeOK
    <3> QED BY <1>15, <1>b, <2>1, <3>1, <3>2 DEF GetAllLogs, TypeOK
  <2>3. LockInv'
    <3>1. /\ Typed /\ Others(c) /\ call'[c].pc = "answer"
      BY <2>1, AnsweredType
    <3> QED BY <1>15, <1>g, <3>1 DEF GetAllLogs, At
  <2> QED BY <2>2, <2>3
<1>16. ASSUME NEW c \in Caller, Answer(c) PROVE TypeOK' /\ LockInv'
  <2>1. /\ call' = [call EXCEPT ![c] = NoCall] /\ call[c].pc = "answer"
        /\ UNCHANGED <<log, file, writer, readers, lastSession, unsaved>>
    BY <1>16 DEF Answer, At, mu
  <2>2. Typed /\ call'[c].pc = "idle" /\ Others(c)
    BY <1>a, <2>1
  <2>3. TypeOK'
    BY <1>b, <2>1, <2>2 DEF TypeOK
  <2>4. LockInv'
    BY <2>1, <2>2 DEF LockInv, HoldsLock, HoldsRLock, OneWriter, Excluded, SectionAhead
  <2> QED BY <2>3, <2>4
<1>17. ASSUME Restart PROVE TypeOK' /\ LockInv'
  <2>1. Typed /\ \A c \in Caller : call'[c].pc = "idle"
    BY <1>17 DEF Restart
  <2>2. TypeOK'
    BY <1>17, <1>b, <2>1 DEF Restart, TypeOK
  <2>3. LockInv'
    BY <1>17, <2>1
       DEF Restart, LockInv, HoldsLock, HoldsRLock, OneWriter, Excluded, SectionAhead
  <2> QED BY <2>2, <2>3
<1>18. CASE UNCHANGED vars
  BY <1>18 DEF vars, mu, TypeOK, LockInv, HoldsLock, HoldsRLock, OneWriter, Excluded,
               SectionAhead
<1> QED
  BY <1>0, <1>1, <1>2, <1>3, <1>4, <1>5, <1>6, <1>7, <1>8, <1>9, <1>10, <1>11, <1>12, <1>13,
     <1>14, <1>15, <1>16, <1>17, <1>18
     DEF Next, Step, Crash, ConcurrentMapWrites

(* Type correctness of the setup log, its file and the calls on it.        *)
THEOREM TypeCorrect == Spec => []TypeOK
<1>1. Init => TypeOK /\ LockInv
  <2> SUFFICES ASSUME Init PROVE TypeOK /\ LockInv
    OBVIOUS
  <2>1. call \in [Caller -> CallState] /\ \A c \in Caller : call[c].pc = "idle"
    BY EmptyTypes DEF Init
  <2>2. [NoLog EXCEPT !.session = 1] \in Log
    BY EmptyTypes, LogChanges
  <2>3. [NoLog EXCEPT !.session = 1, !.entries = 1] \in Log
    BY <2>2, LogChanges
  <2>4. file \in Log
    BY <2>3, EmptyTypes DEF Init
  <2>5. log \in Log /\ lastSession \in Nat /\ unsaved \in BOOLEAN /\ writer = {} /\ readers = {}
    BY <2>4, EmptyTypes DEF Init, Log
  <2>6. \A l \in {log, file} : l.session = 0 => l = NoLog
    BY <2>3, EmptyTypes DEF Init, Log, NoLog
  <2>8. TypeOK
    BY <2>1, <2>4, <2>5, <2>6 DEF TypeOK, CallState, Names
  <2>7. LockInv
    BY <2>1, <2>5 DEF LockInv, HoldsLock, HoldsRLock, OneWriter, Excluded, SectionAhead
  <2> QED BY <2>7, <2>8
<1> QED BY <1>1, LockStep, PTL DEF Spec

(* The discipline of the lock holds in every reachable state.              *)
LEMMA LockInvariant == Spec => [](TypeOK /\ LockInv)
<1>1. Init => LockInv
  <2> SUFFICES ASSUME Init PROVE LockInv
    OBVIOUS
  <2>1. \A c \in Caller : call[c].pc = "idle"
    BY EmptyTypes DEF Init
  <2> QED BY <2>1 DEF Init, LockInv, HoldsLock, HoldsRLock, OneWriter, Excluded, SectionAhead
<1> QED BY <1>1, TypeCorrect, LockStep, PTL DEF Spec

-----------------------------------------------------------------------------
(* A log continues itself.                                                 *)
LEMMA ContinuesReflexive == ASSUME NEW a \in Log PROVE Continues(a, a)
BY DEF Continues, Log

(* Continuing is transitive: logs are ordered by session, entries and      *)
(* status, and nothing but the empty log is continued by the empty log.    *)
LEMMA ContinuesTransitive ==
  ASSUME NEW a \in Log, NEW b \in Log, NEW c \in Log, Continues(a, b), Continues(b, c)
  PROVE  Continues(a, c)
<1>1. CASE b = NoLog
  <2>1. b.session = 0 /\ b.entries = 0 /\ b.final = FALSE
    BY <1>1 DEF NoLog
  <2>2. a # NoLog => a.session = 0 /\ a.entries = 0 /\ ~a.final
    BY <2>1 DEF Continues, Log
  <2>3. a # NoLog => a = NoLog
    BY <2>2 DEF Log, NoLog
  <2> QED BY <2>3 DEF Continues
<1>2. CASE b # NoLog
  BY <1>2 DEF Continues, Log
<1> QED BY <1>1, <1>2

(* A session begun now is later than every log there is.                   *)
LEMMA ContinuesNew ==
  ASSUME NEW a \in Log, NEW b \in Log, a.session <= lastSession, lastSession \in Nat,
         b.session = lastSession + 1
  PROVE  Continues(a, b)
BY DEF Continues, Log

(* The log that each call that logs leaves for its save: a log, of a       *)
(* session begun by then, that continues what was there before.            *)
LEMMA WrittenContinues ==
  ASSUME TypeOK, LogInv, NEW c \in Caller,
         StartDomainLog(c) \/ AddEntry(c) \/ SetValue(c) \/ SetStatus(c)
  PROVE  /\ log' \in Log /\ log' # NoLog
         /\ lastSession' \in Nat /\ lastSession <= lastSession'
         /\ log'.session <= lastSession'
         /\ Continues(Newest, log')
<1>1. Newest \in Log /\ log \in Log /\ lastSession \in Nat /\ Newest.session <= lastSession
  BY DEF Newest, TypeOK, LogInv, SessionsBegun
<1>2. NoLog.session = 0 /\ NoLog.entries = 0 /\ NoLog.final = FALSE
  BY DEF NoLog
<1>3. CASE StartDomainLog(c)
  <2>1. log' = [NewLog EXCEPT !.entries = 1] /\ lastSession' = lastSession + 1
    BY <1>3 DEF StartDomainLog
  <2>2. log' \in Log /\ log'.session = lastSession + 1
    BY <2>1, NewLogIs
  <2>3. log' # NoLog
    <3>1. lastSession + 1 # NoLog.session
      BY <1>1, <1>2
    <3> QED BY <2>2, <3>1
  <2>4. Continues(Newest, log')
    BY <1>1, <2>2, ContinuesNew
  <2>5. lastSession + 1 \in Nat /\ lastSession <= lastSession + 1
    BY <1>1
  <2> QED BY <2>1, <2>2, <2>3, <2>4, <2>5
<1>4. CASE AddEntry(c) /\ log = NoLog
  <2>1. /\ NewLog \in Log /\ NewLog.session = lastSession + 1
        /\ log' = [NewLog EXCEPT !.entries = NewLog.entries + 1] /\ lastSession' = lastSession + 1
    BY <1>4, NewLogIs DEF AddEntry, Ensured
  <2>2. NewLog.entries + 1 \in Nat
    BY <2>1 DEF Log
  <2>3. log' \in Log /\ log'.session = lastSession + 1
    BY <2>1, <2>2, LogChanges
  <2>4. log' # NoLog
    <3>1. lastSession + 1 # NoLog.session
      BY <1>1, <1>2
    <3> QED BY <2>3, <3>1
  <2>5. Continues(Newest, log')
    BY <1>1, <2>3, ContinuesNew
  <2>6. lastSession + 1 \in Nat /\ lastSession <= lastSession + 1
    BY <1>1
  <2> QED BY <2>1, <2>3, <2>4, <2>5, <2>6
<1>5. CASE AddEntry(c) /\ log # NoLog
  <2>1. /\ log' = [log EXCEPT !.entries = log.entries + 1] /\ lastSession' = lastSession
        /\ Newest = log
    BY <1>5 DEF AddEntry, Ensured, Newest
  <2>2. log.entries \in Nat /\ log.entries + 1 \in Nat
    BY <1>1 DEF Log
  <2>3. /\ log' \in Log /\ log'.session = log.session /\ log'.entries = log.entries + 1
        /\ log'.final = log.final
    BY <1>1, <2>1, <2>2, LogChanges
  <2>4. log' # NoLog
    BY <1>2, <2>2, <2>3
  <2>5. Continues(log, log')
    BY <1>1, <2>2, <2>3 DEF Continues, Log
  <2> QED BY <1>1, <2>1, <2>3, <2>4, <2>5
<1>6. CASE SetValue(c)
  <2>1. log' = log /\ log # NoLog /\ lastSession' = lastSession /\ Newest = log
    BY <1>6 DEF SetValue, Newest
  <2> QED BY <1>1, <2>1, ContinuesReflexive
<1>7. CASE SetStatus(c)
  <2>1. /\ log' = [log EXCEPT !.final = TRUE] /\ log # NoLog /\ lastSession' = lastSession
        /\ Newest = log
    BY <1>7 DEF SetStatus, Newest
  <2>2. /\ log' \in Log /\ log'.session = log.session /\ log'.entries = log.entries
        /\ log'.final = TRUE
    BY <1>1, <2>1, LogChanges
  <2>3. log' # NoLog
    BY <1>2, <2>2
  <2>4. Continues(log, log')
    BY <1>1, <2>2 DEF Continues, Log
  <2> QED BY <1>1, <2>1, <2>2, <2>3, <2>4
<1> QED BY <1>3, <1>4, <1>5, <1>6, <1>7

(* Every step keeps the log, its file and the pages' promises in step.     *)
LEMMA LogStep == TypeOK /\ LockInv /\ LogInv /\ [Next]_vars => LogInv'
<1> SUFFICES ASSUME TypeOK, LockInv, LogInv, [Next]_vars PROVE LogInv'
  OBVIOUS
<1> DEFINE Others(c) == \A d \in Caller : d # c => call'[d] = call[d]
           Showing == {"relock", "runlock", "answer"}
<1> USE EmptyTypes
<1>a. /\ call \in [Caller -> CallState] /\ log \in Log /\ file \in Log
      /\ \A c \in Caller : call[c].saw \in Log
      /\ Newest \in Log
  <2>1. call \in [Caller -> CallState] /\ log \in Log /\ file \in Log
    BY DEF TypeOK, CallState, Names
  <2> QED BY <2>1 DEF CallState, Newest
<1>b. \A a \in Log : Continues(NoLog, a)
  BY DEF Continues
<1>c. ASSUME NEW c \in Caller, call[c].pc \in {"locked", "save"}
      PROVE  \A d \in Caller : call[d].pc \in {"locked", "save"} => d = c
  BY <1>c DEF LockInv, HoldsLock, OneWriter
<1>d. ASSUME NEW c \in Caller, call[c].pc \in {"get", "list", "runlock"} PROVE ~Saving
  BY <1>d DEF LockInv, HoldsLock, HoldsRLock, Excluded, Saving, At
\* A step that leaves the log alone, and is not a save.
<1>e. ASSUME NEW c \in Caller, Others(c), UNCHANGED <<log, file, lastSession, unsaved>>,
             call[c].pc # "save", call'[c].pc # "save",
             call'[c].saw = NoLog \/ (~unsaved /\ Continues(call'[c].saw, Newest)),
             call'[c].pc \in Showing => Continues(call'[c].saw, call'[c].answer)
      PROVE  LogInv'
  <2>1. Saving' <=> Saving
    BY <1>e DEF Saving, At
  <2>2. Newest' = Newest
    BY <1>e DEF Newest
  <2>3. SavedOrSaving' /\ SavesSomething' /\ SessionsBegun'
    BY <1>e, <2>1 DEF LogInv, SavedOrSaving, SavesSomething, SessionsBegun
  <2>4. NothingPromised'
    BY <1>e DEF LogInv, NothingPromised
  <2>5. PromiseKept'
    BY <1>a, <1>b, <1>e, <2>2 DEF LogInv, PromiseKept
  <2>6. AnswerKeepsPromise'
    BY <1>e DEF LogInv, AnswerKeepsPromise
  <2> QED BY <2>3, <2>4, <2>5, <2>6 DEF LogInv
<1>f. ASSUME NEW c \in Caller
      PROVE  call[c].saw = NoLog \/ (~unsaved /\ Continues(call[c].saw, Newest))
  BY DEF LogInv, NothingPromised, PromiseKept
<1>1. ASSUME NEW c \in Caller, NEW op \in DOMAIN Sections, Call(c, op) PROVE LogInv'
  <2> DEFINE saw == IF unsaved \/ op \notin Pages THEN NoLog ELSE Newest
  <2>1. /\ call' = [call EXCEPT ![c] =
                     [NoCall EXCEPT !.op = op, !.pc = IF op \in Pages THEN "rlock" ELSE "lock",
                                    !.todo = Sections[op], !.saw = saw]]
        /\ call[c].pc = "idle" /\ UNCHANGED <<log, file, lastSession, unsaved>>
    BY <1>1 DEF Call, At, Newest
  <2> HIDE DEF saw
  <2>2. Others(c) /\ call'[c].saw = saw /\ call'[c].pc \in {"lock", "rlock"}
    BY <1>a, <2>1 DEF NoCall
  <2>3. saw = NoLog \/ (~unsaved /\ Continues(saw, Newest))
    BY <1>a, ContinuesReflexive DEF saw
  <2> QED BY <1>e, <2>1, <2>2, <2>3
<1>0. ASSUME NEW c \in Caller, Queue(c) PROVE LogInv'
  <2>1. "queued" \in Steps /\ Goto(c, "queued") /\ call[c].pc = "lock"
    BY <1>0 DEF Steps, Queue, At
  <2>2. Others(c) /\ call'[c].pc = "queued" /\ call'[c].saw = call[c].saw
    BY <2>1, GotoType
  <2> QED BY <1>0, <1>e, <1>f, <2>1, <2>2 DEF Queue
<1>2. ASSUME NEW c \in Caller, Lock(c) PROVE LogInv'
  <2>1. "locked" \in Steps /\ Goto(c, "locked") /\ call[c].pc = "queued"
    BY <1>2 DEF Steps, Lock, At
  <2>2. Others(c) /\ call'[c].pc = "locked" /\ call'[c].saw = call[c].saw
    BY <2>1, GotoType
  <2> QED BY <1>2, <1>e, <1>f, <2>1, <2>2 DEF Lock
<1>3. ASSUME NEW c \in Caller, RLock(c) PROVE LogInv'
  <2>1. PICK pc \in {"runlock", "get", "list"} :
          Goto(c, pc) /\ (pc = "runlock" => call[c].pc = "relock")
    BY <1>3 DEF RLock, At
  <2>2. pc \in Steps /\ call[c].pc # "save"
    BY <1>3 DEF Steps, RLock
  <2>3. /\ Others(c) /\ call'[c].pc = pc /\ call'[c].saw = call[c].saw
        /\ call'[c].answer = call[c].answer
    BY <2>1, <2>2, GotoType
  <2>4. call'[c].pc \in Showing => Continues(call'[c].saw, call'[c].answer)
    BY <2>1, <2>3 DEF LogInv, AnswerKeepsPromise
  <2> QED BY <1>3, <1>e, <1>f, <2>2, <2>3, <2>4 DEF RLock
<1>4. ASSUME NEW c \in Caller, StartDomainLog(c) \/ AddEntry(c) \/ SetValue(c) \/ SetStatus(c)
      PROVE  LogInv'
  <2>1. "save" \in Steps /\ call[c].pc = "locked" /\ Goto(c, "save") /\ UNCHANGED <<file, unsaved>>
    BY <1>4 DEF Steps, StartDomainLog, AddEntry, SetValue, SetStatus, Section, At, ThenSave
  <2>2. Others(c) /\ call'[c].pc = "save" /\ call'[c].saw = call[c].saw
    BY <2>1, GotoType
  <2>3. /\ log' \in Log /\ log' # NoLog /\ lastSession' \in Nat /\ lastSession <= lastSession'
        /\ log'.session <= lastSession' /\ Continues(Newest, log')
    BY <1>4, WrittenContinues
  <2>4. Saving' /\ Newest' = log'
    BY <2>2, <2>3 DEF Saving, At, Newest
  <2>5. SavedOrSaving' /\ SavesSomething'
    BY <2>3, <2>4 DEF SavedOrSaving, SavesSomething
  <2>6. SessionsBegun'
    <3>1. file.session \in Nat /\ lastSession \in Nat /\ file.session <= lastSession
      BY <1>a DEF Log, TypeOK, LogInv, SessionsBegun
    <3> QED BY <2>1, <2>3, <3>1 DEF SessionsBegun
  <2>7. NothingPromised'
    BY <2>1, <2>2 DEF LogInv, NothingPromised
  <2>8. PromiseKept'
    <3>1. ASSUME NEW d \in Caller PROVE Continues(call'[d].saw, log')
      <4>1. call'[d].saw = call[d].saw /\ Continues(call[d].saw, Newest)
        BY <2>2 DEF LogInv, PromiseKept
      <4> QED BY <1>a, <2>3, <4>1, ContinuesTransitive
    <3> QED BY <2>4, <3>1 DEF PromiseKept
  <2>9. AnswerKeepsPromise'
    BY <2>2 DEF LogInv, AnswerKeepsPromise
  <2> QED BY <2>5, <2>6, <2>7, <2>8, <2>9 DEF LogInv
<1>5. ASSUME NEW c \in Caller, SetSummary(c) \/ NothingToSet(c) PROVE LogInv'
  <2>1. /\ call[c].pc = "locked" /\ Unlock(c) /\ UNCHANGED <<log, file, lastSession, unsaved>>
        /\ call[c].todo # <<>>
    BY <1>5 DEF SetSummary, NothingToSet, Section, At, LockInv, SectionAhead
  <2>2. /\ Others(c) /\ call'[c].pc \in {"idle", "lock"} /\ call'[c].saw \in {call[c].saw, NoLog}
    BY <2>1, UnlockType
  <2> QED BY <1>e, <1>f, <2>1, <2>2
<1>6. ASSUME NEW c \in Caller, SaveToFile(c) PROVE LogInv'
  <2>1. /\ call[c].pc = "save" /\ Unlock(c) /\ file' = log /\ unsaved' = FALSE
        /\ UNCHANGED <<log, lastSession>> /\ call[c].todo # <<>>
    BY <1>6 DEF SaveToFile, At, LockInv, SectionAhead
  <2>2. /\ Others(c) /\ call'[c].pc \in {"idle", "lock"} /\ call'[c].saw \in {call[c].saw, NoLog}
    BY <2>1, UnlockType
  <2>3. log # NoLog /\ Newest' = Newest
    BY <2>1 DEF LogInv, SavesSomething, Saving, At, Newest
  <2>4. ~Saving'
    BY <1>c, <2>1, <2>2 DEF Saving, At
  <2>5. SavedOrSaving' /\ SavesSomething' /\ SessionsBegun' /\ NothingPromised'
    BY <2>1, <2>4
       DEF LogInv, SavedOrSaving, SavesSomething, SessionsBegun, NothingPromised
  <2>6. PromiseKept' /\ AnswerKeepsPromise'
    BY <1>a, <1>b, <2>2, <2>3 DEF LogInv, PromiseKept, AnswerKeepsPromise
  <2> QED BY <2>5, <2>6 DEF LogInv
<1>7. ASSUME NEW c \in Caller, SaveFails(c) PROVE LogInv'
  <2>1. /\ call[c].pc = "save" /\ file' \in {file, NoLog} /\ unsaved' = TRUE
        /\ UNCHANGED <<log, lastSession>> /\ log # NoLog
    BY <1>7 DEF SaveFails, At, LogInv, SavesSomething, Saving
  <2>2. ASSUME NEW d \in Caller
        PROVE  /\ call'[d].saw = NoLog
               /\ d # c => call'[d].pc = call[d].pc
               /\ d = c => call'[d].pc \in {"idle", "lock"}
    <3>1. CASE d # c
      BY <1>7, <1>a, <3>1 DEF SaveFails, CallState
    <3>2. CASE d = c /\ Len(call[c].todo) = 1
      <4>1. call'[d] = NoCall
        BY <1>7, <3>2 DEF SaveFails
      <4> QED BY <3>2, <4>1
    <3>3. CASE d = c /\ Len(call[c].todo) # 1
      <4>1. call'[d] = [call[c] EXCEPT !.pc = "lock", !.todo = Tail(call[c].todo), !.saw = NoLog]
        BY <1>7, <3>3 DEF SaveFails
      <4> QED BY <1>a, <3>3, <4>1 DEF CallState
    <3> QED BY <3>1, <3>2, <3>3
  <2>3. ~Saving'
    BY <1>c, <2>1, <2>2 DEF Saving, At
  <2>4. SavedOrSaving' /\ SavesSomething' /\ NothingPromised'
    BY <2>1, <2>2, <2>3 DEF SavedOrSaving, SavesSomething, NothingPromised
  <2>5. SessionsBegun'
    BY <2>1 DEF LogInv, SessionsBegun, NoLog, TypeOK
  <2>6. PromiseKept' /\ AnswerKeepsPromise'
    BY <2>2 DEF PromiseKept, AnswerKeepsPromise, Continues
  <2> QED BY <2>4, <2>5, <2>6 DEF LogInv
<1>8. ASSUME NEW c \in Caller, Found(c) PROVE LogInv'
  <2>1. /\ "answer" \in Steps /\ call[c].pc = "get" /\ Newest = log
        /\ call' = [call EXCEPT ![c].pc = "answer", ![c].answer = log]
    BY <1>8 DEF Steps, Found, At, Newest
  <2>2. /\ Others(c) /\ call'[c].pc = "answer" /\ call'[c].saw = call[c].saw
        /\ call'[c].answer = log
    BY <1>a, <2>1, AnsweredType
  <2>3. Continues(call'[c].saw, call'[c].answer)
    BY <2>1, <2>2 DEF LogInv, PromiseKept
  <2> QED BY <1>8, <1>e, <1>f, <2>1, <2>2, <2>3 DEF Found
<1>9. ASSUME NEW c \in Caller, Missing(c) PROVE LogInv'
  <2>1. "lock" \in Steps /\ Goto(c, "lock") /\ call[c].pc = "get"
    BY <1>9 DEF Steps, Missing, At
  <2>2. Others(c) /\ call'[c].pc = "lock" /\ call'[c].saw = call[c].saw
    BY <2>1, GotoType
  <2> QED BY <1>9, <1>e, <1>f, <2>1, <2>2 DEF Missing
<1>10. ASSUME NEW c \in Caller, LoadFromFile(c) PROVE LogInv'
  <2>1. /\ "relock" \in Steps /\ call[c].pc = "locked"
        /\ call' = [call EXCEPT ![c].pc = "relock", ![c].answer = file]
        /\ UNCHANGED <<file, lastSession>>
        /\ \/ file # NoLog /\ log' = file /\ unsaved' = FALSE
           \/ file = NoLog /\ UNCHANGED <<log, unsaved>>
    BY <1>10 DEF Steps, LoadFromFile, Section, At
  <2>2. /\ Others(c) /\ call'[c].pc = "relock" /\ call'[c].saw = call[c].saw
        /\ call'[c].answer = file
    BY <1>a, <2>1, AnsweredType
  <2>3. ~Saving /\ ~Saving'
    BY <1>c, <2>1, <2>2 DEF Saving, At
  <2>4. \A d \in Caller : call'[d].saw = call[d].saw
    BY <2>2
  <2>5. ASSUME NEW d \in Caller PROVE Continues(call[d].saw, file)
    <3>1. CASE unsaved
      BY <1>a, <1>b, <3>1 DEF LogInv, NothingPromised
    <3>2. CASE ~unsaved
      <4>1. Newest = file
        BY <2>3, <3>2 DEF Newest, LogInv, SavedOrSaving
      <4> QED BY <4>1 DEF LogInv, PromiseKept
    <3> QED BY <3>1, <3>2
  <2>6. SavedOrSaving' /\ SavesSomething'
    BY <2>1, <2>3 DEF LogInv, SavedOrSaving, SavesSomething
  <2>7. SessionsBegun'
    BY <2>1 DEF LogInv, SessionsBegun
  <2>8. NothingPromised'
    BY <2>1, <2>4 DEF LogInv, NothingPromised
  <2>9. PromiseKept'
    <3>1. Newest' = file \/ Newest' = Newest
      BY <2>1 DEF Newest
    <3> QED BY <2>4, <2>5, <3>1 DEF LogInv, PromiseKept
  <2>10. AnswerKeepsPromise'
    BY <2>2, <2>5 DEF LogInv, AnswerKeepsPromise
  <2> QED BY <2>6, <2>7, <2>8, <2>9, <2>10 DEF LogInv
<1>11. ASSUME NEW c \in Caller, RUnlock(c) PROVE LogInv'
  <2>1. "answer" \in Steps /\ Goto(c, "answer") /\ call[c].pc = "runlock"
    BY <1>11 DEF Steps, RUnlock, At
  <2>2. /\ Others(c) /\ call'[c].pc = "answer" /\ call'[c].saw = call[c].saw
        /\ call'[c].answer = call[c].answer
    BY <2>1, GotoType
  <2>3. Continues(call'[c].saw, call'[c].answer)
    BY <2>1, <2>2 DEF LogInv, AnswerKeepsPromise
  <2> QED BY <1>11, <1>e, <1>f, <2>1, <2>2, <2>3 DEF RUnlock
<1>12. ASSUME NEW c \in Caller, GetAllLogs(c) PROVE LogInv'
  <2>1. /\ "answer" \in Steps /\ call[c].pc = "list" /\ UNCHANGED <<file, lastSession, unsaved>>
        /\ call' = [call EXCEPT ![c].pc = "answer", ![c].answer = log']
        /\ log' = IF log = NoLog /\ file # NoLog THEN file ELSE log
    BY <1>12 DEF Steps, GetAllLogs, MapWrite, At
  <2>2. log' \in Log /\ log' = Newest /\ Newest' = Newest
    BY <1>a, <2>1 DEF Newest
  <2>3. /\ Others(c) /\ call'[c].pc = "answer" /\ call'[c].saw = call[c].saw
        /\ call'[c].answer = Newest
    BY <2>1, <2>2, AnsweredType
  <2>4. ~Saving /\ ~Saving'
    BY <1>d, <2>1, <2>3 DEF Saving, At
  <2>5. SavedOrSaving' /\ SavesSomething' /\ SessionsBegun' /\ NothingPromised'
    BY <2>1, <2>3, <2>4
       DEF LogInv, SavedOrSaving, SavesSomething, SessionsBegun, NothingPromised
  <2>6. PromiseKept'
    BY <2>2, <2>3 DEF LogInv, PromiseKept
  <2>7. AnswerKeepsPromise'
    BY <2>3 DEF LogInv, PromiseKept, AnswerKeepsPromise
  <2> QED BY <2>5, <2>6, <2>7 DEF LogInv
<1>13. ASSUME NEW c \in Caller, Answer(c) PROVE LogInv'
  <2>1. /\ call' = [call EXCEPT ![c] = NoCall] /\ call[c].pc = "answer"
        /\ UNCHANGED <<log, file, lastSession, unsaved>>
    BY <1>13 DEF Answer, At
  <2>2. Others(c) /\ call'[c].pc = "idle" /\ call'[c].saw = NoLog
    BY <1>a, <2>1
  <2> QED BY <1>e, <2>1, <2>2
<1>14. ASSUME Restart PROVE LogInv'
  <2>1. \A c \in Caller : call'[c].pc = "idle" /\ call'[c].saw = NoLog
    BY <1>14 DEF Restart
  <2>2. ~Saving'
    BY <2>1 DEF Saving, At
  <2>3. SavedOrSaving' /\ SavesSomething' /\ NothingPromised'
    BY <1>14, <2>1, <2>2 DEF Restart, SavedOrSaving, SavesSomething, NothingPromised
  <2>4. SessionsBegun'
    <3>1. file' \in {file, NoLog} /\ log' = NoLog /\ lastSession' = lastSession
      BY <1>14 DEF Restart
    <3> QED BY <3>1 DEF LogInv, SessionsBegun, NoLog, TypeOK
  <2>5. PromiseKept' /\ AnswerKeepsPromise'
    BY <2>1 DEF PromiseKept, AnswerKeepsPromise, Continues
  <2> QED BY <2>3, <2>4, <2>5 DEF LogInv
<1>15. CASE UNCHANGED vars
  BY <1>15 DEF vars, LogInv, SavedOrSaving, SavesSomething, SessionsBegun, NothingPromised,
               PromiseKept, AnswerKeepsPromise, Saving, Newest, At
<1> QED
  BY <1>0, <1>1, <1>2, <1>3, <1>4, <1>5, <1>6, <1>7, <1>8, <1>9, <1>10, <1>11, <1>12, <1>13,
     <1>14, <1>15
     DEF Next, Step, Crash, ConcurrentMapWrites

(* The lock's discipline and the log's hold in every reachable state.      *)
LEMMA LogInvariant == Spec => [](TypeOK /\ LockInv /\ LogInv)
<1>1. Init /\ TypeOK => LogInv
  <2> SUFFICES ASSUME Init, TypeOK PROVE LogInv
    OBVIOUS
  <2>1. \A c \in Caller : call[c].pc = "idle" /\ call[c].saw = NoLog
    BY EmptyTypes DEF Init
  <2>2. ~Saving
    BY <2>1 DEF Saving, At
  <2>3. SavedOrSaving /\ SavesSomething /\ NothingPromised
    BY <2>1, <2>2 DEF Init, SavedOrSaving, SavesSomething, NothingPromised
  <2>4. SessionsBegun
    <3>1. NoLog.session = 0 /\ file.session \in Nat
      BY DEF NoLog, TypeOK, Log
    <3> QED BY <3>1 DEF Init, SessionsBegun
  <2>5. PromiseKept /\ AnswerKeepsPromise
    BY <2>1 DEF PromiseKept, AnswerKeepsPromise, Continues
  <2> QED BY <2>3, <2>4, <2>5 DEF LogInv
<1> QED BY <1>1, LockInvariant, LogStep, PTL DEF Spec

(* When nobody writes and the last save went through, the file is the log  *)
(* in memory (acme_logger.go:397): a save always follows a change before   *)
(* the lock is let go of.                                                  *)
THEOREM FileIsCurrentTheorem == Spec => []FileIsCurrent
<1>1. TypeOK /\ LockInv /\ LogInv => FileIsCurrent
  BY DEF LockInv, HoldsLock, LogInv, SavedOrSaving, Saving, At, FileIsCurrent
<1> QED BY <1>1, LogInvariant, PTL

(* A page shows at least what was logged when its request began, although  *)
(* GetDomainLog lets go of the lock twice (acme_logger.go:429-445).        *)
THEOREM PageIsRecentTheorem == Spec => []PageIsRecent
<1>1. LogInv => PageIsRecent
  BY DEF LogInv, AnswerKeepsPromise, At, PageIsRecent
<1> QED BY <1>1, LogInvariant, PTL

(* No step puts an older log over a newer one while the saves succeed:     *)
(* what loadFromFileLocked finds in the gap of GetDomainLog is the log     *)
(* that was begun in it (acme_logger.go:429-445, 519).                     *)
THEOREM NeverBackwardsTheorem == Spec => NeverBackwards
<1>1. TypeOK /\ LockInv /\ LogInv /\ [Next]_vars
        => [log' = NoLog \/ unsaved \/ Continues(log, log')]_vars
  <2> SUFFICES ASSUME TypeOK, LockInv, LogInv, Next, ~unsaved
               PROVE  log' = NoLog \/ Continues(log, log')
    OBVIOUS
  <2>1. log \in Log
    BY DEF TypeOK
  <2>2. CASE UNCHANGED log
    BY <2>1, <2>2, ContinuesReflexive
  <2>3. ASSUME NEW c \in Caller, StartDomainLog(c) \/ AddEntry(c) \/ SetValue(c) \/ SetStatus(c)
        PROVE  Continues(log, log')
    <3>1. Continues(Newest, log')
      BY <2>3, WrittenContinues
    <3> QED BY <3>1 DEF Newest, Continues
  <2>4. ASSUME NEW c \in Caller, LoadFromFile(c) PROVE Continues(log, log')
    <3>1. ~Saving
      BY <2>4 DEF LoadFromFile, Section, At, Saving, LockInv, HoldsLock, OneWriter
    <3>2. log = NoLog \/ log' = log
      BY <2>4, <3>1 DEF LoadFromFile, LogInv, SavedOrSaving
    <3> QED BY <2>1, <3>2, ContinuesReflexive DEF Continues
  <2>5. ASSUME NEW c \in Caller, GetAllLogs(c) PROVE Continues(log, log')
    <3>1. log = NoLog \/ log' = log
      BY <2>5 DEF GetAllLogs, MapWrite
    <3> QED BY <2>1, <3>1, ContinuesReflexive DEF Continues
  <2>6. CASE Restart
    BY <2>6 DEF Restart
  <2>7. ASSUME NEW c \in Caller, NEW op \in DOMAIN Sections, Call(c, op) PROVE UNCHANGED log
    BY <2>7 DEF Call
  <2>8. ASSUME NEW c \in Caller,
               \/ Queue(c) \/ Lock(c) \/ RLock(c) \/ SetSummary(c) \/ NothingToSet(c) \/ SaveToFile(c)
               \/ SaveFails(c) \/ Found(c) \/ Missing(c) \/ RUnlock(c) \/ Answer(c)
        PROVE  UNCHANGED log
    BY <2>8 DEF Queue, Lock, RLock, SetSummary, NothingToSet, SaveToFile, SaveFails, Found, Missing,
                RUnlock, Answer
  <2> QED
    BY <2>2, <2>3, <2>4, <2>5, <2>6, <2>7, <2>8 DEF Next, Step, Crash, ConcurrentMapWrites
<1> QED BY <1>1, LogInvariant, PTL DEF Spec, NeverBackwards

=============================================================================
