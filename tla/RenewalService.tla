--------------------------- MODULE RenewalService ---------------------------
(***************************************************************************)
(* What the rest of the server sees of the certificate renewal service:    *)
(* Start begins with a check, the ticker brings another one, Stop asks the *)
(* loop to end and the loop ends between two checks.                       *)
(***************************************************************************)

VARIABLES
  running,  \* CertRenewalService.running
  loop      \* the goroutine: "off", "checking" or "waiting"

serviceVars == <<running, loop>>

Off == ~running /\ loop = "off"

Start ==
  /\ Off
  /\ running' = TRUE
  /\ loop' = "checking"

CheckEnds ==
  /\ loop = "checking"
  /\ loop' = "waiting"
  /\ UNCHANGED running

Tick ==
  /\ loop = "waiting"
  /\ loop' = "checking"
  /\ UNCHANGED running

Stop ==
  /\ running
  /\ running' = FALSE
  /\ UNCHANGED loop

LoopEnds ==
  /\ ~running
  /\ loop = "waiting"
  /\ loop' = "off"
  /\ UNCHANGED running

\* The process ends.
Killed ==
  /\ running' = FALSE
  /\ loop' = "off"

ServiceNext == Start \/ CheckEnds \/ Tick \/ Stop \/ LoopEnds \/ Killed

(* A check is over after five minutes at the latest.  A closed stop        *)
(* channel is ready whenever the loop is at its select, and select does    *)
(* not prefer the ticker for ever.                                         *)
ServiceFairness == WF_serviceVars(CheckEnds) /\ SF_serviceVars(LoopEnds)

ServiceSpec == Off /\ [][ServiceNext]_serviceVars /\ ServiceFairness

=============================================================================
