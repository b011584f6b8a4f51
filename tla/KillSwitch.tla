------------------------------ MODULE KillSwitch ------------------------------
(***************************************************************************)
(* The kill switch (src/execution/risk.py): a file on the machine and a    *)
(* Firestore document, either of which stops trading.  The dashboard       *)
(* engages and releases it from the laptop; a LIVE run that meets trouble  *)
(* engages it from a Cloud Run container, whose disk ends with the run.    *)
(***************************************************************************)
EXTENDS Naturals

CONSTANTS
  Clicks,  \* dashboard requests
  Runs     \* LIVE runs of the trade job, each in a container of its own

VARIABLES
  file,   \* machine -> is there a KILL_SWITCH file?
  doc,    \* `active` of the document system/kill_switch
  pc,     \* where each click and each run is
  want,   \* does it engage or release?
  was,    \* was the switch active when it looked?
  log,    \* what the newest kill_switch entry of the audit log says
  owed,   \* history: a stop was reported done, and nobody has asked to release since
  raced,  \* history: two processes have been at the switch at once
  failed  \* history: Firestore did not take a write or answer its check, or the
          \* dashboard was killed at the switch

history    == <<raced, failed>>
switchVars == <<file, doc, pc, want, was, log, owed, history>>

Actors     == Clicks \cup Runs
Laptop     == "laptop"
Machine(a) == IF a \in Runs THEN a ELSE Laptop

\* A request to the dashboard is not a run, and no run's container is the laptop.
ASSUME SeparateActors == Clicks \cap Runs = {} /\ Laptop \notin Runs

Operating(a) == pc[a] \in {"file", "doc", "report"}
\* kill_switch_state: the file first, then the document, which counts as
\* engaged when it cannot be read.
Active(m, reached) == file[m] \/ ~reached \/ doc

-----------------------------------------------------------------------------
\* kill_switch_active, as build_context reads it when a run starts.
Begin(r) ==
  /\ pc[r] = "idle"
  /\ \E reached \in BOOLEAN :
       pc' = [pc EXCEPT ![r] = IF Active(Machine(r), reached) THEN "stopped" ELSE "trading"]
  /\ UNCHANGED <<file, doc, want, was, log, owed, history>>

\* set_kill_switch on a click; hold_trading on trouble in a run.
Operate(a, engage) ==
  /\ \E reached \in BOOLEAN : was' = [was EXCEPT ![a] = Active(Machine(a), reached)]
  /\ want' = [want EXCEPT ![a] = engage]
  /\ pc' = [pc EXCEPT ![a] = "file"]
  /\ owed' = (owed /\ engage)
  /\ raced' = (raced \/ \E b \in Actors : Operating(b))
  /\ UNCHANGED <<file, doc, log, failed>>

Click(a) == pc[a] = "idle"    /\ \E engage \in BOOLEAN : Operate(a, engage)
Hold(r)  == pc[r] = "trading" /\ Operate(r, TRUE)

\* engage_kill_switch and release_kill_switch: the file ...
WriteFile(a) ==
  /\ pc[a] = "file"
  /\ file' = [file EXCEPT ![Machine(a)] = want[a]]
  /\ pc' = [pc EXCEPT ![a] = "doc"]
  /\ UNCHANGED <<doc, want, was, log, owed, history>>

\* Mutated form of WriteDoc: the file is all there is, as before Cloud Run.
WriteNoDoc(a) ==
  /\ pc[a] = "doc"
  /\ pc' = [pc EXCEPT ![a] = "report"]
  /\ UNCHANGED <<file, doc, want, was, log, owed, history>>

\* ... then the document; a failure to write it is swallowed.
WriteDoc(a) ==
  /\ pc[a] = "doc"
  /\ \/ doc' = want[a] /\ UNCHANGED failed
     \/ failed' = TRUE /\ UNCHANGED doc
  /\ pc' = [pc EXCEPT ![a] = "report"]
  /\ UNCHANGED <<file, want, was, log, owed, raced>>

\* Mutated form of Report: only an engagement is audited.
ReportEngagements(a) ==
  /\ pc[a] = "report"
  /\ \E read \in BOOLEAN :
       LET active == Active(Machine(a), read) IN
       /\ log'  = (log \/ (active /\ ~was[a]))
       /\ failed' = (failed \/ ~read)
       /\ owed' = (owed \/ (want[a] /\ active))
  /\ pc' = [pc EXCEPT ![a] = "gone"]
  /\ file' = IF a \in Runs THEN [file EXCEPT ![a] = FALSE] ELSE file
  /\ UNCHANGED <<doc, want, was, raced>>

\* The state read back is what the caller is told and, where it changed, what
\* the audit log gets.  A container's disk goes when its run ends.
Report(a) ==
  /\ pc[a] = "report"
  /\ \E read, written \in BOOLEAN :
       LET active == Active(Machine(a), read) IN
       /\ log'  = IF active # was[a] /\ written THEN active ELSE log
       /\ failed' = (failed \/ ~read \/ ~written)
       /\ owed' = (owed \/ (want[a] /\ active))
  /\ pc' = [pc EXCEPT ![a] = "gone"]
  /\ file' = IF a \in Runs THEN [file EXCEPT ![a] = FALSE] ELSE file
  /\ UNCHANGED <<doc, want, was, raced>>

\* A run ends without trouble, or is killed wherever it is.
End(r) ==
  /\ pc[r] \notin {"idle", "gone"}
  /\ pc' = [pc EXCEPT ![r] = "gone"]
  /\ file' = [file EXCEPT ![r] = FALSE]
  /\ UNCHANGED <<doc, want, was, log, owed, history>>

\* The dashboard is killed at the switch.
Abort(a) ==
  /\ Operating(a)
  /\ pc' = [pc EXCEPT ![a] = "gone"]
  /\ failed' = TRUE
  /\ UNCHANGED <<file, doc, want, was, log, owed, raced>>

SwitchInit ==
  /\ file = [m \in Runs \cup {Laptop} |-> FALSE]
  /\ doc = FALSE
  /\ pc = [a \in Actors |-> "idle"]
  /\ want = [a \in Actors |-> FALSE]
  /\ was = [a \in Actors |-> FALSE]
  /\ log = FALSE
  /\ owed = FALSE
  /\ raced = FALSE /\ failed = FALSE

SwitchNext ==
  \/ \E a \in Clicks : Click(a) \/ Abort(a)
  \/ \E r \in Runs : Begin(r) \/ Hold(r) \/ End(r)
  \/ \E a \in Actors : WriteFile(a) \/ WriteDoc(a) \/ Report(a)

SwitchSpec == SwitchInit /\ [][SwitchNext]_switchVars

-----------------------------------------------------------------------------
\* Every variable holds a value the code can put there, and no container keeps
\* its file past its run.
SwitchTypeOK ==
  /\ file \in [Runs \cup {Laptop} -> BOOLEAN]
  /\ doc \in BOOLEAN
  /\ pc \in [Actors -> {"idle", "trading", "stopped", "file", "doc", "report", "gone"}]
  /\ want \in [Actors -> BOOLEAN] /\ was \in [Actors -> BOOLEAN]
  /\ {log, owed, raced, failed} \subseteq BOOLEAN
  /\ \A r \in Runs : file[r] => pc[r] \in {"doc", "report"}

\* One process at a time has operated the switch, to its end, and Firestore took
\* what it was given.  (Firestore may be out of reach when a run or an operation
\* begins by looking at the switch, which then counts as engaged.)
Undisturbed == ~raced /\ ~failed

\* Nobody is at the switch.
Quiet == \A a \in Actors : ~Operating(a)

\* hold_trading and the dashboard keep their word: after a stop was reported
\* done, no run on any machine starts trading until a person asks to release.
StopReachesEveryRun ==
  [][\A r \in Runs : pc[r] = "idle" /\ pc'[r] = "trading" => ~(owed /\ Undisturbed)]_switchVars

\* The audit log does not say stopped of a switch that lets the job trade.  (The
\* reverse happens: a run cut off before its entry.)
AuditTellsTheState == Quiet /\ Undisturbed => (log => doc)
=============================================================================
