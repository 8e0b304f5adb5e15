------------------------- MODULE DockerUpdate_proofs -------------------------
(***************************************************************************)
(* Proofs about the update job, for any nodes and balancers, any number of *)
(* callers of Start, and any number of jobs and of restarts of the panel.  *)
(*                                                                         *)
(* Every edit of the job keeps it a job, and whoever edits it has one: so  *)
(* the types are kept.  With one caller of Start at a time the claim and   *)
(* Resume exclude each other: so one run executes at a time.               *)
(*                                                                         *)
(* Then the verdicts: where they come from, that they stand, and that a    *)
(* job persisted as done has them all; and the triggers, when saves        *)
(* succeed: that the panel's is sent once a job and last, that a node on   *)
(* the panel's host waits for the remote ones, and that the database knows *)
(* a trigger before it leaves.  The lemmas under "What steps write" say    *)
(* what a step of the run and one of a unit's goroutine may write into the *)
(* job; the others work with these shapes.                                 *)
(***************************************************************************)
EXTENDS DockerUpdate, TLAPS

RunnerOK ==
  /\ running \in BOOLEAN
  /\ job \in Job \cup {NoJob} /\ disk \in Job \cup {NoJob} /\ loaded \in Job \cup {NoJob}
  /\ unsaved \in [Runs -> [Threads -> Job \cup {NoJob}]]
WorkersOK ==
  /\ wpc \in [Runs -> [Units -> WorkerPc]] /\ call \in [Runs -> [Units -> Call]]
  /\ settle \in [Runs -> [Units -> BOOLEAN]] /\ expired \in [Runs -> [Units -> BOOLEAN]]
WorldOK ==
  /\ up \in [Units -> BOOLEAN] /\ ver \in [Units -> Version] /\ asked \in [Units -> BOOLEAN]
  /\ pver \in Version
HistoryOK == sent \in [Units -> Nat] /\ downs \in [Units -> 0..MaxDowns] /\ psent \in Nat
BoundsOK == jobs \in 0..MaxJobs /\ crashes \in 0..MaxCrashes
MainOK == main \in [Runs -> MainPc]

\* The type invariant by parts.
LEMMA TypeParts ==
  /\ TypeOK <=>
       alive \in BOOLEAN /\ RunnerOK /\ MainOK /\ WorkersOK /\ BoundsOK /\ WorldOK /\ HistoryOK
  /\ TypeOK' <=>
       alive' \in BOOLEAN /\ RunnerOK' /\ MainOK' /\ WorkersOK' /\ BoundsOK' /\ WorldOK' /\ HistoryOK'
BY DEF TypeOK, RunnerOK, MainOK, WorkersOK, BoundsOK, WorldOK, HistoryOK

\* The bounds are numbers.
LEMMA Numbers == MaxVersion \in Nat \ {0} /\ MaxJobs \in Nat /\ MaxCrashes \in Nat
                 /\ MaxDowns \in Nat \ {0} /\ Boot \in Runs /\ Callers \subseteq Runs /\ Boot \notin Callers
BY ConstAssumption DEF ConstAssumption, Runs

-----------------------------------------------------------------------------
(* Edits of the job *)

\* What a unit's goroutine writes into the job leaves a job.
LEMMA UnitEdits ==
  ASSUME job \in Job, NEW u \in Units
  PROVE  /\ \A s \in Status : Mark(u, s) \in Job
         /\ [job EXCEPT !.st[u] = "triggering", !.trig[u] = TRUE] \in Job
         /\ [job EXCEPT !.st[u] = "restarting", !.off[u] = TRUE] \in Job
         /\ \A v \in Version, s \in Status : [job EXCEPT !.st[u] = s, !.after[u] = v] \in Job
<1> USE DEF Job
<1>1. \A s \in Status : Mark(u, s) \in Job
  BY DEF Mark
<1>2. {"triggering", "restarting"} \subseteq Status
  BY DEF Status
<1>3. [job EXCEPT !.st[u] = "triggering", !.trig[u] = TRUE] \in Job
  BY <1>2
<1>4. [job EXCEPT !.st[u] = "restarting", !.off[u] = TRUE] \in Job
  BY <1>2
<1>5. \A v \in Version, s \in Status : [job EXCEPT !.st[u] = s, !.after[u] = v] \in Job
  OBVIOUS
<1> QED
  BY <1>1, <1>3, <1>4, <1>5

\* So does what the run writes into it.
LEMMA RunEdits ==
  ASSUME job \in Job
  PROVE  /\ \A s \in Status : [job EXCEPT !.pst = s] \in Job
         /\ [job EXCEPT !.pst = "triggering", !.ptrig = TRUE] \in Job
         /\ Sealed \in Job /\ Flagged \in Job
<1> USE DEF Job
<1>1. {"triggering", "error"} \subseteq Status
  BY DEF Status, Final
<1>2. \A s \in Status : [job EXCEPT !.pst = s] \in Job
  OBVIOUS
<1>3. [job EXCEPT !.pst = "triggering", !.ptrig = TRUE] \in Job
  BY <1>1
<1>4. Sealed \in Job
  BY DEF Sealed
<1>5. Flagged \in Job
  <2>1. [u \in Units |-> IF u \in JobNodes /\ Behind(u) THEN "error" ELSE job.st[u]] \in [Units -> Status]
    BY <1>1
  <2> QED
    BY <2>1 DEF Flagged
<1> QED
  BY <1>2, <1>3, <1>4, <1>5

\* A new job is a job, and so is an abandoned one.
LEMMA OtherJobs ==
  ASSUME TypeOK
  PROVE  /\ jobs < MaxJobs => NewJob \in Job
         /\ loaded \in Job => Abandoned(loaded) \in Job
<1> USE DEF Job
<1>1. ASSUME jobs < MaxJobs PROVE NewJob \in Job
  <2>1. jobs + 1 \in 1..MaxJobs
    BY <1>1, Numbers DEF TypeOK
  <2>2. [u \in Units |-> IF u \in Disabled THEN "skipped" ELSE "pending"] \in [Units -> Status]
    BY DEF Status, Final
  <2>3. [u \in Units |-> IF u \in Unversioned THEN 0 ELSE ver[u]] \in [Units -> Version]
    BY Numbers DEF TypeOK, Version
  <2>4. "pending" \in Status /\ 0 \in Version /\ pver \in Version
    BY Numbers DEF Status, Version, TypeOK
  <2> QED
    BY <2>1, <2>2, <2>3, <2>4 DEF NewJob
<1>2. ASSUME loaded \in Job PROVE Abandoned(loaded) \in Job
  <2>1. "error" \in Status
    BY DEF Status, Final
  <2> QED
    BY <1>2, <2>1 DEF Abandoned
<1> QED
  BY <1>1, <1>2

\* update() keeps the types.
LEMMA UpdateTyped ==
  ASSUME RunnerOK, NEW r \in Runs, NEW t \in Threads, NEW j \in Job, Update(r, t, j)
  PROVE  RunnerOK' /\ job' \in Job /\ UNCHANGED <<running, loaded>>
BY DEF Update, RunnerOK

\* So does leaving the runner alone.
LEMMA RunnerUnchanged ==
  ASSUME RunnerOK, UNCHANGED runner
  PROVE  RunnerOK' /\ UNCHANGED <<job, running, loaded>>
BY DEF runner, RunnerOK

\* A unit and the run itself are threads.
LEMMA ThreadKinds == Main \in Threads /\ Units \subseteq Threads
BY DEF Main, Threads

\* Whoever keeps the job a job and goes on with a phase of the run keeps JobInv.
LEMMA JobInvKept ==
  ASSUME TypeOK, JobInv, job' \in Job, UNCHANGED loaded,
         \/ UNCHANGED main
         \/ \E r \in Runs, pc \in MainPc \ {"listing", "load", "loaded", "missed"} : Goto(r, pc)
  PROVE  JobInv'
<1>1. \A r \in Runs : main'[r] = main[r] \/ main'[r] \notin {"listing", "load", "loaded", "missed"}
  BY DEF Goto, TypeOK
<1> QED
  BY <1>1, Numbers DEF JobInv

-----------------------------------------------------------------------------
(* Every step keeps the types and JobInv *)

TypedInv == TypeOK /\ JobInv

\* Parts that a step leaves alone keep their types.
LEMMA PartsUnchanged ==
  /\ UNCHANGED main /\ MainOK => MainOK'
  /\ UNCHANGED workers /\ WorkersOK => WorkersOK'
  /\ UNCHANGED bounds /\ BoundsOK => BoundsOK'
  /\ UNCHANGED world /\ WorldOK => WorldOK'
  /\ UNCHANGED history /\ HistoryOK => HistoryOK'
BY DEF MainOK, WorkersOK, BoundsOK, WorldOK, HistoryOK, workers, bounds, world, history

\* Going somewhere, and launching goroutines.
LEMMA ControlTyped ==
  /\ \A r \in Runs, pc \in MainPc : MainOK /\ Goto(r, pc) => MainOK'
  /\ \A r \in Runs, S \in SUBSET Units : WorkersOK /\ Launch(r, S) => WorkersOK'
<1>1. ASSUME NEW r \in Runs, NEW pc \in MainPc, MainOK, Goto(r, pc) PROVE MainOK'
  BY <1>1 DEF MainOK, Goto
<1>2. ASSUME NEW r \in Runs, NEW S \in SUBSET Units, WorkersOK, Launch(r, S) PROVE WorkersOK'
  <2>1. [u \in Units |-> IF u \in S THEN "launched" ELSE wpc[r][u]] \in [Units -> WorkerPc]
    BY <1>2 DEF WorkersOK, WorkerPc
  <2>2. wpc' \in [Runs -> [Units -> WorkerPc]]
    BY <1>2, <2>1 DEF Launch, WorkersOK
  <2> QED
    BY <1>2, <2>2 DEF Launch, WorkersOK
<1> QED
  BY <1>1, <1>2

\* A save.
LEMMA SaveTyped ==
  ASSUME TypedInv, NEW r \in Runs, NEW t \in Threads, Save(r, t)
  PROVE  TypedInv'
<1>1. RunnerOK' /\ alive' \in BOOLEAN
  BY TypeParts DEF Save, TypedInv, RunnerOK
<1>2. TypeOK'
  BY <1>1, TypeParts, PartsUnchanged DEF Save, TypedInv
<1>3. JobInv'
  BY DEF Save, TypedInv, JobInv, Executing, workers
<1> QED
  BY <1>2, <1>3 DEF TypedInv

\* Start.
LEMMA StartTyped ==
  ASSUME TypedInv, NEW c \in Callers, StartClaim(c) \/ StartFails(c) \/ StartInstall(c)
  PROVE  TypedInv'
<1> USE DEF TypedInv
<1>1. c \in Runs /\ c # Boot /\ {"listing", "none", "begin"} \subseteq MainPc
  BY Numbers DEF MainPc
<1>2. CASE StartClaim(c) \/ StartFails(c)
  <2>1. RunnerOK' /\ alive' \in BOOLEAN
    BY <1>2, TypeParts DEF StartClaim, StartFails, RunnerOK
  <2>2. MainOK'
    BY <1>1, <1>2, TypeParts, ControlTyped DEF StartClaim, StartFails
  <2>3. TypeOK'
    BY <1>2, <2>1, <2>2, TypeParts, PartsUnchanged DEF StartClaim, StartFails
  <2>4. \A r \in Runs : main'[r] = main[r] \/ (r = c /\ main'[r] \in {"listing", "none"})
    BY <1>2 DEF StartClaim, StartFails, Goto, TypeOK
  <2>5. UNCHANGED <<job, loaded, wpc>>
    BY <1>2 DEF StartClaim, StartFails, workers
  <2>6. JobInv'
    BY <1>1, <2>4, <2>5, Numbers DEF JobInv, Executing
  <2> QED
    BY <2>3, <2>6
<1>3. CASE StartInstall(c)
  <2>1. NewJob \in Job /\ jobs + 1 \in 0..MaxJobs
    BY <1>3, OtherJobs, Numbers DEF StartInstall, TypeOK
  <2>2. RunnerOK' /\ job' \in Job /\ UNCHANGED <<running, loaded>>
    BY <1>1, <1>3, <2>1, TypeParts, ThreadKinds, UpdateTyped DEF StartInstall
  <2>3. MainOK' /\ BoundsOK' /\ WorldOK'
    BY <1>1, <1>3, <2>1, TypeParts, ControlTyped DEF StartInstall, BoundsOK, WorldOK
  <2>4. HistoryOK'
    BY <1>3, Numbers DEF StartInstall, HistoryOK
  <2>5. TypeOK'
    BY <1>3, <2>2, <2>3, <2>4, TypeParts, PartsUnchanged DEF StartInstall
  <2>6. JobInv'
    BY <1>1, <1>3, <2>2, JobInvKept DEF StartInstall
  <2> QED
    BY <2>5, <2>6
<1> QED
  BY <1>2, <1>3

\* Resume.
LEMMA ResumeTyped ==
  ASSUME TypedInv, ResumeLoad \/ ResumeAbandon \/ ResumeRun
  PROVE  TypedInv'
<1> USE DEF TypedInv
<1>1. {"loaded", "none", "missed", "begin"} \subseteq MainPc /\ Boot \in Runs
  BY Numbers DEF MainPc
<1>2. \A c \in Callers : c # Boot
  BY Numbers
<1>3. CASE ResumeLoad
  <2>1. TypeOK'
    <3>1. RunnerOK' /\ alive' \in BOOLEAN
      BY <1>3, TypeParts DEF ResumeLoad, RunnerOK
    <3>2. MainOK'
      BY <1>1, <1>3, TypeParts, ControlTyped DEF ResumeLoad
    <3> QED
      BY <1>3, <3>1, <3>2, TypeParts, PartsUnchanged DEF ResumeLoad
  <2>2. \A r \in Runs : main'[r] = main[r] \/ (r = Boot /\ main'[r] \in {"loaded", "none", "missed"})
    BY <1>3 DEF ResumeLoad, Goto, TypeOK
  <2>3. main'[Boot] = "loaded" => loaded' \in Job
    BY <1>1, <1>3, NoJobAssumption DEF ResumeLoad, Goto, TypeOK, Open
  <2>4. main'[Boot] # "listing"
    BY <1>1, <2>2 DEF JobInv
  <2>5. UNCHANGED <<job, wpc>>
    BY <1>3 DEF ResumeLoad, workers
  <2> QED
    BY <1>2, <2>1, <2>2, <2>3, <2>4, <2>5, Numbers DEF JobInv, Executing
<1>4. CASE ResumeAbandon
  <2>1. Abandoned(loaded) \in Job
    BY <1>4, OtherJobs DEF ResumeAbandon, JobInv
  <2>2. TypeOK'
    <3>1. RunnerOK' /\ alive' \in BOOLEAN
      BY <1>4, <2>1, TypeParts DEF ResumeAbandon, RunnerOK
    <3>2. MainOK'
      BY <1>1, <1>4, TypeParts, ControlTyped DEF ResumeAbandon
    <3> QED
      BY <1>4, <3>1, <3>2, TypeParts, PartsUnchanged DEF ResumeAbandon
  <2>3. \A r \in Runs : main'[r] = main[r] \/ (r = Boot /\ main'[r] = "none")
    BY <1>4 DEF ResumeAbandon, Goto, TypeOK
  <2>4. main'[Boot] = "none"
    BY <1>1, <1>4 DEF ResumeAbandon, Goto, TypeOK
  <2>5. UNCHANGED <<job, wpc>>
    BY <1>4 DEF ResumeAbandon, workers
  <2> QED
    BY <1>2, <2>2, <2>3, <2>4, <2>5, Numbers DEF JobInv, Executing
<1>5. CASE ResumeRun
  <2>1. loaded \in Job /\ loaded' = NoJob
    BY <1>5 DEF ResumeRun, JobInv
  <2>2. TypeOK'
    <3>1. RunnerOK' /\ alive' \in BOOLEAN
      BY <1>5, <2>1, TypeParts DEF ResumeRun, RunnerOK
    <3>2. MainOK'
      BY <1>1, <1>5, TypeParts, ControlTyped DEF ResumeRun
    <3> QED
      BY <1>5, <3>1, <3>2, TypeParts, PartsUnchanged DEF ResumeRun
  <2>3. \A r \in Runs \ {Boot} : main'[r] = main[r]
    BY <1>5 DEF ResumeRun, Goto, TypeOK
  <2>4. \/ main'[Boot] = "missed" /\ job' = job
        \/ main'[Boot] = "begin" /\ job' \in Job
    BY <1>1, <1>5, <2>1 DEF ResumeRun, Goto, TypeOK
  <2>5. UNCHANGED wpc
    BY <1>5 DEF ResumeRun, workers
  <2> QED
    BY <1>2, <2>2, <2>3, <2>4, <2>5, Numbers DEF JobInv, Executing
<1> QED
  BY <1>3, <1>4, <1>5

-----------------------------------------------------------------------------
(* The run *)

ExecPc == MainPc \ {"none", "listing", "load", "loaded", "missed"}

\* A phase of the run, but for its end: it goes on to another phase, edits the
\* job at most, and launches goroutines at most.
Phase(r) ==
  /\ Executing(r)
  /\ UNCHANGED main \/ \E pc \in ExecPc : Goto(r, pc)
  /\ UNCHANGED runner \/ \E j \in Job : Update(r, Main, j)
  /\ UNCHANGED workers \/ \E S \in SUBSET Units : Launch(r, S)
  /\ UNCHANGED <<alive, bounds, world>>
  /\ UNCHANGED history \/ (psent' = psent + 1 /\ UNCHANGED <<sent, downs>>)

LEMMA MainStepsArePhases ==
  ASSUME TypedInv, NEW r \in Runs, MainStep(r)
  PROVE  Phase(r) \/ Return(r)
<1> USE DEF Phase
<1>1. \/ main[r] = "begin" \/ main[r] = "workers" \/ main[r] = "waitWorkers" \/ main[r] = "local"
      \/ main[r] = "flag" \/ main[r] = "balancers" \/ main[r] = "launchBalancers"
      \/ main[r] = "waitBalancers"
      \/ main[r] = "panel" \/ main[r] = "panelUpdate" \/ main[r] = "panelSend"
      \/ main[r] = "panelWait" \/ main[r] = "seal" \/ main[r] = "return"
  BY DEF MainStep, Begin, LaunchWorkers, WaitWorkers, LaunchLocal, LocalDone, FlagStuckNodes,
         BalancersPhase, LaunchBalancers, WaitBalancers, PanelPhase, UpdatePanel, TriggerPanel,
         PanelSurvives, Seal, Return
<1>2. Executing(r)
  BY <1>1 DEF Executing
<1>3. job \in Job
  BY <1>2 DEF TypedInv, JobInv
<1>4. /\ "workers" \in ExecPc /\ "balancers" \in ExecPc /\ "waitWorkers" \in ExecPc
      /\ "local" \in ExecPc /\ "flag" \in ExecPc /\ "waitBalancers" \in ExecPc
      /\ "panel" \in ExecPc /\ "panelUpdate" \in ExecPc /\ "panelSend" \in ExecPc
      /\ "panelWait" \in ExecPc /\ "seal" \in ExecPc /\ "return" \in ExecPc
      /\ "launchBalancers" \in ExecPc
  BY DEF ExecPc, MainPc
<1>5. Sealed \in Job /\ Flagged \in Job /\ [job EXCEPT !.pst = "triggering", !.ptrig = TRUE] \in Job
  BY <1>3, RunEdits
<1>6. /\ [job EXCEPT !.pst = "updated"] \in Job /\ [job EXCEPT !.pst = "uptodate"] \in Job
      /\ [job EXCEPT !.pst = "error"] \in Job
      /\ [job EXCEPT !.pst = IF pver # job.pbefore THEN "updated" ELSE "uptodate"] \in Job
  BY <1>3, RunEdits DEF Status, Final
<1>7. Pending(Remote) \in SUBSET Units /\ Pending(Balancers) \in SUBSET Units
      /\ \A u \in Units : {u} \in SUBSET Units
  BY DEF Pending, Remote, JobNodes, Units
<1>8. CASE Begin(r)
  BY <1>2, <1>3, <1>4, <1>8 DEF Begin
<1>9. CASE LaunchWorkers(r)
  BY <1>2, <1>4, <1>7, <1>9 DEF LaunchWorkers
<1>10. CASE WaitWorkers(r) \/ LocalDone(r) \/ PanelPhase(r)
  BY <1>2, <1>3, <1>4, <1>10 DEF WaitWorkers, LocalDone, PanelPhase
<1>11. CASE \E u \in Units : LaunchLocal(r, u)
  BY <1>2, <1>7, <1>11 DEF LaunchLocal
<1>12. CASE FlagStuckNodes(r)
  BY <1>2, <1>4, <1>5, <1>12 DEF FlagStuckNodes
<1>13. CASE BalancersPhase(r) \/ LaunchBalancers(r)
  BY <1>2, <1>3, <1>4, <1>7, <1>13 DEF BalancersPhase, LaunchBalancers
<1>14. CASE WaitBalancers(r)
  BY <1>2, <1>4, <1>14 DEF WaitBalancers
<1>15. CASE UpdatePanel(r)
  BY <1>2, <1>4, <1>5, <1>6, <1>15 DEF UpdatePanel
<1>16. CASE TriggerPanel(r)
  BY <1>2, <1>4, <1>16 DEF TriggerPanel
<1>17. CASE PanelSurvives(r)
  BY <1>2, <1>4, <1>6, <1>17 DEF PanelSurvives
<1>18. CASE Seal(r)
  BY <1>2, <1>4, <1>5, <1>18 DEF Seal
<1> QED
  BY <1>8, <1>9, <1>10, <1>11, <1>12, <1>13, <1>14, <1>15, <1>16, <1>17, <1>18 DEF MainStep

LEMMA MainTyped ==
  ASSUME TypedInv, NEW r \in Runs, MainStep(r)
  PROVE  TypedInv'
<1> USE DEF TypedInv
<1>1. CASE Phase(r)
  <2>1. job \in Job /\ ExecPc \subseteq MainPc
    BY <1>1 DEF Phase, JobInv, ExecPc
  <2>2. RunnerOK' /\ job' \in Job /\ UNCHANGED <<running, loaded>>
    BY <1>1, <2>1, TypeParts, ThreadKinds, UpdateTyped, RunnerUnchanged DEF Phase
  <2>3. MainOK' /\ WorkersOK'
    BY <1>1, <2>1, TypeParts, ControlTyped, PartsUnchanged DEF Phase
  <2>4. BoundsOK' /\ WorldOK' /\ alive' \in BOOLEAN
    BY <1>1, TypeParts, PartsUnchanged DEF Phase
  <2>5. HistoryOK'
    BY <1>1, TypeParts, PartsUnchanged DEF Phase, HistoryOK
  <2>6. UNCHANGED main \/ \E pc \in MainPc \ {"listing", "load", "loaded", "missed"} : Goto(r, pc)
    BY <1>1 DEF Phase, ExecPc
  <2>7. JobInv'
    BY <2>2, <2>6, JobInvKept
  <2> QED
    BY <2>2, <2>3, <2>4, <2>5, <2>7, TypeParts
<1>2. CASE Return(r)
  <2>1. "none" \in MainPc /\ "none" \in WorkerPc
    BY DEF MainPc, WorkerPc
  <2>2. RunnerOK' /\ alive' \in BOOLEAN
    BY <1>2, TypeParts DEF Return, RunnerOK
  <2>3. WorkersOK'
    BY <1>2, <2>1, TypeParts DEF Return, WorkersOK
  <2>4. MainOK'
    BY <1>2, <2>1, TypeParts, ControlTyped DEF Return
  <2>5. TypeOK'
    BY <1>2, <2>2, <2>3, <2>4, TypeParts, PartsUnchanged DEF Return
  <2>6. job \in Job /\ job' = job /\ loaded' = loaded
    BY <1>2 DEF Return, JobInv, Executing
  <2>7. JobInv'
    BY <1>2, <2>1, <2>6, JobInvKept DEF Return
  <2> QED
    BY <2>5, <2>7
<1> QED
  BY <1>1, <1>2, MainStepsArePhases

-----------------------------------------------------------------------------
(* The goroutines of the units *)

\* A step of a unit's goroutine that has not ended: an edit of the job at most.
LEMMA UnitTyped ==
  ASSUME TypedInv, NEW r \in Runs, NEW u \in Units, UnitStep(r, u)
  PROVE  TypedInv'
<1> USE DEF TypedInv
<1>1. wpc[r][u] \notin {"none", "exited"}
  BY DEF UnitStep, At, NotFound, RecordTrigger, SpawnTrigger, VerifyOnly, Select, ProbeFails,
         ProbeUpdated, ProbeSettled, ProbeUndecided, CheckDeadline
<1>2. job \in Job /\ u \in Threads
  BY <1>1, ThreadKinds DEF JobInv
<1>3. UNCHANGED <<alive, main, bounds, world, history>>
  BY DEF UnitStep, NotFound, RecordTrigger, SpawnTrigger, VerifyOnly, Select, ProbeFails,
         ProbeUpdated, ProbeSettled, ProbeUndecided, CheckDeadline
<1>4. {"updated", "uptodate", "error"} \subseteq Status
  BY DEF Status, Final
<1>5. UNCHANGED runner \/ \E j \in Job : Update(r, u, j)
  BY <1>2, <1>4, UnitEdits
  DEF UnitStep, NotFound, RecordTrigger, SpawnTrigger, VerifyOnly, Select, ProbeFails,
      ProbeUpdated, ProbeSettled, ProbeUndecided, CheckDeadline
<1>6. RunnerOK' /\ job' \in Job /\ UNCHANGED <<running, loaded>>
  BY <1>2, <1>5, TypeParts, UpdateTyped, RunnerUnchanged
<1>7. WorkersOK'
  <2>1. \A pc \in WorkerPc : [wpc EXCEPT ![r][u] = pc] \in [Runs -> [Units -> WorkerPc]]
    BY TypeParts DEF WorkersOK
  <2>2. \A c \in Call : [call EXCEPT ![r][u] = c] \in [Runs -> [Units -> Call]]
    BY TypeParts DEF WorkersOK
  <2>3. \A b \in BOOLEAN : /\ [settle EXCEPT ![r][u] = b] \in [Runs -> [Units -> BOOLEAN]]
                           /\ [expired EXCEPT ![r][u] = b] \in [Runs -> [Units -> BOOLEAN]]
    BY TypeParts DEF WorkersOK
  <2>4. \/ wpc' = wpc
        \/ \E pc \in WorkerPc : wpc' = [wpc EXCEPT ![r][u] = pc]
    BY DEF UnitStep, NotFound, RecordTrigger, SpawnTrigger, VerifyOnly, Select, ProbeFails,
           ProbeUpdated, ProbeSettled, ProbeUndecided, CheckDeadline, Exit, Step, WorkerPc
  <2>5. call[r][u] \in Call
    BY TypeParts DEF WorkersOK
  <2>6. \/ call' = call
        \/ \E c \in Call : call' = [call EXCEPT ![r][u] = c]
    <3>1. ASSUME Exit(r, u) PROVE \E c \in Call : call' = [call EXCEPT ![r][u] = c]
      <4>1. call' = [call EXCEPT ![r][u] = IF call[r][u] \in {"tosend", "inflight"}
                                             THEN call[r][u] ELSE "none"]
        BY <3>1, TypeParts DEF Exit, WorkersOK
      <4> QED
        BY <2>5, <4>1 DEF Call
    <3> QED
      BY <3>1
      DEF UnitStep, NotFound, RecordTrigger, SpawnTrigger, VerifyOnly, Select, ProbeFails,
          ProbeUpdated, ProbeSettled, ProbeUndecided, CheckDeadline, Call
  <2>7. \/ settle' = settle
        \/ \E b \in BOOLEAN : settle' = [settle EXCEPT ![r][u] = b]
    BY DEF UnitStep, NotFound, RecordTrigger, SpawnTrigger, VerifyOnly, Select, ProbeFails,
           ProbeUpdated, ProbeSettled, ProbeUndecided, CheckDeadline, Exit
  <2>8. \/ expired' = expired
        \/ \E b \in BOOLEAN : expired' = [expired EXCEPT ![r][u] = b]
    BY DEF UnitStep, NotFound, RecordTrigger, SpawnTrigger, VerifyOnly, Select, ProbeFails,
           ProbeUpdated, ProbeSettled, ProbeUndecided, CheckDeadline, Exit
  <2>9. WorkersOK
    BY TypeParts
  <2>10. wpc' \in [Runs -> [Units -> WorkerPc]]
    BY <2>1, <2>4, <2>9 DEF WorkersOK
  <2>11. call' \in [Runs -> [Units -> Call]]
    BY <2>2, <2>6, <2>9 DEF WorkersOK
  <2>12. settle' \in [Runs -> [Units -> BOOLEAN]]
    BY <2>3, <2>7, <2>9 DEF WorkersOK
  <2>13. expired' \in [Runs -> [Units -> BOOLEAN]]
    BY <2>3, <2>8, <2>9 DEF WorkersOK
  <2> QED
    BY <2>10, <2>11, <2>12, <2>13 DEF WorkersOK
<1>8. TypeOK'
  BY <1>3, <1>6, <1>7, TypeParts, PartsUnchanged
<1>9. JobInv'
  BY <1>3, <1>6, JobInvKept
<1> QED
  BY <1>8, <1>9

\* Trigger calls and deadlines: the job is not touched.
LEMMA CallTyped ==
  ASSUME TypedInv, NEW r \in Runs, NEW u \in Units, CallStep(r, u) \/ DeadlinePasses(r, u)
  PROVE  TypedInv'
<1> USE DEF TypedInv
<1>1. UNCHANGED <<alive, runner, main, bounds, wpc, up, ver, pver, downs, psent>>
  BY DEF CallStep, SendTrigger, TriggerServed, TriggerAnswer, SetCall, DeadlinePasses, world, history
<1>2. RunnerOK' /\ UNCHANGED <<job, running, loaded>>
  BY <1>1, TypeParts, RunnerUnchanged
<1>3. WorkersOK'
  <2>1. WorkersOK
    BY TypeParts
  <2>2. CASE CallStep(r, u)
    <3>1. PICK c \in Call : SetCall(r, u, c)
      BY <2>2 DEF CallStep, SendTrigger, TriggerServed, TriggerAnswer, Call
    <3>2. call' \in [Runs -> [Units -> Call]]
      BY <2>1, <3>1 DEF SetCall, WorkersOK
    <3> QED
      BY <2>1, <3>1, <3>2 DEF SetCall, WorkersOK
  <2>3. CASE DeadlinePasses(r, u)
    <3>1. expired' \in [Runs -> [Units -> BOOLEAN]]
      BY <2>1, <2>3 DEF DeadlinePasses, WorkersOK
    <3> QED
      BY <2>1, <2>3, <3>1 DEF DeadlinePasses, WorkersOK
  <2> QED
    BY <2>2, <2>3
<1>4. WorldOK'
  BY <1>1, TypeParts
  DEF CallStep, SendTrigger, TriggerServed, TriggerAnswer, SetCall, DeadlinePasses, WorldOK, world
<1>5. HistoryOK'
  BY <1>1, TypeParts
  DEF CallStep, SendTrigger, TriggerServed, TriggerAnswer, SetCall, DeadlinePasses, HistoryOK, history
<1>6. TypeOK'
  BY <1>1, <1>2, <1>3, <1>4, <1>5, TypeParts, PartsUnchanged
<1>7. JobInv'
  BY <1>1, <1>2 DEF JobInv, Executing
<1> QED
  BY <1>6, <1>7

-----------------------------------------------------------------------------
(* The world *)

LEMMA WorldTyped ==
  ASSUME TypedInv, (\E u \in Units : UnitDown(u) \/ UnitUp(u)) \/ PanelDown \/ PanelUp
  PROVE  TypedInv'
<1> USE DEF TypedInv
<1>1. ASSUME NEW u \in Units, UnitDown(u) \/ UnitUp(u)
      PROVE  TypedInv'
  <2>1. UNCHANGED <<alive, runner, main, workers, bounds, asked, pver, sent, psent>>
    BY <1>1 DEF UnitDown, UnitUp, history
  <2>2. WorldOK'
    <3>1. CASE UnitDown(u)
      BY <2>1, <3>1, TypeParts DEF UnitDown, WorldOK
    <3>2. CASE UnitUp(u)
      <4>1. \A v \in ver[u]..MaxVersion : v \in Version
        BY TypeParts, Numbers DEF WorldOK, Version
      <4>2. ver[u] \in Version
        BY TypeParts DEF WorldOK
      <4> QED
        BY <2>1, <3>2, <4>1, <4>2, TypeParts DEF UnitUp, WorldOK
    <3> QED
      BY <1>1, <3>1, <3>2
  <2>3. HistoryOK'
    BY <1>1, <2>1, TypeParts, Numbers DEF UnitDown, UnitUp, HistoryOK, history
  <2>4. TypeOK'
    BY <2>1, <2>2, <2>3, TypeParts, PartsUnchanged, RunnerUnchanged
  <2>5. JobInv'
    BY <2>1 DEF JobInv, Executing, runner, workers
  <2> QED
    BY <2>4, <2>5
<1>2. CASE PanelDown
  <2>1. RunnerOK' /\ alive' \in BOOLEAN
    BY <1>2, TypeParts DEF PanelDown, RunnerOK, NothingUnsaved
  <2>2. MainOK' /\ WorkersOK'
    BY <1>2 DEF PanelDown, MainOK, WorkersOK, PerUnit, MainPc, WorkerPc, Call
  <2>3. BoundsOK'
    BY <1>2, TypeParts, Numbers DEF PanelDown, BoundsOK
  <2>4. WorldOK'
    <3>1. \A v \in pver..MaxVersion : v \in Version
      BY TypeParts, Numbers DEF WorldOK, Version
    <3>2. pver' \in Version
      BY <1>2, <3>1, TypeParts DEF PanelDown, WorldOK
    <3> QED
      BY <1>2, <3>2, TypeParts DEF PanelDown, WorldOK
  <2>5. TypeOK'
    BY <1>2, <2>1, <2>2, <2>3, <2>4, TypeParts, PartsUnchanged DEF PanelDown
  <2>6. JobInv'
    BY <1>2, Numbers DEF PanelDown, JobInv, Executing, PerUnit
  <2> QED
    BY <2>5, <2>6
<1>3. CASE PanelUp
  <2>1. "load" \in MainPc /\ Boot \in Runs
    BY Numbers DEF MainPc
  <2>2. TypeOK'
    BY <1>3, <2>1, TypeParts, PartsUnchanged, RunnerUnchanged, ControlTyped DEF PanelUp
  <2>3. \A r \in Runs : main'[r] = main[r] \/ (r = Boot /\ main'[r] = "load")
    BY <1>3 DEF PanelUp, Goto, TypeOK
  <2>4. main'[Boot] = "load"
    BY <1>3, <2>1 DEF PanelUp, Goto, TypeOK
  <2>5. UNCHANGED <<job, loaded, wpc>>
    BY <1>3 DEF PanelUp, runner, workers
  <2>6. JobInv'
    BY <2>3, <2>4, <2>5, Numbers DEF JobInv, Executing
  <2> QED
    BY <2>2, <2>6
<1> QED
  BY <1>1, <1>2, <1>3

-----------------------------------------------------------------------------
(* Type correctness *)

LEMMA TypedStep ==
  ASSUME TypedInv, [Next]_vars
  PROVE  TypedInv'
<1>1. CASE UNCHANGED vars
  <2>1. UNCHANGED <<alive, runner, main, workers, bounds, world, history>>
    BY <1>1 DEF vars
  <2>2. TypeOK'
    BY <2>1, TypeParts, PartsUnchanged, RunnerUnchanged DEF TypedInv
  <2>3. JobInv'
    BY <2>1 DEF TypedInv, JobInv, Executing, runner, workers
  <2> QED
    BY <2>2, <2>3 DEF TypedInv
<1>2. CASE Next
  BY <1>2, StartTyped, ResumeTyped, MainTyped, SaveTyped, UnitTyped, CallTyped, WorldTyped DEF Next
<1> QED
  BY <1>1, <1>2

LEMMA TypedInit == Init => TypedInv
<1> SUFFICES ASSUME Init PROVE TypedInv
  OBVIOUS
<1>1. RunnerOK /\ alive \in BOOLEAN
  BY DEF Init, RunnerOK, NothingUnsaved
<1>2. MainOK /\ WorkersOK
  BY DEF Init, MainOK, WorkersOK, PerUnit, MainPc, WorkerPc, Call
<1>3. BoundsOK /\ WorldOK /\ HistoryOK
  BY Numbers DEF Init, BoundsOK, WorldOK, HistoryOK, Version
<1>4. JobInv
  BY Numbers DEF Init, JobInv, Executing, PerUnit
<1> QED
  BY <1>1, <1>2, <1>3, <1>4, TypeParts DEF TypedInv

\* Every reachable state of the update job is well typed: its goroutines are
\* where the code has them, and what is edited, saved, persisted and resumed is
\* always a job.
THEOREM TypeCorrect == Spec => []TypeOK
<1>1. TypedInv => TypeOK
  BY DEF TypedInv
<1> QED
  BY <1>1, TypedInit, TypedStep, PTL DEF Spec

\* Whatever runs, resumes or works on a unit has a job to work on.
THEOREM JobIsThere == Spec => []JobInv
<1>1. TypedInv => JobInv
  BY DEF TypedInv
<1> QED
  BY <1>1, TypedInit, TypedStep, PTL DEF Spec

-----------------------------------------------------------------------------
(* One run at a time *)

OneCaller == \A c, d \in Callers : c = d

\* Where a run is, and whether one is claimed, does not change.
LEMMA RunInvUnchanged ==
  ASSUME RunInv, UNCHANGED <<main, running>>
  PROVE  RunInv'
BY DEF RunInv, Busy

\* With one caller, a busy run is that caller's or executes and has its job.
LEMMA BusyRuns ==
  ASSUME TypedInv, RunInv, OneCaller, NEW c \in Callers, main[c] = "none", NEW r \in Runs, Busy(r)
  PROVE  running /\ job # NoJob
<1>1. r \notin Callers
  BY DEF OneCaller, Busy
<1>2. r = Boot
  BY <1>1 DEF Runs
<1>3. main[r] # "listing"
  BY <1>2 DEF TypedInv, JobInv
<1>4. Executing(r)
  BY <1>3 DEF Busy, Executing
<1> QED
  BY <1>4, NoJobAssumption DEF RunInv, TypedInv, JobInv

LEMMA RunInvStep ==
  ASSUME TypedInv, RunInv, OneCaller, [Next]_vars
  PROVE  RunInv'
<1> USE DEF TypedInv
<1>1. ASSUME NEW c \in Callers, StartClaim(c)
      PROVE  RunInv'
  <2>1. \A r \in Runs : ~Busy(r)
    BY <1>1, BusyRuns DEF StartClaim
  <2>2. \A r \in Runs : r # c => main'[r] = main[r]
    BY <1>1 DEF StartClaim, Goto, TypeOK
  <2>3. running'
    BY <1>1 DEF StartClaim
  <2> QED
    BY <2>1, <2>2, <2>3 DEF RunInv, Busy
<1>2. ASSUME NEW c \in Callers, StartFails(c)
      PROVE  RunInv'
  <2>1. c \in Runs /\ Busy(c)
    BY <1>2, Numbers DEF StartFails, Busy
  <2>2. \A r \in Runs : main'[r] = IF r = c THEN "none" ELSE main[r]
    BY <1>2 DEF StartFails, Goto, TypeOK
  <2> QED
    BY <2>1, <2>2 DEF RunInv, Busy
<1>3. ASSUME NEW c \in Callers, StartInstall(c)
      PROVE  RunInv'
  <2>1. c \in Runs /\ Busy(c)
    BY <1>3, Numbers DEF StartInstall, Busy
  <2>2. \A r \in Runs : main'[r] = IF r = c THEN "begin" ELSE main[r]
    BY <1>3 DEF StartInstall, Goto, TypeOK
  <2>3. running' = running
    BY <1>3 DEF StartInstall, Update
  <2> QED
    BY <2>1, <2>2, <2>3 DEF RunInv, Busy
<1>4. CASE ResumeLoad \/ ResumeAbandon
  <2>1. \A r \in Runs : main'[r] = main[r] \/ main'[r] \in {"loaded", "none", "missed"}
    BY <1>4 DEF ResumeLoad, ResumeAbandon, Goto, TypeOK
  <2>2. running' = running
    BY <1>4 DEF ResumeLoad, ResumeAbandon
  <2> QED
    BY <2>1, <2>2 DEF RunInv, Busy
<1>5. CASE ResumeRun
  <2>1. \A r \in Runs : r # Boot => main'[r] = main[r]
    BY <1>5 DEF ResumeRun, Goto, TypeOK
  <2>2. CASE running
    <3>1. main'[Boot] = "missed" /\ running' = running
      BY <1>5, <2>2, Numbers DEF ResumeRun, Goto, TypeOK
    <3> QED
      BY <2>1, <3>1 DEF RunInv, Busy
  <2>3. CASE ~running
    <3>1. \A r \in Runs : ~Busy(r)
      BY <2>3 DEF RunInv
    <3>2. running'
      BY <1>5, <2>3 DEF ResumeRun
    <3> QED
      BY <2>1, <3>1, <3>2 DEF RunInv, Busy
  <2> QED
    BY <2>2, <2>3
<1>6. ASSUME NEW r \in Runs, MainStep(r)
      PROVE  RunInv'
  <2>1. CASE Phase(r)
    <3>1. Busy(r) /\ running' = running
      BY <2>1 DEF Phase, Executing, Busy, Update, runner
    <3>2. \A s \in Runs : s # r => main'[s] = main[s]
      BY <2>1 DEF Phase, Goto, TypeOK
    <3> QED
      BY <3>1, <3>2 DEF RunInv, Busy
  <2>2. CASE Return(r)
    <3>1. Busy(r)
      BY <2>2 DEF Return, Busy
    <3>2. \A s \in Runs : main'[s] = IF s = r THEN "none" ELSE main[s]
      BY <2>2 DEF Return, Goto, TypeOK
    <3> QED
      BY <3>1, <3>2 DEF RunInv, Busy
  <2> QED
    BY <1>6, <2>1, <2>2, MainStepsArePhases
<1>7. ASSUME NEW r \in Runs, NEW u \in Units, UnitStep(r, u) \/ CallStep(r, u) \/ DeadlinePasses(r, u)
      PROVE  RunInv'
  <2>1. UNCHANGED <<main, running>>
    BY <1>7
    DEF UnitStep, NotFound, RecordTrigger, SpawnTrigger, VerifyOnly, Select, ProbeFails,
        ProbeUpdated, ProbeSettled, ProbeUndecided, CheckDeadline, CallStep, SendTrigger,
        TriggerServed, TriggerAnswer, SetCall, DeadlinePasses, Update, runner
  <2> QED
    BY <2>1, RunInvUnchanged
<1>8. CASE (\E r \in Runs, t \in Threads : Save(r, t)) \/ (\E u \in Units : UnitDown(u) \/ UnitUp(u))
           \/ UNCHANGED vars
  <2>1. UNCHANGED <<main, running>>
    BY <1>8 DEF Save, UnitDown, UnitUp, vars, runner
  <2> QED
    BY <2>1, RunInvUnchanged
<1>9. CASE PanelDown
  BY <1>9 DEF PanelDown, RunInv, Busy
<1>10. CASE PanelUp
  <2>1. \A r \in Runs : main'[r] = main[r] \/ main'[r] = "load"
    BY <1>10 DEF PanelUp, Goto, TypeOK
  <2>2. running' = running
    BY <1>10 DEF PanelUp, runner
  <2> QED
    BY <2>1, <2>2 DEF RunInv, Busy
<1> QED
  BY <1>1, <1>2, <1>3, <1>4, <1>5, <1>6, <1>7, <1>8, <1>9, <1>10 DEF Next

\* With one caller of Start at a time, for any restarts of the panel: Start and
\* the Resume of the boot never both run the job.
THEOREM OneRun ==
  ASSUME OneCaller
  PROVE  Spec => []OneRunAtATime
<1>1. Init => RunInv
  BY DEF Init, RunInv, Busy
<1>2. TypedInv /\ RunInv /\ [Next]_vars => RunInv'
  BY RunInvStep
<1>3. TypedInv /\ RunInv => OneRunAtATime
  BY DEF RunInv, OneRunAtATime, Executing, Busy
<1> QED
  BY <1>1, <1>2, <1>3, TypedInit, TypedStep, PTL DEF Spec

-----------------------------------------------------------------------------
(* What steps write *)

\* An edit of the run: no verdict but a flag, and no fact.
RunEdit ==
  /\ job' \in Job /\ job'.id = job.id /\ job'.before = job.before /\ job'.off = job.off
  /\ job'.after = job.after /\ job'.trig = job.trig /\ (job.ptrig => job'.ptrig)
  /\ \A u \in Units : job'.st[u] = job.st[u] \/ (job.st[u] = "uptodate" /\ job'.st[u] = "error")

\* Only the flagging changes a status.
LEMMA RunEditsJob ==
  ASSUME TypedInv, NEW r \in Runs, MainStep(r)
  PROVE  /\ job \in Job /\ RunEdit
         /\ main[r] # "flag" => job'.st = job.st
         /\ main[r] # "seal" => job'.state = job.state
<1> USE DEF RunEdit
<1>1. job \in Job
  BY MainStepsArePhases DEF Phase, Return, TypedInv, JobInv, Executing
<1>2. ASSUME job' = job
      PROVE  RunEdit /\ job'.st = job.st /\ job'.state = job.state
  BY <1>1, <1>2
<1>3. ASSUME NEW s \in Status, job' = [job EXCEPT !.pst = s]
      PROVE  RunEdit /\ job'.st = job.st /\ job'.state = job.state
  <2>1. job' \in Job
    BY <1>1, <1>3, RunEdits
  <2> QED
    BY <1>1, <1>3, <2>1 DEF Job
<1>4. ASSUME job' = [job EXCEPT !.pst = "triggering", !.ptrig = TRUE]
      PROVE  RunEdit /\ job'.st = job.st /\ job'.state = job.state
  <2>1. job' \in Job
    BY <1>1, <1>4, RunEdits
  <2> QED
    BY <1>1, <1>4, <2>1 DEF Job
<1>5. CASE \/ Begin(r) \/ LaunchWorkers(r) \/ WaitWorkers(r) \/ LocalDone(r)
           \/ BalancersPhase(r) \/ LaunchBalancers(r) \/ WaitBalancers(r) \/ PanelPhase(r)
           \/ TriggerPanel(r) \/ Return(r) \/ \E u \in Units : LaunchLocal(r, u)
  <2>1. job' = job
    BY <1>5 DEF Begin, LaunchWorkers, WaitWorkers, LocalDone, BalancersPhase,
                LaunchBalancers, WaitBalancers, PanelPhase, TriggerPanel, Return, LaunchLocal,
                Update, runner
  <2> QED
    BY <1>1, <1>2, <2>1
<1>6. CASE UpdatePanel(r) \/ PanelSurvives(r)
  <2>1. \/ \E s \in Status : job' = [job EXCEPT !.pst = s]
        \/ job' = [job EXCEPT !.pst = "triggering", !.ptrig = TRUE]
    BY <1>6 DEF UpdatePanel, PanelSurvives, Update, Status, Final
  <2> QED
    BY <1>1, <1>3, <1>4, <2>1
<1>7. CASE FlagStuckNodes(r)
  <2>1. main[r] = "flag" /\ (job' = Flagged \/ job' = job)
    BY <1>7 DEF FlagStuckNodes, Update, runner
  <2>2. Flagged \in Job
    BY <1>1, RunEdits
  <2>3. ASSUME job' = Flagged
        PROVE  /\ job'.id = job.id /\ job'.before = job.before /\ job'.off = job.off
               /\ job'.after = job.after /\ job'.state = job.state
               /\ job'.trig = job.trig /\ job'.ptrig = job.ptrig
               /\ \A u \in Units : job'.st[u] = IF u \in JobNodes /\ Behind(u) THEN "error"
                                                ELSE job.st[u]
    BY <1>1, <2>3 DEF Flagged, Job
  <2>4. \A u \in Units : Behind(u) => job.st[u] = "uptodate"
    BY DEF Behind
  <2> QED
    BY <1>1, <1>2, <2>1, <2>2, <2>3, <2>4
<1>8. CASE Seal(r)
  <2>1. main[r] = "seal" /\ job' = Sealed /\ Sealed \in Job
    BY <1>1, <1>8, RunEdits DEF Seal, Update
  <2> QED
    BY <1>1, <2>1 DEF Sealed, Job
<1> QED
  BY <1>5, <1>6, <1>7, <1>8 DEF MainStep

\* An edit of a unit's goroutine concerns this unit, and its status becomes
\* final when the goroutine ends.
UnitEdit(r, u) ==
  /\ job' \in Job /\ job'.id = job.id /\ job'.state = job.state /\ job'.pst = job.pst
  /\ job'.before = job.before /\ job'.ptrig = job.ptrig
  /\ \A w \in Units : job.trig[w] => job'.trig[w]
  /\ wpc'[r][u] = "spawn" => job'.trig[u]
  /\ \A w \in Units \ {u} : /\ job'.st[w] = job.st[w] /\ job'.after[w] = job.after[w]
                            /\ job'.off[w] = job.off[w]
  /\ \A s \in Runs, w \in Units : s # r \/ w # u => wpc'[s][w] = wpc[s][w]
  /\ \/ wpc'[r][u] = "exited" /\ job'.st[u] \in Final
     \/ Working(r, u)' /\ job'.st[u] \in {job.st[u], "triggering", "restarting"}
  /\ job'.off[u] => job.off[u] \/ ~up[u] \/ ~ReliableProbe
  /\ job'.st[u] = "updated" => job.st[u] = "updated" \/ \E v \in {0, ver[u]} : Came(u, v)

LEMMA UnitEditsJob ==
  ASSUME TypedInv, NEW r \in Runs, NEW u \in Units, UnitStep(r, u)
  PROVE  /\ alive /\ Working(r, u) /\ job \in Job /\ UnitEdit(r, u)
         /\ UNCHANGED <<alive, main, running, disk, loaded, bounds, world, history>>
<1>1. alive /\ Working(r, u)
  BY DEF UnitStep, At, Free, Working, NotFound, RecordTrigger, SpawnTrigger, VerifyOnly, Select,
         ProbeFails, ProbeUpdated, ProbeSettled, ProbeUndecided, CheckDeadline
<1>2. job \in Job /\ wpc \in [Runs -> [Units -> WorkerPc]]
  BY <1>1 DEF Working, TypedInv, JobInv, TypeOK
<1>3. UNCHANGED <<alive, main, running, disk, loaded, bounds, world, history>>
  BY DEF UnitStep, NotFound, RecordTrigger, SpawnTrigger, VerifyOnly, Select, ProbeFails,
         ProbeUpdated, ProbeSettled, ProbeUndecided, CheckDeadline, Update, runner
<1>4. ASSUME NEW pc, Step(r, u, pc)
      PROVE  /\ wpc'[r][u] = pc
             /\ \A s \in Runs, w \in Units : s # r \/ w # u => wpc'[s][w] = wpc[s][w]
  BY <1>2, <1>4 DEF Step
<1>5. ASSUME NEW s \in Final, job' = Mark(u, s), Exit(r, u), s # "updated"
      PROVE  UnitEdit(r, u)
  <2>1. job' \in Job
    BY <1>2, <1>5, UnitEdits DEF Status
  <2>2. wpc'[r][u] = "exited" /\ \A t \in Runs, w \in Units : t # r \/ w # u => wpc'[t][w] = wpc[t][w]
    BY <1>4, <1>5 DEF Exit
  <2> QED
    BY <1>2, <1>5, <2>1, <2>2 DEF UnitEdit, Mark, Job
<1>6. ASSUME NEW s \in {"updated", "uptodate"}, NEW v \in Version,
             job' = [job EXCEPT !.st[u] = s, !.after[u] = v], Exit(r, u),
             s = "updated" => v \in {0, ver[u]} /\ Came(u, v)
      PROVE  UnitEdit(r, u)
  <2>1. job' \in Job /\ s \in Final
    BY <1>2, <1>6, UnitEdits DEF Status, Final
  <2>2. wpc'[r][u] = "exited" /\ \A t \in Runs, w \in Units : t # r \/ w # u => wpc'[t][w] = wpc[t][w]
    BY <1>4, <1>6 DEF Exit
  <2> QED
    BY <1>2, <1>6, <2>1, <2>2 DEF UnitEdit, Job
<1>7. ASSUME job' = job, NEW pc \in WorkerPc \ {"none", "spawn", "exited"}, Step(r, u, pc)
      PROVE  UnitEdit(r, u)
  BY <1>2, <1>4, <1>7 DEF UnitEdit, Working
<1> SUFFICES UnitEdit(r, u)
  BY <1>1, <1>2, <1>3
<1>8. CASE NotFound(r, u)
  BY <1>5, <1>8 DEF NotFound, Update, Final
<1>9. CASE RecordTrigger(r, u)
  <2>1. job' = [job EXCEPT !.st[u] = "triggering", !.trig[u] = TRUE] /\ Step(r, u, "spawn")
    BY <1>9 DEF RecordTrigger, Update
  <2>2. job' \in Job
    BY <1>2, <2>1, UnitEdits
  <2>3. job'.st[u] = "triggering" /\ job'.off[u] = job.off[u]
    BY <1>2, <2>1 DEF Job
  <2>4. wpc'[r][u] = "spawn" /\ \A s \in Runs, w \in Units : s # r \/ w # u => wpc'[s][w] = wpc[s][w]
    BY <1>4, <2>1
  <2>5. \A w \in Units \ {u} : /\ job'.st[w] = job.st[w] /\ job'.after[w] = job.after[w]
                               /\ job'.off[w] = job.off[w]
    BY <1>2, <2>1 DEF Job
  <2>6. /\ job'.id = job.id /\ job'.state = job.state /\ job'.pst = job.pst
        /\ job'.before = job.before /\ job'.ptrig = job.ptrig
    BY <1>2, <2>1 DEF Job
  <2>7. job'.trig[u] /\ \A w \in Units \ {u} : job'.trig[w] = job.trig[w]
    BY <1>2, <2>1 DEF Job
  <2> QED
    BY <2>2, <2>3, <2>4, <2>5, <2>6, <2>7 DEF UnitEdit, Working
<1>10. CASE ProbeFails(r, u)
  <2>1. job' = [job EXCEPT !.st[u] = "restarting", !.off[u] = TRUE] /\ Step(r, u, "check")
    BY <1>10 DEF ProbeFails, Update
  <2>2. job' \in Job
    BY <1>2, <2>1, UnitEdits
  <2>3. ~up[u] \/ ~ReliableProbe
    BY <1>10 DEF ProbeFails
  <2>4. job'.st[u] = "restarting"
    BY <1>2, <2>1 DEF Job
  <2>5. wpc'[r][u] = "check" /\ \A s \in Runs, w \in Units : s # r \/ w # u => wpc'[s][w] = wpc[s][w]
    BY <1>4, <2>1
  <2>6. \A w \in Units \ {u} : /\ job'.st[w] = job.st[w] /\ job'.after[w] = job.after[w]
                               /\ job'.off[w] = job.off[w]
    BY <1>2, <2>1 DEF Job
  <2>7. /\ job'.id = job.id /\ job'.state = job.state /\ job'.pst = job.pst
        /\ job'.before = job.before /\ job'.ptrig = job.ptrig
    BY <1>2, <2>1 DEF Job
  <2>8. job'.trig = job.trig
    BY <1>2, <2>1 DEF Job
  <2> QED
    BY <2>2, <2>3, <2>4, <2>5, <2>6, <2>7, <2>8 DEF UnitEdit, Working
<1>11. CASE SpawnTrigger(r, u) \/ VerifyOnly(r, u)
  BY <1>7, <1>11 DEF SpawnTrigger, VerifyOnly, runner, WorkerPc
<1>12. CASE Select(r, u)
  <2>1. \/ job' = Mark(u, "error") /\ Exit(r, u)
        \/ job' = job /\ Step(r, u, "probe")
    BY <1>12 DEF Select, Update, runner
  <2> QED
    BY <1>5, <1>7, <2>1 DEF WorkerPc, Final
<1>13. CASE \E v \in Version : ProbeUpdated(r, u, v) \/ ProbeSettled(r, u, v) \/ ProbeUndecided(r, u, v)
  <2>1. PICK v \in Version : ProbeUpdated(r, u, v) \/ ProbeSettled(r, u, v) \/ ProbeUndecided(r, u, v)
    BY <1>13
  <2>2. CASE ProbeUpdated(r, u, v)
    BY <1>6, <2>2 DEF ProbeUpdated, Update
  <2>3. CASE ProbeSettled(r, u, v)
    BY <1>6, <2>3 DEF ProbeSettled, Update
  <2>4. CASE ProbeUndecided(r, u, v)
    BY <1>7, <2>4 DEF ProbeUndecided, runner, WorkerPc
  <2> QED
    BY <2>1, <2>2, <2>3, <2>4
<1>14. CASE CheckDeadline(r, u)
  <2>1. \/ job' = Mark(u, "error") /\ Exit(r, u)
        \/ job' = job /\ Step(r, u, "select")
    BY <1>14 DEF CheckDeadline, Update, runner
  <2> QED
    BY <1>5, <1>7, <2>1 DEF WorkerPc, Final
<1> QED
  BY <1>8, <1>9, <1>10, <1>11, <1>12, <1>13, <1>14 DEF UnitStep

-----------------------------------------------------------------------------
(* Copies of the job *)

\* A copy after a step was there before, is the edited job, or is the job that
\* Resume closes.
LEMMA CopiesAfter ==
  ASSUME TypedInv, [Next]_vars, NEW j \in Copies', j # NoJob
  PROVE  \/ j \in Copies \/ j = job'
         \/ main[Boot] = "loaded" /\ loaded \in Job /\ j = Abandoned(loaded)
<1>1. j \in {job', disk', loaded'} \/ \E r \in Runs, t \in Threads : j = unsaved'[r][t]
  BY DEF Copies
<1>2. unsaved \in [Runs -> [Threads -> Job \cup {NoJob}]] /\ Main \in Threads /\ Units \subseteq Threads
  BY ThreadKinds DEF TypedInv, TypeOK
<1>3. ASSUME UNCHANGED <<disk, loaded, unsaved>>
      PROVE  j \in Copies \/ j = job'
  BY <1>1, <1>3 DEF Copies
<1>4. ASSUME NEW r \in Runs, NEW t \in Threads, NEW k, Update(r, t, k)
      PROVE  j \in Copies \/ j = job'
  <2>1. \A s \in Runs, x \in Threads : unsaved'[s][x] = unsaved[s][x] \/ unsaved'[s][x] = job'
    BY <1>2, <1>4 DEF Update
  <2> QED
    BY <1>1, <1>4, <2>1 DEF Update, Copies
<1>5. CASE \E c \in Callers : StartClaim(c) \/ StartFails(c) \/ StartInstall(c)
  BY <1>2, <1>3, <1>4, <1>5, Numbers DEF StartClaim, StartFails, StartInstall
<1>6. CASE ResumeLoad
  BY <1>1, <1>6 DEF ResumeLoad, Copies
<1>7. CASE ResumeAbandon
  <2>1. main[Boot] = "loaded" /\ loaded \in Job
    BY <1>7 DEF ResumeAbandon, TypedInv, JobInv
  <2> QED
    BY <1>1, <1>7, <2>1 DEF ResumeAbandon, Copies
<1>8. CASE ResumeRun
  BY <1>1, <1>8 DEF ResumeRun, Copies
<1>9. CASE \E r \in Runs : MainStep(r)
  <2>1. PICK r \in Runs : MainStep(r)
    BY <1>9
  <2>2. UNCHANGED <<disk, loaded, unsaved>> \/ \E k : Update(r, Main, k)
    BY <2>1 DEF MainStep, Begin, LaunchWorkers, WaitWorkers, LaunchLocal, LocalDone,
                FlagStuckNodes, BalancersPhase, LaunchBalancers, WaitBalancers, PanelPhase,
                UpdatePanel, TriggerPanel, PanelSurvives, Seal, Return, runner
  <2> QED
    BY <1>2, <1>3, <1>4, <2>2
<1>10. CASE \E r \in Runs, t \in Threads : Save(r, t)
  <2>1. PICK r \in Runs, t \in Threads : Save(r, t)
    BY <1>10
  <2>2. \A s \in Runs, x \in Threads : unsaved'[s][x] = unsaved[s][x] \/ unsaved'[s][x] = NoJob
    BY <1>2, <2>1 DEF Save
  <2>3. disk' \in {disk, unsaved[r][t]} /\ job' = job /\ loaded' = loaded
    BY <2>1 DEF Save
  <2> QED
    BY <1>1, <2>2, <2>3 DEF Copies
<1>11. CASE \E r \in Runs, u \in Units : UnitStep(r, u)
  <2>1. PICK r \in Runs, u \in Units : UnitStep(r, u)
    BY <1>11
  <2>2. UNCHANGED <<disk, loaded, unsaved>> \/ \E k : Update(r, u, k)
    BY <2>1 DEF UnitStep, NotFound, RecordTrigger, SpawnTrigger, VerifyOnly, Select, ProbeFails,
                ProbeUpdated, ProbeSettled, ProbeUndecided, CheckDeadline, runner
  <2> QED
    BY <1>2, <1>3, <1>4, <2>2
<1>12. CASE \/ \E r \in Runs, u \in Units : CallStep(r, u) \/ DeadlinePasses(r, u)
            \/ (\E u \in Units : UnitDown(u) \/ UnitUp(u)) \/ PanelUp \/ UNCHANGED vars
  <2>1. UNCHANGED <<disk, loaded, unsaved>>
    BY <1>12 DEF CallStep, SendTrigger, TriggerServed, TriggerAnswer, SetCall, DeadlinePasses,
                 UnitDown, UnitUp, PanelUp, vars, runner
  <2> QED
    BY <1>3, <2>1
<1>13. CASE PanelDown
  <2>1. \A s \in Runs, x \in Threads : unsaved'[s][x] = NoJob
    BY <1>13 DEF PanelDown, NothingUnsaved
  <2> QED
    BY <1>1, <1>13, <2>1 DEF PanelDown, Copies
<1> QED
  BY <1>5, <1>6, <1>7, <1>8, <1>9, <1>10, <1>11, <1>12, <1>13 DEF Next

\* Every copy is a job.
LEMMA CopiesTyped == TypedInv => \A j \in Copies : j # NoJob => j \in Job
BY DEF Copies, TypedInv, TypeOK

\* The job after a step: as it was, edited, resumed, new, or gone.
LEMMA JobAfter ==
  ASSUME TypedInv, [Next]_vars
  PROVE  \/ job' = job /\ jobs' = jobs
         \/ job' = NoJob /\ jobs' = jobs
         \/ ResumeRun /\ ~running /\ job' = loaded /\ loaded \in Job /\ jobs' = jobs
         \/ job' = NewJob /\ jobs' = jobs + 1 /\ \E c \in Callers : StartInstall(c)
         \/ jobs' = jobs /\ \E r \in Runs : MainStep(r)
         \/ jobs' = jobs /\ \E r \in Runs, u \in Units : UnitStep(r, u)
<1>1. CASE \E c \in Callers : StartClaim(c) \/ StartFails(c) \/ StartInstall(c)
  BY <1>1 DEF StartClaim, StartFails, StartInstall, Update, bounds
<1>2. CASE ResumeLoad \/ ResumeAbandon \/ ResumeRun
  BY <1>2 DEF ResumeLoad, ResumeAbandon, ResumeRun, bounds, TypedInv, JobInv
<1>3. CASE \E r \in Runs : MainStep(r)
  BY <1>3, MainStepsArePhases DEF Phase, Return, bounds
<1>4. CASE \E r \in Runs, u \in Units : UnitStep(r, u)
  BY <1>4, UnitEditsJob DEF bounds
<1>5. CASE \/ \E r \in Runs, t \in Threads : Save(r, t)
           \/ \E r \in Runs, u \in Units : CallStep(r, u) \/ DeadlinePasses(r, u)
           \/ (\E u \in Units : UnitDown(u) \/ UnitUp(u)) \/ PanelUp \/ UNCHANGED vars
  BY <1>5 DEF Save, CallStep, SendTrigger, TriggerServed, TriggerAnswer, SetCall, DeadlinePasses,
              UnitDown, UnitUp, PanelUp, vars, runner, bounds
<1>6. CASE PanelDown
  BY <1>6 DEF PanelDown
<1> QED
  BY <1>1, <1>2, <1>3, <1>4, <1>5, <1>6 DEF Next

-----------------------------------------------------------------------------
(* Where verdicts come from *)

\* Jobs are numbered in the order of their installation.
LEMMA CountStep ==
  ASSUME TypedInv, CountInv, [Next]_vars
  PROVE  CountInv'
<1>1. jobs \in Nat /\ (jobs' = jobs \/ jobs' = jobs + 1)
  BY JobAfter, Numbers DEF TypedInv, TypeOK
<1>2. \A j \in Copies : j # NoJob => j.id \in Nat /\ j.id <= jobs'
  BY <1>1, CopiesTyped, Numbers DEF CountInv, Job
<1>3. job' # NoJob => job'.id <= jobs'
  <2>1. job \in Copies /\ loaded \in Copies
    BY DEF Copies
  <2>2. job' = NewJob => job'.id = jobs + 1
    BY DEF NewJob
  <2>3. \A r \in Runs : MainStep(r) => job \in Job /\ job'.id = job.id
    BY RunEditsJob DEF RunEdit
  <2>4. \A r \in Runs, u \in Units : UnitStep(r, u) => job \in Job /\ job'.id = job.id
    BY UnitEditsJob DEF UnitEdit
  <2> QED
    BY <1>1, <1>2, <2>1, <2>2, <2>3, <2>4, JobAfter, NoJobAssumption
<1>4. loaded \in Job => Abandoned(loaded).id = loaded.id
  BY DEF Abandoned, Job
<1>5. loaded \in Job => loaded \in Copies /\ loaded # NoJob
  BY NoJobAssumption DEF Copies
<1> QED
  BY <1>2, <1>3, <1>4, <1>5, CopiesAfter DEF CountInv

\* Versions grow, absences are counted, and only a new job starts the count anew.
LEMMA WorldGrows ==
  ASSUME TypedInv, FactsInv, [Next]_vars
  PROVE  /\ jobs' = jobs => \A u \in Units : downs'[u] >= downs[u] /\ ver'[u] >= ver[u]
         /\ jobs' > 0 => \A u \in Units : ~up'[u] => downs'[u] > 0
<1> USE DEF TypedInv
<1>1. /\ up \in [Units -> BOOLEAN] /\ \A u \in Units : ver[u] \in Nat /\ downs[u] \in Nat
      /\ ver \in [Units -> Version] /\ downs \in [Units -> 0..MaxDowns] /\ jobs \in Nat
  BY Numbers DEF TypeOK, Version
<1>2. CASE UNCHANGED <<up, ver, downs, jobs>>
  BY <1>1, <1>2 DEF FactsInv
<1>3. CASE \E c \in Callers : StartInstall(c)
  BY <1>1, <1>3 DEF StartInstall
<1>4. CASE \E u \in Units : UnitDown(u)
  <2>1. PICK u \in Units : UnitDown(u)
    BY <1>4
  <2>2. /\ up' = [up EXCEPT ![u] = FALSE] /\ downs' = [downs EXCEPT ![u] = @ + 1]
        /\ UNCHANGED <<ver, jobs>>
    BY <2>1 DEF UnitDown, bounds
  <2> QED
    BY <1>1, <2>2 DEF FactsInv
<1>5. CASE \E u \in Units : UnitUp(u)
  <2>1. PICK u \in Units : UnitUp(u)
    BY <1>5
  <2>2. PICK v \in (IF asked[u] THEN ver[u]..MaxVersion ELSE {ver[u]}) : ver' = [ver EXCEPT ![u] = v]
    BY <2>1 DEF UnitUp
  <2>3. v >= ver[u]
    BY <1>1, <2>2, Numbers
  <2>4. up' = [up EXCEPT ![u] = TRUE] /\ UNCHANGED <<downs, jobs>>
    BY <2>1 DEF UnitUp, bounds, history
  <2>5. \A w \in Units : downs'[w] >= downs[w] /\ ver'[w] >= ver[w]
    BY <1>1, <2>2, <2>3, <2>4
  <2> QED
    BY <1>1, <2>4, <2>5 DEF FactsInv
<1>6. CASE \/ \E c \in Callers : StartClaim(c) \/ StartFails(c)
           \/ ResumeLoad \/ ResumeAbandon \/ ResumeRun
           \/ \E r \in Runs, t \in Threads : Save(r, t)
           \/ \E r \in Runs, u \in Units : CallStep(r, u) \/ DeadlinePasses(r, u)
           \/ PanelDown \/ PanelUp \/ UNCHANGED vars
  <2>1. UNCHANGED <<up, ver, downs, jobs>>
    BY <1>6 DEF StartClaim, StartFails, ResumeLoad, ResumeAbandon, ResumeRun, Save, CallStep,
                SendTrigger, TriggerServed, TriggerAnswer, SetCall, DeadlinePasses, PanelDown,
                PanelUp, vars, world, history, bounds
  <2> QED
    BY <1>2, <2>1
<1>7. CASE \E r \in Runs : MainStep(r)
  <2>1. UNCHANGED <<up, ver, downs, jobs>>
    BY <1>7, MainStepsArePhases DEF Phase, Return, world, history, bounds
  <2> QED
    BY <1>2, <2>1
<1>8. CASE \E r \in Runs, u \in Units : UnitStep(r, u)
  <2>1. UNCHANGED <<up, ver, downs, jobs>>
    BY <1>8, UnitEditsJob DEF world, history, bounds
  <2> QED
    BY <1>2, <2>1
<1> QED
  BY <1>3, <1>4, <1>5, <1>6, <1>7, <1>8 DEF Next

\* What Facts says of a job in the next state.
FactsNext(j) ==
  \A u \in Units :
    /\ j.off[u] => downs'[u] > 0
    /\ j.before[u] <= ver'[u]
    /\ j.st[u] = "updated" => downs'[u] > 0 \/ (j.before[u] # 0 /\ ver'[u] # j.before[u])

LEMMA FactsStep ==
  ASSUME ReliableProbe, TypedInv, CountInv, FactsInv, [Next]_vars
  PROVE  FactsInv'
<1>1. /\ \A u \in Units : ver[u] \in Nat /\ downs[u] \in Nat /\ ver'[u] \in Nat /\ downs'[u] \in Nat
      /\ jobs \in Nat /\ up \in [Units -> BOOLEAN]
  BY TypedStep, Numbers DEF TypedInv, TypeOK, Version
<1>2. ASSUME jobs' = jobs
      PROVE  \A j \in Job : Facts(j) => FactsNext(j)
  <2>1. \A j \in Job, u \in Units : j.before[u] \in Nat
    BY Numbers DEF Job, Version
  <2>2. \A u \in Units : downs'[u] >= downs[u] /\ ver'[u] >= ver[u]
    BY <1>2, WorldGrows
  <2> QED
    BY <1>1, <2>1, <2>2 DEF Facts, FactsNext
<1>3. \A j \in Copies : j # NoJob => j.id \in Nat /\ j.id <= jobs
  BY CopiesTyped, Numbers DEF CountInv, Job
<1>4. job \in Copies /\ loaded \in Copies
  BY DEF Copies
<1>5. ASSUME jobs' = jobs, job' # NoJob, job'.id = jobs
      PROVE  FactsNext(job')
  <2>1. CASE job' = job \/ job' = loaded
    <3>1. job' \in Job /\ Facts(job')
      BY <1>4, <1>5, <2>1, CopiesTyped DEF FactsInv
    <3> QED
      BY <1>2, <1>5, <3>1
  <2>2. CASE \E r \in Runs : MainStep(r)
    <3>1. job \in Job /\ RunEdit
      BY <2>2, RunEditsJob
    <3>2. Facts(job)
      BY <1>4, <1>5, <3>1, NoJobAssumption DEF RunEdit, FactsInv
    <3>3. \A u \in Units : job'.st[u] = "updated" => job.st[u] = "updated"
      BY <3>1 DEF RunEdit
    <3>4. UNCHANGED <<ver, downs>>
      BY <2>2, MainStepsArePhases DEF Phase, Return, world, history
    <3> QED
      BY <3>1, <3>2, <3>3, <3>4 DEF RunEdit, Facts, FactsNext
  <2>3. CASE \E r \in Runs, u \in Units : UnitStep(r, u)
    <3>1. PICK r \in Runs, u \in Units : UnitStep(r, u)
      BY <2>3
    <3>2. job \in Job /\ UnitEdit(r, u) /\ UNCHANGED <<ver, downs>>
      BY <3>1, UnitEditsJob DEF world, history
    <3>3. Facts(job)
      BY <1>4, <1>5, <3>2, NoJobAssumption DEF UnitEdit, FactsInv
    <3>4. jobs > 0
      BY <1>1, <1>3, <1>4, <3>2, NoJobAssumption, Numbers DEF CountInv, Job
    <3>5. job'.off[u] => downs[u] > 0
      BY <3>2, <3>3, <3>4 DEF UnitEdit, Facts, FactsInv
    <3>6. job'.st[u] = "updated" => downs[u] > 0 \/ (job.before[u] # 0 /\ ver[u] # job.before[u])
      <4>1. \A v \in {0, ver[u]} : Came(u, v) =>
               downs[u] > 0 \/ (job.before[u] # 0 /\ ver[u] # job.before[u])
        BY <3>3 DEF Came, Changed, Facts
      <4> QED
        BY <3>2, <3>3, <4>1 DEF UnitEdit, Facts
    <3> QED
      BY <3>2, <3>3, <3>5, <3>6 DEF UnitEdit, Facts, FactsNext
  <2>4. job' # NewJob
    <3>1. NewJob.id = jobs + 1
      BY DEF NewJob
    <3> QED
      BY <1>1, <1>5, <3>1
  <2> QED
    BY <1>5, <2>1, <2>2, <2>3, <2>4, JobAfter
<1>6. ASSUME jobs' = jobs, loaded \in Job, loaded.id = jobs
      PROVE  FactsNext(Abandoned(loaded))
  <2>1. Facts(loaded)
    BY <1>4, <1>6, NoJobAssumption DEF FactsInv
  <2>2. FactsNext(loaded)
    BY <1>2, <1>6, <2>1
  <2>3. /\ Abandoned(loaded).off = loaded.off /\ Abandoned(loaded).before = loaded.before
        /\ Abandoned(loaded).st = loaded.st
    BY <1>6 DEF Abandoned, Job
  <2> QED
    BY <2>2, <2>3 DEF FactsNext
<1>7. CASE jobs' = jobs
  <2>1. \A j \in Copies : j # NoJob /\ j.id = jobs => FactsNext(j)
    BY <1>2, <1>7, CopiesTyped DEF FactsInv
  <2>2. loaded \in Job => Abandoned(loaded).id = loaded.id
    BY DEF Abandoned, Job
  <2> QED
    <3>1. \A j \in Copies' : j # NoJob /\ j.id = jobs => FactsNext(j)
      BY <1>5, <1>6, <1>7, <2>1, <2>2, CopiesAfter
    <3> QED
      BY <1>7, <3>1, WorldGrows DEF FactsInv, Facts, FactsNext
<1>8. CASE jobs' # jobs
  <2>1. job' = NewJob /\ jobs' = jobs + 1 /\ \E c \in Callers : StartInstall(c)
    BY <1>8, JobAfter
  <2>2. FactsNext(job')
    <3>1. UNCHANGED ver /\ \A u \in Units : NewJob.before[u] = (IF u \in Unversioned THEN 0 ELSE ver[u])
                             /\ NewJob.off[u] = FALSE /\ NewJob.st[u] # "updated"
      BY <2>1 DEF StartInstall, NewJob
    <3> QED
      BY <1>1, <2>1, <3>1 DEF FactsNext
  <2>3. \A j \in Copies : j # NoJob => j.id # jobs'
    BY <1>1, <1>3, <2>1
  <2>4. loaded \in Job => Abandoned(loaded).id # jobs'
    <3>1. loaded \in Job => Abandoned(loaded).id = loaded.id
      BY DEF Abandoned, Job
    <3> QED
      BY <1>4, <2>3, <3>1, NoJobAssumption
  <2> QED
    <3>1. \A j \in Copies' : j # NoJob /\ j.id = jobs' => FactsNext(j)
      BY <2>2, <2>3, <2>4, CopiesAfter
    <3> QED
      BY <3>1, WorldGrows DEF FactsInv, Facts, FactsNext
<1> QED
  BY <1>7, <1>8

\* Where probes of units that are up succeed, an "updated" is never a guess: the
\* unit was away or runs another version, whatever the panel went through and
\* whichever copy of the job it resumed.
THEOREM VerdictsAreFacts ==
  ASSUME ReliableProbe
  PROVE  Spec => []VerdictFromFacts
<1>1. Init => CountInv /\ FactsInv
  BY DEF Init, CountInv, FactsInv, Copies, NothingUnsaved
<1>2. FactsInv => VerdictFromFacts
  BY DEF FactsInv, Facts, Copies, VerdictFromFacts
<1>3. TypedInv /\ CountInv /\ [Next]_vars => CountInv'
  BY CountStep
<1>4. TypedInv /\ CountInv /\ FactsInv /\ [Next]_vars => FactsInv'
  BY FactsStep
<1> QED
  BY <1>1, <1>2, <1>3, <1>4, TypedInit, TypedStep, PTL DEF Spec

-----------------------------------------------------------------------------
(* One run at a time: the others are idle *)

LEMMA RunsOKOrdered == RunsOK => NoNodeLeftBehind
BY DEF RunsOK, RunOK, NoNodeLeftBehind

\* A phase of units is one of the run.
LEMMA PhasesExecute ==
  /\ \A pc, u : Phased(pc, u) => pc \in {"waitWorkers", "local", "waitBalancers"}
  /\ \A pc : pc \in {"none", "listing", "load", "loaded", "missed", "begin", "workers"}
             => Begun(pc) = {} /\ pc \notin AfterFlag
BY DEF Phased, Begun, AfterFlag

\* A run that is idle, claimed or at its beginning, and works on nothing.
LEMMA IdleOK ==
  ASSUME NEW r \in Runs, \A u \in Units : ~Working(r, u),
         \/ main[r] \in {"none", "listing", "load", "loaded", "missed"}
         \/ main[r] \in {"begin", "workers"} /\ job.state = "running"
  PROVE  RunOK(r)
BY PhasesExecute DEF RunOK, Executing

LEMMA WorkingIsBusy ==
  ASSUME RunsOK, NEW r \in Runs, NEW u \in Units, Working(r, u)
  PROVE  Busy(r) /\ Executing(r) /\ main[r] # "return" /\ job.st[u] \notin Final /\ Phased(main[r], u)
BY PhasesExecute DEF RunsOK, RunOK, Busy, Executing

\* What changes the job of the one busy run is judged by this run alone.
LEMMA Alone ==
  ASSUME TypedInv, RunInv, RunsOK, NEW r \in Runs, Busy(r) \/ \A s \in Runs : ~Busy(s), RunOK(r)',
         \A s \in Runs \ {r} : main'[s] = main[s] /\ \A u \in Units : wpc'[s][u] = wpc[s][u]
  PROVE  RunsOK'
<1> SUFFICES ASSUME NEW s \in Runs \ {r} PROVE RunOK(s)'
  BY DEF RunsOK
<1>1. ~Busy(s)
  BY DEF RunInv
<1>2. \A u \in Units : ~Working(s, u)
  BY <1>1, WorkingIsBusy
<1>3. main'[s] \in {"none", "load", "loaded", "missed"}
  BY <1>1 DEF Busy
<1>4. \A u \in Units : ~Working(s, u)'
  BY <1>2 DEF Working
<1> QED
  BY <1>3, <1>4, PhasesExecute DEF RunOK, Executing

\* The goroutine of a unit.
LEMMA UnitKeepsRuns ==
  ASSUME TypedInv, RunInv, RunsOK, NEW r \in Runs, NEW u \in Units, UnitStep(r, u)
  PROVE  RunsOK'
<1>1. UnitEdit(r, u) /\ Working(r, u) /\ main' = main
  BY UnitEditsJob
<1>2. Busy(r) /\ job.st[u] \notin Final /\ Phased(main[r], u) /\ RunOK(r)
  BY <1>1, WorkingIsBusy DEF RunsOK
<1>3. \A w \in Units \ {u} : job'.st[w] = job.st[w] /\ job'.after[w] = job.after[w]
                             /\ (Working(r, w)' <=> Working(r, w))
  BY <1>1 DEF UnitEdit, Working
<1>4. \/ ~Working(r, u)' /\ job'.st[u] \in Final
      \/ Working(r, u)' /\ job'.st[u] \notin Final
  BY <1>1, <1>2 DEF UnitEdit, Working, Final
<1>5. main[r] \in AfterFlag => u \notin JobNodes
  BY <1>2, ConstAssumption DEF Phased, AfterFlag, JobNodes, ConstAssumption
<1>6. JobNodes \subseteq Units /\ Begun(main[r]) \subseteq Units
  BY DEF JobNodes, Units, Begun, Remote
<1>7. job'.pst = job.pst /\ job'.state = job.state
  BY <1>1 DEF UnitEdit
<1>8. RunOK(r)'
  <2>1. \A w \in Units : Working(r, w)' => job'.st[w] \notin Final /\ Phased(main[r], w)
    BY <1>2, <1>3, <1>4 DEF RunOK
  <2>2. \A w \in Begun(main[r]) : Working(r, w)' \/ job'.st[w] \in Final
    BY <1>2, <1>3, <1>4, <1>6 DEF RunOK
  <2>3. main[r] \in AfterFlag =>
          \A v, w \in JobNodes : job'.st[v] = "uptodate" /\ job'.st[w] \in {"updated", "uptodate"}
                                  => job'.after[v] >= job'.after[w]
    BY <1>2, <1>3, <1>5, <1>6 DEF RunOK, Ordered
  <2> QED
    BY <1>1, <1>2, <1>7, <2>1, <2>2, <2>3 DEF RunOK, Executing, Ordered
<1> QED
  BY <1>1, <1>2, <1>8, Alone DEF UnitEdit

\* Launching goroutines for units that are pending.
LEMMA Launched ==
  ASSUME TypedInv, NEW r \in Runs, NEW S \in SUBSET Units, Launch(r, S)
  PROVE  /\ \A u \in Units : Working(r, u)' <=> u \in S \/ Working(r, u)
         /\ \A s \in Runs \ {r} : wpc'[s] = wpc[s]
<1>1. wpc' = [wpc EXCEPT ![r] = [u \in Units |-> IF u \in S THEN "launched" ELSE wpc[r][u]]]
  BY DEF Launch, TypedInv, TypeOK
<1> QED
  BY <1>1 DEF Working, TypedInv, TypeOK

\* The phases of the nodes.
LEMMA NodePhases ==
  ASSUME TypedInv, RunsOK, CopyInv, NEW r \in Runs,
         \/ Begin(r) \/ LaunchWorkers(r) \/ WaitWorkers(r) \/ LocalDone(r)
         \/ \E u \in Units : LaunchLocal(r, u)
  PROVE  RunOK(r)'
<1>1. RunOK(r) /\ main \in [Runs -> MainPc]
  BY DEF RunsOK, TypedInv, TypeOK
<1>2. job' = job
  BY DEF Begin, LaunchWorkers, WaitWorkers, LocalDone, LaunchLocal, Update, runner
<1>3. /\ JobNodes \subseteq Units /\ Remote \subseteq Units
      /\ JobNodes = Remote \cup (Colocated \cap JobNodes)
  BY DEF JobNodes, Units, Remote
<1>4. MainStep(r)
  BY DEF MainStep
<1>5. job \in Job /\ \A u \in Units \cap Disabled : job.st[u] \in Final
  BY <1>4, RunEditsJob, NoJobAssumption DEF CopyInv, Complete, Copies
<1>6. \A u \in Units : Working(r, u) => main[r] \in {"waitWorkers", "local", "waitBalancers"}
  BY <1>1, PhasesExecute DEF RunOK
<1>7. CASE Begin(r)
  <2>1. main[r] = "begin" /\ UNCHANGED wpc
    BY <1>7 DEF Begin, workers
  <2>2. job.state = "running" /\ \A u \in Units : ~Working(r, u)'
    BY <1>1, <1>6, <2>1 DEF RunOK, Executing, Working
  <2>3. CASE MultiNode
    <3>1. main'[r] = "workers"
      BY <1>1, <1>7, <2>3 DEF Begin, Goto
    <3> QED
      BY <1>2, <2>2, <3>1, PhasesExecute DEF RunOK, Executing
  <2>4. CASE ~MultiNode
    <3>1. main'[r] = "balancers" /\ JobNodes = {}
      BY <1>1, <1>7, <2>4 DEF Begin, Goto, JobNodes
    <3>2. Begun(main'[r]) = {}
      BY <3>1 DEF Begun, AfterFlag
    <3> QED
      BY <1>2, <2>2, <3>1, <3>2 DEF RunOK, Executing, Ordered
  <2> QED
    BY <2>3, <2>4
<1>8. CASE LaunchWorkers(r)
  <2>1. main[r] = "workers" /\ main'[r] = "waitWorkers" /\ Launch(r, Pending(Remote))
    BY <1>1, <1>8 DEF LaunchWorkers, Goto
  <2>2. \A u \in Units : Working(r, u)' <=> u \in Pending(Remote)
    BY <1>3, <1>6, <2>1, Launched DEF Pending
  <2>3. Begun(main'[r]) = Remote /\ main'[r] \notin AfterFlag
    BY <2>1 DEF Begun, AfterFlag
  <2>4. \A u \in Remote : u \in Pending(Remote) \/ job.st[u] \in Final
    BY <1>3, <1>5 DEF Pending
  <2>5. job.state = "running"
    BY <1>1, <2>1 DEF RunOK, Executing
  <2>6. \A u \in Pending(Remote) : job.st[u] \notin Final /\ Phased(main'[r], u)
    BY <2>1 DEF Pending, Phased
  <2> QED
    BY <1>2, <1>3, <2>1, <2>2, <2>3, <2>4, <2>5, <2>6 DEF RunOK
<1>9. CASE WaitWorkers(r)
  <2>1. main[r] = "waitWorkers" /\ main'[r] = "local" /\ Exited(r, Remote) /\ UNCHANGED wpc
    BY <1>1, <1>9 DEF WaitWorkers, Goto, workers
  <2>2. \A u \in Units : ~Working(r, u)
    BY <1>1, <2>1 DEF RunOK, Phased, Exited, Working
  <2>3. Begun(main'[r]) = Begun(main[r]) /\ main'[r] \notin AfterFlag
    BY <2>1 DEF Begun, AfterFlag
  <2> QED
    BY <1>1, <1>2, <2>1, <2>2, <2>3 DEF RunOK, Executing, Working
<1>10. CASE \E u \in Units : LaunchLocal(r, u)
  <2>1. PICK u \in Units : LaunchLocal(r, u)
    BY <1>10
  <2>2. main[r] = "local" /\ main' = main /\ Launch(r, {u}) /\ u \in Colocated \cap JobNodes
        /\ job.st[u] \notin Final
    BY <2>1 DEF LaunchLocal, Pending
  <2>3. \A w \in Units : Working(r, w)' <=> w = u \/ Working(r, w)
    BY <2>2, Launched
  <2>4. Begun(main[r]) = Remote /\ Phased(main[r], u) /\ main[r] \notin AfterFlag
    BY <2>2 DEF Begun, Phased, AfterFlag
  <2> QED
    BY <1>1, <1>2, <1>3, <2>2, <2>3, <2>4 DEF RunOK, Executing
<1>11. CASE LocalDone(r)
  <2>1. main[r] = "local" /\ main'[r] = "flag" /\ Exited(r, Colocated \cap JobNodes)
        /\ Pending(Colocated \cap JobNodes) = {} /\ UNCHANGED wpc
    BY <1>1, <1>11 DEF LocalDone, Goto, workers
  <2>2. \A u \in Units : ~Working(r, u)
    BY <1>1, <2>1 DEF RunOK, Phased, Exited, Working
  <2>3. Begun(main[r]) = Remote /\ Begun(main'[r]) = JobNodes /\ main'[r] \notin AfterFlag
    BY <2>1, <1>3 DEF Begun, AfterFlag
  <2>4. \A u \in Colocated \cap JobNodes : job.st[u] \in Final
    BY <1>3, <1>5, <2>1 DEF Pending
  <2> QED
    BY <1>1, <1>2, <1>3, <2>1, <2>2, <2>3, <2>4 DEF RunOK, Executing, Working
<1> QED
  BY <1>7, <1>8, <1>9, <1>10, <1>11

\* flagStuckNodes leaves the nodes in order.
LEMMA FlaggedOrdered ==
  ASSUME TypedInv, NEW r \in Runs, FlagStuckNodes(r)
  PROVE  Ordered'
<1>1. MainStep(r)
  BY DEF MainStep
<1>2. job \in Job /\ RunEdit
  BY <1>1, RunEditsJob
<1>3. /\ JobNodes \subseteq Units /\ \A u \in Units : job.after[u] \in Nat
  BY <1>2, Numbers DEF JobNodes, Units, Job, Version
<1>4. SUFFICES ASSUME NEW u \in JobNodes, NEW w \in JobNodes,
                      job'.st[u] = "uptodate", job'.st[w] \in {"updated", "uptodate"}
               PROVE  job.after[u] >= job.after[w]
  BY <1>2 DEF Ordered, RunEdit
<1>5. job.st[u] = "uptodate" /\ job.st[w] \in {"updated", "uptodate"}
  BY <1>2, <1>3, <1>4 DEF RunEdit
<1>6. CASE \E v \in Verified : job.after[v] > 0
  <2>1. job' = Flagged
    BY <1>6 DEF FlagStuckNodes, Update
  <2>2. ~Behind(u)
    <3>1. job'.st[u] = IF u \in JobNodes /\ Behind(u) THEN "error" ELSE job.st[u]
      BY <1>2, <1>3, <2>1 DEF Flagged, Job
    <3> QED
      BY <1>4, <3>1
  <2>3. ~(job.after[u] < job.after[w])
    BY <1>5, <2>2 DEF Behind, Verified
  <2> QED
    BY <1>3, <2>3
<1>7. CASE ~\E v \in Verified : job.after[v] > 0
  BY <1>3, <1>5, <1>7 DEF Verified
<1> QED
  BY <1>6, <1>7

\* The phases of the balancers and of the panel, and the seal.
LEMMA LaterPhases ==
  ASSUME TypedInv, RunsOK, CopyInv, NEW r \in Runs,
         \/ FlagStuckNodes(r) \/ BalancersPhase(r) \/ LaunchBalancers(r) \/ WaitBalancers(r)
         \/ PanelPhase(r) \/ UpdatePanel(r) \/ TriggerPanel(r) \/ PanelSurvives(r) \/ Seal(r)
  PROVE  RunOK(r)'
<1>1. RunOK(r) /\ main \in [Runs -> MainPc]
  BY DEF RunsOK, TypedInv, TypeOK
<1>2. MainStep(r)
  BY DEF MainStep
<1>3. /\ job \in Job /\ RunEdit
      /\ main[r] # "flag" => job'.st = job.st
      /\ main[r] # "seal" => job'.state = job.state
      /\ \A u \in Units \cap Disabled : job.st[u] \in Final
  BY <1>2, RunEditsJob, NoJobAssumption DEF CopyInv, Complete, Copies
<1>4. JobNodes \subseteq Units /\ Balancers \subseteq Units
  BY DEF JobNodes, Units
<1>5. \A u \in Units : Working(r, u) => main[r] \in {"waitWorkers", "local", "waitBalancers"}
  BY <1>1, PhasesExecute DEF RunOK
<1>6. \A u \in Units : job.st[u] \in Final => job'.st[u] \in Final
  BY <1>3 DEF RunEdit, Final
<1>7. main[r] \in AfterFlag => Ordered
  BY <1>1 DEF RunOK, Ordered
<1>8. main[r] \in AfterFlag => Ordered'
  <2>1. ASSUME main[r] \in AfterFlag PROVE main[r] # "flag"
    BY <2>1 DEF AfterFlag
  <2> QED
    BY <1>3, <1>7, <2>1 DEF Ordered, RunEdit
<1>9. Executing(r) /\ main[r] # "return" => job.state = "running"
  BY <1>1 DEF RunOK
<1>10. CASE FlagStuckNodes(r)
  <2>1. main[r] = "flag" /\ main'[r] = "balancers" /\ UNCHANGED wpc
    BY <1>1, <1>10 DEF FlagStuckNodes, Goto, workers
  <2>2. \A u \in Units : ~Working(r, u)'
    BY <1>5, <2>1 DEF Working
  <2>3. Begun(main[r]) = JobNodes /\ Begun(main'[r]) = JobNodes
    BY <2>1 DEF Begun, AfterFlag
  <2>4. \A u \in JobNodes : job'.st[u] \in Final
    BY <1>1, <1>4, <1>5, <1>6, <2>1, <2>3 DEF RunOK
  <2>5. Ordered'
    BY <1>10, FlaggedOrdered
  <2>6. job'.state = "running"
    BY <1>3, <1>9, <2>1 DEF Executing
  <2> QED
    BY <2>1, <2>2, <2>3, <2>4, <2>5, <2>6 DEF RunOK, Ordered
<1>11. CASE BalancersPhase(r)
  <2>1. main[r] = "balancers" /\ main[r] \in AfterFlag /\ UNCHANGED wpc
    BY <1>11 DEF BalancersPhase, AfterFlag, workers
  <2>2. Begun(main[r]) = JobNodes /\ \A u \in JobNodes : job'.st[u] \in Final
    <3>1. Begun(main[r]) = JobNodes
      BY <2>1 DEF Begun, AfterFlag
    <3> QED
      BY <1>1, <1>4, <1>5, <1>6, <2>1, <3>1 DEF RunOK
  <2>3. \A u \in Balancers : u \in Pending(Balancers) \/ job'.st[u] \in Final
    BY <1>3, <1>4, <1>6 DEF Pending
  <2>4. job'.state = "running" /\ \A u \in Units : ~Working(r, u)'
    BY <1>3, <1>5, <1>9, <2>1 DEF Executing, Working
  <2>5. CASE Pending(Balancers) # {}
    <3>1. main'[r] = "launchBalancers"
      BY <1>1, <1>11, <2>5 DEF BalancersPhase, Goto
    <3>2. Begun(main'[r]) = JobNodes
      BY <3>1 DEF Begun, AfterFlag
    <3> QED
      BY <1>8, <2>1, <2>2, <2>4, <3>1, <3>2 DEF RunOK, Ordered
  <2>6. CASE Pending(Balancers) = {}
    <3>1. main'[r] = "panel"
      BY <1>1, <1>11, <2>6 DEF BalancersPhase, Goto
    <3>2. Begun(main'[r]) = JobNodes \cup Balancers
      BY <3>1 DEF Begun, AfterFlag
    <3> QED
      BY <1>8, <2>1, <2>2, <2>3, <2>4, <2>6, <3>1, <3>2 DEF RunOK, Ordered
  <2> QED
    BY <2>5, <2>6
<1>12. CASE LaunchBalancers(r)
  <2>1. main[r] = "launchBalancers" /\ main[r] \in AfterFlag
    BY <1>12 DEF LaunchBalancers, AfterFlag
  <2>2. Begun(main[r]) = JobNodes /\ \A u \in JobNodes : job'.st[u] \in Final
    <3>1. Begun(main[r]) = JobNodes
      BY <2>1 DEF Begun, AfterFlag
    <3> QED
      BY <1>1, <1>4, <1>5, <1>6, <2>1, <3>1 DEF RunOK
  <2>3. \A u \in Balancers : u \in Pending(Balancers) \/ job'.st[u] \in Final
    BY <1>3, <1>4, <1>6 DEF Pending
  <2>4. job'.state = "running" /\ job'.st = job.st
    BY <1>3, <1>9, <2>1 DEF Executing
  <2>5. main'[r] = "waitBalancers" /\ Launch(r, Pending(Balancers))
    BY <1>1, <1>12 DEF LaunchBalancers, Goto
  <2>6. \A u \in Units : Working(r, u)' <=> u \in Pending(Balancers)
    <3>1. Pending(Balancers) \in SUBSET Units
      BY <1>4 DEF Pending
    <3> QED
      BY <1>5, <2>1, <2>5, <3>1, Launched
  <2>7. Begun(main'[r]) = JobNodes \cup Balancers
    BY <2>5 DEF Begun, AfterFlag
  <2>8. \A u \in Pending(Balancers) : job.st[u] \notin Final /\ Phased(main'[r], u)
    BY <2>5 DEF Pending, Phased
  <2> QED
    BY <1>4, <1>8, <2>1, <2>2, <2>3, <2>4, <2>5, <2>6, <2>7, <2>8 DEF RunOK, Ordered
<1>13. CASE WaitBalancers(r)
  <2>1. main[r] = "waitBalancers" /\ main'[r] = "panel" /\ Exited(r, Balancers) /\ UNCHANGED wpc
    BY <1>1, <1>13 DEF WaitBalancers, Goto, workers
  <2>2. \A u \in Units : ~Working(r, u)
    BY <1>1, <2>1 DEF RunOK, Phased, Exited, Working
  <2>3. Begun(main[r]) = JobNodes \cup Balancers /\ Begun(main'[r]) = Begun(main[r])
        /\ main[r] \in AfterFlag
    BY <2>1 DEF Begun, AfterFlag
  <2>4. \A u \in JobNodes \cup Balancers : job'.st[u] \in Final
    BY <1>1, <1>4, <1>6, <2>2, <2>3 DEF RunOK
  <2>5. job'.state = "running"
    BY <1>3, <1>9, <2>1 DEF Executing
  <2> QED
    BY <1>8, <2>1, <2>2, <2>3, <2>4, <2>5 DEF RunOK, Ordered, Working
<1>14. CASE PanelPhase(r) \/ UpdatePanel(r) \/ TriggerPanel(r) \/ PanelSurvives(r) \/ Seal(r)
  <2>1. /\ main[r] \in {"panel", "panelUpdate", "panelSend", "panelWait", "seal"}
        /\ main'[r] \in {"panelUpdate", "panelSend", "panelWait", "seal", "return"}
        /\ UNCHANGED wpc
    BY <1>1, <1>14 DEF PanelPhase, UpdatePanel, TriggerPanel, PanelSurvives, Seal, Goto, workers
  <2>2. \A u \in Units : ~Working(r, u) /\ ~Working(r, u)'
    BY <1>5, <2>1 DEF Working
  <2>3. Begun(main[r]) = JobNodes \cup Balancers /\ Begun(main'[r]) = Begun(main[r])
        /\ main[r] \in AfterFlag
    BY <2>1 DEF Begun, AfterFlag
  <2>4. \A u \in JobNodes \cup Balancers : job'.st[u] \in Final
    BY <1>1, <1>4, <1>6, <2>2, <2>3 DEF RunOK
  <2>5. main'[r] # "return" => job'.state = "running"
    <3>1. main'[r] # "return" => main[r] # "seal"
      BY <1>1, <1>14, <2>1 DEF PanelPhase, UpdatePanel, TriggerPanel, PanelSurvives, Seal, Goto
    <3> QED
      BY <1>3, <1>9, <2>1, <3>1 DEF Executing
  <2>6. main'[r] = "seal" => job'.pst \in Final
    <3>1. main'[r] = "seal" => (UpdatePanel(r) /\ main'[r] # "panelSend") \/ PanelSurvives(r)
      BY <1>1, <1>14 DEF PanelPhase, TriggerPanel, Seal, Goto
    <3>2. ASSUME UpdatePanel(r), main'[r] # "panelSend" PROVE job'.pst \in Final
      BY <1>1, <1>3, <3>2 DEF UpdatePanel, Goto, Update, Job, Final
    <3>3. ASSUME PanelSurvives(r) PROVE job'.pst \in Final
      BY <1>3, <3>3 DEF PanelSurvives, Update, Job, Final
    <3> QED
      BY <3>1, <3>2, <3>3
  <2> QED
    BY <1>8, <2>1, <2>2, <2>3, <2>4, <2>5, <2>6 DEF RunOK, Ordered
<1> QED
  BY <1>10, <1>11, <1>12, <1>13, <1>14

\* A step of the run concerns this run.
LEMMA MainStepAlone ==
  ASSUME TypedInv, NEW r \in Runs, MainStep(r)
  PROVE  /\ Busy(r)
         /\ \A s \in Runs \ {r} : main'[s] = main[s] /\ \A u \in Units : wpc'[s][u] = wpc[s][u]
<1>1. main \in [Runs -> MainPc] /\ wpc \in [Runs -> [Units -> WorkerPc]]
  BY DEF TypedInv, TypeOK
<1>2. CASE Phase(r)
  <2>1. Busy(r)
    BY <1>2 DEF Phase, Executing, Busy
  <2>2. \A s \in Runs \ {r} : main'[s] = main[s]
    BY <1>1, <1>2 DEF Phase, Goto
  <2>3. \A s \in Runs \ {r} : wpc'[s] = wpc[s]
    BY <1>1, <1>2, Launched DEF Phase, workers
  <2> QED
    BY <2>1, <2>2, <2>3
<1>3. CASE Return(r)
  BY <1>1, <1>3 DEF Return, Busy, Goto
<1> QED
  BY <1>2, <1>3, MainStepsArePhases

\* Goroutines that only come, go or wait between jobs.
LEMMA IdleMoves ==
  ASSUME RunsOK, job' = job, wpc' = wpc,
         \A s \in Runs : \/ main'[s] = main[s]
                         \/ /\ main[s] \in {"none", "listing", "load", "loaded", "missed"}
                            /\ main'[s] \in {"none", "listing", "load", "loaded", "missed"}
  PROVE  RunsOK'
<1> SUFFICES ASSUME NEW s \in Runs PROVE RunOK(s)'
  BY DEF RunsOK
<1>1. RunOK(s)
  BY DEF RunsOK
<1>2. CASE main'[s] = main[s]
  BY <1>1, <1>2 DEF RunOK, Working, Executing, Ordered
<1>3. CASE /\ main[s] \in {"none", "listing", "load", "loaded", "missed"}
           /\ main'[s] \in {"none", "listing", "load", "loaded", "missed"}
  <2>1. \A u \in Units : ~Working(s, u)'
    BY <1>1, <1>3, PhasesExecute DEF RunOK, Working
  <2>2. Begun(main'[s]) = {} /\ main'[s] \notin AfterFlag
    BY <1>3, PhasesExecute
  <2> QED
    BY <1>3, <2>1, <2>2 DEF RunOK, Executing
<1> QED
  BY <1>2, <1>3

LEMMA RunsOKStep ==
  ASSUME TypedInv, RunInv, RunsOK, DeadInv, CopyInv, [Next]_vars
  PROVE  RunsOK'
<1>1. main \in [Runs -> MainPc] /\ Boot \in Runs /\ Callers \subseteq Runs
  BY Numbers DEF TypedInv, TypeOK
<1>2. ASSUME NEW s \in Runs, main[s] \notin {"waitWorkers", "local", "waitBalancers"}
      PROVE  \A u \in Units : ~Working(s, u)
  BY <1>2, PhasesExecute DEF RunsOK, RunOK
<1>3. ASSUME NEW s \in Runs, Busy(s) \/ \A q \in Runs : ~Busy(q),
             main[s] \notin {"waitWorkers", "local", "waitBalancers"},
             wpc' = wpc, main' = [main EXCEPT ![s] = "begin"], job'.state = "running"
      PROVE  RunsOK'
  <2>1. \A u \in Units : ~Working(s, u)'
    BY <1>2, <1>3 DEF Working
  <2>2. main'[s] = "begin" /\ \A q \in Runs \ {s} : main'[q] = main[q]
    BY <1>1, <1>3
  <2>3. RunOK(s)'
    <3>1. Begun(main'[s]) = {} /\ main'[s] \notin AfterFlag
      BY <2>2, PhasesExecute
    <3> QED
      BY <1>3, <2>1, <2>2, <3>1 DEF RunOK
  <2> QED
    BY <1>3, <2>2, <2>3, Alone
<1>4. CASE \E c \in Callers : StartClaim(c) \/ StartFails(c)
  <2>1. job' = job /\ wpc' = wpc
    BY <1>4 DEF StartClaim, StartFails, workers
  <2>2. \A s \in Runs : \/ main'[s] = main[s]
                        \/ main[s] \in {"none", "listing"} /\ main'[s] \in {"none", "listing"}
    BY <1>1, <1>4 DEF StartClaim, StartFails, Goto
  <2> QED
    BY <2>1, <2>2, IdleMoves
<1>5. CASE \E c \in Callers : StartInstall(c)
  <2>1. PICK c \in Callers : StartInstall(c)
    BY <1>5
  <2>2. c \in Runs /\ main[c] = "listing" /\ wpc' = wpc /\ main' = [main EXCEPT ![c] = "begin"]
    BY <1>1, <2>1 DEF StartInstall, Goto, workers
  <2>3. job'.state = "running"
    BY <2>1 DEF StartInstall, Update, NewJob
  <2> QED
    BY <1>3, <2>2, <2>3 DEF Busy
<1>6. CASE ResumeLoad \/ ResumeAbandon
  <2>1. job' = job /\ wpc' = wpc
    BY <1>6 DEF ResumeLoad, ResumeAbandon, workers
  <2>2. \A s \in Runs : \/ main'[s] = main[s]
                        \/ main[s] \in {"load", "loaded"} /\ main'[s] \in {"none", "loaded", "missed"}
    BY <1>1, <1>6 DEF ResumeLoad, ResumeAbandon, Goto
  <2> QED
    BY <2>1, <2>2, IdleMoves
<1>7. CASE ResumeRun
  <2>1. main[Boot] = "loaded" /\ wpc' = wpc
    BY <1>7 DEF ResumeRun, workers
  <2>2. CASE running
    <3>1. job' = job /\ main' = [main EXCEPT ![Boot] = "missed"]
      BY <1>7, <2>2 DEF ResumeRun, Goto
    <3>2. \A s \in Runs : \/ main'[s] = main[s]
                          \/ main[s] \in {"loaded"} /\ main'[s] \in {"missed"}
      BY <1>1, <2>1, <3>1
    <3> QED
      BY <2>1, <3>1, <3>2, IdleMoves
  <2>3. CASE ~running
    <3>1. job' = loaded /\ main' = [main EXCEPT ![Boot] = "begin"]
      BY <1>7, <2>3 DEF ResumeRun, Goto
    <3>2. loaded.state = "running" /\ \A q \in Runs : ~Busy(q)
      BY <2>1, <2>3 DEF CopyInv, RunInv
    <3> QED
      BY <1>1, <1>3, <2>1, <3>1, <3>2
  <2> QED
    BY <2>2, <2>3
<1>8. CASE \E r \in Runs : MainStep(r)
  <2>1. PICK r \in Runs : MainStep(r)
    BY <1>8
  <2>2. RunOK(r)'
    <3>1. CASE Return(r)
      <4>1. main'[r] = "none" /\ \A u \in Units : ~Working(r, u)'
        BY <1>1, <3>1 DEF Return, Goto, Working, TypedInv, TypeOK
      <4>2. Begun(main'[r]) = {} /\ main'[r] \notin AfterFlag
        BY <4>1, PhasesExecute
      <4> QED
        BY <4>1, <4>2 DEF RunOK, Executing
    <3>2. CASE ~Return(r)
      BY <2>1, <3>2, NodePhases, LaterPhases DEF MainStep
    <3> QED
      BY <3>1, <3>2
  <2> QED
    BY <2>1, <2>2, MainStepAlone, Alone
<1>9. CASE \E r \in Runs, u \in Units : UnitStep(r, u)
  BY <1>9, UnitKeepsRuns
<1>10. CASE \/ \E r \in Runs, t \in Threads : Save(r, t)
            \/ \E r \in Runs, u \in Units : CallStep(r, u) \/ DeadlinePasses(r, u)
            \/ (\E u \in Units : UnitDown(u) \/ UnitUp(u)) \/ UNCHANGED vars
  <2>1. UNCHANGED <<job, wpc, main>>
    BY <1>10 DEF Save, CallStep, SendTrigger, TriggerServed, TriggerAnswer, SetCall,
                 DeadlinePasses, UnitDown, UnitUp, vars, runner, workers
  <2> QED
    BY <2>1, IdleMoves
<1>11. CASE PanelDown
  <2>1. \A s \in Runs : main'[s] = "none" /\ \A u \in Units : ~Working(s, u)'
    BY <1>11 DEF PanelDown, PerUnit, Working
  <2>2. \A s \in Runs : Begun(main'[s]) = {} /\ main'[s] \notin AfterFlag
    BY <2>1, PhasesExecute
  <2> QED
    BY <2>1, <2>2 DEF RunsOK, RunOK, Executing
<1>12. CASE PanelUp
  <2>1. job' = job /\ wpc' = wpc /\ main' = [main EXCEPT ![Boot] = "load"] /\ main[Boot] = "none"
    BY <1>1, <1>12 DEF PanelUp, Goto, runner, workers, DeadInv
  <2>2. \A s \in Runs : \/ main'[s] = main[s]
                        \/ main[s] \in {"none"} /\ main'[s] \in {"load"}
    BY <1>1, <2>1
  <2> QED
    BY <2>1, <2>2, IdleMoves
<1> QED
  BY <1>4, <1>5, <1>6, <1>7, <1>8, <1>9, <1>10, <1>11, <1>12 DEF Next

\* A dead panel has no goroutines.
LEMMA DeadInvStep ==
  ASSUME TypedInv, DeadInv, [Next]_vars
  PROVE  DeadInv'
<1>1. ASSUME alive' = alive, alive \/ main' = main
      PROVE  DeadInv'
  BY <1>1 DEF DeadInv
<1>2. CASE \/ \E c \in Callers : StartClaim(c) \/ StartFails(c) \/ StartInstall(c)
           \/ ResumeLoad \/ ResumeAbandon \/ ResumeRun
           \/ \E r \in Runs, t \in Threads : Save(r, t)
           \/ \E r \in Runs, u \in Units : CallStep(r, u) \/ DeadlinePasses(r, u)
           \/ (\E u \in Units : UnitDown(u) \/ UnitUp(u)) \/ UNCHANGED vars
  <2>1. alive' = alive /\ (alive \/ main' = main)
    BY <1>2 DEF StartClaim, StartFails, StartInstall, ResumeLoad, ResumeAbandon, ResumeRun, Save,
                CallStep, SendTrigger, TriggerServed, TriggerAnswer, SetCall, DeadlinePasses,
                UnitDown, UnitUp, vars
  <2> QED
    BY <1>1, <2>1
<1>3. CASE \E r \in Runs : MainStep(r)
  <2>1. PICK r \in Runs : MainStep(r)
    BY <1>3
  <2>2. alive
    BY <2>1 DEF MainStep, Begin, LaunchWorkers, WaitWorkers, LaunchLocal, LocalDone,
                FlagStuckNodes, BalancersPhase, LaunchBalancers, WaitBalancers, PanelPhase,
                UpdatePanel, TriggerPanel, PanelSurvives, Seal, Return, Free
  <2>3. alive' = alive
    BY <2>1, MainStepsArePhases DEF Phase, Return
  <2> QED
    BY <1>1, <2>2, <2>3
<1>4. CASE \E r \in Runs, u \in Units : UnitStep(r, u)
  BY <1>1, <1>4, UnitEditsJob
<1>5. CASE PanelDown \/ PanelUp
  BY <1>5 DEF PanelDown, PanelUp, DeadInv
<1> QED
  BY <1>2, <1>3, <1>4, <1>5 DEF Next

-----------------------------------------------------------------------------
(* Copies are complete when they say "done" *)

\* The run closes the job when every unit has a verdict, and not before.
LEMMA RunCompletes ==
  ASSUME TypedInv, RunsOK, NEW r \in Runs, MainStep(r), Complete(job)
  PROVE  Complete(job')
<1>1. /\ job \in Job /\ RunEdit
      /\ main[r] # "flag" => job'.st = job.st
      /\ main[r] # "seal" => job'.state = job.state
  BY RunEditsJob
<1>2. \A u \in Units : job.st[u] \in Final => job'.st[u] \in Final
  BY <1>1 DEF RunEdit, Final
<1>3. RunOK(r)
  BY DEF RunsOK
<1>4. CASE Seal(r)
  <2>1. main[r] = "seal" /\ job' = Sealed
    BY <1>4 DEF Seal, Update
  <2>2. /\ job'.pst = job.pst /\ job'.st = job.st
        /\ job'.state = IF job.pst = "error" \/ \E u \in Units : job.st[u] = "error"
                        THEN "failed" ELSE "done"
    BY <1>1, <2>1 DEF Sealed, Job
  <2>3. job.pst \in Final
    BY <1>3, <2>1 DEF RunOK
  <2>4. \A u \in Units : job.st[u] \in Final
    <3>1. Begun(main[r]) = Units
      BY <2>1 DEF Begun, AfterFlag, Units, JobNodes
    <3>2. \A u \in Units : ~Working(r, u)
      BY <1>3, <2>1 DEF RunOK, Phased
    <3> QED
      BY <1>3, <3>1, <3>2 DEF RunOK
  <2> QED
    BY <2>2, <2>3, <2>4 DEF Complete
<1>5. CASE Return(r)
  <2>1. job' = job
    BY <1>5 DEF Return
  <2> QED
    BY <2>1
<1>6. CASE ~Seal(r) /\ ~Return(r)
  <2>1. Phase(r) /\ main[r] \notin {"seal", "return"}
    BY <1>6, MainStepsArePhases
    DEF MainStep, Begin, LaunchWorkers, WaitWorkers, LaunchLocal, LocalDone, FlagStuckNodes,
        BalancersPhase, LaunchBalancers, WaitBalancers, PanelPhase, UpdatePanel, TriggerPanel,
        PanelSurvives
  <2>2. job'.state = "running"
    BY <1>1, <1>3, <2>1 DEF Phase, RunOK
  <2> QED
    BY <1>2, <2>2 DEF Complete
<1> QED
  BY <1>4, <1>5, <1>6

LEMMA CopyStep ==
  ASSUME TypedInv, RunsOK, CopyInv, [Next]_vars
  PROVE  CopyInv'
<1>1. job \in Copies /\ loaded \in Copies /\ disk \in Copies
  BY DEF Copies
<1>2. job' # NoJob => Complete(job')
  <2>1. CASE job' = job \/ job' = loaded \/ job' = NoJob
    BY <1>1, <2>1 DEF CopyInv
  <2>2. CASE job' = NewJob
    BY <2>2 DEF NewJob, Complete, Final
  <2>3. CASE \E r \in Runs : MainStep(r)
    <3>1. PICK r \in Runs : MainStep(r)
      BY <2>3
    <3>2. job \in Job
      BY <3>1, RunEditsJob
    <3> QED
      BY <1>1, <3>1, <3>2, RunCompletes, NoJobAssumption DEF CopyInv
  <2>4. CASE \E r \in Runs, u \in Units : UnitStep(r, u)
    <3>1. PICK r \in Runs, u \in Units : UnitStep(r, u)
      BY <2>4
    <3>2. Working(r, u) /\ job \in Job /\ UnitEdit(r, u)
      BY <3>1, UnitEditsJob
    <3>3. Complete(job)
      BY <1>1, <3>2, NoJobAssumption DEF CopyInv
    <3>4. job.st[u] \notin Final /\ job.state = "running"
      BY <3>2, WorkingIsBusy DEF RunsOK, RunOK
    <3> QED
      BY <3>2, <3>3, <3>4 DEF UnitEdit, Complete
  <2> QED
    BY <2>1, <2>2, <2>3, <2>4, JobAfter
<1>3. loaded \in Job => Complete(Abandoned(loaded))
  <2>1. ASSUME loaded \in Job
        PROVE  Abandoned(loaded).st = loaded.st /\ Abandoned(loaded).state = "failed"
    BY <2>1 DEF Abandoned, Job
  <2> QED
    BY <1>1, <2>1, NoJobAssumption DEF CopyInv, Complete
<1>4. \A j \in Copies' : j # NoJob => Complete(j)
  BY <1>2, <1>3, CopiesAfter DEF CopyInv
<1>5. main'[Boot] = "loaded" => loaded'.state = "running"
  <2>1. main \in [Runs -> MainPc] /\ Boot \in Runs /\ Boot \notin Callers
    BY Numbers DEF TypedInv, TypeOK
  <2>2. CASE ResumeLoad
    BY <2>1, <2>2 DEF ResumeLoad, Goto, Open
  <2>3. CASE ResumeAbandon \/ ResumeRun \/ PanelDown \/ PanelUp
    <3>1. main'[Boot] # "loaded"
      BY <2>1, <2>3 DEF ResumeAbandon, ResumeRun, PanelDown, PanelUp, Goto
    <3> QED
      BY <3>1
  <2>4. CASE \E c \in Callers : StartClaim(c) \/ StartFails(c) \/ StartInstall(c)
    <3>1. main'[Boot] = main[Boot] /\ loaded' = loaded
      BY <2>1, <2>4 DEF StartClaim, StartFails, StartInstall, Goto, Update
    <3> QED
      BY <3>1 DEF CopyInv
  <2>5. CASE \E r \in Runs : MainStep(r)
    <3>1. PICK r \in Runs : MainStep(r)
      BY <2>5
    <3>2. loaded' = loaded
      BY <3>1, MainStepsArePhases DEF Phase, Return, Update, runner
    <3>3. main'[Boot] = main[Boot] \/ main'[Boot] # "loaded"
      BY <2>1, <3>1, MainStepsArePhases DEF Phase, Return, Goto, ExecPc
    <3> QED
      BY <3>2, <3>3 DEF CopyInv
  <2>6. CASE \E r \in Runs, u \in Units : UnitStep(r, u)
    <3>1. main' = main /\ loaded' = loaded
      BY <2>6, UnitEditsJob
    <3> QED
      BY <3>1 DEF CopyInv
  <2>7. CASE \/ \E r \in Runs, t \in Threads : Save(r, t)
             \/ \E r \in Runs, u \in Units : CallStep(r, u) \/ DeadlinePasses(r, u)
             \/ (\E u \in Units : UnitDown(u) \/ UnitUp(u)) \/ UNCHANGED vars
    <3>1. main' = main /\ loaded' = loaded
      BY <2>7 DEF Save, CallStep, SendTrigger, TriggerServed, TriggerAnswer, SetCall,
                  DeadlinePasses, UnitDown, UnitUp, vars, runner
    <3> QED
      BY <3>1 DEF CopyInv
  <2> QED
    BY <2>2, <2>3, <2>4, <2>5, <2>6, <2>7 DEF Next
<1> QED
  BY <1>4, <1>5 DEF CopyInv

-----------------------------------------------------------------------------
(* The theorems for one caller of Start at a time *)

VerdictInv == RunInv /\ RunsOK /\ DeadInv /\ CopyInv

LEMMA VerdictInit == Init => VerdictInv
<1> SUFFICES ASSUME Init PROVE VerdictInv
  OBVIOUS
<1>1. RunInv /\ DeadInv
  BY DEF Init, RunInv, Busy, DeadInv
<1>2. \A r \in Runs : main[r] = "none" /\ \A u \in Units : ~Working(r, u)
  BY DEF Init, PerUnit, Working
<1>3. RunsOK
  BY <1>2, IdleOK DEF RunsOK
<1>4. CopyInv
  BY <1>2, Numbers DEF Init, CopyInv, Copies, NothingUnsaved
<1> QED
  BY <1>1, <1>3, <1>4 DEF VerdictInv

LEMMA VerdictInvStep ==
  ASSUME OneCaller, TypedInv, VerdictInv, [Next]_vars
  PROVE  VerdictInv'
BY RunInvStep, RunsOKStep, DeadInvStep, CopyStep DEF VerdictInv

\* Once the nodes of a job are done, none passes as up to date on a version
\* older than one a peer was verified on, resumed or not.
THEOREM NobodyLeftBehind ==
  ASSUME OneCaller
  PROVE  Spec => []NoNodeLeftBehind
<1>1. VerdictInv => NoNodeLeftBehind
  BY RunsOKOrdered DEF VerdictInv
<1>2. TypedInv /\ VerdictInv /\ [Next]_vars => VerdictInv'
  BY VerdictInvStep
<1> QED
  BY <1>1, <1>2, VerdictInit, TypedInit, TypedStep, PTL DEF Spec

\* A job that the database calls done has a verdict for every unit and for the
\* panel, and no error: no crash, lost save or resumption closes it early.
THEOREM DoneIsDone ==
  ASSUME OneCaller
  PROVE  Spec => []DoneMeansDone
<1>1. VerdictInv => DoneMeansDone
  BY DEF VerdictInv, CopyInv, Copies, Complete, DoneMeansDone
<1>2. TypedInv /\ VerdictInv /\ [Next]_vars => VerdictInv'
  BY VerdictInvStep
<1> QED
  BY <1>1, <1>2, VerdictInit, TypedInit, TypedStep, PTL DEF Spec

\* A verdict in the memory of the panel stands until the job is replaced, but
\* for flagStuckNodes; only the start of a resumed job may go back to the copy
\* that the database had.
THEOREM VerdictsOnlyFlagged ==
  ASSUME OneCaller
  PROVE  Spec => [][ResumeRun \/ VerdictStep]_vars
<1>1. Init => CountInv
  BY DEF Init, CountInv, Copies, NothingUnsaved
<1>2. TypedInv /\ CountInv /\ [Next]_vars => CountInv'
  BY CountStep
<1>3. TypedInv /\ VerdictInv /\ [Next]_vars => VerdictInv'
  BY VerdictInvStep
<1>4. TypedInv /\ VerdictInv /\ CountInv /\ [Next]_vars => [ResumeRun \/ VerdictStep]_vars
  <2> SUFFICES ASSUME TypedInv, VerdictInv, CountInv, [Next]_vars, job # NoJob, job' # NoJob,
                      job'.id = job.id, ~ResumeRun, NEW u \in Units, job.st[u] \in Final
               PROVE  job'.st[u] = job.st[u] \/ (job.st[u] = "uptodate" /\ job'.st[u] = "error")
    BY DEF VerdictStep
  <2>1. CASE \E r \in Runs : MainStep(r)
    BY <2>1, RunEditsJob DEF RunEdit
  <2>2. CASE \E r \in Runs, w \in Units : UnitStep(r, w)
    <3>1. PICK r \in Runs, w \in Units : UnitStep(r, w)
      BY <2>2
    <3>2. UnitEdit(r, w) /\ job.st[w] \notin Final
      BY <3>1, UnitEditsJob, WorkingIsBusy DEF VerdictInv
    <3> QED
      BY <3>2 DEF UnitEdit
  <2>3. job' # NewJob
    <3>1. job \in Job /\ job \in Copies /\ NewJob.id = jobs + 1
      BY DEF TypedInv, TypeOK, Copies, NewJob
    <3>2. job.id <= jobs /\ job.id \in Nat /\ jobs \in Nat
      BY <3>1, Numbers DEF CountInv, Job, TypedInv, TypeOK
    <3> QED
      BY <3>1, <3>2
  <2> QED
    BY <2>1, <2>2, <2>3, JobAfter
<1> QED
  BY <1>1, <1>2, <1>3, <1>4, VerdictInit, TypedInit, TypedStep, PTL DEF Spec

-----------------------------------------------------------------------------
(* The run, its goroutines and its saves *)

\* What steps of the run and of a unit do to the run's control and its saves.
LEMMA MainKeeps ==
  ASSUME TypedInv, NEW r \in Runs, MainStep(r)
  PROVE  /\ alive /\ alive' /\ Executing(r) /\ job \in Job /\ job' \in Job
         /\ UNCHANGED <<disk, loaded, call, jobs>>
         /\ main'[r] \in ExecPc \cup {"none"}
         /\ \A s \in Runs \ {r} : main'[s] = main[s] /\ \A u \in Units : wpc'[s][u] = wpc[s][u]
         /\ \/ job' = job /\ unsaved' = unsaved
            \/ unsaved' = [unsaved EXCEPT ![r][Main] = job'] /\ main'[r] \in ExecPc
         /\ unsaved[r][Main] = NoJob
<1>1. main \in [Runs -> MainPc]
  BY DEF TypedInv, TypeOK
<1>2. alive /\ unsaved[r][Main] = NoJob
  BY DEF MainStep, Begin, LaunchWorkers, WaitWorkers, LaunchLocal, LocalDone, FlagStuckNodes,
         BalancersPhase, LaunchBalancers, WaitBalancers, PanelPhase, UpdatePanel, TriggerPanel,
         PanelSurvives, Seal, Return, Free
<1>3. job \in Job /\ job' \in Job
  BY RunEditsJob DEF RunEdit
<1>4. CASE Phase(r)
  <2>1. Executing(r) /\ alive' = alive /\ jobs' = jobs
    BY <1>4 DEF Phase, bounds
  <2>2. call' = call
    BY <1>4 DEF Phase, workers, Launch
  <2>3. main'[r] \in ExecPc
    BY <1>1, <1>4 DEF Phase, Goto, ExecPc, Executing
  <2>4. disk' = disk /\ loaded' = loaded
    BY <1>4 DEF Phase, Update, runner
  <2>5. \/ job' = job /\ unsaved' = unsaved
        \/ unsaved' = [unsaved EXCEPT ![r][Main] = job']
    BY <1>4 DEF Phase, Update, runner
  <2> QED
    BY <1>2, <1>3, <2>1, <2>2, <2>3, <2>4, <2>5, MainStepAlone
<1>5. CASE Return(r)
  <2>1. main'[r] = "none" /\ Executing(r)
    BY <1>1, <1>5 DEF Return, Goto, Executing
  <2> QED
    BY <1>2, <1>3, <1>5, <2>1, MainStepAlone DEF Return, bounds
<1> QED
  BY <1>4, <1>5, MainStepsArePhases

LEMMA UnitKeeps ==
  ASSUME TypedInv, NEW r \in Runs, NEW u \in Units, UnitStep(r, u)
  PROVE  /\ unsaved[r][u] = NoJob /\ job' \in Job
         /\ \/ job' = job /\ unsaved' = unsaved
            \/ unsaved' = [unsaved EXCEPT ![r][u] = job']
         /\ \A s \in Runs, w \in Units : call'[s][w] = "tosend" =>
              \/ call[s][w] = "tosend"
              \/ s = r /\ w = u /\ SpawnTrigger(r, u)
         /\ \A s \in Runs, w \in Units : wpc'[s][w] = wpc[s][w] \/ (s = r /\ w = u)
<1>1. unsaved[r][u] = NoJob
  BY DEF UnitStep, At, Free, NotFound, RecordTrigger, SpawnTrigger, VerifyOnly, Select,
         ProbeFails, ProbeUpdated, ProbeSettled, ProbeUndecided, CheckDeadline
<1>2. job' \in Job /\ \A s \in Runs, w \in Units : wpc'[s][w] = wpc[s][w] \/ (s = r /\ w = u)
  BY UnitEditsJob DEF UnitEdit
<1>3. \/ job' = job /\ unsaved' = unsaved
      \/ unsaved' = [unsaved EXCEPT ![r][u] = job']
  BY DEF UnitStep, NotFound, RecordTrigger, SpawnTrigger, VerifyOnly, Select,
         ProbeFails, ProbeUpdated, ProbeSettled, ProbeUndecided, CheckDeadline, Update, runner
<1>4. \/ SpawnTrigger(r, u) \/ call' = call
      \/ \E c \in Call \ {"tosend"} : call' = [call EXCEPT ![r][u] = c]
      \/ Exit(r, u)
  BY DEF UnitStep, NotFound, RecordTrigger, SpawnTrigger, VerifyOnly, Select,
         ProbeFails, ProbeUpdated, ProbeSettled, ProbeUndecided, CheckDeadline, Call
<1>5. call \in [Runs -> [Units -> Call]]
  BY DEF TypedInv, TypeOK
<1>6. ASSUME NEW s \in Runs, NEW w \in Units, call'[s][w] = "tosend"
      PROVE  call[s][w] = "tosend" \/ (s = r /\ w = u /\ SpawnTrigger(r, u))
  <2>1. CASE SpawnTrigger(r, u)
    BY <1>5, <1>6, <2>1 DEF SpawnTrigger
  <2>2. CASE call' = call \/ \E c \in Call \ {"tosend"} : call' = [call EXCEPT ![r][u] = c]
    BY <1>5, <1>6, <2>2
  <2>3. CASE Exit(r, u)
    BY <1>5, <1>6, <2>3 DEF Exit
  <2> QED
    BY <1>4, <2>1, <2>2, <2>3
<1> QED
  BY <1>1, <1>2, <1>3, <1>6

\* Between jobs and between processes.
LEMMA BootInvStep ==
  ASSUME ResumeFirst, TypedInv, DeadInv, BootInv, [Next]_vars
  PROVE  BootInv'
<1> USE DEF BootInv
<1>1. main \in [Runs -> MainPc] /\ Boot \in Runs /\ Callers \subseteq Runs /\ Boot \notin Callers
  BY Numbers DEF TypedInv, TypeOK
<1>2. job # NoJob => loaded = NoJob
  OBVIOUS
<1>3. ASSUME NEW c \in Callers, StartClaim(c) \/ StartFails(c)
      PROVE  BootInv'
  <2>1. UNCHANGED <<alive, job, disk, loaded, unsaved, call>> /\ main'[Boot] = main[Boot]
    BY <1>1, <1>3 DEF StartClaim, StartFails, workers, Goto
  <2> QED
    BY <2>1
<1>4. ASSUME NEW c \in Callers, StartInstall(c)
      PROVE  BootInv'
  <2>1. alive' /\ loaded' = loaded /\ main'[Boot] = main[Boot] /\ main[c] = "listing"
    BY <1>1, <1>4 DEF StartInstall, Update, Goto
  <2>2. main'[Boot] \notin {"load", "loaded"} /\ loaded' = NoJob
    BY <2>1 DEF ResumeFirst
  <2>3. job' # NoJob
    BY <1>4, OtherJobs, NoJobAssumption DEF StartInstall, Update, TypedInv
  <2> QED
    BY <2>1, <2>2, <2>3
<1>5. CASE ResumeLoad \/ ResumeAbandon \/ ResumeRun
  <2>1. job = NoJob /\ alive
    BY <1>1, <1>5 DEF ResumeLoad, ResumeAbandon, ResumeRun
  <2>2. UNCHANGED <<alive, unsaved, call>>
    BY <1>5 DEF ResumeLoad, ResumeAbandon, ResumeRun, workers
  <2>3. main'[Boot] \in {"none", "missed", "loaded", "begin"}
    BY <1>1, <1>5 DEF ResumeLoad, ResumeAbandon, ResumeRun, Goto
  <2>4. CASE ResumeLoad
    <3>1. job' = job /\ disk' = disk /\ loaded = NoJob
      BY <1>1, <2>4 DEF ResumeLoad
    <3>2. loaded' # NoJob => main'[Boot] = "loaded" /\ loaded' = disk
      BY <1>1, <2>4, <3>1 DEF ResumeLoad, Goto
    <3> QED
      BY <2>1, <2>2, <2>3, <3>1, <3>2
  <2>5. CASE ResumeAbandon
    <3>1. job' = job /\ loaded' = NoJob /\ main'[Boot] = "none"
      BY <1>1, <2>5 DEF ResumeAbandon, Goto
    <3> QED
      BY <2>1, <2>2, <2>3, <3>1
  <2>6. CASE ResumeRun
    <3>1. loaded' = NoJob /\ main'[Boot] \in {"missed", "begin"}
      BY <1>1, <2>6 DEF ResumeRun, Goto
    <3> QED
      BY <2>1, <2>2, <2>3, <3>1
  <2> QED
    BY <1>5, <2>4, <2>5, <2>6
<1>6. ASSUME NEW r \in Runs, MainStep(r)
      PROVE  BootInv'
  <2>1. /\ alive' /\ job # NoJob /\ job' # NoJob /\ UNCHANGED <<loaded, disk>>
        /\ main'[r] \in ExecPc \cup {"none"} /\ \A s \in Runs \ {r} : main'[s] = main[s]
    BY <1>6, MainKeeps, NoJobAssumption
  <2>2. \A s \in Runs : main'[s] \notin {"listing", "load", "loaded"} \/ main'[s] = main[s]
    BY <2>1 DEF ExecPc
  <2> QED
    BY <1>1, <1>2, <2>1, <2>2
<1>7. ASSUME NEW r \in Runs, NEW t \in Threads, Save(r, t)
      PROVE  BootInv'
  <2>1. job # NoJob
    <3>1. unsaved # NothingUnsaved
      BY <1>7 DEF Save, NothingUnsaved
    <3> QED
      BY <3>1
  <2>2. UNCHANGED <<alive, job, loaded, main>>
    BY <1>7 DEF Save
  <2> QED
    BY <1>1, <1>2, <2>1, <2>2
<1>8. ASSUME NEW r \in Runs, NEW u \in Units, UnitStep(r, u)
      PROVE  BootInv'
  <2>1. job # NoJob /\ job' # NoJob /\ UNCHANGED <<alive, main, loaded>>
    BY <1>8, UnitEditsJob, NoJobAssumption DEF UnitEdit
  <2> QED
    BY <1>1, <1>2, <2>1
<1>9. ASSUME NEW r \in Runs, NEW u \in Units, CallStep(r, u) \/ DeadlinePasses(r, u)
      PROVE  BootInv'
  <2>1. UNCHANGED <<alive, runner, main>>
    BY <1>9 DEF CallStep, SendTrigger, TriggerServed, TriggerAnswer, SetCall, DeadlinePasses
  <2>2. job # NoJob
    <3>1. CASE CallStep(r, u)
      <4>1. call[r][u] # "none"
        BY <3>1 DEF CallStep, SendTrigger, TriggerServed, TriggerAnswer
      <4>2. call # PerUnit("none")
        BY <4>1 DEF PerUnit
      <4> QED
        BY <4>2
    <3>2. CASE DeadlinePasses(r, u)
      BY <3>2, NoJobAssumption DEF DeadlinePasses, TypedInv, JobInv
    <3> QED
      BY <1>9, <3>1, <3>2
  <2> QED
    BY <1>1, <1>2, <2>1, <2>2 DEF runner
<1>10. CASE (\E u \in Units : UnitDown(u) \/ UnitUp(u)) \/ UNCHANGED vars
  <2>1. UNCHANGED <<alive, job, disk, loaded, unsaved, main, call>>
    BY <1>10 DEF UnitDown, UnitUp, vars, runner, workers
  <2> QED
    BY <2>1
<1>11. CASE PanelDown
  <2>1. /\ job' = NoJob /\ loaded' = NoJob /\ call' = PerUnit("none")
        /\ unsaved' = NothingUnsaved /\ \A r \in Runs : main'[r] = "none"
    BY <1>1, <1>11 DEF PanelDown
  <2> QED
    BY <1>1, <2>1
<1>12. CASE PanelUp
  <2>1. /\ job = NoJob /\ UNCHANGED <<job, disk, loaded, unsaved, call>> /\ alive'
        /\ main[Boot] = "none"
    BY <1>1, <1>12 DEF PanelUp, DeadInv, runner, workers
  <2> QED
    BY <2>1
<1> QED
  BY <1>3, <1>4, <1>5, <1>6, <1>7, <1>8, <1>9, <1>10, <1>11, <1>12 DEF Next

\* A run that takes a step has no worker left and has saved everything, and no
\* other run executes.
LEMMA Quiet ==
  ASSUME TypedInv, VerdictInv, WriterInv, NEW r \in Runs, MainStep(r)
  PROVE  /\ \A u \in Units : ~Live(r, u)
         /\ \A s \in Runs, t \in Threads : unsaved[s][t] = NoJob
         /\ \A s \in Runs \ {r} : ~Executing(s) /\ \A u \in Units : ~Working(s, u)
<1>1. Executing(r) /\ unsaved[r][Main] = NoJob
  BY MainKeeps
<1>2. \A s \in Runs \ {r} : ~Executing(s)
  BY <1>1 DEF VerdictInv, RunInv, Busy, Executing
<1>3. \A s \in Runs \ {r} : \A u \in Units : ~Working(s, u)
  BY <1>2, WorkingIsBusy DEF VerdictInv
<1>4. /\ main[r] = "waitWorkers" => Exited(r, Remote)
      /\ main[r] = "local" => Exited(r, Colocated \cap JobNodes)
      /\ main[r] = "waitBalancers" => Exited(r, Balancers)
  BY DEF MainStep, Begin, LaunchWorkers, WaitWorkers, LaunchLocal, LocalDone, FlagStuckNodes,
         BalancersPhase, LaunchBalancers, WaitBalancers, PanelPhase, UpdatePanel, TriggerPanel,
         PanelSurvives, Seal, Return
<1>5. ASSUME NEW u \in Units, Live(r, u)
      PROVE  FALSE
  <2>1. Phased(main[r], u)
    BY <1>5 DEF WriterInv
  <2>2. wpc[r][u] \in {"none", "exited"} /\ unsaved[r][u] = NoJob
    BY <1>4, <2>1 DEF Phased, Exited
  <2> QED
    BY <1>5, <2>2 DEF Live, Working
<1>6. \A t \in Threads : unsaved[r][t] = NoJob
  BY <1>1, <1>5 DEF Live, Threads
<1> QED
  BY <1>2, <1>3, <1>5, <1>6 DEF WriterInv

\* A run launches workers when it saves nothing, and local nodes one by one.
LEMMA Launches ==
  ASSUME TypedInv, VerdictInv, WriterInv, NEW r \in Runs, MainStep(r),
         NEW u \in Units, Working(r, u)'
  PROVE  /\ unsaved' = unsaved
         /\ main'[r] = "local" => \A w \in Units : Working(r, w)' => w = u
<1>1. \A w \in Units : ~Working(r, w)
  BY Quiet DEF Live
<1>2. main \in [Runs -> MainPc] /\ wpc \in [Runs -> [Units -> WorkerPc]]
  BY DEF TypedInv, TypeOK
<1>3. wpc' # wpc
  BY <1>1 DEF Working
<1>4. ~Return(r)
  BY <1>2 DEF Return, Working
<1>5. LaunchWorkers(r) \/ LaunchBalancers(r) \/ \E w \in Units : LaunchLocal(r, w)
  BY <1>3, <1>4 DEF MainStep, Begin, WaitWorkers, LocalDone, FlagStuckNodes, BalancersPhase,
         WaitBalancers, PanelPhase, UpdatePanel, TriggerPanel, PanelSurvives, Seal, workers
<1>6. CASE LaunchWorkers(r) \/ LaunchBalancers(r)
  BY <1>2, <1>6 DEF LaunchWorkers, LaunchBalancers, Goto, runner
<1>7. ASSUME NEW v \in Units, LaunchLocal(r, v)
      PROVE  unsaved' = unsaved /\ \A w \in Units : Working(r, w)' => w = v
  BY <1>1, <1>7, Launched DEF LaunchLocal, runner
<1> QED
  BY <1>5, <1>6, <1>7

\* Threads work and save in their phase, and the run saves alone.
LEMMA WriterInvStep ==
  ASSUME TypedInv, VerdictInv, VerdictInv', WriterInv, [Next]_vars
  PROVE  WriterInv'
<1>1. /\ main \in [Runs -> MainPc] /\ Boot \in Runs /\ Callers \subseteq Runs /\ Main \notin Units
      /\ unsaved \in [Runs -> [Threads -> Job \cup {NoJob}]] /\ Units \subseteq Threads
      /\ Main \in Threads
  BY Numbers, ThreadKinds, ConstAssumption DEF TypedInv, TypeOK, ConstAssumption, Main, Units
<1>2. ASSUME NEW s \in Runs, ~Executing(s)
      PROVE  (\A u \in Units : ~Working(s, u) /\ ~Live(s, u)) /\ \A t \in Threads : unsaved[s][t] = NoJob
  BY <1>1, <1>2, WorkingIsBusy DEF WriterInv, Live, VerdictInv
<1>3. ASSUME wpc' = wpc, NEW q \in Runs, ~Executing(q) \/ main'[q] = main[q],
             \A s \in Runs \ {q} : main'[s] = main[s],
             \A s \in Runs, t \in Threads : unsaved'[s][t] \in {NoJob, unsaved[s][t]}
      PROVE  WriterInv'
  <2> SUFFICES ASSUME NEW s \in Runs
               PROVE  /\ \A t \in Threads : unsaved'[s][t] # NoJob => Executing(s)'
                      /\ \A u \in Units : Live(s, u)' => Phased(main'[s], u) /\ unsaved'[s][Main] = NoJob
                      /\ main'[s] = "local" =>
                           \A u, w \in Units : Live(s, u)' /\ Live(s, w)' => u = w
    BY DEF WriterInv
  <2>1. \A u \in Units : Live(s, u)' => Live(s, u)
    BY <1>1, <1>3 DEF Live, Working
  <2>2. CASE ~Executing(s)
    BY <1>1, <1>2, <1>3, <2>1, <2>2
  <2>3. CASE main'[s] = main[s]
    <3>1. Executing(s)' <=> Executing(s)
      BY <2>3 DEF Executing
    <3> QED
      BY <1>1, <1>3, <2>1, <2>3, <3>1 DEF WriterInv
  <2> QED
    BY <1>3, <2>2, <2>3
<1>4. CASE \/ \E c \in Callers : StartClaim(c) \/ StartFails(c)
           \/ ResumeLoad \/ ResumeAbandon \/ ResumeRun \/ PanelUp
  <2>1. wpc' = wpc /\ unsaved' = unsaved
    BY <1>4 DEF StartClaim, StartFails, ResumeLoad, ResumeAbandon, ResumeRun, PanelUp, workers, runner
  <2>2. PICK s \in Runs : ~Executing(s) /\ \A q \in Runs \ {s} : main'[q] = main[q]
    <3>1. CASE \E c \in Callers : StartClaim(c) \/ StartFails(c)
      BY <1>1, <3>1 DEF StartClaim, StartFails, Goto, Executing
    <3>2. CASE ResumeLoad \/ ResumeAbandon \/ ResumeRun \/ PanelUp
      BY <1>1, <3>2 DEF ResumeLoad, ResumeAbandon, ResumeRun, PanelUp, Goto, Executing,
                              VerdictInv, DeadInv
    <3> QED
      BY <1>4, <3>1, <3>2
  <2> QED
    BY <1>3, <2>1, <2>2
<1>5. ASSUME NEW c \in Callers, StartInstall(c)
      PROVE  WriterInv'
  <2>1. /\ c \in Runs /\ ~Executing(c) /\ wpc' = wpc /\ main'[c] = "begin"
        /\ \A s \in Runs \ {c} : main'[s] = main[s] /\ unsaved'[s] = unsaved[s]
        /\ \A t \in Threads \ {Main} : unsaved'[c][t] = unsaved[c][t]
    BY <1>1, <1>5 DEF StartInstall, Executing, Goto, Update, workers
  <2>2. Executing(c)' /\ \A u \in Units : ~Live(c, u)'
    BY <1>1, <1>2, <2>1 DEF Executing, Live, Working
  <2>3. \A s \in Runs \ {c} : /\ Executing(s)' <=> Executing(s)
                              /\ \A u \in Units : Live(s, u)' <=> Live(s, u)
    BY <2>1 DEF Executing, Live, Working
  <2> QED
    BY <2>1, <2>2, <2>3 DEF WriterInv
<1>6. ASSUME NEW r \in Runs, MainStep(r)
      PROVE  WriterInv'
  <2>1. /\ \A u \in Units : ~Live(r, u)
        /\ \A s \in Runs, t \in Threads : unsaved[s][t] = NoJob
        /\ \A s \in Runs \ {r} : ~Executing(s) /\ \A u \in Units : ~Working(s, u)
    BY <1>6, Quiet
  <2>2. /\ \A s \in Runs \ {r} : main'[s] = main[s] /\ \A u \in Units : wpc'[s][u] = wpc[s][u]
        /\ \/ unsaved' = unsaved
           \/ unsaved' = [unsaved EXCEPT ![r][Main] = job'] /\ main'[r] \in ExecPc
    BY <1>6, MainKeeps
  <2>3. ASSUME NEW s \in Runs \ {r}
        PROVE  /\ \A t \in Threads : unsaved'[s][t] = NoJob
               /\ \A u \in Units : ~Live(s, u)'
    BY <1>1, <2>1, <2>2 DEF Live, Working
  <2>4. \A t \in Threads : unsaved'[r][t] # NoJob => Executing(r)'
    BY <2>1, <2>2 DEF Executing, ExecPc
  <2>5. \A u \in Units : Live(r, u)' => Working(r, u)'
    BY <1>1, <2>1, <2>2 DEF Live
  <2>6. \A u \in Units : Live(r, u)' => Phased(main'[r], u) /\ unsaved'[r][Main] = NoJob
    BY <1>1, <1>6, <2>1, <2>5, Launches DEF VerdictInv, RunsOK, RunOK
  <2>7. main'[r] = "local" => \A u, w \in Units : Live(r, u)' /\ Live(r, w)' => u = w
    BY <1>6, <2>5, Launches
  <2> QED
    BY <2>3, <2>4, <2>6, <2>7 DEF WriterInv
<1>7. ASSUME NEW r \in Runs, NEW u \in Units, UnitStep(r, u)
      PROVE  WriterInv'
  <2>1. main' = main /\ Working(r, u) /\ Executing(r)
    BY <1>7, UnitEditsJob, WorkingIsBusy DEF VerdictInv
  <2>2. \A s \in Runs, w \in Units : wpc'[s][w] = wpc[s][w] \/ (s = r /\ w = u)
    BY <1>7, UnitKeeps
  <2>3. \A s \in Runs, t \in Threads : unsaved'[s][t] = unsaved[s][t] \/ (s = r /\ t = u)
    BY <1>1, <1>7, UnitKeeps
  <2>4. \A s \in Runs, w \in Units : Live(s, w)' => Live(s, w)
    BY <1>1, <2>1, <2>2, <2>3 DEF Live, Working
  <2>5. \A s \in Runs : Executing(s)' <=> Executing(s)
    BY <2>1 DEF Executing
  <2> QED
    BY <1>1, <2>1, <2>3, <2>4, <2>5 DEF WriterInv
<1>8. CASE \/ \E r \in Runs, t \in Threads : Save(r, t)
           \/ \E r \in Runs, u \in Units : CallStep(r, u) \/ DeadlinePasses(r, u)
           \/ (\E u \in Units : UnitDown(u) \/ UnitUp(u)) \/ UNCHANGED vars
  <2>1. wpc' = wpc /\ main' = main
    BY <1>8 DEF Save, CallStep, SendTrigger, TriggerServed, TriggerAnswer, SetCall,
                DeadlinePasses, UnitDown, UnitUp, vars, workers
  <2>2. unsaved' = unsaved \/ \E r \in Runs, t \in Threads : unsaved' = [unsaved EXCEPT ![r][t] = NoJob]
    BY <1>8 DEF Save, CallStep, SendTrigger, TriggerServed, TriggerAnswer, SetCall,
                DeadlinePasses, UnitDown, UnitUp, vars, runner
  <2>3. \A s \in Runs, t \in Threads : unsaved'[s][t] \in {NoJob, unsaved[s][t]}
    BY <1>1, <2>2
  <2> QED
    BY <1>1, <1>3, <2>1, <2>3
<1>9. CASE PanelDown
  <2>1. /\ \A s \in Runs, t \in Threads : unsaved'[s][t] = NoJob
        /\ \A s \in Runs, u \in Units : ~Live(s, u)'
    BY <1>1, <1>9 DEF PanelDown, NothingUnsaved, PerUnit, Live, Working
  <2> QED
    BY <2>1 DEF WriterInv
<1> QED
  BY <1>4, <1>5, <1>6, <1>7, <1>8, <1>9 DEF Next

\* Where the phase is serial, a thread that works or saves is the only one.
LEMMA OneWriter ==
  ASSUME WriterInv, NEW r \in Runs, Serial(main[r]), NEW u \in Units, Live(r, u)
  PROVE  \A t \in Threads \ {u} : unsaved[r][t] = NoJob
<1>1. Phased(main[r], u) /\ unsaved[r][Main] = NoJob
  BY DEF WriterInv
<1>2. ASSUME NEW w \in Units, unsaved[r][w] # NoJob
      PROVE  w = u
  <2>1. Live(r, w) /\ Phased(main[r], w)
    BY <1>2 DEF Live, WriterInv
  <2>2. CASE main[r] = "waitWorkers"
    BY <1>1, <2>1, <2>2 DEF Phased, Serial, Crowd
  <2>3. CASE main[r] = "local"
    BY <2>1, <2>3 DEF WriterInv
  <2>4. CASE main[r] = "waitBalancers"
    BY <1>1, <2>1, <2>4 DEF Phased, Serial, Crowd
  <2> QED
    BY <1>1, <2>2, <2>3, <2>4 DEF Phased
<1> QED
  BY <1>1, <1>2 DEF Threads

\* The phases that are entered without a save are as serial as the one before.
LEMMA SerialBefore ==
  ASSUME TypedInv, NEW r \in Runs, MainStep(r), unsaved' = unsaved,
         Serial(main'[r]), Executing(r)'
  PROVE  Serial(main[r]) /\ job' = job
<1>1. main \in [Runs -> MainPc] /\ unsaved \in [Runs -> [Threads -> Job \cup {NoJob}]] /\ Main \in Threads
  BY ThreadKinds DEF TypedInv, TypeOK
<1>2. job' \in Job /\ unsaved[r][Main] = NoJob
  BY MainKeeps
<1>3. \A j \in Job : ~Update(r, Main, j)
  BY <1>1, <1>2, NoJobAssumption DEF Update
<1>4. main[r] = "waitWorkers" => WaitWorkers(r)
  BY DEF MainStep, Begin, LaunchWorkers, WaitWorkers, LaunchLocal, LocalDone, FlagStuckNodes,
         BalancersPhase, LaunchBalancers, WaitBalancers, PanelPhase, UpdatePanel, TriggerPanel,
         PanelSurvives, Seal, Return
<1>5. main[r] = "waitBalancers" => WaitBalancers(r)
  BY DEF MainStep, Begin, LaunchWorkers, WaitWorkers, LaunchLocal, LocalDone, FlagStuckNodes,
         BalancersPhase, LaunchBalancers, WaitBalancers, PanelPhase, UpdatePanel, TriggerPanel,
         PanelSurvives, Seal, Return
<1>6. main[r] = "panel" => PanelPhase(r)
  BY DEF MainStep, Begin, LaunchWorkers, WaitWorkers, LaunchLocal, LocalDone, FlagStuckNodes,
         BalancersPhase, LaunchBalancers, WaitBalancers, PanelPhase, UpdatePanel, TriggerPanel,
         PanelSurvives, Seal, Return
<1>7. job \in Job
  BY MainKeeps
<1>8. main[r] \notin {"waitWorkers", "panel"}
  BY <1>3, <1>4, <1>6, <1>7 DEF WaitWorkers, PanelPhase
<1>9. main[r] = "waitBalancers" => main'[r] = "panel"
  BY <1>1, <1>5 DEF WaitBalancers, Goto
<1>10. job' = job
  BY <1>1, <1>2, NoJobAssumption, MainKeeps
<1> QED
  BY <1>8, <1>9, <1>10 DEF Serial

\* The database lags at most by the snapshot on its way.
LEMMA SerialInvStep ==
  ASSUME ~SaveCanFail, TypedInv, VerdictInv, BootInv, WriterInv, SerialInv, [Next]_vars
  PROVE  SerialInv'
<1>1. /\ main \in [Runs -> MainPc] /\ Boot \in Runs /\ Callers \subseteq Runs /\ Main \in Threads
      /\ unsaved \in [Runs -> [Threads -> Job \cup {NoJob}]] /\ Units \subseteq Threads
  BY Numbers, ThreadKinds DEF TypedInv, TypeOK
<1>2. job = NoJob => /\ \A s \in Runs : ~Executing(s)
                     /\ \A s \in Runs, t \in Threads : unsaved[s][t] = NoJob
  BY NoJobAssumption DEF TypedInv, JobInv, BootInv, NothingUnsaved
<1>3. ASSUME NEW r \in Runs, Executing(r), NEW s \in Runs, s # r
      PROVE  ~Executing(s)
  BY <1>3 DEF VerdictInv, RunInv, Busy, Executing
<1>4. ASSUME UNCHANGED <<job, unsaved, disk>>, \A s \in Runs : Executing(s)' => main'[s] = main[s]
      PROVE  SerialInv'
  BY <1>4 DEF SerialInv, Executing
<1>5. CASE \/ \E c \in Callers : StartClaim(c) \/ StartFails(c)
           \/ ResumeLoad \/ PanelUp
           \/ \E r \in Runs, u \in Units : CallStep(r, u) \/ DeadlinePasses(r, u)
           \/ (\E u \in Units : UnitDown(u) \/ UnitUp(u)) \/ UNCHANGED vars
  <2>1. UNCHANGED <<job, unsaved, disk>>
    BY <1>5 DEF StartClaim, StartFails, ResumeLoad, PanelUp, CallStep, SendTrigger, TriggerServed,
                TriggerAnswer, SetCall, DeadlinePasses, UnitDown, UnitUp, vars, runner
  <2>2. ASSUME NEW s \in Runs, Executing(s)'
        PROVE  main'[s] = main[s]
    <3>1. CASE \/ \E c \in Callers : StartClaim(c) \/ StartFails(c)
               \/ ResumeLoad \/ PanelUp
      BY <1>1, <2>2, <3>1 DEF StartClaim, StartFails, ResumeLoad, PanelUp, Goto, Executing
    <3>2. CASE \/ \E r \in Runs, u \in Units : CallStep(r, u) \/ DeadlinePasses(r, u)
               \/ (\E u \in Units : UnitDown(u) \/ UnitUp(u)) \/ UNCHANGED vars
      BY <3>2 DEF CallStep, SendTrigger, TriggerServed, TriggerAnswer, SetCall, DeadlinePasses,
                  UnitDown, UnitUp, vars
    <3> QED
      BY <1>5, <3>1, <3>2
  <2> QED
    BY <1>4, <2>1, <2>2
<1>6. CASE ResumeAbandon \/ ResumeRun
  <2>1. job = NoJob /\ unsaved' = unsaved
    BY <1>6 DEF ResumeAbandon, ResumeRun, BootInv
  <2>2. \A s \in Runs \ {Boot} : ~Executing(s)'
    BY <1>1, <1>2, <1>6, <2>1 DEF ResumeAbandon, ResumeRun, Goto, Executing
  <2>3. Executing(Boot)' => job' = loaded /\ disk' = disk /\ loaded \in Job
    BY <1>1, <1>6 DEF ResumeAbandon, ResumeRun, Goto, Executing, TypedInv, JobInv
  <2>4. loaded \in Job => loaded = disk
    BY NoJobAssumption DEF BootInv
  <2> QED
    BY <1>2, <2>1, <2>2, <2>3, <2>4 DEF SerialInv
<1>7. ASSUME NEW c \in Callers, StartInstall(c)
      PROVE  SerialInv'
  <2>1. c \in Runs /\ main[c] = "listing"
    BY <1>1, <1>7 DEF StartInstall
  <2>2. \A s \in Runs : ~Executing(s) /\ \A t \in Threads : unsaved[s][t] = NoJob
    BY <2>1 DEF VerdictInv, RunInv, Busy, Executing, WriterInv
  <2>3. /\ unsaved' = [unsaved EXCEPT ![c][Main] = job'] /\ job' # NoJob
        /\ \A s \in Runs \ {c} : main'[s] = main[s]
    BY <1>1, <1>7, OtherJobs, NoJobAssumption DEF StartInstall, Update, Goto, TypedInv
  <2>4. \A t \in Threads : unsaved'[c][t] = IF t = Main THEN job' ELSE NoJob
    BY <1>1, <2>1, <2>2, <2>3
  <2>5. \A s \in Runs \ {c} : ~Executing(s)'
    BY <2>2, <2>3 DEF Executing
  <2> QED
    BY <1>1, <2>3, <2>4, <2>5 DEF SerialInv
<1>8. ASSUME NEW r \in Runs, MainStep(r)
      PROVE  SerialInv'
  <2>1. /\ \A s \in Runs, t \in Threads : unsaved[s][t] = NoJob
        /\ \A s \in Runs \ {r} : ~Executing(s)
    BY <1>8, Quiet
  <2>2. /\ disk' = disk /\ job' \in Job /\ Executing(r)
        /\ \A s \in Runs \ {r} : main'[s] = main[s]
        /\ unsaved' = unsaved \/ unsaved' = [unsaved EXCEPT ![r][Main] = job']
    BY <1>8, MainKeeps
  <2>3. \A s \in Runs \ {r} : ~Executing(s)'
    BY <2>1, <2>2 DEF Executing
  <2>4. CASE unsaved' = unsaved
    <3>1. Executing(r)' /\ Serial(main'[r]) => Serial(main[r]) /\ job' = job
      BY <1>8, <2>4, SerialBefore
    <3> QED
      BY <2>1, <2>2, <2>3, <2>4, <3>1 DEF SerialInv
  <2>5. CASE unsaved' = [unsaved EXCEPT ![r][Main] = job']
    <3>1. \A t \in Threads : unsaved'[r][t] = IF t = Main THEN job' ELSE NoJob
      BY <1>1, <2>1, <2>5
    <3> QED
      BY <1>1, <2>2, <2>3, <3>1, NoJobAssumption DEF SerialInv
  <2> QED
    BY <2>2, <2>4, <2>5
<1>9. ASSUME NEW r \in Runs, NEW u \in Units, UnitStep(r, u)
      PROVE  SerialInv'
  <2>1. main' = main /\ disk' = disk /\ Working(r, u) /\ Executing(r)
    BY <1>9, UnitEditsJob, WorkingIsBusy DEF VerdictInv
  <2>2. /\ job' \in Job
        /\ \/ job' = job /\ unsaved' = unsaved
           \/ unsaved' = [unsaved EXCEPT ![r][u] = job']
    BY <1>9, UnitKeeps
  <2>3. \A s \in Runs \ {r} : ~Executing(s)'
    BY <1>3, <2>1 DEF Executing
  <2>4. Serial(main[r]) => \A t \in Threads \ {u} : unsaved[r][t] = NoJob
    BY <2>1, OneWriter DEF Live
  <2>5. CASE job' = job /\ unsaved' = unsaved
    BY <2>1, <2>3, <2>5 DEF SerialInv, Executing
  <2>6. CASE unsaved' = [unsaved EXCEPT ![r][u] = job']
    <3>1. Serial(main[r]) => \A t \in Threads : unsaved'[r][t] = IF t = u THEN job' ELSE NoJob
      BY <1>1, <2>4, <2>6
    <3> QED
      BY <1>1, <2>1, <2>2, <2>3, <3>1, NoJobAssumption DEF SerialInv
  <2> QED
    BY <2>2, <2>5, <2>6
<1>10. ASSUME NEW r \in Runs, NEW t \in Threads, Save(r, t)
      PROVE  SerialInv'
  <2>1. /\ unsaved[r][t] # NoJob /\ disk' = unsaved[r][t] /\ job' = job /\ main' = main
        /\ unsaved' = [unsaved EXCEPT ![r][t] = NoJob]
    BY <1>10 DEF Save
  <2>2. Executing(r)
    BY <2>1 DEF WriterInv
  <2>3. \A s \in Runs \ {r} : ~Executing(s)'
    BY <1>3, <2>1, <2>2 DEF Executing
  <2>4. Serial(main[r]) => unsaved[r][t] = job /\ \A x \in Threads : unsaved'[r][x] \in {NoJob, job}
    BY <1>1, <2>1, <2>2 DEF SerialInv
  <2> QED
    BY <2>1, <2>2, <2>3, <2>4 DEF SerialInv
<1>11. CASE PanelDown
  <2>1. \A s \in Runs : ~Executing(s)'
    BY <1>11 DEF PanelDown, Executing
  <2> QED
    BY <2>1 DEF SerialInv
<1> QED
  BY <1>5, <1>6, <1>7, <1>8, <1>9, <1>10, <1>11 DEF Next

-----------------------------------------------------------------------------
(* What is known of the job *)

\* A run that has saved everything knows one copy, and the database has it.
LEMMA Settled ==
  ASSUME TypedInv, VerdictInv, BootInv, WriterInv, SerialInv, NEW r \in Runs,
         Executing(r), Serial(main[r]), \A t \in Threads : unsaved[r][t] = NoJob
  PROVE  job \in Job /\ disk = job /\ Known = {job}
<1>1. job \in Job /\ disk = job
  BY DEF TypedInv, JobInv, SerialInv
<1>2. \A s \in Runs \ {r} : ~Executing(s)
  BY DEF VerdictInv, RunInv, Busy, Executing
<1>3. \A s \in Runs, t \in Threads : unsaved[s][t] = NoJob
  BY <1>2 DEF WriterInv
<1>4. loaded = NoJob
  BY <1>1, NoJobAssumption DEF BootInv
<1>5. Copies \subseteq {job, NoJob}
  BY <1>1, <1>3, <1>4 DEF Copies
<1>6. job \in Copies
  BY DEF Copies
<1> QED
  BY <1>1, <1>5, <1>6, NoJobAssumption DEF Known

\* Every copy after a step says at least what one said before, but for a new job.
LEMMA KnownGrows ==
  ASSUME TypedInv, VerdictInv, [Next]_vars, ~\E c \in Callers : StartInstall(c), NEW j \in Known'
  PROVE  \E k \in Known : /\ k.ptrig => j.ptrig
                          /\ \A u \in Units : /\ k.trig[u] => j.trig[u]
                                              /\ k.st[u] \in Final => j.st[u] \in Final
<1>1. j \in Copies' /\ j # NoJob /\ job \in Copies /\ loaded \in Copies
  BY DEF Known, Copies
<1>2. CASE j \in Copies
  BY <1>1, <1>2 DEF Known
<1>3. CASE loaded \in Job /\ j = Abandoned(loaded)
  <2>1. j.ptrig = loaded.ptrig /\ j.trig = loaded.trig /\ j.st = loaded.st
    BY <1>3 DEF Abandoned, Job
  <2> QED
    BY <1>1, <1>3, <2>1, NoJobAssumption DEF Known
<1>4. CASE j = job'
  <2>1. CASE job' \in {job, loaded, NoJob}
    BY <1>1, <1>4, <2>1 DEF Known
  <2>2. CASE \E r \in Runs : MainStep(r)
    <3>1. job \in Job /\ RunEdit
      BY <2>2, RunEditsJob
    <3>2. \A u \in Units : job.st[u] \in Final => job'.st[u] \in Final
      BY <3>1 DEF RunEdit, Final
    <3> QED
      BY <1>1, <1>4, <3>1, <3>2, NoJobAssumption DEF Known, RunEdit
  <2>3. CASE \E r \in Runs, w \in Units : UnitStep(r, w)
    <3>1. PICK r \in Runs, w \in Units : UnitStep(r, w)
      BY <2>3
    <3>2. job \in Job /\ UnitEdit(r, w) /\ job.st[w] \notin Final
      BY <3>1, UnitEditsJob, WorkingIsBusy DEF VerdictInv
    <3>3. \A u \in Units : job.st[u] \in Final => job'.st[u] \in Final
      BY <3>2 DEF UnitEdit
    <3> QED
      BY <1>1, <1>4, <3>2, <3>3, NoJobAssumption DEF Known, UnitEdit
  <2> QED
    BY <2>1, <2>2, <2>3, JobAfter
<1> QED
  BY <1>1, <1>2, <1>3, <1>4, CopiesAfter

\* So what every copy says stays known until a new job.
LEMMA RecordsStay ==
  ASSUME TypedInv, VerdictInv, [Next]_vars, ~\E c \in Callers : StartInstall(c)
  PROVE  /\ RemoteSettled => RemoteSettled'
         /\ \A u \in Units : Recorded(u) => Recorded(u)'
         /\ PanelRecorded => PanelRecorded'
<1>1. disk # NoJob => disk' # NoJob
  <2>1. \/ disk' = disk
        \/ disk' = Abandoned(loaded) /\ loaded \in Job
        \/ \E r \in Runs, t \in Threads : Save(r, t)
    <3>1. CASE ResumeAbandon
      BY <3>1 DEF ResumeAbandon, TypedInv, JobInv
    <3>2. CASE \E r \in Runs : MainStep(r)
      BY <3>2, MainKeeps
    <3>3. CASE \E r \in Runs, u \in Units : UnitStep(r, u)
      BY <3>3, UnitEditsJob
    <3>4. CASE \/ \E c \in Callers : StartClaim(c) \/ StartFails(c) \/ StartInstall(c)
               \/ ResumeLoad \/ ResumeRun \/ PanelDown \/ PanelUp
               \/ \E r \in Runs, u \in Units : CallStep(r, u) \/ DeadlinePasses(r, u)
               \/ (\E u \in Units : UnitDown(u) \/ UnitUp(u)) \/ UNCHANGED vars
      BY <3>4 DEF StartClaim, StartFails, StartInstall, Update, ResumeLoad, ResumeRun, PanelDown,
                  PanelUp, CallStep, SendTrigger, TriggerServed, TriggerAnswer, SetCall,
                  DeadlinePasses, UnitDown, UnitUp, vars, runner
    <3> QED
      BY <3>1, <3>2, <3>3, <3>4 DEF Next
  <2>2. loaded \in Job => Abandoned(loaded) # NoJob
    BY OtherJobs, NoJobAssumption DEF TypedInv
  <2> QED
    BY <2>1, <2>2 DEF Save
<1>2. Remote \subseteq Units
  BY DEF Remote, JobNodes, Units
<1>3. RemoteSettled => RemoteSettled'
  BY <1>1, <1>2, KnownGrows DEF RemoteSettled
<1>4. \A u \in Units : Recorded(u) => Recorded(u)'
  BY <1>1, KnownGrows DEF Recorded
<1>5. PanelRecorded => PanelRecorded'
  BY <1>1, KnownGrows DEF PanelRecorded
<1> QED
  BY <1>3, <1>4, <1>5

-----------------------------------------------------------------------------
(* Triggers *)

\* A trigger that a goroutine is about to make leave is known, and so are the
\* verdicts of the remote nodes if it leaves for the panel's host.
LEMMA SpawnsKnown ==
  ASSUME TypedInv, VerdictInv, BootInv, WriterInv, SerialInv, SentInv,
         NEW r \in Runs, NEW u \in Units, SpawnTrigger(r, u)
  PROVE  /\ u \in Colocated => RemoteSettled
         /\ Crowded(u) \/ Recorded(u)
<1>1. wpc[r][u] = "spawn" /\ unsaved[r][u] = NoJob
  BY DEF SpawnTrigger, At, Free
<1>2. Working(r, u) /\ Executing(r) /\ Phased(main[r], u)
  BY <1>1, WorkingIsBusy DEF Working, VerdictInv
<1>3. ASSUME Serial(main[r])
      PROVE  job \in Job /\ disk = job /\ Known = {job}
  <2>1. \A t \in Threads : unsaved[r][t] = NoJob
    BY <1>1, <1>2, <1>3, OneWriter DEF Live
  <2> QED
    BY <1>2, <1>3, <2>1, Settled
<1>4. ASSUME u \in Colocated
      PROVE  RemoteSettled
  <2>1. main[r] = "local"
    BY <1>2, <1>4, ConstAssumption DEF Phased, Remote, ConstAssumption
  <2>2. job \in Job /\ disk = job /\ Known = {job}
    BY <1>3, <2>1 DEF Serial
  <2>3. Begun(main[r]) = Remote
    BY <2>1 DEF Begun, AfterFlag
  <2>4. \A w \in Remote : job.st[w] \in Final
    <3>1. Remote \subseteq Units /\ \A w \in Remote : ~Phased(main[r], w)
      BY <2>1 DEF Phased, Remote, JobNodes, Units
    <3> QED
      BY <2>3, <3>1 DEF VerdictInv, RunsOK, RunOK
  <2> QED
    BY <2>2, <2>4, NoJobAssumption DEF RemoteSettled
<1>5. ASSUME ~Crowded(u)
      PROVE  Recorded(u)
  <2>1. Serial(main[r])
    BY <1>2, <1>5 DEF Phased, Serial, Crowded
  <2>2. job \in Job /\ disk = job /\ Known = {job}
    BY <1>3, <2>1
  <2> QED
    BY <1>1, <2>2, NoJobAssumption DEF SentInv, Recorded
<1> QED
  BY <1>4, <1>5

\* Only the goroutines of its run, a new job and the end of the process change
\* a job in memory.
LEMMA JobChanges ==
  ASSUME BootInv, [Next]_vars, job # NoJob
  PROVE  \/ job' = job
         \/ PanelDown
         \/ \E c \in Callers : StartInstall(c)
         \/ \E r \in Runs : MainStep(r)
         \/ \E r \in Runs, u \in Units : UnitStep(r, u)
<1>1. ~ResumeRun
  BY DEF ResumeRun, BootInv
<1>2. CASE \/ \E c \in Callers : StartClaim(c) \/ StartFails(c)
           \/ ResumeLoad \/ ResumeAbandon \/ PanelUp
           \/ \E r \in Runs, t \in Threads : Save(r, t)
           \/ \E r \in Runs, u \in Units : CallStep(r, u) \/ DeadlinePasses(r, u)
           \/ (\E u \in Units : UnitDown(u) \/ UnitUp(u)) \/ UNCHANGED vars
  BY <1>2 DEF StartClaim, StartFails, ResumeLoad, ResumeAbandon, PanelUp, Save, CallStep,
              SendTrigger, TriggerServed, TriggerAnswer, SetCall, DeadlinePasses, UnitDown,
              UnitUp, vars, runner
<1> QED
  BY <1>1, <1>2 DEF Next

\* A new job starts when no run executes and no goroutine works.
LEMMA InstallsAlone ==
  ASSUME VerdictInv, NEW c \in Callers, StartInstall(c)
  PROVE  main[c] = "listing" /\ \A r \in Runs : ~Executing(r) /\ \A u \in Units : ~Working(r, u)
<1>1. main[c] = "listing" /\ c \in Runs
  BY Numbers DEF StartInstall
<1>2. \A r \in Runs : ~Executing(r)
  BY <1>1 DEF VerdictInv, RunInv, Busy, Executing
<1> QED
  BY <1>1, <1>2, WorkingIsBusy DEF VerdictInv

\* Triggers that are about to be recorded or to leave.
LEMMA SentInvStep ==
  ASSUME NothingLate, TypedInv, VerdictInv, BootInv, WriterInv, SerialInv, SentInv, [Next]_vars
  PROVE  SentInv'
<1>1. wpc \in [Runs -> [Units -> WorkerPc]] /\ call \in [Runs -> [Units -> Call]]
  BY DEF TypedInv, TypeOK
<1>2. ASSUME NEW r \in Runs, NEW u \in Units, wpc'[r][u] = "spawn", wpc[r][u] # "spawn"
      PROVE  UnitStep(r, u)
  <2>1. CASE \E s \in Runs : MainStep(s)
    <3>1. PICK s \in Runs : MainStep(s)
      BY <2>1
    <3>2. Return(s) \/ wpc' = wpc \/ \E S \in SUBSET Units : Launch(s, S)
      BY <3>1, MainStepsArePhases DEF Phase, workers
    <3>3. CASE Return(s)
      BY <1>1, <1>2, <3>3 DEF Return
    <3>4. ASSUME NEW S \in SUBSET Units, Launch(s, S)
          PROVE  FALSE
      <4>1. wpc' = [wpc EXCEPT ![s] = [w \in Units |-> IF w \in S THEN "launched" ELSE wpc[s][w]]]
        BY <1>1, <3>4 DEF Launch
      <4> QED
        BY <1>1, <1>2, <4>1
    <3> QED
      BY <1>2, <3>2, <3>3, <3>4
  <2>2. CASE \E s \in Runs, w \in Units : UnitStep(s, w)
    BY <1>2, <2>2, UnitKeeps
  <2>3. CASE \/ \E c \in Callers : StartClaim(c) \/ StartFails(c) \/ StartInstall(c)
             \/ ResumeLoad \/ ResumeAbandon \/ ResumeRun \/ PanelUp
             \/ \E s \in Runs, t \in Threads : Save(s, t)
             \/ \E s \in Runs, w \in Units : CallStep(s, w) \/ DeadlinePasses(s, w)
             \/ (\E w \in Units : UnitDown(w) \/ UnitUp(w)) \/ UNCHANGED vars
    <3>1. wpc' = wpc
      BY <2>3 DEF StartClaim, StartFails, StartInstall, ResumeLoad, ResumeAbandon, ResumeRun,
                  PanelUp, Save, CallStep, SendTrigger, TriggerServed, TriggerAnswer, SetCall,
                  DeadlinePasses, UnitDown, UnitUp, vars, workers
    <3> QED
      BY <1>2, <3>1
  <2>4. CASE PanelDown
    BY <1>2, <2>4 DEF PanelDown, PerUnit
  <2> QED
    BY <2>1, <2>2, <2>3, <2>4 DEF Next
<1>3. ASSUME NEW r \in Runs, NEW u \in Units, wpc'[r][u] = "spawn"
      PROVE  job'.trig[u]
  <2>1. CASE UnitStep(r, u)
    BY <1>3, <2>1, UnitEditsJob DEF UnitEdit
  <2>2. CASE wpc[r][u] = "spawn"
    <3>1. job.trig[u] /\ job \in Job /\ ~PanelDown
      BY <1>3, <2>2 DEF SentInv, TypedInv, JobInv, PanelDown, PerUnit
    <3>2. CASE \E s \in Runs : MainStep(s)
      BY <3>1, <3>2, RunEditsJob DEF RunEdit
    <3>3. CASE \E s \in Runs, w \in Units : UnitStep(s, w)
      BY <3>1, <3>3, UnitEditsJob DEF UnitEdit
    <3>4. ~\E c \in Callers : StartInstall(c)
      BY <2>2, InstallsAlone DEF Working
    <3> QED
      BY <3>1, <3>2, <3>3, <3>4, JobChanges, NoJobAssumption
  <2> QED
    BY <1>2, <1>3, <2>1, <2>2
<1>4. ASSUME NEW r \in Runs, NEW u \in Units, call'[r][u] = "tosend"
      PROVE  call[r][u] = "tosend" \/ SpawnTrigger(r, u)
  <2>1. CASE \E s \in Runs : MainStep(s)
    BY <1>4, <2>1, MainKeeps
  <2>2. CASE \E s \in Runs, w \in Units : UnitStep(s, w)
    BY <1>4, <2>2, UnitKeeps
  <2>3. CASE \E s \in Runs, w \in Units : CallStep(s, w)
    <3>1. PICK s \in Runs, w \in Units, a \in Call \ {"tosend"} : call' = [call EXCEPT ![s][w] = a]
      BY <2>3 DEF CallStep, SendTrigger, TriggerServed, TriggerAnswer, SetCall, Call
    <3> QED
      BY <1>1, <1>4, <3>1
  <2>4. CASE \/ \E c \in Callers : StartClaim(c) \/ StartFails(c) \/ StartInstall(c)
             \/ ResumeLoad \/ ResumeAbandon \/ ResumeRun \/ PanelUp
             \/ \E s \in Runs, t \in Threads : Save(s, t)
             \/ \E s \in Runs, w \in Units : DeadlinePasses(s, w)
             \/ (\E w \in Units : UnitDown(w) \/ UnitUp(w)) \/ UNCHANGED vars
    <3>1. call' = call
      BY <2>4 DEF StartClaim, StartFails, StartInstall, ResumeLoad, ResumeAbandon, ResumeRun,
                  PanelUp, Save, DeadlinePasses, UnitDown, UnitUp, vars, workers
    <3> QED
      BY <1>4, <3>1
  <2>5. CASE PanelDown
    BY <1>4, <2>5 DEF PanelDown, PerUnit
  <2> QED
    BY <2>1, <2>2, <2>3, <2>4, <2>5 DEF Next
<1>5. ASSUME NEW r \in Runs, NEW u \in Units, call'[r][u] = "tosend"
      PROVE  (u \in Colocated => RemoteSettled') /\ (Crowded(u) \/ Recorded(u)')
  <2>1. (u \in Colocated => RemoteSettled) /\ (Crowded(u) \/ Recorded(u))
    BY <1>4, <1>5, SpawnsKnown DEF SentInv
  <2>2. ASSUME NEW c \in Callers, StartInstall(c)
        PROVE  FALSE
    <3>1. call' = call /\ main[c] = "listing"
      BY <2>2 DEF StartInstall, workers
    <3> QED
      BY <1>5, <3>1 DEF NothingLate
  <2> QED
    BY <2>1, <2>2, RecordsStay
<1> QED
  BY <1>3, <1>5 DEF SentInv, Crowded

\* The panel's update is asked for by one step, in this phase of the run.
LEMMA PanelAsks ==
  ASSUME TypedInv, [Next]_vars
  PROVE  \/ psent' = psent
         \/ psent' = 0
         \/ psent' = psent + 1 /\ \E r \in Runs : MainStep(r) /\ main[r] = "panelSend"
<1>1. CASE \E r \in Runs : MainStep(r)
  <2>1. PICK r \in Runs : MainStep(r)
    BY <1>1
  <2>2. psent' = psent \/ TriggerPanel(r)
    BY <2>1 DEF MainStep, Begin, LaunchWorkers, WaitWorkers, LaunchLocal, LocalDone,
                FlagStuckNodes, BalancersPhase, LaunchBalancers, WaitBalancers, PanelPhase,
                UpdatePanel, PanelSurvives, Seal, Return, history
  <2> QED
    BY <2>1, <2>2 DEF TriggerPanel
<1>2. CASE \E r \in Runs, u \in Units : UnitStep(r, u)
  BY <1>2, UnitEditsJob DEF history
<1>3. CASE \/ \E c \in Callers : StartClaim(c) \/ StartFails(c) \/ StartInstall(c)
           \/ ResumeLoad \/ ResumeAbandon \/ ResumeRun \/ PanelUp \/ PanelDown
           \/ \E r \in Runs, t \in Threads : Save(r, t)
           \/ \E r \in Runs, u \in Units : CallStep(r, u) \/ DeadlinePasses(r, u)
           \/ (\E u \in Units : UnitDown(u) \/ UnitUp(u)) \/ UNCHANGED vars
  BY <1>3 DEF StartClaim, StartFails, StartInstall, ResumeLoad, ResumeAbandon, ResumeRun,
              PanelUp, PanelDown, Save, CallStep, SendTrigger, TriggerServed, TriggerAnswer,
              SetCall, DeadlinePasses, UnitDown, UnitUp, vars, history
<1> QED
  BY <1>1, <1>2, <1>3 DEF Next

\* The panel's update is asked for once, and every copy says so.
LEMMA PanelInvStep ==
  ASSUME TypedInv, VerdictInv, BootInv, WriterInv, SerialInv, PanelInv, [Next]_vars
  PROVE  PanelInv'
<1>1. psent \in Nat /\ main \in [Runs -> MainPc] /\ Boot \in Runs /\ Callers \subseteq Runs
  BY Numbers DEF TypedInv, TypeOK
<1>2. ASSUME NEW r \in Runs, MainStep(r), Serial(main[r])
      PROVE  job \in Job /\ disk = job /\ Known = {job}
  BY <1>2, Quiet, Settled, MainKeeps
<1>3. ASSUME psent' # psent, psent' # 0
      PROVE  psent' = 1 /\ PanelRecorded
  <2>1. PICK r \in Runs : MainStep(r) /\ main[r] = "panelSend" /\ psent' = psent + 1
    BY <1>3, PanelAsks
  <2>2. psent = 0 /\ job.ptrig
    BY <2>1 DEF PanelInv
  <2>3. job \in Job /\ disk = job /\ Known = {job}
    BY <1>2, <2>1 DEF Serial
  <2> QED
    BY <2>1, <2>2, <2>3, NoJobAssumption DEF PanelRecorded
<1>4. psent' <= 1 /\ (psent' = 1 => PanelRecorded')
  <2>1. CASE \E c \in Callers : StartInstall(c)
    BY <2>1 DEF StartInstall
  <2>2. CASE ~\E c \in Callers : StartInstall(c)
    BY <1>1, <1>3, <2>2, RecordsStay DEF PanelInv
  <2> QED
    BY <2>1, <2>2
<1>5. ASSUME NEW r \in Runs, main'[r] = "panelSend"
      PROVE  psent' = 0 /\ job'.ptrig
  <2>1. CASE MainStep(r)
    <3>1. UpdatePanel(r) /\ main[r] = "panelUpdate" /\ ~job.ptrig /\ psent' = psent
      BY <1>1, <1>5, <2>1 DEF MainStep, Begin, LaunchWorkers, WaitWorkers, LaunchLocal, LocalDone,
             FlagStuckNodes, BalancersPhase, LaunchBalancers, WaitBalancers, PanelPhase,
             UpdatePanel, TriggerPanel, PanelSurvives, Seal, Return, Goto, history, PanelAsked
    <3>2. job' = [job EXCEPT !.pst = "triggering", !.ptrig = TRUE]
      BY <1>1, <1>5, <3>1 DEF UpdatePanel, Goto, Update
    <3>3. job \in Job /\ Known = {job}
      BY <1>2, <2>1, <3>1 DEF Serial
    <3>4. psent = 0
      BY <1>1, <3>1, <3>3 DEF PanelInv, PanelRecorded
    <3>5. job'.ptrig
      BY <3>2, <3>3 DEF Job
    <3> QED
      BY <3>1, <3>4, <3>5
  <2>2. CASE ~MainStep(r)
    <3>1. main[r] = "panelSend"
      <4>1. CASE \E s \in Runs : MainStep(s)
        BY <1>5, <2>2, <4>1, MainStepAlone
      <4>2. CASE \E s \in Runs, u \in Units : UnitStep(s, u)
        BY <1>5, <4>2, UnitEditsJob
      <4>3. CASE \/ \E c \in Callers : StartClaim(c) \/ StartFails(c) \/ StartInstall(c)
                 \/ ResumeLoad \/ ResumeAbandon \/ ResumeRun \/ PanelUp
        BY <1>1, <1>5, <4>3 DEF StartClaim, StartFails, StartInstall, ResumeLoad, ResumeAbandon,
                                ResumeRun, PanelUp, Goto
      <4>4. CASE \/ \E s \in Runs, t \in Threads : Save(s, t)
                 \/ \E s \in Runs, u \in Units : CallStep(s, u) \/ DeadlinePasses(s, u)
                 \/ (\E u \in Units : UnitDown(u) \/ UnitUp(u)) \/ UNCHANGED vars
        BY <1>5, <4>4 DEF Save, CallStep, SendTrigger, TriggerServed, TriggerAnswer, SetCall,
                          DeadlinePasses, UnitDown, UnitUp, vars
      <4>5. CASE PanelDown
        BY <1>5, <4>5 DEF PanelDown
      <4> QED
        BY <4>1, <4>2, <4>3, <4>4, <4>5 DEF Next
    <3>2. psent = 0 /\ job.ptrig /\ Executing(r) /\ job \in Job
      BY <3>1 DEF PanelInv, Executing, TypedInv, JobInv
    <3>3. ~\E s \in Runs : MainStep(s)
      BY <2>2, <3>2, MainStepAlone DEF VerdictInv, RunInv, Busy, Executing
    <3>4. psent' = 0
      BY <3>2, <3>3, PanelAsks
    <3>5. ~PanelDown /\ ~\E c \in Callers : StartInstall(c)
      BY <1>5, <3>2, InstallsAlone DEF PanelDown
    <3>6. job'.ptrig
      <4>1. CASE \E s \in Runs, u \in Units : UnitStep(s, u)
        BY <3>2, <4>1, UnitEditsJob DEF UnitEdit
      <4> QED
        BY <3>2, <3>3, <3>5, <4>1, JobChanges, NoJobAssumption
    <3> QED
      BY <3>4, <3>6
  <2> QED
    BY <2>1, <2>2
<1> QED
  BY <1>4, <1>5 DEF PanelInv

-----------------------------------------------------------------------------
(* The theorems for saves that succeed and jobs that start after Resume has *)
(* looked, with any number of jobs and of restarts                          *)

OnceInv == VerdictInv /\ BootInv /\ WriterInv /\ SerialInv /\ PanelInv

LEMMA OnceInit == Init => OnceInv /\ SentInv
<1> SUFFICES ASSUME Init PROVE OnceInv /\ SentInv
  OBVIOUS
<1>1. /\ \A r \in Runs : main[r] = "none"
      /\ \A r \in Runs, u \in Units : ~Live(r, u) /\ wpc[r][u] = "none" /\ call[r][u] = "none"
      /\ \A r \in Runs, t \in Threads : unsaved[r][t] = NoJob
  BY ThreadKinds DEF Init, PerUnit, NothingUnsaved, Live, Working
<1>2. BootInv
  BY <1>1, Numbers DEF Init, BootInv
<1>3. WriterInv
  BY <1>1 DEF WriterInv
<1>4. SerialInv
  BY <1>1 DEF SerialInv, Executing
<1>5. SentInv
  BY <1>1 DEF SentInv
<1>6. PanelInv
  BY <1>1 DEF Init, PanelInv
<1> QED
  BY <1>2, <1>3, <1>4, <1>5, <1>6, VerdictInit DEF OnceInv

LEMMA OnceInvStep ==
  ASSUME OneCaller, ~SaveCanFail, ResumeFirst, TypedInv, OnceInv, [Next]_vars
  PROVE  OnceInv'
<1>1. VerdictInv'
  BY VerdictInvStep DEF OnceInv
<1>2. BootInv'
  BY BootInvStep DEF OnceInv, VerdictInv
<1>3. WriterInv' /\ SerialInv'
  BY <1>1, WriterInvStep, SerialInvStep DEF OnceInv
<1>4. PanelInv'
  BY PanelInvStep DEF OnceInv
<1> QED
  BY <1>1, <1>2, <1>3, <1>4 DEF OnceInv

\* One job asks the panel to recreate itself at most once, however often the
\* panel restarts and the job is resumed: there is no restart loop.
THEOREM PanelAskedOnce ==
  ASSUME OneCaller, ~SaveCanFail
  PROVE  Spec /\ []ResumeFirst => []PanelTriggeredOnce
<1>1. OnceInv => PanelTriggeredOnce
  BY DEF OnceInv, PanelInv, PanelTriggeredOnce
<1>2. TypedInv /\ OnceInv /\ ResumeFirst /\ [Next]_vars => OnceInv'
  BY OnceInvStep
<1> QED
  BY <1>1, <1>2, OnceInit, TypedInit, TypedStep, PTL DEF Spec

\* When updatePanel asks for the panel's update, the database already holds a
\* verdict for every node and every balancer.
THEOREM PanelGoesLast ==
  ASSUME OneCaller, ~SaveCanFail
  PROVE  Spec /\ []ResumeFirst => PanelLast
<1>1. TypedInv /\ OnceInv /\ ResumeFirst /\ [Next]_vars => OnceInv'
  BY OnceInvStep
<1>2. TypedInv /\ OnceInv /\ [Next]_vars
        => [psent' > psent => \A u \in Units : disk.st[u] \in Final]_vars
  <2> SUFFICES ASSUME TypedInv, OnceInv, [Next]_vars, psent' > psent, NEW u \in Units
               PROVE  disk.st[u] \in Final
    OBVIOUS
  <2>1. psent \in Nat
    BY DEF TypedInv, TypeOK
  <2>2. PICK r \in Runs : MainStep(r) /\ main[r] = "panelSend"
    BY <2>1, PanelAsks
  <2>3. /\ ~Live(r, u) /\ Executing(r) /\ disk = job
    BY <2>2, Quiet, Settled, MainKeeps DEF OnceInv, Serial
  <2>4. u \in Begun(main[r])
    BY <2>2 DEF Begun, AfterFlag, Units, JobNodes
  <2> QED
    BY <2>3, <2>4 DEF OnceInv, VerdictInv, RunsOK, RunOK, Live
<1> QED
  BY <1>1, <1>2, OnceInit, TypedInit, TypedStep, PTL DEF Spec, PanelLast

\* Only the start of a trigger call counts a trigger.
LEMMA TriggersLeave ==
  ASSUME TypedInv, [Next]_vars, NEW u \in Units, sent'[u] > sent[u]
  PROVE  \E r \in Runs : call[r][u] = "tosend"
<1>1. sent \in [Units -> Nat]
  BY DEF TypedInv, TypeOK
<1>2. sent' # sent /\ ~\E c \in Callers : StartInstall(c)
  BY <1>1 DEF StartInstall
<1>3. ~\E r \in Runs : MainStep(r)
  BY <1>2, MainStepsArePhases DEF Phase, Return, history
<1>4. ~\E r \in Runs, w \in Units : UnitStep(r, w)
  BY <1>2, UnitEditsJob DEF history
<1>5. CASE \E r \in Runs, w \in Units : CallStep(r, w)
  <2>1. PICK r \in Runs, w \in Units : SendTrigger(r, w)
    BY <1>2, <1>5 DEF CallStep, TriggerServed, TriggerAnswer, history
  <2>2. call[r][w] = "tosend" /\ sent' = [sent EXCEPT ![w] = sent[w] + 1]
    BY <2>1 DEF SendTrigger
  <2>3. w = u
    BY <1>1, <2>2
  <2> QED
    BY <2>2, <2>3
<1>6. CASE \/ \E c \in Callers : StartClaim(c) \/ StartFails(c)
           \/ ResumeLoad \/ ResumeAbandon \/ ResumeRun \/ PanelUp \/ PanelDown
           \/ \E r \in Runs, t \in Threads : Save(r, t)
           \/ \E r \in Runs, w \in Units : DeadlinePasses(r, w)
           \/ (\E w \in Units : UnitDown(w) \/ UnitUp(w)) \/ UNCHANGED vars
  BY <1>2, <1>6 DEF StartClaim, StartFails, ResumeLoad, ResumeAbandon, ResumeRun, PanelUp,
                    PanelDown, Save, DeadlinePasses, UnitDown, UnitUp, vars, history
<1> QED
  BY <1>2, <1>3, <1>4, <1>5, <1>6 DEF Next

\* A node on the panel's host is triggered only when the database holds the
\* verdict of every remote node: the restart that it may cause loses none.
THEOREM LocalWaits ==
  ASSUME OneCaller, ~SaveCanFail
  PROVE  Spec /\ []ResumeFirst /\ []NothingLate => LocalAfterRemote
<1> DEFINE Waits == \A u \in Colocated \cap Units : sent'[u] > sent[u] =>
                      \A w \in Remote : disk.st[w] \in Final
<1>1. TypedInv /\ OnceInv /\ SentInv /\ ResumeFirst /\ NothingLate /\ [Next]_vars
        => OnceInv' /\ SentInv'
  BY OnceInvStep, SentInvStep DEF OnceInv
<1>2. TypedInv /\ SentInv /\ [Next]_vars => [Waits]_vars
  <2> SUFFICES ASSUME TypedInv, SentInv, [Next]_vars, NEW u \in Colocated \cap Units,
                      sent'[u] > sent[u], NEW w \in Remote
               PROVE  disk.st[w] \in Final
    OBVIOUS
  <2>1. RemoteSettled
    BY TriggersLeave DEF SentInv
  <2>2. disk \in Known
    BY <2>1 DEF RemoteSettled, Known, Copies
  <2> QED
    BY <2>1, <2>2 DEF RemoteSettled
<1> QED
  BY <1>1, <1>2, OnceInit, TypedInit, TypedStep, PTL DEF Spec, LocalAfterRemote

\* When a trigger leaves, the database says so and a resumed run will not send
\* it again: for units updated one at a time.  Where several save at once, an
\* older snapshot may overwrite a newer one.
THEOREM TriggersAreKnown ==
  ASSUME OneCaller, ~SaveCanFail, ~Crowd(Remote), ~Crowd(Balancers)
  PROVE  Spec /\ []ResumeFirst /\ []NothingLate => TriggerIsPersisted
<1> DEFINE Persists == \A u \in Units : sent'[u] > sent[u] => disk.trig[u]
<1>1. TypedInv /\ OnceInv /\ SentInv /\ ResumeFirst /\ NothingLate /\ [Next]_vars
        => OnceInv' /\ SentInv'
  BY OnceInvStep, SentInvStep DEF OnceInv
<1>2. TypedInv /\ SentInv /\ [Next]_vars => [Persists]_vars
  <2> SUFFICES ASSUME TypedInv, SentInv, [Next]_vars, NEW u \in Units, sent'[u] > sent[u]
               PROVE  disk.trig[u]
    OBVIOUS
  <2>1. Recorded(u)
    BY TriggersLeave DEF SentInv, Crowded
  <2>2. disk \in Known
    BY <2>1 DEF Recorded, Known, Copies
  <2> QED
    BY <2>1, <2>2 DEF Recorded
<1> QED
  BY <1>1, <1>2, OnceInit, TypedInit, TypedStep, PTL DEF Spec, TriggerIsPersisted

\* A verdict in the memory of the panel stands as long as it runs, but for
\* flagStuckNodes: Resume starts with nothing in memory, if nobody started a job
\* before it had looked.
THEOREM VerdictsStand ==
  ASSUME OneCaller
  PROVE  Spec /\ []ResumeFirst => VerdictStands
<1>1. TypedInv /\ VerdictInv /\ BootInv /\ CountInv /\ ResumeFirst /\ [Next]_vars
        => VerdictInv' /\ BootInv' /\ CountInv'
  BY VerdictInvStep, BootInvStep, CountStep DEF VerdictInv
<1>2. Init => VerdictInv /\ BootInv /\ CountInv
  <2>1. Init => CountInv
    BY DEF Init, CountInv, Copies, NothingUnsaved
  <2> QED
    BY <2>1, OnceInit DEF OnceInv
<1>3. TypedInv /\ VerdictInv /\ BootInv /\ CountInv /\ [Next]_vars => [VerdictStep]_vars
  <2> SUFFICES ASSUME TypedInv, VerdictInv, BootInv, CountInv, [Next]_vars, job # NoJob,
                      job' # NoJob, job'.id = job.id,
                      NEW u \in Units, job.st[u] \in Final
               PROVE  job'.st[u] = job.st[u] \/ (job.st[u] = "uptodate" /\ job'.st[u] = "error")
    BY DEF VerdictStep
  <2>1. CASE \E r \in Runs : MainStep(r)
    BY <2>1, RunEditsJob DEF RunEdit
  <2>2. CASE \E r \in Runs, w \in Units : UnitStep(r, w)
    <3>1. PICK r \in Runs, w \in Units : UnitStep(r, w)
      BY <2>2
    <3>2. UnitEdit(r, w) /\ job.st[w] \notin Final
      BY <3>1, UnitEditsJob, WorkingIsBusy DEF VerdictInv
    <3> QED
      BY <3>2 DEF UnitEdit
  <2>3. ~PanelDown
    BY DEF PanelDown
  <2>4. ~\E c \in Callers : StartInstall(c)
    <3>1. (\E c \in Callers : StartInstall(c)) => job'.id = jobs + 1
      BY DEF StartInstall, Update, NewJob
    <3>2. job.id <= jobs /\ job.id \in Nat /\ jobs \in Nat
      BY Numbers DEF TypedInv, TypeOK, CountInv, Copies, Job
    <3> QED
      BY <3>1, <3>2
  <2> QED
    BY <2>1, <2>2, <2>3, <2>4, JobChanges
<1> QED
  BY <1>1, <1>2, <1>3, TypedInit, TypedStep, PTL DEF Spec, VerdictStands

\* With a bound of one job, the bound of docker_update, both assumptions hold by
\* themselves: the job starts before the first restart, and before any trigger.
THEOREM OneJobComesFirst ==
  ASSUME MaxJobs = 1, OneCaller
  PROVE  Spec => [](ResumeFirst /\ NothingLate)
<1>1. Init => FirstJobInv
  BY DEF Init, FirstJobInv
<1>2. TypedInv /\ FirstJobInv => ResumeFirst /\ NothingLate
  BY Numbers DEF TypedInv, TypeOK, FirstJobInv, ResumeFirst, NothingLate, PerUnit
<1>3. TypedInv /\ VerdictInv /\ FirstJobInv /\ [Next]_vars => FirstJobInv'
  <2> SUFFICES ASSUME TypedInv, VerdictInv, FirstJobInv, [Next]_vars PROVE FirstJobInv'
    OBVIOUS
  <2> USE DEF FirstJobInv
  <2>1. /\ main \in [Runs -> MainPc] /\ Boot \in Runs /\ Callers \subseteq Runs /\ Boot \notin Callers
        /\ jobs \in Nat /\ jobs <= 1
    BY Numbers DEF TypedInv, TypeOK
  <2>2. CASE \/ \E r \in Runs, t \in Threads : Save(r, t)
             \/ \E r \in Runs, u \in Units : DeadlinePasses(r, u)
             \/ (\E u \in Units : UnitDown(u) \/ UnitUp(u)) \/ UNCHANGED vars
    <3>1. UNCHANGED <<alive, main, call, jobs>>
      BY <2>2 DEF Save, DeadlinePasses, UnitDown, UnitUp, vars, workers, bounds
    <3> QED
      BY <3>1
  <2>3. CASE jobs = 0
    <3>1. \A r \in Runs : ~Executing(r) /\ main[r] \notin {"load", "loaded"}
      BY <2>3 DEF Executing
    <3>2. ~(\E r \in Runs : MainStep(r)) /\ ~(\E r \in Runs, u \in Units : UnitStep(r, u))
      BY <3>1, MainKeeps, UnitEditsJob, WorkingIsBusy DEF VerdictInv
    <3>3. ~\E r \in Runs, u \in Units : CallStep(r, u)
      BY <2>3 DEF CallStep, SendTrigger, TriggerServed, TriggerAnswer, PerUnit
    <3>4. ~ResumeLoad /\ ~ResumeAbandon /\ ~ResumeRun /\ ~PanelDown /\ ~PanelUp
      <4>1. ~ResumeLoad /\ ~ResumeAbandon /\ ~ResumeRun
        BY <2>1, <3>1 DEF ResumeLoad, ResumeAbandon, ResumeRun
      <4>2. ~PanelDown /\ ~PanelUp
        BY <2>3 DEF PanelDown, PanelUp
      <4> QED
        BY <4>1, <4>2
    <3>5. ASSUME NEW c \in Callers, StartClaim(c) \/ StartFails(c)
          PROVE  FirstJobInv'
      <4>1. UNCHANGED <<alive, call, jobs>> /\ \A r \in Runs : main'[r] \in {"none", "listing"}
        BY <2>1, <2>3, <3>5 DEF StartClaim, StartFails, Goto, workers, bounds
      <4> QED
        BY <2>3, <4>1
    <3>6. ASSUME NEW c \in Callers, StartInstall(c)
          PROVE  FirstJobInv'
      <4>1. jobs' = 1 /\ \A r \in Runs : main'[r] = IF r = c THEN "begin" ELSE main[r]
        BY <2>1, <2>3, <3>6 DEF StartInstall, Goto
      <4>2. \A r \in Runs \ {c} : r = Boot
        BY DEF OneCaller, Runs
      <4>3. main[Boot] # "listing"
        BY DEF TypedInv, JobInv
      <4> QED
        BY <4>1, <4>2, <4>3
    <3> QED
      BY <2>2, <3>2, <3>3, <3>4, <3>5, <3>6 DEF Next
  <2>4. CASE jobs # 0
    <3>1. \A c \in Callers : ~StartClaim(c) /\ ~StartFails(c) /\ ~StartInstall(c)
      BY <2>1, <2>4 DEF StartClaim, StartFails, StartInstall
    <3>2. CASE ResumeLoad \/ ResumeAbandon \/ ResumeRun \/ PanelDown \/ PanelUp
      <4>1. jobs' = jobs
        BY <3>2 DEF ResumeLoad, ResumeAbandon, ResumeRun, PanelDown, PanelUp, bounds
      <4>2. \/ \A r \in Runs : main'[r] = "none"
            \/ \E pc \in {"none", "load", "loaded", "missed", "begin"} : main' = [main EXCEPT ![Boot] = pc]
        BY <3>2 DEF ResumeLoad, ResumeAbandon, ResumeRun, PanelDown, PanelUp, Goto
      <4>3. \A r \in Runs : main'[r] # "listing"
        BY <2>1, <2>4, <4>2
      <4> QED
        BY <2>1, <2>4, <4>1, <4>3
    <3>3. CASE \E r \in Runs : MainStep(r)
      <4>1. PICK r \in Runs : MainStep(r)
        BY <3>3
      <4>2. jobs' = jobs /\ main'[r] # "listing" /\ \A s \in Runs \ {r} : main'[s] = main[s]
        BY <4>1, MainKeeps DEF ExecPc
      <4> QED
        BY <2>1, <2>4, <4>2
    <3>4. CASE \E r \in Runs, u \in Units : UnitStep(r, u) \/ CallStep(r, u)
      <4>1. jobs' = jobs /\ main' = main
        BY <3>4, UnitEditsJob DEF CallStep, SendTrigger, TriggerServed, TriggerAnswer, SetCall, bounds
      <4> QED
        BY <2>1, <2>4, <4>1
    <3> QED
      BY <2>2, <3>1, <3>2, <3>3, <3>4 DEF Next
  <2> QED
    BY <2>3, <2>4
<1>4. TypedInv /\ VerdictInv /\ [Next]_vars => VerdictInv'
  BY VerdictInvStep
<1> QED
  BY <1>1, <1>2, <1>3, <1>4, VerdictInit, TypedInit, TypedStep, PTL DEF Spec
=============================================================================
