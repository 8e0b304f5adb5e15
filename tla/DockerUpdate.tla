---------------------------- MODULE DockerUpdate ----------------------------
(***************************************************************************)
(* The panel's Docker update job (web/service/docker_update_job.go): one   *)
(* persisted job that updates every worker node, then every balancer, and  *)
(* the panel last, and that a restarted panel resumes.                     *)
(*                                                                         *)
(* A run of the job is the goroutine `run`, started by a caller of Start   *)
(* or by Resume at boot; it launches one goroutine per unit (a node or a   *)
(* balancer), and each of those one goroutine for the blocking trigger     *)
(* call.  Every change of the job is made under the runner's lock, but the *)
(* snapshot of it is saved after the lock is released: `unsaved` holds the *)
(* snapshots on their way to the database.                                 *)
(*                                                                         *)
(* Time is abstracted: `expired` says that a unit's deadline has passed;   *)
(* whether the settle period is over is a choice once it has begun; the    *)
(* age of a persisted job is a choice when Resume looks at it.  Versions   *)
(* are numbers, 0 for the empty string.                                    *)
(***************************************************************************)
EXTENDS Naturals, FiniteSets

CONSTANTS
  Nodes,            \* worker nodes, numbered in the job's order
  Balancers,        \* balancer agents, numbered after the nodes
  Colocated,        \* nodes that share the panel's host
  Disabled,         \* units the operator disabled
  Unversioned,      \* units whose stored version is empty when a job starts
  Callers,          \* concurrent callers of Start
  Boot,             \* the run started by Resume
  NoJob,            \* no job
  MultiNode,        \* multi-node mode
  ReliableProbe,    \* TRUE: a probe of a unit that is up always succeeds
  SaveCanFail,      \* TRUE: a save may fail (it is logged and ignored)
  ListCanFail,      \* TRUE: Start may fail to list the nodes or the balancers
  LoadCanFail,      \* TRUE: Resume may fail to read or to decode the job
  MaxVersion, MaxJobs, MaxCrashes, MaxDowns   \* bounds of the exploration

ASSUME ConstAssumption ==
  /\ Colocated \subseteq Nodes
  /\ Nodes \subseteq Nat \ {0} /\ Balancers \subseteq Nat \ {0}
  /\ Nodes \cap Balancers = {}
  /\ Disabled \subseteq Nodes \cup Balancers
  /\ Unversioned \subseteq Nodes \cup Balancers
  /\ Boot \notin Callers
  /\ MultiNode \in BOOLEAN /\ ReliableProbe \in BOOLEAN /\ SaveCanFail \in BOOLEAN
  /\ ListCanFail \in BOOLEAN /\ LoadCanFail \in BOOLEAN
  /\ MaxVersion \in Nat \ {0} /\ MaxJobs \in Nat /\ MaxCrashes \in Nat /\ MaxDowns \in Nat \ {0}

Units == (IF MultiNode THEN Nodes ELSE {}) \cup Balancers
JobNodes == IF MultiNode THEN Nodes ELSE {}
Main == 0           \* the thread of `run` itself, next to one thread per unit
Runs == Callers \cup {Boot}
Threads == Units \cup {Main}
Version == 0..MaxVersion

Final == {"updated", "uptodate", "error", "skipped"}
Status == {"pending", "triggering", "restarting"} \cup Final

Job == [id : 1..MaxJobs, state : {"running", "done", "failed"},
        st : [Units -> Status], trig : [Units -> BOOLEAN], off : [Units -> BOOLEAN],
        before : [Units -> Version], after : [Units -> Version],
        pst : Status, ptrig : BOOLEAN, pbefore : Version]

ASSUME NoJobAssumption == NoJob \notin Job

VARIABLES
  alive,      \* the panel process is up
  running,    \* dockerUpdateRunner.running
  job,        \* dockerUpdateRunner.job
  disk,       \* the persisted job
  loaded,     \* the job Resume has read and not yet acted on
  unsaved,    \* [run][thread]: the snapshot the thread is saving
  main,       \* [run]: where its run goroutine (or its Start, or Resume) is
  wpc,        \* [run][unit]: where the unit's goroutine is
  call,       \* [run][unit]: the trigger call and its answer
  settle,     \* [run][unit]: settleAt has been set
  expired,    \* [run][unit]: the deadline has passed
  jobs, crashes,                 \* how many, for the bounds
  up, ver, asked,  \* per unit: reachable, version, its updater was asked
  pver,                          \* version of the panel's image
  sent, downs, psent             \* history of this job: triggers sent to a
                                 \* unit, times it was down, panel triggers

runner == <<running, job, disk, loaded, unsaved>>
workers == <<wpc, call, settle, expired>>
world == <<up, ver, asked, pver>>
history == <<sent, downs, psent>>
bounds == <<jobs, crashes>>
vars == <<alive, runner, main, workers, bounds, world, history>>

MainPc == {"none", "listing", "load", "loaded", "missed", "begin", "workers", "waitWorkers",
           "local", "flag", "balancers", "launchBalancers", "waitBalancers", "panel",
           "panelUpdate", "panelSend", "panelWait", "seal", "return"}
WorkerPc == {"none", "launched", "spawn", "select", "probe", "check", "exited"}
Call == {"none", "tosend", "inflight", "served", "ok", "transient", "rejected", "taken"}

TypeOK ==
  /\ alive \in BOOLEAN /\ running \in BOOLEAN
  /\ job \in Job \cup {NoJob} /\ disk \in Job \cup {NoJob} /\ loaded \in Job \cup {NoJob}
  /\ unsaved \in [Runs -> [Threads -> Job \cup {NoJob}]]
  /\ main \in [Runs -> MainPc]
  /\ wpc \in [Runs -> [Units -> WorkerPc]]
  /\ call \in [Runs -> [Units -> Call]]
  /\ settle \in [Runs -> [Units -> BOOLEAN]] /\ expired \in [Runs -> [Units -> BOOLEAN]]
  /\ jobs \in 0..MaxJobs /\ crashes \in 0..MaxCrashes
  /\ up \in [Units -> BOOLEAN] /\ ver \in [Units -> Version] /\ asked \in [Units -> BOOLEAN]
  /\ pver \in Version
  /\ sent \in [Units -> Nat] /\ downs \in [Units -> 0..MaxDowns] /\ psent \in Nat

\* The value of a per-run, per-unit variable while no goroutine exists.
PerUnit(x) == [r \in Runs |-> [u \in Units |-> x]]
NothingUnsaved == [r \in Runs |-> [t \in Threads |-> NoJob]]

Init ==
  /\ alive = TRUE /\ running = FALSE
  /\ job = NoJob /\ disk = NoJob /\ loaded = NoJob
  /\ unsaved = NothingUnsaved
  /\ wpc = PerUnit("none") /\ call = PerUnit("none")
  /\ settle = PerUnit(FALSE) /\ expired = PerUnit(FALSE)
  /\ main = [r \in Runs |-> "none"]
  /\ jobs = 0 /\ crashes = 0
  /\ up \in [Units -> BOOLEAN]
  /\ ver = [u \in Units |-> 1] /\ asked = [u \in Units |-> FALSE]
  /\ pver = 1
  /\ sent = [u \in Units |-> 0] /\ downs = [u \in Units |-> 0] /\ psent = 0

-----------------------------------------------------------------------------
(* Persistence: update() changes the job under the lock and hands a copy to *)
(* the thread, which is blocked until that copy is saved.                   *)

Free(r, t) == alive /\ unsaved[r][t] = NoJob

Update(r, t, j) ==
  /\ job' = j
  /\ unsaved' = [unsaved EXCEPT ![r][t] = j]
  /\ UNCHANGED <<running, disk, loaded>>

Save(r, t) ==
  /\ alive /\ unsaved[r][t] # NoJob
  /\ \/ disk' = unsaved[r][t]
     \/ SaveCanFail /\ disk' = disk
  /\ unsaved' = [unsaved EXCEPT ![r][t] = NoJob]
  /\ UNCHANGED <<alive, running, job, loaded, main, workers, bounds, world, history>>

Goto(r, pc) == main' = [main EXCEPT ![r] = pc]

-----------------------------------------------------------------------------
(* Start *)

NewJob ==
  [id |-> jobs + 1, state |-> "running",
   st |-> [u \in Units |-> IF u \in Disabled THEN "skipped" ELSE "pending"],
   trig |-> [u \in Units |-> FALSE], off |-> [u \in Units |-> FALSE],
   before |-> [u \in Units |-> IF u \in Unversioned THEN 0 ELSE ver[u]],
   after |-> [u \in Units |-> 0],
   pst |-> "pending", ptrig |-> FALSE, pbefore |-> pver]

\* The claim.  It refuses only when a job is there as well as a run.
StartClaim(c) ==
  /\ alive /\ main[c] = "none" /\ jobs < MaxJobs
  /\ ~(running /\ job # NoJob)
  /\ running' = TRUE
  /\ Goto(c, "listing")
  /\ UNCHANGED <<alive, job, disk, loaded, unsaved, workers, bounds, world, history>>

\* ListNodes or ListBalancers failed: the claim is given back.
StartFails(c) ==
  /\ ListCanFail
  /\ alive /\ main[c] = "listing"
  /\ running' = FALSE
  /\ Goto(c, "none")
  /\ UNCHANGED <<alive, job, disk, loaded, unsaved, workers, bounds, world, history>>

\* The new job is installed and saved, and its run begins after the save.
StartInstall(c) ==
  /\ alive /\ main[c] = "listing" /\ jobs < MaxJobs
  /\ Update(c, Main, NewJob)
  /\ jobs' = jobs + 1
  /\ Goto(c, "begin")
  /\ asked' = [u \in Units |-> FALSE]
  /\ sent' = [u \in Units |-> 0] /\ psent' = 0
  /\ downs' = [u \in Units |-> IF up[u] THEN 0 ELSE 1]
  /\ UNCHANGED <<alive, workers, crashes, up, ver, pver>>

-----------------------------------------------------------------------------
(* Resume, once after boot *)

Open == disk # NoJob /\ disk.state = "running"

\* "missed": Resume is over, and may have left an interrupted job where it was.
ResumeLoad ==
  /\ alive /\ main[Boot] = "load"
  /\ \/ Open /\ loaded' = disk /\ Goto(Boot, "loaded")
     \/ ~Open /\ loaded' = loaded /\ Goto(Boot, "none")
     \/ LoadCanFail /\ loaded' = loaded /\ Goto(Boot, "missed")
  /\ UNCHANGED <<alive, running, job, disk, unsaved, workers, bounds, world, history>>

\* Fault: the abandoned job gets its phase as its state.
AbandonedAsPhase(j) == [j EXCEPT !.state = "abandoned"]

\* The persisted job is older than ResumeWindow: closed without the lock.
Abandoned(j) == [j EXCEPT !.state = "failed",
                          !.pst = IF j.pst \in Final THEN j.pst ELSE "error"]

ResumeAbandon ==
  /\ alive /\ main[Boot] = "loaded"
  /\ disk' = Abandoned(loaded) \/ (SaveCanFail /\ disk' = disk)
  /\ loaded' = NoJob
  /\ Goto(Boot, "none")
  /\ UNCHANGED <<alive, running, job, unsaved, workers, bounds, world, history>>

\* Fault: Resume does not look whether a run is there already.
ResumeRunBlindly ==
  /\ alive /\ main[Boot] = "loaded"
  /\ loaded' = NoJob
  /\ running' = TRUE /\ job' = loaded /\ Goto(Boot, "begin")
  /\ UNCHANGED <<alive, disk, unsaved, workers, bounds, world, history>>

ResumeRun ==
  /\ alive /\ main[Boot] = "loaded"
  /\ loaded' = NoJob
  /\ IF running
       THEN UNCHANGED <<running, job>> /\ Goto(Boot, "missed")
       ELSE running' = TRUE /\ job' = loaded /\ Goto(Boot, "begin")
  /\ UNCHANGED <<alive, disk, unsaved, workers, bounds, world, history>>

-----------------------------------------------------------------------------
(* The run goroutine: phases, each opened by an update of the job *)

Pending(S) == {u \in S : u \notin Disabled /\ job.st[u] \notin Final}
\* Fault: nodes on the panel's host are updated along with the others.
RemoteOrLocal == JobNodes
Remote == JobNodes \ Colocated

Launch(r, S) ==
  /\ wpc' = [wpc EXCEPT ![r] = [u \in Units |-> IF u \in S THEN "launched" ELSE @[u]]]
  /\ UNCHANGED <<call, settle, expired>>

\* Fault: a unit counts as done before its verdict is saved.
ExitedUnsaved(r, S) == \A u \in S : wpc[r][u] \in {"none", "exited"}
Exited(r, S) == \A u \in S : wpc[r][u] \in {"none", "exited"} /\ unsaved[r][u] = NoJob

Begin(r) ==
  /\ main[r] = "begin" /\ Free(r, Main)
  /\ IF MultiNode
       THEN Update(r, Main, job) /\ Goto(r, "workers")
       ELSE UNCHANGED runner /\ Goto(r, "balancers")
  /\ UNCHANGED <<alive, workers, bounds, world, history>>

LaunchWorkers(r) ==
  /\ main[r] = "workers" /\ Free(r, Main)
  /\ Launch(r, Pending(Remote))
  /\ Goto(r, "waitWorkers")
  /\ UNCHANGED <<alive, runner, bounds, world, history>>

WaitWorkers(r) ==
  /\ main[r] = "waitWorkers" /\ Free(r, Main) /\ Exited(r, Remote)
  /\ Update(r, Main, job)
  /\ Goto(r, "local")
  /\ UNCHANGED <<alive, workers, bounds, world, history>>

\* Nodes on the panel's own host, one after the other.
LaunchLocal(r, u) ==
  /\ main[r] = "local" /\ Free(r, Main)
  /\ Exited(r, Colocated \cap JobNodes)
  /\ u \in Pending(Colocated \cap JobNodes)
  /\ \A w \in Pending(Colocated \cap JobNodes) : u <= w
  /\ Launch(r, {u})
  /\ UNCHANGED <<alive, runner, main, bounds, world, history>>

LocalDone(r) ==
  /\ main[r] = "local" /\ Free(r, Main)
  /\ Exited(r, Colocated \cap JobNodes) /\ Pending(Colocated \cap JobNodes) = {}
  /\ Update(r, Main, job)
  /\ Goto(r, "flag")
  /\ UNCHANGED <<alive, workers, bounds, world, history>>

\* flagStuckNodes: a node that settled on an older version than a peer failed.
\* Fault: only nodes that settled are compared.
VerifiedSettled == {u \in JobNodes : job.st[u] = "uptodate"}
Verified == {u \in JobNodes : job.st[u] \in {"updated", "uptodate"}}
Behind(u) == job.st[u] = "uptodate" /\ \E w \in Verified : job.after[u] < job.after[w]
Flagged == [job EXCEPT !.st = [u \in Units |-> IF u \in JobNodes /\ Behind(u) THEN "error" ELSE @[u]]]

FlagStuckNodes(r) ==
  /\ main[r] = "flag" /\ Free(r, Main)
  /\ IF \E u \in Verified : job.after[u] > 0
       THEN Update(r, Main, Flagged)
       ELSE UNCHANGED runner
  /\ Goto(r, "balancers")
  /\ UNCHANGED <<alive, workers, bounds, world, history>>

\* The phase is skipped when no balancer is pending; else it is saved before
\* its goroutines start.
BalancersPhase(r) ==
  /\ main[r] = "balancers" /\ Free(r, Main)
  /\ IF Pending(Balancers) # {}
       THEN Update(r, Main, job) /\ Goto(r, "launchBalancers")
       ELSE UNCHANGED runner /\ Goto(r, "panel")
  /\ UNCHANGED <<alive, workers, bounds, world, history>>

LaunchBalancers(r) ==
  /\ main[r] = "launchBalancers" /\ Free(r, Main)
  /\ Launch(r, Pending(Balancers))
  /\ Goto(r, "waitBalancers")
  /\ UNCHANGED <<alive, runner, bounds, world, history>>

WaitBalancers(r) ==
  /\ main[r] = "waitBalancers" /\ Free(r, Main) /\ Exited(r, Balancers)
  /\ Goto(r, "panel")
  /\ UNCHANGED <<alive, runner, workers, bounds, world, history>>

PanelPhase(r) ==
  /\ main[r] = "panel" /\ Free(r, Main)
  /\ Update(r, Main, job)
  /\ Goto(r, "panelUpdate")
  /\ UNCHANGED <<alive, workers, bounds, world, history>>

\* An earlier process, or this one, asked for the panel's update.
\* Fault: the request is remembered by the status only once it is over.
PanelAskedIfFinal == job.pst \in Final
PanelAsked == job.ptrig

\* updatePanel: decided by the running version, then by an earlier trigger.
UpdatePanel(r) ==
  /\ main[r] = "panelUpdate" /\ Free(r, Main)
  /\ \/ /\ pver # job.pbefore
        /\ Update(r, Main, [job EXCEPT !.pst = "updated"]) /\ Goto(r, "seal")
     \/ /\ pver = job.pbefore /\ PanelAsked
        /\ Update(r, Main, [job EXCEPT !.pst = "uptodate"]) /\ Goto(r, "seal")
     \/ /\ pver = job.pbefore /\ ~PanelAsked
        /\ Update(r, Main, [job EXCEPT !.pst = "triggering", !.ptrig = TRUE])
        /\ Goto(r, "panelSend")
  /\ UNCHANGED <<alive, workers, bounds, world, history>>

TriggerPanel(r) ==
  /\ main[r] = "panelSend" /\ Free(r, Main)
  /\ psent' = psent + 1
  /\ Goto(r, "panelWait")
  /\ UNCHANGED <<alive, runner, workers, bounds, world, sent, downs>>

\* This process is still alive after the trigger: rejected, or nothing newer.
PanelSurvives(r) ==
  /\ main[r] = "panelWait" /\ Free(r, Main)
  /\ \/ Update(r, Main, [job EXCEPT !.pst = "error"])
     \/ Update(r, Main, [job EXCEPT !.pst = IF pver # job.pbefore THEN "updated" ELSE "uptodate"])
  /\ Goto(r, "seal")
  /\ UNCHANGED <<alive, workers, bounds, world, history>>

\* Fault: only the panel's own error fails the job.
SealedByPanel == [job EXCEPT !.state = IF job.pst = "error" THEN "failed" ELSE "done"]
Sealed == [job EXCEPT !.state =
             IF job.pst = "error" \/ \E u \in Units : job.st[u] = "error" THEN "failed" ELSE "done"]

Seal(r) ==
  /\ main[r] = "seal" /\ Free(r, Main)
  /\ Update(r, Main, Sealed)
  /\ Goto(r, "return")
  /\ UNCHANGED <<alive, workers, bounds, world, history>>

\* The deferred release; a trigger call still in flight outlives the run.
Return(r) ==
  /\ main[r] = "return" /\ Free(r, Main)
  /\ running' = FALSE
  /\ Goto(r, "none")
  /\ wpc' = [wpc EXCEPT ![r] = [u \in Units |-> "none"]]
  /\ settle' = [settle EXCEPT ![r] = [u \in Units |-> FALSE]]
  /\ expired' = [expired EXCEPT ![r] = [u \in Units |-> FALSE]]
  /\ UNCHANGED <<alive, job, disk, loaded, unsaved, call, bounds, world, history>>

-----------------------------------------------------------------------------
(* One unit: updateOneNode, and updateOneBalancer line for line the same *)

At(r, u, pc) == wpc[r][u] = pc /\ Free(r, u)
Step(r, u, pc) == wpc' = [wpc EXCEPT ![r][u] = pc]
\* Fault: a verdict without the return that should follow it.
ExitForgotten(r, u) == Step(r, u, "check") /\ UNCHANGED <<call, settle, expired>>

\* The unit's goroutine ends; a trigger call on its way goes on without it.
Exit(r, u) ==
  /\ Step(r, u, "exited")
  /\ call' = [call EXCEPT ![r][u] = IF @ \in {"tosend", "inflight"} THEN @ ELSE "none"]
  /\ settle' = [settle EXCEPT ![r][u] = FALSE]
  /\ expired' = [expired EXCEPT ![r][u] = FALSE]
Mark(u, s) == [job EXCEPT !.st[u] = s]

\* The unit is no longer listed, or listing failed: a final error.
NotFound(r, u) ==
  /\ At(r, u, "launched")
  /\ Update(r, u, Mark(u, "error")) /\ Exit(r, u)
  /\ UNCHANGED <<alive, main, bounds, world, history>>

\* Not triggered yet: record the trigger first, send it after the save.
RecordTrigger(r, u) ==
  /\ At(r, u, "launched") /\ ~job.trig[u]
  /\ Update(r, u, [job EXCEPT !.st[u] = "triggering", !.trig[u] = TRUE])
  /\ Step(r, u, "spawn")
  /\ UNCHANGED <<alive, main, call, settle, expired, bounds, world, history>>

\* Fault: the trigger leaves without waiting for the save.
SpawnTriggerUnsaved(r, u) ==
  /\ alive /\ wpc[r][u] = "spawn"
  /\ call' = [call EXCEPT ![r][u] = "tosend"]
  /\ Step(r, u, "select")
  /\ UNCHANGED <<alive, runner, main, settle, expired, bounds, world, history>>

SpawnTrigger(r, u) ==
  /\ At(r, u, "spawn")
  /\ call' = [call EXCEPT ![r][u] = "tosend"]
  /\ Step(r, u, "select")
  /\ UNCHANGED <<alive, runner, main, settle, expired, bounds, world, history>>

\* Resumed and already triggered: only verify.
VerifyOnly(r, u) ==
  /\ At(r, u, "launched") /\ job.trig[u]
  /\ settle' = [settle EXCEPT ![r][u] = TRUE]
  /\ Step(r, u, "select")
  /\ UNCHANGED <<alive, runner, main, call, expired, bounds, world, history>>

\* The non-blocking receive at the head of the loop.
Select(r, u) ==
  /\ At(r, u, "select")
  /\ \/ /\ call[r][u] = "rejected"
        /\ Update(r, u, Mark(u, "error")) /\ Exit(r, u)
     \/ /\ call[r][u] \in {"ok", "transient"}
        /\ call' = [call EXCEPT ![r][u] = "taken"]
        /\ settle' = [settle EXCEPT ![r][u] = TRUE]
        /\ Step(r, u, "probe") /\ UNCHANGED <<runner, expired>>
     \/ /\ call[r][u] \notin {"ok", "transient", "rejected"}
        /\ Step(r, u, "probe") /\ UNCHANGED <<runner, call, settle, expired>>
  /\ UNCHANGED <<alive, main, bounds, world, history>>

\* No answer, or an answer that is not 200: taken as a restart in progress.
ProbeFails(r, u) ==
  /\ At(r, u, "probe")
  /\ ~up[u] \/ ~ReliableProbe
  /\ Update(r, u, [job EXCEPT !.st[u] = "restarting", !.off[u] = TRUE])
  /\ Step(r, u, "check")
  /\ UNCHANGED <<alive, main, call, settle, expired, bounds, world, history>>

\* Fault: a missing version counts as another version.
ChangedLoosely(u, v) == v # job.before[u]
Changed(u, v) == v # 0 /\ job.before[u] # 0 /\ v # job.before[u]
Came(u, v) == Changed(u, v) \/ (job.off[u] /\ v # 0)

ProbeUpdated(r, u, v) ==
  /\ At(r, u, "probe") /\ up[u] /\ v \in {0, ver[u]}
  /\ Came(u, v)
  /\ Update(r, u, [job EXCEPT !.st[u] = "updated", !.after[u] = v])
  /\ Exit(r, u)
  /\ UNCHANGED <<alive, main, bounds, world, history>>

ProbeSettled(r, u, v) ==
  /\ At(r, u, "probe") /\ up[u] /\ v \in {0, ver[u]}
  /\ ~Came(u, v) /\ settle[r][u]
  /\ Update(r, u, [job EXCEPT !.st[u] = "uptodate", !.after[u] = v])
  /\ Exit(r, u)
  /\ UNCHANGED <<alive, main, bounds, world, history>>

ProbeUndecided(r, u, v) ==
  /\ At(r, u, "probe") /\ up[u] /\ v \in {0, ver[u]}
  /\ ~Came(u, v)
  /\ Step(r, u, "check")
  /\ UNCHANGED <<alive, runner, main, call, settle, expired, bounds, world, history>>

\* Fault: no deadline.
CheckDeadlineNever(r, u) ==
  /\ At(r, u, "check")
  /\ Step(r, u, "select")
  /\ UNCHANGED <<alive, runner, main, call, settle, expired, bounds, world, history>>

CheckDeadline(r, u) ==
  /\ At(r, u, "check")
  /\ IF expired[r][u]
       THEN Update(r, u, Mark(u, "error")) /\ Exit(r, u)
       ELSE UNCHANGED <<runner, call, settle, expired>> /\ Step(r, u, "select")
  /\ UNCHANGED <<alive, main, bounds, world, history>>

DeadlinePasses(r, u) ==
  /\ alive /\ wpc[r][u] \in {"select", "probe", "check"} /\ ~expired[r][u]
  /\ expired' = [expired EXCEPT ![r][u] = TRUE]
  /\ UNCHANGED <<alive, runner, main, wpc, call, settle, bounds, world, history>>

-----------------------------------------------------------------------------
(* The trigger call, in a goroutine of its own *)

SetCall(r, u, c) ==
  /\ call' = [call EXCEPT ![r][u] = c]
  /\ UNCHANGED <<alive, runner, main, wpc, settle, expired, bounds>>

SendTrigger(r, u) ==
  /\ alive /\ call[r][u] = "tosend"
  /\ SetCall(r, u, "inflight")
  /\ sent' = [sent EXCEPT ![u] = @ + 1]
  /\ UNCHANGED <<world, downs, psent>>

\* The unit's updater starts working on the request.
TriggerServed(r, u) ==
  /\ alive /\ call[r][u] = "inflight" /\ up[u]
  /\ SetCall(r, u, "served")
  /\ asked' = [asked EXCEPT ![u] = TRUE]
  /\ UNCHANGED <<up, ver, pver, history>>

\* An answer that comes after the unit's goroutine is gone is read by nobody.
TriggerAnswer(r, u, a) ==
  /\ alive
  /\ wpc[r][u] # "exited"
  /\ \/ call[r][u] = "inflight" /\ a \in {"transient", "rejected"}
     \/ call[r][u] = "served" /\ a \in {"ok", "transient"}
  /\ SetCall(r, u, a)
  /\ UNCHANGED <<world, history>>

-----------------------------------------------------------------------------
(* The world: units restart, and the panel process is recreated.  A unit   *)
(* moves only while a goroutine watches it: nobody looks at it otherwise.  *)

Watched(u) == \E r \in Runs : wpc[r][u] \in {"select", "probe", "check"}

UnitDown(u) ==
  /\ up[u] /\ downs[u] < MaxDowns /\ Watched(u)
  /\ up' = [up EXCEPT ![u] = FALSE]
  /\ downs' = [downs EXCEPT ![u] = @ + 1]
  /\ UNCHANGED <<alive, runner, main, workers, bounds, ver, asked, pver, sent, psent>>

UnitUp(u) ==
  /\ ~up[u] /\ Watched(u)
  /\ up' = [up EXCEPT ![u] = TRUE]
  /\ \E v \in (IF asked[u] THEN ver[u]..MaxVersion ELSE {ver[u]}) : ver' = [ver EXCEPT ![u] = v]
  /\ UNCHANGED <<alive, runner, main, workers, bounds, asked, pver, history>>

\* The panel process dies (before the first job that would change nothing); its
\* image changes only if an updater on its host ran.
PanelDown ==
  /\ alive /\ crashes < MaxCrashes /\ jobs > 0
  /\ alive' = FALSE
  /\ crashes' = crashes + 1
  /\ pver' \in {pver} \cup (IF psent > 0 \/ \E u \in Colocated \cap Units : asked[u]
                            THEN pver..MaxVersion ELSE {})
  /\ running' = FALSE /\ job' = NoJob /\ loaded' = NoJob
  /\ unsaved' = NothingUnsaved
  /\ wpc' = PerUnit("none") /\ call' = PerUnit("none")
  /\ settle' = PerUnit(FALSE) /\ expired' = PerUnit(FALSE)
  /\ main' = [r \in Runs |-> "none"]
  /\ UNCHANGED <<disk, jobs, up, ver, asked, history>>

PanelUp ==
  /\ ~alive
  /\ alive' = TRUE
  /\ Goto(Boot, "load")
  /\ UNCHANGED <<runner, workers, bounds, world, history>>

-----------------------------------------------------------------------------
MainStep(r) ==
  \/ Begin(r) \/ LaunchWorkers(r) \/ WaitWorkers(r)
  \/ (\E u \in Units : LaunchLocal(r, u)) \/ LocalDone(r) \/ FlagStuckNodes(r)
  \/ BalancersPhase(r) \/ LaunchBalancers(r) \/ WaitBalancers(r)
  \/ PanelPhase(r) \/ UpdatePanel(r) \/ TriggerPanel(r) \/ PanelSurvives(r)
  \/ Seal(r) \/ Return(r)

UnitStep(r, u) ==
  \/ NotFound(r, u) \/ RecordTrigger(r, u) \/ SpawnTrigger(r, u) \/ VerifyOnly(r, u)
  \/ Select(r, u) \/ ProbeFails(r, u)
  \/ (\E v \in Version : ProbeUpdated(r, u, v) \/ ProbeSettled(r, u, v) \/ ProbeUndecided(r, u, v))
  \/ CheckDeadline(r, u)

CallStep(r, u) ==
  \/ SendTrigger(r, u) \/ TriggerServed(r, u)
  \/ \E a \in {"ok", "transient", "rejected"} : TriggerAnswer(r, u, a)

Next ==
  \/ \E c \in Callers : StartClaim(c) \/ StartFails(c) \/ StartInstall(c)
  \/ ResumeLoad \/ ResumeAbandon \/ ResumeRun
  \/ \E r \in Runs : MainStep(r)
  \/ \E r \in Runs, t \in Threads : Save(r, t)
  \/ \E r \in Runs, u \in Units : UnitStep(r, u) \/ CallStep(r, u) \/ DeadlinePasses(r, u)
  \/ \E u \in Units : UnitDown(u) \/ UnitUp(u)
  \/ PanelDown \/ PanelUp

Spec == Init /\ [][Next]_vars

\* Goroutines run, time passes, and a panel that went down is started again.
\* Nothing is assumed of the operator, of the units or of the trigger calls.
Fairness ==
  /\ WF_vars(\E c \in Callers : StartFails(c) \/ StartInstall(c))
  /\ WF_vars(ResumeLoad) /\ WF_vars(ResumeAbandon \/ ResumeRun) /\ WF_vars(PanelUp)
  /\ \A r \in Runs : WF_vars(MainStep(r))
  /\ \A r \in Runs, t \in Threads : WF_vars(Save(r, t))
  /\ \A r \in Runs, u \in Units : WF_vars(UnitStep(r, u)) /\ WF_vars(DeadlinePasses(r, u))

FairSpec == Spec /\ Fairness

-----------------------------------------------------------------------------
(* Properties *)

Executing(r) == main[r] \notin {"none", "listing", "load", "loaded", "missed"}

\* At most one run of the job is executing: Start refuses while one runs and
\* Resume yields to a Start that came first.
OneRunAtATime == \A r, s \in Runs : Executing(r) /\ Executing(s) => r = s

\* "Updated" rests on a fact: the unit runs another version than before the
\* job, or it was really down since the job began (what happened is counted
\* for the latest job).
VerdictFromFacts ==
  job # NoJob /\ job.id = jobs =>
    \A u \in Units : job.st[u] = "updated" =>
      downs[u] > 0 \/ (job.before[u] # 0 /\ ver[u] # job.before[u])

\* The panel is asked to recreate itself only when the persisted job already
\* holds a verdict for every unit: the restart cannot lose one.
PanelLast ==
  [][psent' > psent => \A u \in Units : disk.st[u] \in Final]_vars

\* A node on the panel's host, whose update may kill the panel, is triggered
\* only when every remote node has a persisted verdict.
LocalAfterRemote ==
  [][\A u \in Colocated \cap Units : sent'[u] > sent[u] =>
       \A w \in Remote : disk.st[w] \in Final]_vars

\* When a trigger leaves, the persisted job says so: a resumed run will not
\* send it again.
TriggerIsPersisted ==
  [][\A u \in Units : sent'[u] > sent[u] => disk.trig[u]]_vars

\* However often the panel restarts, one job asks for its update once: no
\* restart loop.
PanelTriggeredOnce == psent <= 1

\* A step that changes no verdict of the job but for flagStuckNodes.
VerdictStep ==
  job # NoJob /\ job' # NoJob /\ job'.id = job.id =>
    \A u \in Units : job.st[u] \in Final =>
      job'.st[u] = job.st[u] \/ (job.st[u] = "uptodate" /\ job'.st[u] = "error")

\* A verdict of this process stands, except that flagStuckNodes may turn
\* "up to date" into an error.
VerdictStands == [][VerdictStep]_vars

\* Where a run is once the nodes are done.
AfterFlag == {"balancers", "launchBalancers", "waitBalancers", "panel", "panelUpdate",
              "panelSend", "panelWait", "seal", "return"}

\* Once the nodes are done, none passes as up to date on a version older than
\* the one a peer was verified on.
Ordered ==
  \A u, w \in JobNodes : job.st[u] = "uptodate" /\ job.st[w] \in {"updated", "uptodate"}
                          => job.after[u] >= job.after[w]
NoNodeLeftBehind == \A r \in Runs : main[r] \in AfterFlag /\ running => Ordered

\* A job persisted as done has a verdict for everything, and no error.
DoneMeansDone ==
  disk # NoJob /\ disk.state = "done" =>
    /\ disk.pst \in Final \ {"error"}
    /\ \A u \in Units : disk.st[u] \in Final \ {"error"}

\* Resume could not read the job, or gave way to a Start, and no job is there.
Overlooked == main[Boot] = "missed" /\ job = NoJob /\ ~running

\* A started job is eventually closed, whatever units and panel do, unless the
\* Resume of a later boot overlooks it.
JobEnds == Open ~> (~Open \/ Overlooked)

\* "resumed on startup survives that" (the file's header): a started job is closed.
JobAlwaysEnds == Open ~> ~Open

-----------------------------------------------------------------------------
(* The inductive invariants behind TypeOK, OneRunAtATime,                  *)
(* VerdictFromFacts, NoNodeLeftBehind and DoneMeansDone                    *)
(* (DockerUpdate_proofs).                                                  *)

\* Whoever works on the job finds one: the run, its workers, and Resume once
\* it has read the database.
JobInv ==
  /\ \A r \in Runs : Executing(r) => job \in Job
  /\ \A r \in Runs, u \in Units : wpc[r][u] \notin {"none", "exited"} => job \in Job
  /\ main[Boot] = "loaded" => loaded \in Job
  /\ main[Boot] # "listing"
  /\ \A c \in Callers : main[c] \notin {"load", "loaded", "missed"}

\* A run that executes, or that a Start has claimed, is the only one, and
\* `running` says that there is one.
Busy(r) == main[r] \notin {"none", "load", "loaded", "missed"}
RunInv ==
  /\ \A r, s \in Runs : Busy(r) /\ Busy(s) => r = s
  /\ \A r \in Runs : Busy(r) => running

\* A version, an absence and a verdict in a job are what units did since then.
Facts(j) ==
  \A u \in Units :
    /\ j.off[u] => downs[u] > 0
    /\ j.before[u] <= ver[u]
    /\ j.st[u] = "updated" => downs[u] > 0 \/ (j.before[u] # 0 /\ ver[u] # j.before[u])

\* Every copy of a job, wherever it is.
Copies == {job, disk, loaded} \cup {unsaved[r][t] : r \in Runs, t \in Threads}
CountInv == \A j \in Copies : j # NoJob => j.id <= jobs
FactsInv ==
  /\ \A j \in Copies : j # NoJob /\ j.id = jobs => Facts(j)
  /\ jobs > 0 => \A u \in Units : ~up[u] => downs[u] > 0

\* Goroutines work on units in the phase of these units.
Working(r, u) == wpc[r][u] \notin {"none", "exited"}
Phased(pc, u) ==
  \/ pc = "waitWorkers" /\ u \in Remote
  \/ pc = "local" /\ u \in Colocated \cap JobNodes
  \/ pc = "waitBalancers" /\ u \in Balancers

\* The units whose phase has begun, at a place of the run.
Begun(pc) ==
  (IF pc \in {"waitWorkers", "local"} THEN Remote ELSE {})
    \cup (IF pc \in {"flag"} \cup AfterFlag THEN JobNodes ELSE {})
    \cup (IF pc \in AfterFlag \ {"balancers", "launchBalancers"} THEN Balancers ELSE {})

\* A run works on units without a verdict, in their phase; units whose phase has
\* begun have a goroutine or a verdict; nodes are in order once they are done.
RunOK(r) ==
  /\ \A u \in Units : Working(r, u) => job.st[u] \notin Final /\ Phased(main[r], u)
  /\ \A u \in Begun(main[r]) : Working(r, u) \/ job.st[u] \in Final
  /\ main[r] = "seal" => job.pst \in Final
  /\ Executing(r) /\ main[r] # "return" => job.state = "running"
  /\ main[r] \in AfterFlag => Ordered
RunsOK == \A r \in Runs : RunOK(r)
DeadInv == ~alive => \A r \in Runs : main[r] = "none"

\* A disabled unit is skipped, and a copy that says "done" has every verdict.
Complete(j) ==
  /\ \A u \in Units \cap Disabled : j.st[u] \in Final
  /\ j.state = "done" => /\ j.pst \in Final \ {"error"}
                         /\ \A u \in Units : j.st[u] \in Final \ {"error"}
CopyInv ==
  /\ \A j \in Copies : j # NoJob => Complete(j)
  /\ main[Boot] = "loaded" => loaded.state = "running"

-----------------------------------------------------------------------------
(* The inductive invariants behind PanelTriggeredOnce, PanelLast,           *)
(* LocalAfterRemote, TriggerIsPersisted and VerdictStands                   *)
(* (DockerUpdate_proofs), when saves succeed.                               *)

\* What the order of goroutines may not do: nobody starts a job between the
\* boot of the panel and the end of Resume's look at the database, and no
\* trigger call waits to leave from one job to the next.
ResumeFirst == main[Boot] \in {"load", "loaded"} => \A c \in Callers : main[c] # "listing"
NothingLate ==
  (\E c \in Callers : main[c] = "listing") => \A r \in Runs, u \in Units : call[r][u] # "tosend"

\* With a bound of one job this is so: that job is the first thing to happen.
FirstJobInv ==
  /\ jobs = 0 => call = PerUnit("none") /\ \A r \in Runs : main[r] \in {"none", "listing"}
  /\ jobs = 0 => alive
  /\ jobs > 0 => \A r \in Runs : main[r] # "listing"

\* A process that has no job does nothing, and what Resume has read is what the
\* database says.
BootInv ==
  /\ main[Boot] \in {"load", "loaded"} => job = NoJob
  /\ loaded # NoJob => main[Boot] = "loaded" /\ loaded = disk
  /\ ~alive => job = NoJob
  /\ job = NoJob => call = PerUnit("none") /\ unsaved = NothingUnsaved

\* A thread that works or saves does so in its phase, the run saves when its
\* workers are gone, and nodes of the panel's host work one at a time.
Live(r, u) == Working(r, u) \/ unsaved[r][u] # NoJob
WriterInv ==
  \A r \in Runs :
    /\ \A t \in Threads : unsaved[r][t] # NoJob => Executing(r)
    /\ \A u \in Units : Live(r, u) => Phased(main[r], u) /\ unsaved[r][Main] = NoJob
    /\ main[r] = "local" => \A u, w \in Units : Live(r, u) /\ Live(r, w) => u = w

\* Where one thread at a time can save, the database lags at most by the
\* snapshot on its way.
Crowd(S) == \E u, w \in S : u # w
Serial(pc) ==
  /\ pc = "waitWorkers" => ~Crowd(Remote)
  /\ pc \in {"waitBalancers", "panel"} => ~Crowd(Balancers)
SerialInv ==
  \A r \in Runs : Executing(r) /\ Serial(main[r]) =>
    /\ \A t \in Threads : unsaved[r][t] \in {NoJob, job}
    /\ (\A t \in Threads : unsaved[r][t] = NoJob) => disk = job

\* What every copy of the job says, also the one a restart would find.
Known == Copies \ {NoJob}
RemoteSettled == disk # NoJob /\ \A j \in Known, w \in Remote : j.st[w] \in Final
Recorded(u) == disk # NoJob /\ \A j \in Known : j.trig[u]
PanelRecorded == disk # NoJob /\ \A j \in Known : j.ptrig

\* A trigger that is about to leave is known everywhere, unless others save
\* next to it, and so are the verdicts that it may put at risk.
Crowded(u) == (u \in Remote /\ Crowd(Remote)) \/ (u \in Balancers /\ Crowd(Balancers))
SentInv ==
  \A r \in Runs, u \in Units :
    /\ wpc[r][u] = "spawn" => job.trig[u]
    /\ call[r][u] = "tosend" => /\ u \in Colocated => RemoteSettled
                                /\ Crowded(u) \/ Recorded(u)

\* The panel's update has been asked for at most once, and every copy says so.
PanelInv ==
  /\ psent <= 1
  /\ psent = 1 => PanelRecorded
  /\ \A r \in Runs : main[r] = "panelSend" => psent = 0 /\ job.ptrig
=============================================================================
