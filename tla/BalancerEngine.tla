--------------------------- MODULE BalancerEngine ---------------------------
(***************************************************************************)
(* One edge balancer: the panel that wants a spec deployed, the agent's    *)
(* engine manager, the engine processes it starts (HAProxy or nginx), and  *)
(* the files they share.  A spec is a model value; what is rendered from   *)
(* it is the pair of the spec and of the addresses its host names resolved *)
(* to, and stands for the text of the config and for the agent's hash.     *)
(*                                                                         *)
(* Manager.Apply holds m.mu from the comparison of the texts to the end.   *)
(* The engine's own check, under the lock, is the only part of it that the *)
(* request's context can stop: Check ends with it, and Land does what then *)
(* follows whether or not the panel still waits.  The resolution of names  *)
(* runs before the lock is taken.  A signal to an engine is asynchronous:  *)
(* the process reads its file again in a later step.                       *)
(***************************************************************************)
EXTENDS Naturals, Sequences

CONSTANTS
  Specs,        \* the specs the operator's edits lead to
  EngineOf,     \* the engine each of them asks for
  Resolutions,  \* the address lists its host names may resolve to: {0} where
                \* there are none to resolve, {} for nginx without a pool
  Bad,          \* specs that pass Validate and that the engine's own check refuses
  None,
  Pids,         \* process slots
  MaxEdits,     \* bound: edits of the operator
  MaxFaults,    \* bound: engine crashes, agent crashes, timeouts, DNS failures
  MaxSleepers,  \* bound: Reconcile lets this many restarts pile up
  ExitsUnseen,  \* TRUE: an engine may exit while an Apply holds the lock
  CancelsInTime \* TRUE: the agent notices that a connection is closed before
                \* the panel's next POST

Engines == {"haproxy", "nginx"}
Configs == {<<s, v>> : s \in Specs, v \in UNION {Resolutions[t] : t \in Specs} \cup {0}}

ASSUME SpecsAssumption ==
  /\ EngineOf \in [Specs -> Engines]
  /\ Resolutions \in [Specs -> SUBSET Nat]
  /\ Bad \subseteq Specs
  /\ ExitsUnseen \in BOOLEAN /\ CancelsInTime \in BOOLEAN
  /\ None \notin Engines /\ None \notin Pids /\ None \notin Configs /\ None \notin Specs
  /\ None # "ok" /\ None # "error"

VARIABLES
  desired,  \* what buildSpecFor makes of the database now
  due,      \* an Apply of the panel waits for the balancer's mutex
  tried,    \* the spec Reconcile pushed less than 30 s ago
  config,   \* config_hash
  applied,  \* applied_hash
  call,     \* the POST the panel waits for
  late,     \* POSTs the panel gave up on and the agent still works at
  up,       \* the agent runs
  engine, rendered, cmd, want,  \* the fields of Manager
  sleepers, \* the restart goroutines asleep, by the file each will start with
  live,     \* the engines' live config files
  stored,   \* spec.json
  procs,    \* the engine processes
  edits, faults

panel   == <<desired, due, tried, config, applied, call>>
memory  == <<engine, rendered, cmd, want, sleepers>>
disk    == <<live, stored>>
manager == <<memory, disk, procs>>
budget  == <<edits, faults>>
vars    == <<panel, late, up, manager, budget>>

\* A POST of a spec.  "checked": its config passed the check and m.mu is held.
\* History: "gone", the agent knows that nobody waits for it; "no", the order
\* in which the panel gave up; "over", one sent later has been applied.
Post(s) == [spec |-> s, conf |-> None, answer |-> None, checked |-> FALSE,
            gone |-> FALSE, no |-> 0, over |-> FALSE]
Requests == late \cup ({call} \ {None})
Locked == \E r \in Requests : r.checked

NoProc == [st |-> "free", bin |-> None, path |-> None, conf |-> None,
           sig |-> FALSE, term |-> FALSE]
Alive(p) == procs[p].st \in {"boot", "up"}

PanelHash(s) == <<s, 0>>

\* The process starts with the program of the manager's engine on the given file.
Launched(bin, path) == [NoProc EXCEPT !.st = "boot", !.bin = bin, !.path = path]
FreePid == CHOOSE p \in Pids : procs[p].st = "free"
HasFreePid == \E p \in Pids : procs[p].st = "free"

Init ==
  /\ desired \in Specs
  /\ due = FALSE /\ tried = None
  /\ config = None /\ applied = None /\ call = None
  /\ late = {} /\ up = TRUE
  /\ engine = None /\ rendered = None /\ cmd = None /\ want = FALSE
  /\ sleepers = <<>>
  /\ live = [e \in Engines |-> None] /\ stored = None
  /\ procs = [p \in Pids |-> NoProc]
  /\ edits = 0 /\ faults = 0

Fault == faults < MaxFaults /\ faults' = faults + 1
-----------------------------------------------------------------------------
(* The agent's Apply, from the lock on. *)

Same(c) == rendered = c /\ engine = EngineOf[c[1]] /\ cmd # None

\* The text is the one that runs: success, and nothing is reloaded.
AlreadyRuns(c, answer) == Same(c) /\ answer = "ok" /\ UNCHANGED manager

\* Fault: the config is written to the live path and checked there.
RejectedInPlace(c, gone, answer) ==
  /\ ~Same(c) /\ (gone \/ c[1] \in Bad)
  /\ live' = [live EXCEPT ![EngineOf[c[1]]] = c]
  /\ answer = "error" /\ UNCHANGED <<memory, stored, procs>>

\* The engine's check refuses the candidate, or is killed with its request.
Rejected(c, gone, answer) ==
  /\ ~Same(c) /\ (gone \/ c[1] \in Bad)
  /\ answer = "error" /\ UNCHANGED manager

Passes(c, gone) == ~Same(c) /\ ~gone /\ c[1] \notin Bad

\* The candidate is renamed to the live file.
Swaps(c) ==
  /\ live' = [live EXCEPT ![EngineOf[c[1]]] = c]
  /\ engine' = EngineOf[c[1]]

Remember(c, answer) == answer = "ok" /\ rendered' = c /\ stored' = c

\* No engine runs, or another one, which gets SIGTERM and is forgotten.
StartNew(c, answer) ==
  LET e == EngineOf[c[1]] IN
  /\ (cmd = None \/ engine # e) /\ HasFreePid
  /\ procs' = [p \in Pids |-> IF p = FreePid THEN Launched(e, e)
                              ELSE IF p = cmd THEN [procs[p] EXCEPT !.term = TRUE]
                              ELSE procs[p]]
  /\ cmd' = FreePid /\ want' = TRUE
  /\ Remember(c, answer) /\ UNCHANGED sleepers

\* The file is swapped and the engine signalled, which fails once cmd.Wait has
\* returned for a process that exited meanwhile.
Reload(c, answer) ==
  /\ cmd # None /\ engine = EngineOf[c[1]]
  /\ answer = "error" => procs[cmd].st = "exited"
  /\ IF answer = "ok"
       THEN procs' = [procs EXCEPT ![cmd].sig = TRUE] /\ Remember(c, answer)
       ELSE UNCHANGED <<procs, rendered, stored>>
  /\ UNCHANGED <<cmd, want, sleepers>>

Lands(c, answer) == Swaps(c) /\ (StartNew(c, answer) \/ Reload(c, answer))

\* supervise has seen the exit of the manager's engine before the lock is taken.
ExitSeen == cmd # None => (procs[cmd].st # "exited" \/ ExitsUnseen)
-----------------------------------------------------------------------------
(* The panel. *)

Edit(s) ==
  /\ edits < MaxEdits /\ s # desired
  /\ desired' = s /\ due' = TRUE /\ edits' = edits + 1
  /\ UNCHANGED <<tried, config, applied, call, late, up, manager, faults>>

\* Apply takes the balancer's mutex, reads the database and posts the spec.
Push ==
  /\ due /\ call = None
  /\ CancelsInTime => \A r \in late : r.gone
  /\ due' = FALSE /\ config' = PanelHash(desired)
  /\ call' = IF up THEN Post(desired) ELSE None
  /\ UNCHANGED <<desired, tried, applied, late, up, manager, budget>>

Answered ==
  /\ call # None /\ call.answer # None
  /\ applied' = IF call.answer = "ok" THEN PanelHash(call.spec) ELSE applied
  /\ call' = None
  /\ UNCHANGED <<desired, due, tried, config, late, up, manager, budget>>

\* The request the panel stops waiting for, if the agent still works at it.
Abandoned == {[r EXCEPT !.no = faults] : r \in {q \in {call} \ {None} : q.answer = None}}

\* The client's 15 s run out, or the connection breaks: the answer is lost.
GiveUp ==
  /\ call # None /\ Fault
  /\ late' = late \cup Abandoned
  /\ call' = None
  /\ UNCHANGED <<desired, due, tried, config, applied, up, manager, edits>>

\* The panel restarts: the waiting pushes and the throttle are gone, the POST is
\* abandoned.
PanelRestart ==
  /\ Fault
  /\ late' = late \cup Abandoned
  /\ due' = FALSE /\ tried' = None /\ call' = None
  /\ UNCHANGED <<desired, config, applied, up, manager, edits>>

\* Fault: Reconcile compares the two hashes of the panel's own row.
ReconcileRow ==
  /\ up /\ applied # config /\ tried # desired
  /\ Len(sleepers) < MaxSleepers
  /\ due' = TRUE /\ tried' = desired
  /\ UNCHANGED <<desired, config, applied, call, late, up, manager, budget>>

\* Reconcile pushes when the agent's hash, which GET /status reads under m.mu, is
\* not the one the panel wants.
Reconcile ==
  /\ up /\ ~Locked /\ rendered # PanelHash(desired) /\ tried # desired
  /\ Len(sleepers) < MaxSleepers
  /\ due' = TRUE /\ tried' = desired
  /\ UNCHANGED <<desired, config, applied, call, late, up, manager, budget>>

ThrottleEnds ==
  /\ tried # None /\ tried' = None
  /\ UNCHANGED <<desired, due, config, applied, call, late, up, manager, budget>>
-----------------------------------------------------------------------------
(* The agent's handler of POST /api/v1/apply. *)

\* Members are resolved; with none left the apply fails, under m.mu.
ResolvesTo(r, s) ==
  \/ /\ \E v \in Resolutions[r.spec] : s = [r EXCEPT !.conf = <<r.spec, v>>]
     /\ UNCHANGED faults
  \/ /\ Resolutions[r.spec] = {} /\ ~Locked /\ s = [r EXCEPT !.answer = "error"]
     /\ UNCHANGED faults
  \/ /\ Resolutions[r.spec] \notin {{}, {0}} /\ ~Locked /\ s = [r EXCEPT !.answer = "error"]
     /\ Fault

Resolve ==
  /\ call # None /\ call.conf = None /\ call.answer = None
  /\ \E s \in {[call EXCEPT !.conf = <<call.spec, v>>] : v \in Resolutions[call.spec]}
              \cup {[call EXCEPT !.answer = "error"]} :
       ResolvesTo(call, s) /\ call' = s
  /\ UNCHANGED <<desired, due, tried, config, applied, late, up, manager, edits>>

Ready(r) == r.conf # None /\ r.answer = None /\ ~r.checked /\ ~Locked /\ ExitSeen

\* The requests the success of one leaves behind.
Overtaken(rs, answer) == {[r EXCEPT !.over = r.over \/ answer = "ok"] : r \in rs}

Check ==
  /\ call # None /\ Ready(call)
  /\ \/ \E answer \in {"ok", "error"} :
          /\ AlreadyRuns(call.conf, answer) \/ Rejected(call.conf, FALSE, answer)
          /\ call' = [call EXCEPT !.answer = answer]
          /\ late' = Overtaken(late, answer)
     \/ /\ Passes(call.conf, FALSE) /\ call' = [call EXCEPT !.checked = TRUE]
        /\ UNCHANGED <<late, manager>>
  /\ UNCHANGED <<desired, due, tried, config, applied, up, budget>>

Land ==
  /\ call # None /\ call.checked
  /\ \E answer \in {"ok", "error"} :
       /\ Lands(call.conf, answer)
       /\ call' = [call EXCEPT !.checked = FALSE, !.answer = answer]
       /\ late' = Overtaken(late, answer)
  /\ UNCHANGED <<desired, due, tried, config, applied, up, budget>>

\* The server reads the end of a connection and cancels the request's context.
Notice(r) ==
  /\ ~r.gone
  /\ late' = (late \ {r}) \cup {[r EXCEPT !.gone = TRUE]}
  /\ UNCHANGED <<panel, up, manager, budget>>

ResolveLate(r) ==
  /\ r.conf = None
  /\ \E s \in {[r EXCEPT !.conf = <<r.spec, v>>] : v \in Resolutions[r.spec]}
              \cup {[r EXCEPT !.answer = "error"]} :
       /\ ResolvesTo(r, s)
       /\ late' = (late \ {r}) \cup {t \in {s} : t.answer = None}
  /\ UNCHANGED <<panel, up, manager, edits>>

LateEnds(r, answer) ==
  late' = {t \in late : t.no > r.no} \cup Overtaken({t \in late : t.no < r.no}, answer)

ChecksLate(r, gone) ==
  /\ Ready(r)
  /\ \/ \E answer \in {"ok", "error"} :
          /\ AlreadyRuns(r.conf, answer) \/ Rejected(r.conf, gone, answer)
          /\ LateEnds(r, answer)
     \/ /\ Passes(r.conf, gone)
        /\ late' = (late \ {r}) \cup {[r EXCEPT !.checked = TRUE]}
        /\ UNCHANGED manager
  /\ UNCHANGED <<panel, up, budget>>

\* Fault: the engine's check does not run under the context of the request.
CheckLateAnyway(r) == ChecksLate(r, FALSE)

\* The context is cancelled once the server has noticed, and with it the check;
\* a check that ended before that has passed.
CheckLate(r) == ChecksLate(r, r.gone)

LandLate(r) ==
  /\ r.checked
  /\ \E answer \in {"ok", "error"} : Lands(r.conf, answer) /\ LateEnds(r, answer)
  /\ UNCHANGED <<panel, up, budget>>
-----------------------------------------------------------------------------
(* The engine processes. *)

Becomes(p, q) ==
  /\ procs' = [procs EXCEPT ![p] = q]
  /\ UNCHANGED <<panel, late, up, memory, disk>>

MayExit(p) == p = cmd /\ Locked => ExitsUnseen

\* It loads its file, or exits: the file is the other engine's, a port is
\* still taken, or a reload signal finds no handler yet.
Boot(p) ==
  /\ procs[p].st = "boot" /\ ~procs[p].term
  /\ \/ /\ procs[p].path = procs[p].bin
        /\ Becomes(p, [procs[p] EXCEPT !.st = "up", !.conf = live[procs[p].path]])
     \/ /\ MayExit(p)
        /\ \/ procs[p].path # procs[p].bin
           \/ procs[p].sig
           \/ \E q \in Pids \ {p} : procs[q].st = "up"
        /\ Becomes(p, [procs[p] EXCEPT !.st = "exited"])
  /\ UNCHANGED budget

Reread(p) ==
  /\ procs[p].st = "up" /\ procs[p].sig
  /\ Becomes(p, [procs[p] EXCEPT !.conf = live[procs[p].path], !.sig = FALSE])
  /\ UNCHANGED budget

Terminate(p) ==
  /\ Alive(p) /\ procs[p].term /\ MayExit(p)
  /\ Becomes(p, [procs[p] EXCEPT !.st = "exited"])
  /\ UNCHANGED budget

Crash(p) ==
  /\ Alive(p) /\ ~procs[p].term /\ MayExit(p) /\ Fault
  /\ Becomes(p, [procs[p] EXCEPT !.st = "exited"])
  /\ UNCHANGED edits

\* supervise: the process of m.cmd is restarted later unless it was stopped.
\* For another process it does nothing, when it gets the lock.
Supervise(p) ==
  /\ procs[p].st = "exited" /\ (p = cmd => ~Locked)
  /\ procs' = [procs EXCEPT ![p] = NoProc]
  /\ cmd' = IF cmd = p THEN None ELSE cmd
  /\ sleepers' = IF cmd = p /\ want THEN Append(sleepers, procs[p].path) ELSE sleepers
  /\ UNCHANGED <<panel, late, up, engine, rendered, want, disk, budget>>

\* An engine started on the other engine's file exits in less than two seconds.
NoneFailing == \A p \in Pids : procs[p].bin = procs[p].path

\* Fault: the woken goroutine does not look for an engine an Apply has started.
WakeAnyway ==
  /\ sleepers # <<>> /\ NoneFailing /\ HasFreePid /\ ~Locked
  /\ sleepers' = Tail(sleepers)
  /\ IF want
       THEN /\ procs' = [procs EXCEPT ![FreePid] = Launched(engine, Head(sleepers))]
            /\ cmd' = FreePid
       ELSE UNCHANGED <<procs, cmd>>
  /\ UNCHANGED <<panel, late, up, engine, rendered, want, disk, budget>>

\* The goroutines sleep equally long, so they wake in order.
Wake ==
  /\ sleepers # <<>> /\ NoneFailing /\ HasFreePid /\ ~Locked
  /\ sleepers' = Tail(sleepers)
  /\ IF want /\ cmd = None
       THEN /\ procs' = [procs EXCEPT ![FreePid] = Launched(engine, Head(sleepers))]
            /\ cmd' = FreePid
       ELSE UNCHANGED <<procs, cmd>>
  /\ UNCHANGED <<panel, late, up, engine, rendered, want, disk, budget>>
-----------------------------------------------------------------------------
(* The agent dies with its container, perhaps in the middle of a landing: the *)
(* live file is swapped by then, and spec.json is old or torn.                *)

AgentCrash ==
  /\ up /\ Fault /\ up' = FALSE
  /\ \/ UNCHANGED disk
     \/ /\ \E r \in Requests :
             r.checked /\ live' = [live EXCEPT ![EngineOf[r.conf[1]]] = r.conf]
        /\ stored' \in {stored, None}
  /\ call' = IF call # None /\ call.answer = None
               THEN [call EXCEPT !.answer = "error", !.checked = FALSE] ELSE call
  /\ late' = {}
  /\ engine' = None /\ rendered' = None /\ cmd' = None /\ want' = FALSE
  /\ sleepers' = <<>> /\ procs' = [p \in Pids |-> NoProc]
  /\ UNCHANGED <<desired, due, tried, config, applied, edits>>

\* main: Restore applies spec.json, and the API is served.
AgentBoot ==
  /\ ~up /\ up' = TRUE
  /\ IF stored = None THEN UNCHANGED manager
     ELSE \E answer \in {"ok", "error"} :
            \/ Rejected(stored, FALSE, answer)
            \/ Passes(stored, FALSE) /\ Lands(stored, answer)
  /\ UNCHANGED <<panel, late, budget>>
-----------------------------------------------------------------------------
PanelStep == Push \/ Answered \/ Reconcile \/ ThrottleEnds
AgentStep == Resolve \/ Check \/ Land \/ Wake \/ AgentBoot
LateStep == \E r \in late : Notice(r) \/ ResolveLate(r) \/ CheckLate(r) \/ LandLate(r)
EngineStep(p) == Boot(p) \/ Reread(p) \/ Terminate(p) \/ Supervise(p)

Next ==
  \/ \E s \in Specs : Edit(s)
  \/ PanelStep \/ GiveUp \/ PanelRestart \/ AgentStep \/ LateStep \/ AgentCrash
  \/ \E p \in Pids : EngineStep(p) \/ Crash(p)

Fairness ==
  /\ WF_vars(Push) /\ WF_vars(Answered) /\ WF_vars(Reconcile) /\ WF_vars(ThrottleEnds)
  /\ WF_vars(Resolve) /\ WF_vars(Check) /\ WF_vars(Land) /\ WF_vars(Wake) /\ WF_vars(AgentBoot)
  /\ WF_vars(LateStep)
  /\ \A p \in Pids : WF_vars(EngineStep(p))

Spec == Init /\ [][Next]_vars /\ Fairness
-----------------------------------------------------------------------------
Proc == [st : {"free", "boot", "up", "exited"},
         bin : Engines \cup {None}, path : Engines \cup {None},
         conf : Configs \cup {None}, sig : BOOLEAN, term : BOOLEAN]

\* The types of the manager's state, of the files and of the processes.
TypeOK ==
  /\ rendered \in Configs \cup {None} /\ stored \in Configs \cup {None}
  /\ live \in [Engines -> Configs \cup {None}]
  /\ engine \in Engines \cup {None} /\ cmd \in Pids \cup {None}
  /\ want \in BOOLEAN /\ sleepers \in Seq(Engines)
  /\ procs \in [Pids -> Proc]

\* The hash GET /status reports is the config the engine serves, once the engine
\* has read its file: whatever crashed, was restarted or was refused before.
StatusHonest ==
  (cmd # None /\ procs[cmd].st = "up" /\ ~procs[cmd].sig) =>
    (procs[cmd].conf = rendered /\ procs[cmd].bin = engine)

\* The restart goroutines and Apply never leave two engines running: every live
\* process the manager no longer holds has been told to stop.
SingleEngine == \A p \in Pids : Alive(p) /\ p # cmd => procs[p].term

\* A POST that one sent after it has overtaken never lands: the config of a
\* running agent changes only to that of a POST which passed the check before
\* any later one was applied, even where the panel gave up on it after that.
LandsInOrder ==
  [][up /\ up' /\ rendered' # rendered =>
       \E r \in Requests : r.checked /\ ~r.over /\ rendered' = r.conf]_vars

Deployable(s) == s \notin Bad /\ Resolutions[s] # {}
Serves(s) == /\ cmd # None /\ procs[cmd].st = "up" /\ procs[cmd].conf # None
             /\ procs[cmd].conf[1] = s

\* When edits and faults are over, the engine ends up serving what the panel
\* wants, unless the engine refuses it: by the edit's push, the restart of a dead
\* engine, the restore of a restarted agent or the periodic reconcile.
Converges == <>[](Deployable(desired) => Serves(desired))

\* What the panel shows as drift (config_hash against applied_hash) clears once
\* the wanted spec is deployed.
DriftClears == <>[](Deployable(desired) => applied = config)
=============================================================================
