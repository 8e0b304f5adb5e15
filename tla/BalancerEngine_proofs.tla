------------------------ MODULE BalancerEngine_proofs ------------------------
(***************************************************************************)
(* Where no engine exits behind an Apply that holds the lock, the agent    *)
(* reports what its engine serves and runs one engine, for any specs, any  *)
(* number of processes, restarts, crashes, timeouts and abandoned calls.   *)
(***************************************************************************)
EXTENDS BalancerEngine, TLAPS

Calls == [spec : Specs, conf : Configs \cup {None}, answer : {None, "ok", "error"},
          checked : BOOLEAN, gone : BOOLEAN, no : Nat, over : BOOLEAN]

\* The types of the requests; one that passed the check has a config and no answer.
CallsOK ==
  /\ desired \in Specs /\ faults \in Nat
  /\ call \in Calls \cup {None} /\ late \subseteq Calls
  /\ \A r \in Requests : r.checked => r.conf # None /\ r.answer = None

\* The lock is held by one request; one the panel gave up on before another is
\* known to be gone, and one that a later one has overtaken has not passed the
\* check, which it will not pass any more.
Order ==
  /\ call # None => ~call.over /\ ~call.gone /\ \A r \in late : r.gone
  /\ \A r, t \in Requests : r.checked /\ t.checked => r = t
  /\ \A r \in late : r.no < faults /\ (r.over => r.gone /\ ~r.checked)
  /\ \A r, t \in late : r.no < t.no => r.gone

\* The engine the manager holds was not told to stop, runs the program of
\* m.engine, and once up serves what was applied last or has a reload coming.
Held ==
  cmd # None =>
    /\ procs[cmd].st # "free" /\ ~procs[cmd].term
    /\ engine \in Engines /\ procs[cmd].bin = engine
    /\ procs[cmd].st = "up" =>
         procs[cmd].path = engine /\ (procs[cmd].sig \/ procs[cmd].conf = rendered)

\* What was applied last is in the live file of its engine.
Applied == rendered # None => engine = EngineOf[rendered[1]] /\ live[engine] = rendered

\* Nothing is started, or wanted, before something was applied.
Wanted == want \/ cmd # None => rendered # None

\* Every process was started on one of the two files.
Placed == \A p \in Pids : procs[p].st # "free" => procs[p].path \in Engines

Coherent == TypeOK /\ Placed /\ Held /\ Applied /\ Wanted /\ SingleEngine

\* Behind the lock the engine runs, and the manager of a stopped agent is empty.
Watched == Locked /\ cmd # None => procs[cmd].st # "exited"
Down == ~up => /\ cmd = None /\ sleepers = <<>> /\ late = {}
               /\ call # None => call.answer # None

IInv == CallsOK /\ Coherent /\ Watched /\ Down

-----------------------------------------------------------------------------
(* Processes and configs *)

LEMMA NoProcType == NoProc \in Proc
BY DEF NoProc, Proc

LEMMA LaunchedType ==
  ASSUME NEW b \in Engines, NEW f \in Engines
  PROVE  /\ Launched(b, f) \in Proc /\ Launched(b, f).st = "boot"
         /\ ~Launched(b, f).term /\ Launched(b, f).bin = b /\ Launched(b, f).path = f
BY DEF Launched, NoProc, Proc

\* A config is of one of the specs, which asks for one of the engines.
LEMMA ConfigEngine ==
  ASSUME NEW c \in Configs
  PROVE  EngineOf[c[1]] \in Engines /\ c # None
BY SpecsAssumption DEF Configs

LEMMA ResolvedConfig ==
  ASSUME NEW s \in Specs, NEW v \in Resolutions[s]
  PROVE  <<s, v>> \in Configs
BY DEF Configs

\* The slot chosen for a new process is free, and not the manager's.
LEMMA FreePidFree ==
  ASSUME HasFreePid
  PROVE  FreePid \in Pids /\ procs[FreePid].st = "free" /\ FreePid # None
BY SpecsAssumption DEF HasFreePid, FreePid

-----------------------------------------------------------------------------
(* Apply *)

\* A new engine is launched on a config just written: the one before it, if any,
\* has been told to stop.
LEMMA StartKeeps ==
  ASSUME Coherent, NEW c \in Configs, NEW answer, Swaps(c), StartNew(c, answer)
  PROVE  Coherent'
<1> DEFINE e == EngineOf[c[1]]
<1>e. e \in Engines /\ c # None /\ e # None
  BY ConfigEngine, SpecsAssumption
<1>f. FreePid \in Pids /\ procs[FreePid].st = "free" /\ FreePid # None
  BY FreePidFree DEF StartNew
<1>l. /\ Launched(e, e) \in Proc /\ Launched(e, e).st = "boot"
      /\ ~Launched(e, e).term /\ Launched(e, e).bin = e /\ Launched(e, e).path = e
  BY <1>e, LaunchedType
<1>p. procs \in [Pids -> Proc]
  BY DEF Coherent, TypeOK
<1>1. /\ procs' = [p \in Pids |-> IF p = FreePid THEN Launched(e, e)
                                  ELSE IF p = cmd THEN [procs[p] EXCEPT !.term = TRUE]
                                  ELSE procs[p]]
      /\ cmd' = FreePid /\ want' = TRUE /\ rendered' = c /\ stored' = c
      /\ engine' = e /\ live' = [live EXCEPT ![e] = c] /\ sleepers' = sleepers
  BY DEF StartNew, Swaps, Remember
<1>2. procs' \in [Pids -> Proc]
  BY <1>1, <1>l, <1>p DEF Proc
<1>3. TypeOK'
  BY <1>1, <1>2, <1>e, <1>f DEF Coherent, TypeOK
<1>4. procs'[cmd'] = Launched(e, e)
  BY <1>1, <1>f
<1>5. Held'
  BY <1>1, <1>4, <1>l, <1>e DEF Held
<1>6. Applied' /\ Wanted'
  BY <1>1, <1>e DEF Applied, Wanted, Coherent, TypeOK
<1>8. Placed'
  <2> SUFFICES ASSUME NEW p \in Pids, procs'[p].st # "free" PROVE procs'[p].path \in Engines
    BY DEF Placed
  <2>1. p # FreePid => procs'[p].st = procs[p].st /\ procs'[p].path = procs[p].path
    BY <1>1, <1>p DEF Proc
  <2> QED
    BY <1>1, <1>l, <1>e, <2>1 DEF Coherent, Placed
<1>7. SingleEngine'
  <2> SUFFICES ASSUME NEW p \in Pids, Alive(p)', p # cmd' PROVE procs'[p].term
    BY DEF SingleEngine
  <2>1. p # FreePid
    BY <1>1
  <2>2. CASE p = cmd
    BY <2>1, <2>2, <1>1, <1>p DEF Proc
  <2>3. CASE p # cmd
    <3>1. procs'[p] = procs[p]
      BY <2>1, <2>3, <1>1
    <3> QED
      BY <3>1, <2>3 DEF Coherent, SingleEngine, Alive
  <2> QED
    BY <2>2, <2>3
<1> QED
  BY <1>3, <1>5, <1>6, <1>7, <1>8 DEF Coherent

\* The file is swapped under a running engine, which is told to read it again.
LEMMA ReloadKeeps ==
  ASSUME Coherent, NEW c \in Configs, NEW answer, Swaps(c),
         cmd # None, procs[cmd].st # "exited", answer \in {"ok", "error"}, Reload(c, answer)
  PROVE  Coherent'
<1> DEFINE e == EngineOf[c[1]]
<1>e. e \in Engines /\ c # None /\ engine = e
  BY ConfigEngine DEF Reload
<1>p. procs \in [Pids -> Proc] /\ cmd \in Pids
  BY DEF Coherent, TypeOK
<1>1. /\ procs' = [procs EXCEPT ![cmd].sig = TRUE]
      /\ rendered' = c /\ stored' = c /\ engine' = e
      /\ live' = [live EXCEPT ![e] = c] /\ cmd' = cmd /\ want' = want /\ sleepers' = sleepers
  BY DEF Reload, Swaps, Remember
<1>2. procs' \in [Pids -> Proc]
  BY <1>1, <1>p DEF Proc
<1>3. TypeOK'
  BY <1>1, <1>2, <1>e, <1>p DEF Coherent, TypeOK
<1>4. /\ \A p \in Pids : /\ procs'[p].st = procs[p].st /\ procs'[p].term = procs[p].term
                         /\ procs'[p].path = procs[p].path
      /\ procs'[cmd].bin = procs[cmd].bin
      /\ procs'[cmd].sig
  BY <1>1, <1>p DEF Proc
<1>5. Held'
  BY <1>1, <1>4, <1>e, <1>p DEF Held, Coherent
<1>6. Applied' /\ Wanted'
  BY <1>1, <1>e DEF Applied, Wanted, Coherent, TypeOK
<1>7. SingleEngine'
  BY <1>1, <1>4 DEF SingleEngine, Alive, Coherent
<1>8. Placed'
  BY <1>4 DEF Coherent, Placed
<1> QED
  BY <1>3, <1>5, <1>6, <1>7, <1>8 DEF Coherent

\* A config lands where the engine it reloads has not exited.
LEMMA LandKeeps ==
  ASSUME Coherent, NEW c \in Configs, NEW answer \in {"ok", "error"}, Lands(c, answer),
         cmd # None => procs[cmd].st # "exited"
  PROVE  Coherent' /\ cmd' # None /\ procs'[cmd'].st # "exited"
<1>1. CASE StartNew(c, answer)
  <2>1. Coherent'
    BY <1>1, StartKeeps DEF Lands
  <2>2. FreePid \in Pids /\ FreePid # None /\ cmd' = FreePid
    BY <1>1, FreePidFree DEF StartNew
  <2>3. procs'[FreePid] = Launched(EngineOf[c[1]], EngineOf[c[1]])
    BY <1>1, <2>2 DEF StartNew
  <2>4. procs'[FreePid].st = "boot"
    BY <2>3, ConfigEngine, LaunchedType
  <2> QED
    BY <2>1, <2>2, <2>4
<1>2. CASE Reload(c, answer)
  <2>1. cmd # None /\ procs[cmd].st # "exited" /\ answer = "ok"
    BY <1>2 DEF Reload
  <2>2. Coherent'
    BY <1>2, <2>1, ReloadKeeps DEF Lands
  <2>3. procs \in [Pids -> Proc] /\ cmd \in Pids
    BY <2>1 DEF Coherent, TypeOK
  <2>4. procs' = [procs EXCEPT ![cmd].sig = TRUE] /\ cmd' = cmd
    BY <1>2, <2>1 DEF Reload
  <2>5. procs'[cmd].st = procs[cmd].st
    BY <2>3, <2>4 DEF Proc
  <2> QED
    BY <2>1, <2>2, <2>4, <2>5
<1> QED
  BY <1>1, <1>2 DEF Lands

-----------------------------------------------------------------------------
(* The processes *)

\* A process may exit at any time.
LEMMA ExitKeeps ==
  ASSUME Coherent, NEW p \in Pids, procs[p].st # "free",
         Becomes(p, [procs[p] EXCEPT !.st = "exited"])
  PROVE  Coherent'
<1>p. procs \in [Pids -> Proc] /\ cmd \in Pids \cup {None}
  BY DEF Coherent, TypeOK
<1>1. procs' = [procs EXCEPT ![p] = [procs[p] EXCEPT !.st = "exited"]]
      /\ UNCHANGED <<memory, disk>>
  BY DEF Becomes
<1>2. procs' \in [Pids -> Proc]
  BY <1>1, <1>p DEF Proc
<1>3. TypeOK'
  BY <1>1, <1>2 DEF memory, disk, Coherent, TypeOK
<1>4. /\ \A q \in Pids : /\ procs'[q].term = procs[q].term /\ procs'[q].bin = procs[q].bin
                         /\ procs'[q].path = procs[q].path
      /\ \A q \in Pids \ {p} : procs'[q] = procs[q]
      /\ procs'[p].st = "exited"
  BY <1>1, <1>p DEF Proc
<1>5. Held'
  BY <1>1, <1>4, <1>p DEF memory, Coherent, Held
<1>6. Applied' /\ Wanted'
  BY <1>1 DEF memory, disk, Coherent, Applied, Wanted
<1>7. SingleEngine'
  BY <1>1, <1>4 DEF memory, Coherent, SingleEngine, Alive
<1>8. Placed'
  BY <1>4 DEF Coherent, Placed
<1> QED
  BY <1>3, <1>5, <1>6, <1>7, <1>8 DEF Coherent

\* A process that boots is the manager's, since any other was told to stop: it
\* serves what was applied last, or exits.
LEMMA BootKeeps == ASSUME Coherent, NEW p \in Pids, Boot(p) PROVE Coherent'
<1>p. procs \in [Pids -> Proc] /\ cmd \in Pids \cup {None}
  BY DEF Coherent, TypeOK
<1>u. UNCHANGED <<memory, disk>> /\ procs[p].st = "boot" /\ ~procs[p].term
  BY DEF Boot, Becomes
<1>1. CASE /\ procs[p].path = procs[p].bin
           /\ Becomes(p, [procs[p] EXCEPT !.st = "up", !.conf = live[procs[p].path]])
  <2>1. p = cmd
    BY <1>u DEF Coherent, SingleEngine, Alive
  <2>2. cmd # None
    BY <2>1, SpecsAssumption
  <2>3. engine \in Engines /\ procs[p].bin = engine /\ rendered # None
    BY <2>1, <2>2 DEF Coherent, Held, Wanted
  <2>4. live[engine] = rendered
    BY <2>3 DEF Coherent, Applied
  <2>5. procs' = [procs EXCEPT ![p] = [procs[p] EXCEPT !.st = "up", !.conf = rendered]]
    BY <1>1, <2>3, <2>4 DEF Becomes
  <2>6. procs' \in [Pids -> Proc]
    BY <2>5, <1>p DEF Coherent, TypeOK, Proc
  <2>7. TypeOK'
    BY <1>u, <2>6 DEF memory, disk, Coherent, TypeOK
  <2>8. /\ procs'[p].st = "up" /\ ~procs'[p].term /\ procs'[p].bin = engine
        /\ procs'[p].path = engine /\ procs'[p].conf = rendered
    BY <2>5, <1>p, <1>u, <1>1, <2>3 DEF Proc
  <2>9. Held'
    BY <1>u, <2>1, <2>3, <2>8 DEF memory, Held
  <2>10. Applied' /\ Wanted'
    BY <1>u DEF memory, disk, Coherent, Applied, Wanted
  <2>11. SingleEngine'
    BY <1>u, <2>1, <2>5 DEF memory, Coherent, SingleEngine, Alive
  <2>12. Placed'
    BY <2>3, <2>5, <2>8 DEF Coherent, Placed
  <2> QED
    BY <2>7, <2>9, <2>10, <2>11, <2>12 DEF Coherent
<1>2. CASE Becomes(p, [procs[p] EXCEPT !.st = "exited"])
  BY <1>2, <1>u, ExitKeeps
<1> QED
  BY <1>1, <1>2 DEF Boot

\* The manager's process reads its file again: the file of what was applied last.
LEMMA RereadKeeps == ASSUME Coherent, NEW p \in Pids, Reread(p) PROVE Coherent'
<1>p. procs \in [Pids -> Proc] /\ cmd \in Pids \cup {None}
  BY DEF Coherent, TypeOK
<1>1. /\ procs' = [procs EXCEPT ![p] = [procs[p] EXCEPT !.conf = live[procs[p].path],
                                                       !.sig = FALSE]]
      /\ procs[p].st = "up" /\ UNCHANGED <<memory, disk>>
  BY DEF Reread, Becomes
<1>2. procs[p].path \in Engines
  BY <1>1 DEF Coherent, Placed
<1>3. CASE p = cmd
  <2>1. cmd # None
    BY <1>3, SpecsAssumption
  <2>2. /\ engine \in Engines /\ procs[p].path = engine /\ procs[p].bin = engine
        /\ ~procs[p].term /\ rendered # None
    BY <1>1, <1>3, <2>1 DEF Coherent, Held, Wanted
  <2>3. live[engine] = rendered
    BY <2>2 DEF Coherent, Applied
  <2>4. procs' = [procs EXCEPT ![p] = [procs[p] EXCEPT !.conf = rendered, !.sig = FALSE]]
    BY <1>1, <2>2, <2>3
  <2>5. procs' \in [Pids -> Proc]
    BY <2>4, <1>p DEF Coherent, TypeOK, Proc
  <2>6. /\ procs'[p].st = "up" /\ ~procs'[p].term /\ procs'[p].bin = engine
        /\ procs'[p].path = engine /\ procs'[p].conf = rendered
    BY <2>4, <1>p, <1>1, <2>2 DEF Proc
  <2>7. Held'
    BY <1>1, <1>3, <2>2, <2>6 DEF memory, Held
  <2>8. SingleEngine'
    BY <1>1, <1>3, <2>4 DEF memory, Coherent, SingleEngine, Alive
  <2>9. Placed'
    BY <2>2, <2>4, <2>6 DEF Coherent, Placed
  <2> QED
    BY <1>1, <2>5, <2>7, <2>8, <2>9 DEF memory, disk, Coherent, TypeOK, Applied, Wanted
<1>4. CASE p # cmd
  <2>1. procs' \in [Pids -> Proc]
    BY <1>1, <1>2, <1>4, <1>p DEF Coherent, TypeOK, Proc
  <2>2. /\ \A q \in Pids \ {p} : procs'[q] = procs[q]
        /\ procs'[p].term = procs[p].term /\ procs'[p].st = procs[p].st
        /\ procs'[p].path = procs[p].path
    BY <1>1, <1>p DEF Proc
  <2>3. Held'
    BY <1>1, <1>4, <1>p, <2>2 DEF memory, Coherent, Held
  <2>4. SingleEngine'
    BY <1>1, <2>2 DEF memory, Coherent, SingleEngine, Alive
  <2>5. Placed'
    BY <2>2 DEF Coherent, Placed
  <2> QED
    BY <1>1, <2>1, <2>3, <2>4, <2>5 DEF memory, disk, Coherent, TypeOK, Applied, Wanted
<1> QED
  BY <1>3, <1>4

\* The supervisor forgets an engine that exited, and books its restart.
LEMMA SuperviseKeeps == ASSUME Coherent, NEW p \in Pids, Supervise(p) PROVE Coherent'
<1>p. procs \in [Pids -> Proc] /\ cmd \in Pids \cup {None} /\ sleepers \in Seq(Engines)
  BY DEF Coherent, TypeOK
<1>1. /\ procs[p].st = "exited" /\ procs' = [procs EXCEPT ![p] = NoProc]
      /\ cmd' = IF cmd = p THEN None ELSE cmd
      /\ sleepers' = IF cmd = p /\ want THEN Append(sleepers, procs[p].path) ELSE sleepers
      /\ UNCHANGED <<engine, rendered, want, live, stored>>
  BY DEF Supervise, disk
<1>2. procs[p].path \in Engines
  BY <1>1 DEF Coherent, Placed
<1>3. procs' \in [Pids -> Proc] /\ procs'[p] = NoProc
  BY <1>1, <1>p, NoProcType
<1>4. sleepers' \in Seq(Engines)
  BY <1>1, <1>2, <1>p
<1>5. TypeOK'
  BY <1>1, <1>3, <1>4 DEF Coherent, TypeOK
<1>6. \A q \in Pids \ {p} : procs'[q] = procs[q]
  BY <1>1, <1>p
<1>7. NoProc.st = "free"
  BY DEF NoProc
<1>8. Placed'
  BY <1>3, <1>6, <1>7 DEF Coherent, Placed
<1>9. Held' /\ Applied' /\ Wanted'
  BY <1>1, <1>6, <1>p DEF Coherent, Held, Applied, Wanted
<1>10. SingleEngine'
  BY <1>1, <1>3, <1>6, <1>7 DEF Coherent, SingleEngine, Alive
<1> QED
  BY <1>5, <1>8, <1>9, <1>10 DEF Coherent

\* A restart starts an engine only where the manager has none.
LEMMA WakeKeeps == ASSUME Coherent, Wake PROVE Coherent'
<1>p. procs \in [Pids -> Proc] /\ sleepers \in Seq(Engines)
  BY DEF Coherent, TypeOK
<1>1. /\ sleepers # <<>> /\ sleepers' = Tail(sleepers) /\ HasFreePid
      /\ UNCHANGED <<engine, rendered, want, live, stored>>
  BY DEF Wake, disk
<1>2. sleepers' \in Seq(Engines) /\ Head(sleepers) \in Engines
  BY <1>1, <1>p
<1>3. CASE want /\ cmd = None
  <2> DEFINE f == Head(sleepers)
  <2>1. procs' = [procs EXCEPT ![FreePid] = Launched(engine, f)] /\ cmd' = FreePid
    BY <1>3 DEF Wake
  <2>2. FreePid \in Pids /\ procs[FreePid].st = "free" /\ FreePid # None
    BY <1>1, FreePidFree
  <2>3. rendered # None
    BY <1>3 DEF Coherent, Wanted
  <2>4. engine \in Engines
    <3>1. rendered \in Configs
      BY <2>3 DEF Coherent, TypeOK
    <3> QED
      BY <2>3, <3>1, ConfigEngine DEF Coherent, Applied
  <2>5. /\ Launched(engine, f) \in Proc /\ Launched(engine, f).st = "boot"
        /\ ~Launched(engine, f).term /\ Launched(engine, f).bin = engine
        /\ Launched(engine, f).path = f
    BY <2>4, <1>2, LaunchedType
  <2>6. procs' \in [Pids -> Proc] /\ procs'[FreePid] = Launched(engine, f)
    BY <2>1, <2>2, <2>5, <1>p
  <2>7. \A q \in Pids \ {FreePid} : procs'[q] = procs[q]
    BY <2>1, <1>p
  <2>8. TypeOK'
    BY <1>1, <1>2, <2>1, <2>2, <2>6 DEF Coherent, TypeOK
  <2>9. Placed'
    BY <1>2, <2>5, <2>6, <2>7 DEF Coherent, Placed
  <2>10. Held'
    BY <1>1, <2>1, <2>4, <2>5, <2>6 DEF Held
  <2>11. Applied' /\ Wanted'
    BY <1>1, <2>3 DEF Coherent, Applied, Wanted
  <2>12. SingleEngine'
    <3>1. \A q \in Pids : Alive(q) => procs[q].term
      BY <1>3, SpecsAssumption DEF Coherent, SingleEngine
    <3> QED
      BY <2>1, <2>7, <3>1 DEF SingleEngine, Alive
  <2> QED
    BY <2>8, <2>9, <2>10, <2>11, <2>12 DEF Coherent
<1>4. CASE ~(want /\ cmd = None)
  <2>1. UNCHANGED <<procs, cmd>>
    BY <1>4 DEF Wake
  <2> QED
    BY <1>1, <1>2, <2>1 DEF Coherent, TypeOK, Placed, Held, Applied, Wanted, SingleEngine, Alive
<1> QED
  BY <1>3, <1>4

\* With the agent everything it ran is gone; its files stay, as they are.
LEMMA CrashKeeps == ASSUME IInv, AgentCrash PROVE Coherent'
<1>1. /\ engine' = None /\ rendered' = None /\ cmd' = None /\ want' = FALSE
      /\ sleepers' = <<>> /\ procs' = [p \in Pids |-> NoProc]
  BY DEF AgentCrash
<1>2. live' \in [Engines -> Configs \cup {None}] /\ stored' \in Configs \cup {None}
  <2>1. CASE UNCHANGED disk
    BY <2>1 DEF disk, IInv, Coherent, TypeOK
  <2>2. ASSUME NEW r \in Requests, r.checked, stored' \in {stored, None},
               live' = [live EXCEPT ![EngineOf[r.conf[1]]] = r.conf]
        PROVE  live' \in [Engines -> Configs \cup {None}] /\ stored' \in Configs \cup {None}
    <3>1. r.conf \in Configs
      BY <2>2 DEF IInv, CallsOK, Calls, Requests
    <3> QED
      BY <2>2, <3>1 DEF IInv, Coherent, TypeOK
  <2> QED
    BY <2>1, <2>2 DEF AgentCrash
<1>3. procs' \in [Pids -> Proc] /\ sleepers' \in Seq(Engines)
  BY <1>1, NoProcType
<1>4. TypeOK'
  BY <1>1, <1>2, <1>3 DEF TypeOK
<1>5. Placed' /\ Held' /\ Applied' /\ Wanted' /\ SingleEngine'
  BY <1>1 DEF Placed, Held, Applied, Wanted, SingleEngine, Alive, NoProc
<1> QED
  BY <1>4, <1>5 DEF Coherent

\* Restore applies what is stored: there is no engine to reload.
LEMMA AgentBootKeeps ==
  ASSUME IInv, AgentBoot
  PROVE  Coherent' /\ (cmd' # None => procs'[cmd'].st # "exited")
<1>0. cmd = None /\ Coherent
  BY DEF AgentBoot, IInv, Down
<1>1. CASE UNCHANGED manager
  BY <1>0, <1>1 DEF manager, memory, disk, Coherent, TypeOK, Placed, Held, Applied, Wanted,
                    SingleEngine, Alive
<1>2. ASSUME NEW answer \in {"ok", "error"}, stored # None, Lands(stored, answer)
      PROVE  Coherent' /\ procs'[cmd'].st # "exited"
  <2>1. stored \in Configs
    BY <1>0, <1>2 DEF Coherent, TypeOK
  <2> QED
    BY <1>0, <1>2, <2>1, LandKeeps
<1>3. cmd' # None /\ UNCHANGED manager => FALSE
  BY <1>0 DEF manager, memory
<1> QED
  BY <1>1, <1>2, <1>3 DEF AgentBoot, Rejected

-----------------------------------------------------------------------------
(* The requests *)

\* What the panel and the handlers do leaves the manager alone.
LEMMA ManagerKept ==
  ASSUME Coherent, UNCHANGED manager
  PROVE  Coherent'
BY DEF manager, memory, disk, Coherent, TypeOK, Placed, Held, Applied, Wanted, SingleEngine, Alive

\* A request that is resolved is a request of the same spec.
LEMMA ResolvesKeeps ==
  ASSUME NEW r \in Calls,
         NEW s \in {[r EXCEPT !.conf = <<r.spec, v>>] : v \in Resolutions[r.spec]}
                   \cup {[r EXCEPT !.answer = "error"]}
  PROVE  /\ s \in Calls /\ s.checked = r.checked /\ s.gone = r.gone
         /\ s.no = r.no /\ s.over = r.over
<1>1. CASE s = [r EXCEPT !.answer = "error"]
  BY <1>1 DEF Calls
<1>2. ASSUME NEW v \in Resolutions[r.spec], s = [r EXCEPT !.conf = <<r.spec, v>>]
      PROVE  /\ s \in Calls /\ s.checked = r.checked /\ s.gone = r.gone
             /\ s.no = r.no /\ s.over = r.over
  <2>1. r.spec \in Specs
    BY DEF Calls
  <2>2. <<r.spec, v>> \in Configs
    BY <2>1, ResolvedConfig
  <2> QED
    BY <1>2, <2>2 DEF Calls
<1> QED
  BY <1>1, <1>2

\* The requests an answer leaves behind differ in what has overtaken them.
LEMMA OvertakenFields ==
  ASSUME NEW rs \in SUBSET Calls, NEW answer, NEW t \in Overtaken(rs, answer)
  PROVE  \E q \in rs :
           /\ t \in Calls /\ t.conf = q.conf /\ t.answer = q.answer
           /\ t.checked = q.checked /\ t.gone = q.gone /\ t.no = q.no
           /\ t.over = (q.over \/ answer = "ok")
           /\ t = [q EXCEPT !.over = q.over \/ answer = "ok"]
<1>1. PICK q \in rs : t = [q EXCEPT !.over = q.over \/ answer = "ok"]
  BY DEF Overtaken
<1>2. q \in Calls
  OBVIOUS
<1>3. (q.over \/ answer = "ok") \in BOOLEAN
  OBVIOUS
<1> QED
  BY <1>1, <1>2, <1>3 DEF Calls

\* The same of the requests that stay when one given up is done.
LEMMA LateEndsFields ==
  ASSUME late \subseteq Calls, NEW r \in late, NEW answer, LateEnds(r, answer), NEW t \in late'
  PROVE  \E q \in late :
           /\ t \in Calls /\ t.conf = q.conf /\ t.answer = q.answer /\ q # r
           /\ t.checked = q.checked /\ t.gone = q.gone /\ t.no = q.no
           /\ t.over = (q.over \/ (answer = "ok" /\ q.no < r.no))
           /\ t = [q EXCEPT !.over = q.over \/ (answer = "ok" /\ q.no < r.no)]
<1>1. CASE t \in {q \in late : q.no > r.no}
  <2>1. t \in Calls /\ r \in Calls /\ t.no > r.no /\ t \in late
    BY <1>1
  <2>2. t.no \in Nat /\ r.no \in Nat /\ t.over \in BOOLEAN
    BY <2>1 DEF Calls
  <2>3. ~(t.no < r.no) /\ t # r
    BY <2>1, <2>2
  <2>4. t = [t EXCEPT !.over = t.over \/ (answer = "ok" /\ t.no < r.no)]
    BY <2>1, <2>2, <2>3 DEF Calls
  <2> QED
    BY <2>1, <2>2, <2>3, <2>4
<1>2. CASE t \in Overtaken({q \in late : q.no < r.no}, answer)
  <2>1. PICK q \in {q \in late : q.no < r.no} :
           /\ t \in Calls /\ t.conf = q.conf /\ t.answer = q.answer
           /\ t.checked = q.checked /\ t.gone = q.gone /\ t.no = q.no
           /\ t.over = (q.over \/ answer = "ok")
           /\ t = [q EXCEPT !.over = q.over \/ answer = "ok"]
    BY <1>2, OvertakenFields
  <2>2. q \in late /\ q.no < r.no /\ r \in Calls
    BY <2>1
  <2>3. q # r
    BY <2>2 DEF Calls
  <2> QED
    BY <2>1, <2>2, <2>3
<1> QED
  BY <1>1, <1>2 DEF LateEnds

\* A request given up is the one the panel waited for.
LEMMA AbandonedFields ==
  ASSUME CallsOK, NEW t \in Abandoned
  PROVE  /\ call # None /\ t \in Calls /\ t.conf = call.conf /\ t.answer = call.answer
         /\ t.checked = call.checked /\ t.gone = call.gone /\ t.no = faults
         /\ t.over = call.over /\ call.answer = None
<1>1. call # None /\ t = [call EXCEPT !.no = faults] /\ call.answer = None
  BY DEF Abandoned
<1>2. call \in Calls /\ faults \in Nat
  BY <1>1 DEF CallsOK
<1> QED
  BY <1>1, <1>2 DEF Calls

-----------------------------------------------------------------------------
(* Their types *)

LEMMA PanelCalls ==
  ASSUME CallsOK,
         (\E s \in Specs : Edit(s)) \/ PanelStep \/ GiveUp \/ PanelRestart
  PROVE  CallsOK'
<1> USE DEF CallsOK, Requests
<1>1. CASE \E s \in Specs : Edit(s)
  BY <1>1 DEF Edit
<1>2. CASE Push
  <2>1. Post(desired) \in Calls /\ ~Post(desired).checked
    BY DEF Post, Calls
  <2>2. call' \in {None, Post(desired)} /\ UNCHANGED <<desired, faults, late>>
    BY <1>2 DEF Push, budget
  <2> QED
    BY <2>1, <2>2
<1>3. CASE Answered \/ Reconcile \/ ThrottleEnds
  BY <1>3 DEF Answered, Reconcile, ThrottleEnds, budget
<1>4. CASE GiveUp \/ PanelRestart
  <2>1. late' = late \cup Abandoned /\ call' = None /\ faults' = faults + 1 /\ desired' = desired
    BY <1>4 DEF GiveUp, PanelRestart, Fault
  <2>2. late' \subseteq Calls
    BY <2>1, AbandonedFields
  <2>3. \A t \in Abandoned : t.checked => t.conf # None /\ t.answer = None
    <3> SUFFICES ASSUME NEW t \in Abandoned, t.checked PROVE t.conf # None /\ t.answer = None
      OBVIOUS
    <3>1. call \in Requests /\ call.checked /\ t.conf = call.conf /\ t.answer = call.answer
      BY AbandonedFields
    <3> QED
      BY <3>1
  <2> QED
    BY <2>1, <2>2, <2>3
<1> QED
  BY <1>1, <1>2, <1>3, <1>4 DEF PanelStep

\* An answer, or a check that has passed, keeps the types of the requests.
LEMMA CallCalls ==
  ASSUME CallsOK, Resolve \/ Check \/ Land
  PROVE  CallsOK'
<1> USE DEF CallsOK, Requests
<1>0. call # None /\ call \in Calls /\ late \subseteq Calls
  BY DEF Resolve, Check, Land
<1>1. CASE Resolve
  <2>1. PICK s \in {[call EXCEPT !.conf = <<call.spec, v>>] : v \in Resolutions[call.spec]}
                   \cup {[call EXCEPT !.answer = "error"]} :
               ResolvesTo(call, s) /\ call' = s
    BY <1>1 DEF Resolve
  <2>2. s \in Calls /\ s.checked = call.checked
    BY <1>0, <2>1, ResolvesKeeps
  <2>3. ~call.checked
    BY <1>0, <1>1 DEF Resolve
  <2>4. UNCHANGED <<desired, late>> /\ faults' \in Nat
    BY <1>1, <2>1 DEF Resolve, ResolvesTo, Fault
  <2> QED
    BY <2>1, <2>2, <2>3, <2>4
<1>2. ASSUME NEW answer, call' \in Calls, ~call'.checked,
             late' = Overtaken(late, answer), UNCHANGED <<desired, faults>>
      PROVE  CallsOK'
  <2>2. late' \subseteq Calls
    BY <1>0, <1>2, OvertakenFields
  <2>3. \A t \in late' : t.checked => t.conf # None /\ t.answer = None
    <3> SUFFICES ASSUME NEW t \in late', t.checked PROVE t.conf # None /\ t.answer = None
      OBVIOUS
    <3>0. late \in SUBSET Calls /\ t \in Overtaken(late, answer)
      BY <1>0, <1>2
    <3>1. PICK q \in late : t.conf = q.conf /\ t.answer = q.answer /\ t.checked = q.checked
      BY ONLY <3>0, OvertakenFields
    <3> QED
      BY <3>1
  <2> QED
    BY <1>2, <2>2, <2>3
<1>3. CASE Check
  <2>1. ~call.checked /\ call.conf # None /\ call.answer = None /\ UNCHANGED <<desired, faults>>
    BY <1>0, <1>3 DEF Check, Ready, budget
  <2>2. CASE call' = [call EXCEPT !.checked = TRUE] /\ late' = late
    <3>1. call' \in Calls /\ call'.conf = call.conf /\ call'.answer = call.answer
      BY <1>0, <2>2 DEF Calls
    <3> QED
      BY <2>1, <2>2, <3>1
  <2>3. ASSUME NEW answer \in {"ok", "error"}, call' = [call EXCEPT !.answer = answer],
               late' = Overtaken(late, answer)
        PROVE  CallsOK'
    <3>1. call' \in Calls /\ call'.checked = call.checked
      BY <1>0, <2>3 DEF Calls
    <3> QED
      BY <1>2, <2>1, <2>3, <3>1
  <2> QED
    BY <1>3, <2>2, <2>3 DEF Check
<1>4. CASE Land
  <2>1. PICK answer \in {"ok", "error"} :
          /\ call' = [call EXCEPT !.checked = FALSE, !.answer = answer]
          /\ late' = Overtaken(late, answer)
    BY <1>4 DEF Land
  <2>2. UNCHANGED <<desired, faults>>
    BY <1>4 DEF Land, budget
  <2>3. call' \in Calls /\ ~call'.checked
    BY <1>0, <2>1 DEF Calls
  <2> QED
    BY <1>2, <2>1, <2>2, <2>3
<1> QED
  BY <1>1, <1>3, <1>4

LEMMA LateCalls ==
  ASSUME CallsOK, NEW r \in late, Notice(r) \/ ResolveLate(r) \/ CheckLate(r) \/ LandLate(r)
  PROVE  CallsOK'
<1> USE DEF CallsOK, Requests
<1>0. r \in Calls /\ late \subseteq Calls
  OBVIOUS
<1>k. call' = call /\ desired' = desired /\ faults' \in Nat
  <2>1. CASE ResolveLate(r)
    BY <2>1 DEF ResolveLate, panel, ResolvesTo, Fault
  <2>2. CASE Notice(r) \/ CheckLate(r) \/ LandLate(r)
    BY <2>2 DEF Notice, CheckLate, ChecksLate, LandLate, panel, budget
  <2> QED
    BY <2>1, <2>2
<1>1. ASSUME NEW s \in Calls, late' \subseteq (late \ {r}) \cup {s},
             s.checked => s.conf # None /\ s.answer = None
      PROVE  CallsOK'
  BY <1>k, <1>1
<1>2. ASSUME NEW answer, LateEnds(r, answer) PROVE CallsOK'
  <2>1. late' \subseteq Calls
    BY <1>0, <1>2, LateEndsFields
  <2>2. \A t \in late' : t.checked => t.conf # None /\ t.answer = None
    <3> SUFFICES ASSUME NEW t \in late', t.checked PROVE t.conf # None /\ t.answer = None
      OBVIOUS
    <3>1. PICK q \in late : t.conf = q.conf /\ t.answer = q.answer /\ t.checked = q.checked
      BY <1>0, <1>2, LateEndsFields
    <3> QED
      BY <3>1
  <2> QED
    BY <1>k, <2>1, <2>2
<1>3. CASE Notice(r)
  <2>1. /\ [r EXCEPT !.gone = TRUE] \in Calls /\ [r EXCEPT !.gone = TRUE].checked = r.checked
        /\ [r EXCEPT !.gone = TRUE].conf = r.conf /\ [r EXCEPT !.gone = TRUE].answer = r.answer
    BY <1>0 DEF Calls
  <2> QED
    BY <1>1, <1>3, <2>1 DEF Notice
<1>4. CASE ResolveLate(r)
  <2>1. PICK s \in {[r EXCEPT !.conf = <<r.spec, v>>] : v \in Resolutions[r.spec]}
                   \cup {[r EXCEPT !.answer = "error"]} :
               late' = (late \ {r}) \cup {t \in {s} : t.answer = None}
    BY <1>4 DEF ResolveLate
  <2>2. s \in Calls /\ s.checked = r.checked
    BY <1>0, <2>1, ResolvesKeeps
  <2>3. ~r.checked
    BY <1>4 DEF ResolveLate
  <2> QED
    BY <1>1, <2>1, <2>2, <2>3
<1>5. CASE CheckLate(r)
  <2>1. CASE late' = (late \ {r}) \cup {[r EXCEPT !.checked = TRUE]}
    <3>1. r.conf # None /\ r.answer = None
      BY <1>5 DEF CheckLate, ChecksLate, Ready
    <3>2. /\ [r EXCEPT !.checked = TRUE] \in Calls
          /\ [r EXCEPT !.checked = TRUE].conf = r.conf
          /\ [r EXCEPT !.checked = TRUE].answer = r.answer
      BY <1>0 DEF Calls
    <3> QED
      BY <1>1, <2>1, <3>1, <3>2
  <2> QED
    BY <1>2, <1>5, <2>1 DEF CheckLate, ChecksLate
<1>6. CASE LandLate(r)
  BY <1>2, <1>6 DEF LandLate
<1> QED
  BY <1>3, <1>4, <1>5, <1>6

LEMMA CrashCalls == ASSUME CallsOK, AgentCrash PROVE CallsOK'
<1>1. desired' = desired /\ late' = {} /\ faults' = faults + 1
  BY DEF AgentCrash, Fault
<1>2. CASE call # None /\ call.answer = None
  <2>1. call' = [call EXCEPT !.answer = "error", !.checked = FALSE] /\ call \in Calls
    BY <1>2 DEF AgentCrash, CallsOK
  <2>2. call' \in Calls /\ ~call'.checked
    BY <2>1 DEF Calls
  <2> QED
    BY <1>1, <2>2 DEF CallsOK, Requests
<1>3. CASE ~(call # None /\ call.answer = None)
  <2>1. call' = call
    BY <1>3 DEF AgentCrash
  <2> QED
    BY <1>1, <2>1 DEF CallsOK, Requests
<1> QED
  BY <1>2, <1>3

LEMMA CallsStep == ASSUME CallsOK, [Next]_vars PROVE CallsOK'
<1>1. CASE Wake \/ AgentBoot \/ (\E p \in Pids : EngineStep(p) \/ Crash(p)) \/ UNCHANGED vars
  <2>1. UNCHANGED <<desired, call, late>>
    BY <1>1 DEF Wake, AgentBoot, EngineStep, Boot, Reread, Terminate, Supervise, Crash, Becomes,
                panel, vars
  <2>2. faults' = faults \/ faults' = faults + 1
    BY <1>1 DEF Wake, AgentBoot, EngineStep, Boot, Reread, Terminate, Supervise, Crash, Fault,
                budget, vars
  <2>3. faults' \in Nat
    BY <2>2 DEF CallsOK
  <2> QED
    BY <2>1, <2>3 DEF CallsOK, Requests
<1> QED
  BY <1>1, PanelCalls, CallCalls, LateCalls, CrashCalls DEF Next, AgentStep, LateStep

-----------------------------------------------------------------------------
(* The manager, the lock and the processes *)

LEMMA InitInv == Init => IInv
<1> SUFFICES ASSUME Init PROVE IInv
  OBVIOUS
<1> USE SpecsAssumption, NoProcType DEF Init
<1>1. CallsOK
  BY DEF CallsOK, Requests
<1>2. TypeOK
  <2>1. sleepers \in Seq(Engines)
    OBVIOUS
  <2>2. procs \in [Pids -> Proc] /\ live \in [Engines -> Configs \cup {None}]
    OBVIOUS
  <2> QED
    BY <2>1, <2>2 DEF TypeOK
<1>3. Placed /\ Held /\ Applied /\ Wanted
  BY DEF Placed, Held, Applied, Wanted, NoProc
<1>4. SingleEngine
  BY DEF SingleEngine, Alive, NoProc
<1>5. Watched /\ Down
  BY DEF Watched, Down
<1> QED
  BY <1>1, <1>2, <1>3, <1>4, <1>5 DEF IInv, Coherent

LEMMA PanelKeeps ==
  ASSUME IInv,
         (\E s \in Specs : Edit(s)) \/ PanelStep \/ GiveUp \/ PanelRestart
  PROVE  IInv'
<1>1. UNCHANGED manager /\ up' = up
  BY DEF Edit, PanelStep, Push, Answered, Reconcile, ThrottleEnds, GiveUp, PanelRestart
<1>2. Coherent' /\ CallsOK'
  BY <1>1, ManagerKept, PanelCalls DEF IInv
<1>3. \A t \in Abandoned : call # None /\ call.answer = None /\ t.checked = call.checked
  BY AbandonedFields DEF IInv
<1>4. Locked' => Locked
  <2> SUFFICES ASSUME NEW r \in Requests', r.checked PROVE Locked
    BY DEF Locked
  <2>1. r \in Requests \/ r \in Abandoned
    <3>1. ~Post(desired).checked
      BY DEF Post
    <3> QED
      BY <3>1 DEF Requests, Edit, PanelStep, Push, Answered, Reconcile, ThrottleEnds, GiveUp,
                  PanelRestart
  <2>2. CASE r \in Abandoned
    BY <1>3, <2>2 DEF Locked, Requests
  <2> QED
    BY <2>1, <2>2 DEF Locked
<1>5. Watched'
  BY <1>1, <1>4 DEF IInv, Watched, manager, memory
<1>6. Down'
  <2> SUFFICES ASSUME ~up PROVE cmd' = None /\ sleepers' = <<>> /\ late' = {}
                                /\ (call' # None => call'.answer # None)
    BY <1>1 DEF Down
  <2>1. cmd = None /\ sleepers = <<>> /\ late = {} /\ (call # None => call.answer # None)
    BY DEF IInv, Down
  <2>2. Abandoned = {}
    BY <1>3, <2>1
  <2>3. cmd' = None /\ sleepers' = <<>>
    BY <1>1, <2>1 DEF manager, memory
  <2> QED
    BY <2>1, <2>2, <2>3 DEF Edit, PanelStep, Push, Answered, Reconcile, ThrottleEnds, GiveUp,
                            PanelRestart
<1> QED
  BY <1>2, <1>5, <1>6 DEF IInv

\* A request that ends its check or lands does so while the engine runs.
LEMMA CallKeeps ==
  ASSUME ~ExitsUnseen, IInv, Resolve \/ Check \/ Land
  PROVE  IInv'
<1>0. CallsOK' /\ up' = up /\ up
  <2>1. call # None /\ call.answer = None
    BY DEF Resolve, Check, Ready, Land, IInv, CallsOK, Requests
  <2> QED
    BY <2>1, CallCalls DEF Resolve, Check, Land, IInv, Down
<1>1. CASE Resolve
  <2>1. UNCHANGED manager /\ late' = late /\ call # None /\ call.conf = None
    BY <1>1 DEF Resolve
  <2>2. Coherent'
    BY <2>1, ManagerKept DEF IInv
  <2>3. call.checked = FALSE /\ call \in Calls
    BY <2>1 DEF IInv, CallsOK, Requests, Calls
  <2>4. call'.checked = FALSE
    BY <1>1, <2>3, ResolvesKeeps DEF Resolve
  <2>5. Locked' => Locked
    BY <2>1, <2>4 DEF Locked, Requests
  <2> QED
    BY <1>0, <2>1, <2>2, <2>5 DEF IInv, Watched, Down, manager, memory
<1>2. CASE Check
  <2>1. UNCHANGED manager
    BY <1>2 DEF Check, AlreadyRuns, Rejected
  <2>2. cmd # None => procs[cmd].st # "exited"
    BY <1>2 DEF Check, Ready, ExitSeen
  <2> QED
    BY <1>0, <2>1, <2>2, ManagerKept DEF IInv, Watched, Down, manager, memory
<1>3. CASE Land
  <2>1. PICK answer \in {"ok", "error"} : Lands(call.conf, answer)
    BY <1>3 DEF Land
  <2>2. call.conf \in Configs /\ Locked
    BY <1>3 DEF Land, IInv, CallsOK, Calls, Requests, Locked
  <2>3. Coherent' /\ procs'[cmd'].st # "exited"
    BY <2>1, <2>2, LandKeeps DEF IInv, Watched
  <2> QED
    BY <1>0, <2>3 DEF IInv, Watched, Down
<1> QED
  BY <1>1, <1>2, <1>3

LEMMA LateKeeps ==
  ASSUME ~ExitsUnseen, IInv, NEW r \in late,
         Notice(r) \/ ResolveLate(r) \/ CheckLate(r) \/ LandLate(r)
  PROVE  IInv'
<1>0. CallsOK' /\ up' = up /\ up /\ call' = call /\ r \in Calls /\ late \subseteq Calls
  BY LateCalls DEF Notice, ResolveLate, CheckLate, ChecksLate, LandLate, IInv, Down, panel, CallsOK
<1>1. CASE Notice(r) \/ ResolveLate(r)
  <2>1. UNCHANGED manager
    BY <1>1 DEF Notice, ResolveLate
  <2>2. PICK s : s.checked = r.checked /\ late' \subseteq (late \ {r}) \cup {s}
    <3>1. CASE Notice(r)
      <4>1. [r EXCEPT !.gone = TRUE].checked = r.checked
        BY <1>0 DEF Calls
      <4> QED
        BY <3>1, <4>1 DEF Notice
    <3>2. CASE ResolveLate(r)
      BY <1>0, <3>2, ResolvesKeeps DEF ResolveLate
    <3> QED
      BY <1>1, <3>1, <3>2
  <2>3. Locked' => Locked
    BY <1>0, <2>2 DEF Locked, Requests
  <2> QED
    BY <1>0, <2>1, <2>3, ManagerKept DEF IInv, Watched, Down, manager, memory
<1>2. CASE CheckLate(r)
  <2>1. UNCHANGED manager
    BY <1>2 DEF CheckLate, ChecksLate, AlreadyRuns, Rejected
  <2>2. cmd # None => procs[cmd].st # "exited"
    BY <1>2 DEF CheckLate, ChecksLate, Ready, ExitSeen
  <2> QED
    BY <1>0, <2>1, <2>2, ManagerKept DEF IInv, Watched, Down, manager, memory
<1>3. CASE LandLate(r)
  <2>1. PICK answer \in {"ok", "error"} : Lands(r.conf, answer)
    BY <1>3 DEF LandLate
  <2>2. r.conf \in Configs /\ Locked
    BY <1>3 DEF LandLate, IInv, CallsOK, Calls, Requests, Locked
  <2>3. Coherent' /\ procs'[cmd'].st # "exited"
    BY <2>1, <2>2, LandKeeps DEF IInv, Watched
  <2> QED
    BY <1>0, <2>3 DEF IInv, Watched, Down
<1> QED
  BY <1>1, <1>2, <1>3

\* Behind the lock the manager's engine stays, and its supervisor waits.
LEMMA EngineKeeps ==
  ASSUME ~ExitsUnseen, IInv, NEW p \in Pids, EngineStep(p) \/ Crash(p)
  PROVE  IInv'
<1>1. UNCHANGED <<desired, call, late, up>>
  BY DEF EngineStep, Boot, Reread, Terminate, Supervise, Crash, Becomes, panel
<1>2. Coherent'
  <2>1. CASE Boot(p) \/ Reread(p) \/ Supervise(p)
    BY <2>1, BootKeeps, RereadKeeps, SuperviseKeeps DEF IInv
  <2>2. CASE Terminate(p) \/ Crash(p)
    <3>1. procs[p].st # "free" /\ Becomes(p, [procs[p] EXCEPT !.st = "exited"])
      BY <2>2 DEF Terminate, Crash, Alive
    <3> QED
      BY <3>1, ExitKeeps DEF IInv
  <2> QED
    BY <2>1, <2>2 DEF EngineStep
<1>3. CallsOK'
  <2>1. faults' \in Nat
    BY DEF EngineStep, Boot, Reread, Terminate, Supervise, Crash, Fault, budget, IInv, CallsOK
  <2> QED
    BY <1>1, <2>1 DEF IInv, CallsOK, Requests
<1>4. Locked' = Locked
  BY <1>1 DEF Locked, Requests
<1>p. procs \in [Pids -> Proc] /\ cmd \in Pids \cup {None}
  BY DEF IInv, Coherent, TypeOK
<1>5. Watched'
  <2> SUFFICES ASSUME Locked, cmd' # None PROVE procs'[cmd'].st # "exited"
    BY <1>4 DEF Watched
  <2>1. cmd' = cmd /\ cmd # None
    BY DEF EngineStep, Boot, Reread, Terminate, Supervise, Crash, Becomes, memory
  <2>2. procs[cmd].st # "exited" /\ cmd \in Pids
    BY <2>1, <1>p DEF IInv, Watched
  <2>3. CASE p # cmd
    BY <2>1, <2>2, <2>3, <1>p DEF EngineStep, Boot, Reread, Terminate, Supervise, Crash, Becomes
  <2>4. CASE p = cmd
    <3>1. ~MayExit(p)
      BY <2>4 DEF MayExit
    <3>2. CASE Boot(p)
      <4>1. procs' = [procs EXCEPT ![p] = [procs[p] EXCEPT !.st = "up",
                                                           !.conf = live[procs[p].path]]]
        BY <3>1, <3>2 DEF Boot, Becomes
      <4> QED
        BY <2>1, <2>4, <4>1, <1>p DEF Proc
    <3>3. CASE Reread(p)
      <4>1. procs' = [procs EXCEPT ![p] = [procs[p] EXCEPT !.conf = live[procs[p].path],
                                                           !.sig = FALSE]]
        BY <3>3 DEF Reread, Becomes
      <4> QED
        BY <2>1, <2>2, <2>4, <4>1, <1>p DEF Proc
    <3> QED
      BY <2>2, <2>4, <3>1, <3>2, <3>3 DEF EngineStep, Terminate, Supervise, Crash
  <2> QED
    BY <2>3, <2>4
<1>6. Down'
  <2>1. ~up => cmd' = None /\ sleepers' = <<>>
    BY SpecsAssumption DEF IInv, Down, EngineStep, Boot, Reread, Terminate, Supervise, Crash, Becomes, memory
  <2> QED
    BY <1>1, <2>1 DEF IInv, Down
<1> QED
  BY <1>2, <1>3, <1>5, <1>6 DEF IInv

LEMMA StepInv ==
  ASSUME ~ExitsUnseen, IInv, [Next]_vars
  PROVE  IInv'
<1>1. CASE (\E s \in Specs : Edit(s)) \/ PanelStep \/ GiveUp \/ PanelRestart
  BY <1>1, PanelKeeps
<1>2. CASE Resolve \/ Check \/ Land
  BY <1>2, CallKeeps
<1>3. CASE LateStep
  BY <1>3, LateKeeps DEF LateStep
<1>4. CASE AgentCrash
  <2>1. cmd' = None /\ sleepers' = <<>> /\ late' = {} /\ (call' # None => call'.answer # None)
    <3>1. call # None /\ call.answer = None => call' = [call EXCEPT !.answer = "error", !.checked = FALSE]
                                               /\ call \in Calls
      BY <1>4 DEF AgentCrash, IInv, CallsOK
    <3>2. call # None /\ call.answer = None => call'.answer = "error"
      BY <3>1 DEF Calls
    <3>3. ~(call # None /\ call.answer = None) => call' = call
      BY <1>4 DEF AgentCrash
    <3>4. (call # None /\ call.answer = None) => "error" # None
      BY <3>1, <3>2, SpecsAssumption DEF Calls
    <3> QED
      BY <1>4, <3>2, <3>3, <3>4 DEF AgentCrash
  <2> QED
    BY <1>4, <2>1, CrashKeeps, CrashCalls DEF IInv, Watched, Down
<1>5. CASE \E p \in Pids : EngineStep(p) \/ Crash(p)
  BY <1>5, EngineKeeps
<1>6. CASE UNCHANGED vars
  <2>1. Coherent' /\ CallsOK'
    BY <1>6, ManagerKept, CallsStep DEF vars, IInv
  <2> QED
    BY <1>6, <2>1 DEF vars, panel, manager, memory, IInv, Watched, Down, Locked, Requests
<1>7. CASE Wake
  <2>1. Coherent' /\ CallsOK'
    BY <1>7, WakeKeeps, CallsStep DEF IInv, Next, AgentStep
  <2>2. ~Locked' /\ up' = up /\ call' = call /\ late' = late
    BY <1>7 DEF Wake, Locked, Requests, panel
  <2>3. up
    BY <1>7 DEF Wake, IInv, Down
  <2> QED
    BY <2>1, <2>2, <2>3 DEF IInv, Watched, Down
<1>8. CASE AgentBoot
  <2>1. Coherent' /\ CallsOK' /\ (cmd' # None => procs'[cmd'].st # "exited") /\ up'
    BY <1>8, AgentBootKeeps, CallsStep DEF IInv, Next, AgentStep, AgentBoot
  <2> QED
    BY <2>1 DEF IInv, Watched, Down
<1> QED
  BY <1>1, <1>2, <1>3, <1>4, <1>5, <1>6, <1>7, <1>8 DEF Next, AgentStep

LEMMA Invariant ==
  ASSUME ~ExitsUnseen
  PROVE  Spec => []IInv
<1>1. IInv /\ [Next]_vars => IInv'
  BY StepInv
<1> QED
  BY InitInv, <1>1, PTL DEF Spec

-----------------------------------------------------------------------------
(* The order of the requests *)

LEMMA OrderPanel ==
  ASSUME CancelsInTime, CallsOK, Order,
         (\E s \in Specs : Edit(s)) \/ PanelStep \/ GiveUp \/ PanelRestart
  PROVE  Order'
<1>n. faults \in Nat /\ \A r \in late : r.no \in Nat
  BY DEF CallsOK, Calls
<1>1. CASE \E s \in Specs : Edit(s)
  BY <1>1 DEF Edit, Order, Requests
<1>2. CASE Push
  <2>1. ~Post(desired).over /\ ~Post(desired).gone /\ ~Post(desired).checked
    BY DEF Post
  <2>2. call' \in {None, Post(desired)} /\ UNCHANGED <<faults, late>> /\ \A r \in late : r.gone
    BY <1>2 DEF Push, budget
  <2> QED
    BY <2>1, <2>2 DEF Order, Requests
<1>3. CASE Answered \/ Reconcile \/ ThrottleEnds
  BY <1>3 DEF Answered, Reconcile, ThrottleEnds, budget, Order, Requests
<1>4. CASE GiveUp \/ PanelRestart
  <2>1. late' = late \cup Abandoned /\ call' = None /\ faults' = faults + 1
    BY <1>4 DEF GiveUp, PanelRestart, Fault
  <2>2. \A t \in Abandoned : /\ call # None /\ t.checked = call.checked
                             /\ t.gone = call.gone /\ t.no = faults /\ t.over = call.over
    BY AbandonedFields
  <2>3. \A t, q \in Abandoned : t = q
    BY DEF Abandoned
  <2>4. \A r, t \in Requests' : r.checked /\ t.checked => r = t
    <3>1. \A r \in Requests' : r \in late \/ r \in Abandoned
      BY <2>1 DEF Requests
    <3>2. ASSUME NEW r \in late, NEW t \in Abandoned, r.checked, t.checked PROVE FALSE
      <4>1. call.checked /\ call # None /\ r = call
        BY <2>2, <3>2 DEF Order, Requests
      <4> QED
        BY <4>1 DEF Order
    <3> QED
      BY <2>3, <3>1, <3>2 DEF Order, Requests
  <2>5. \A r \in late' : r.no < faults' /\ (r.over => r.gone /\ ~r.checked)
    BY <1>n, <2>1, <2>2 DEF Order
  <2>6. \A r, t \in late' : r.no < t.no => r.gone
    <3> SUFFICES ASSUME NEW r \in late', NEW t \in late', r.no < t.no PROVE r.gone
      OBVIOUS
    <3>1. CASE r \in Abandoned
      <4>1. t.no < faults + 1 /\ r.no = faults /\ t.no \in Nat
        BY <1>n, <2>1, <2>2, <3>1 DEF Order
      <4> QED
        BY <1>n, <4>1
    <3>2. CASE r \in late /\ t \in Abandoned
      BY <2>2, <3>2 DEF Order
    <3> QED
      BY <2>1, <3>1, <3>2 DEF Order
  <2> QED
    BY <2>1, <2>4, <2>5, <2>6 DEF Order
<1> QED
  BY <1>1, <1>2, <1>3, <1>4 DEF PanelStep

\* An answer to the call overtakes what is late, all of it gone and none of it
\* past the check.
LEMMA OrderCall ==
  ASSUME CancelsInTime, CallsOK, Order, Resolve \/ Check \/ Land
  PROVE  Order'
<1>0. /\ call # None /\ call \in Calls /\ late \subseteq Calls /\ call \in Requests
      /\ faults \in Nat /\ \A r \in late : r.no \in Nat
  BY DEF Resolve, Check, Land, CallsOK, Requests, Calls
<1>g. ~call.over /\ ~call.gone /\ \A r \in late : r.gone
  BY <1>0 DEF Order
<1>1. ASSUME call'.over = call.over, call'.gone = call.gone, late' = late,
             call'.checked => call.checked \/ ~Locked, faults' \in {faults, faults + 1}
      PROVE  Order'
  <2>1. \A r, t \in Requests' : r.checked /\ t.checked => r = t
    <3>1. \A r \in late : ~(r.checked /\ call'.checked)
      <4> SUFFICES ASSUME NEW r \in late, r.checked, call'.checked PROVE FALSE
        OBVIOUS
      <4>1. call.checked /\ r = call
        BY <1>0, <1>1 DEF Locked, Order, Requests
      <4> QED
        BY <1>g, <4>1
    <3> QED
      BY <1>1, <3>1 DEF Order, Requests
  <2>2. \A r \in late : r.no < faults'
    BY <1>0, <1>1 DEF Order
  <2> QED
    BY <1>1, <1>g, <2>1, <2>2 DEF Order
<1>2. ASSUME NEW answer, call'.over = call.over, call'.gone = call.gone, ~call'.checked,
             \A r \in late : ~r.checked, late' = Overtaken(late, answer), faults' = faults
      PROVE  Order'
  <2>1. \A t \in late' : \E q \in late : t.checked = q.checked /\ t.gone = q.gone /\ t.no = q.no
    BY <1>0, <1>2, OvertakenFields
  <2>2. \A t \in late' : t.gone /\ ~t.checked /\ t.no < faults'
    BY <1>g, <1>2, <2>1 DEF Order
  <2> QED
    BY <1>g, <1>2, <2>2 DEF Order, Requests
<1>3. CASE Resolve
  <2>1. call'.over = call.over /\ call'.gone = call.gone /\ call'.checked = call.checked
    BY <1>0, <1>3, ResolvesKeeps DEF Resolve
  <2> QED
    BY <1>1, <1>3, <2>1 DEF Resolve, ResolvesTo, Fault
<1>4. CASE Check
  <2>1. ~Locked /\ faults' = faults /\ ~call.checked
    BY <1>4 DEF Check, Ready, budget
  <2>2. CASE call' = [call EXCEPT !.checked = TRUE] /\ late' = late
    <3>1. call'.over = call.over /\ call'.gone = call.gone
      BY <1>0, <2>2 DEF Calls
    <3> QED
      BY <1>1, <2>1, <2>2, <3>1
  <2>3. ASSUME NEW answer \in {"ok", "error"}, call' = [call EXCEPT !.answer = answer],
               late' = Overtaken(late, answer)
        PROVE  Order'
    <3>1. call'.over = call.over /\ call'.gone = call.gone /\ call'.checked = call.checked
      BY <1>0, <2>3 DEF Calls
    <3> QED
      BY <1>2, <2>1, <2>3, <3>1 DEF Locked, Requests
  <2> QED
    BY <1>4, <2>2, <2>3 DEF Check
<1>5. CASE Land
  <2>1. PICK answer \in {"ok", "error"} :
          /\ call' = [call EXCEPT !.checked = FALSE, !.answer = answer]
          /\ late' = Overtaken(late, answer)
    BY <1>5 DEF Land
  <2>2. call'.over = call.over /\ call'.gone = call.gone /\ ~call'.checked
    BY <1>0, <2>1 DEF Calls
  <2>3. \A r \in late : ~r.checked
    <3> SUFFICES ASSUME NEW r \in late, r.checked PROVE FALSE
      OBVIOUS
    <3>1. r = call
      BY <1>0, <1>5 DEF Land, Order, Requests
    <3> QED
      BY <1>g, <3>1
  <2> QED
    BY <1>2, <1>5, <2>1, <2>2, <2>3 DEF Land, budget
<1> QED
  BY <1>3, <1>4, <1>5

\* One given up earlier is gone, and one known to be gone passes no check.
LEMMA OrderLate ==
  ASSUME CancelsInTime, CallsOK, Order, NEW r \in late,
         Notice(r) \/ ResolveLate(r) \/ CheckLate(r) \/ LandLate(r)
  PROVE  Order'
<1>0. r \in Calls /\ late \subseteq Calls /\ faults \in Nat /\ \A q \in late : q.no \in Nat
  BY DEF CallsOK, Calls
<1>k. call' = call /\ faults' \in {faults, faults + 1}
  <2>1. CASE ResolveLate(r)
    BY <2>1 DEF ResolveLate, panel, ResolvesTo, Fault
  <2>2. CASE Notice(r) \/ CheckLate(r) \/ LandLate(r)
    BY <2>2 DEF Notice, CheckLate, ChecksLate, LandLate, panel, budget
  <2> QED
    BY <2>1, <2>2
<1>1. ASSUME NEW s, late' \subseteq (late \ {r}) \cup {s}, s.no = r.no, r.gone => s.gone,
             s.checked => r.checked \/ ~Locked, s.over => s.gone /\ ~s.checked
      PROVE  Order'
  <2>1. ASSUME NEW q \in Requests \ {r}, q.checked, s.checked PROVE FALSE
    BY <1>1, <2>1 DEF Order, Requests, Locked
  <2>2. \A q \in Requests' : q \in Requests \ {r} \/ q = s
    <3>1. call # None => call # r
      BY DEF Order, Requests
    <3>2. CASE r = call
      BY <1>k, <1>1, <3>1, <3>2 DEF Requests
    <3>3. CASE r # call
      BY <1>k, <1>1, <3>3 DEF Requests
    <3> QED
      BY <3>2, <3>3
  <2>3. \A q, t \in Requests' : q.checked /\ t.checked => q = t
    BY <2>1, <2>2 DEF Order
  <2>4. \A q \in late' : q.no < faults' /\ (q.over => q.gone /\ ~q.checked)
    BY <1>0, <1>k, <1>1 DEF Order
  <2>5. \A q, t \in late' : q.no < t.no => q.gone
    <3> SUFFICES ASSUME NEW q \in late', NEW t \in late', q.no < t.no PROVE q.gone
      OBVIOUS
    <3>1. \A u \in late' : \E w \in late : u.no = w.no /\ (w.gone => u.gone)
      BY <1>1
    <3> QED
      BY <3>1 DEF Order
  <2>6. call' # None => ~call'.over /\ ~call'.gone /\ \A q \in late' : q.gone
    BY <1>k, <1>1 DEF Order
  <2> QED
    BY <2>3, <2>4, <2>5, <2>6 DEF Order
<1>2. ASSUME NEW answer, LateEnds(r, answer), faults' = faults,
             \A q \in late \ {r} : ~q.checked
      PROVE  Order'
  <2>1. \A t \in late' : \E q \in late :
          /\ q # r /\ t.checked = q.checked /\ t.gone = q.gone /\ t.no = q.no
          /\ (t.over => q.over \/ q.no < r.no)
    <3> SUFFICES ASSUME NEW t \in late'
                 PROVE  \E q \in late :
                          /\ q # r /\ t.checked = q.checked /\ t.gone = q.gone /\ t.no = q.no
                          /\ (t.over => q.over \/ q.no < r.no)
      OBVIOUS
    <3>1. PICK q \in late :
            /\ q # r /\ t.checked = q.checked /\ t.gone = q.gone /\ t.no = q.no
            /\ t.over = (q.over \/ (answer = "ok" /\ q.no < r.no))
      BY <1>0, <1>2, LateEndsFields
    <3>2. t.over => q.over \/ q.no < r.no
      BY <3>1
    <3> QED
      BY <3>1, <3>2
  <2>2. \A t \in late' : ~t.checked /\ t.no < faults' /\ (t.over => t.gone)
    BY <1>2, <2>1 DEF Order
  <2>3. \A q, t \in late' : q.no < t.no => q.gone
    <3> SUFFICES ASSUME NEW q \in late', NEW t \in late', q.no < t.no PROVE q.gone
      OBVIOUS
    <3>1. \A u \in late' : \E w \in late : u.no = w.no /\ u.gone = w.gone
      BY <2>1
    <3> QED
      BY <3>1 DEF Order
  <2>4. call' # None => ~call'.over /\ ~call'.gone /\ \A q \in late' : q.gone
    BY <1>k, <2>1 DEF Order
  <2>5. \A q, t \in Requests' : q.checked /\ t.checked => q = t
    BY <2>2 DEF Requests
  <2> QED
    BY <2>2, <2>3, <2>4, <2>5 DEF Order
<1>3. CASE Notice(r)
  <2>1. /\ [r EXCEPT !.gone = TRUE].no = r.no /\ [r EXCEPT !.gone = TRUE].gone
        /\ [r EXCEPT !.gone = TRUE].checked = r.checked /\ [r EXCEPT !.gone = TRUE].over = r.over
    BY <1>0 DEF Calls
  <2>2. ~r.over
    BY <1>3 DEF Notice, Order
  <2> QED
    BY <1>1, <1>3, <2>1, <2>2 DEF Notice
<1>4. CASE ResolveLate(r)
  <2>1. PICK s \in {[r EXCEPT !.conf = <<r.spec, v>>] : v \in Resolutions[r.spec]}
                   \cup {[r EXCEPT !.answer = "error"]} :
               late' = (late \ {r}) \cup {t \in {s} : t.answer = None}
    BY <1>4 DEF ResolveLate
  <2>2. s.no = r.no /\ s.gone = r.gone /\ s.checked = r.checked /\ s.over = r.over
    BY <1>0, <2>1, ResolvesKeeps
  <2> QED
    BY <1>1, <2>1, <2>2 DEF Order
<1>5. CASE CheckLate(r)
  <2>1. ~Locked /\ faults' = faults
    BY <1>5 DEF CheckLate, ChecksLate, Ready, budget
  <2>2. CASE Passes(r.conf, r.gone) /\ late' = (late \ {r}) \cup {[r EXCEPT !.checked = TRUE]}
    <3>1. ~r.gone /\ ~r.over
      BY <2>2 DEF Passes, Order
    <3>2. /\ [r EXCEPT !.checked = TRUE].no = r.no /\ [r EXCEPT !.checked = TRUE].gone = r.gone
          /\ [r EXCEPT !.checked = TRUE].over = r.over
      BY <1>0 DEF Calls
    <3> QED
      BY <1>1, <2>1, <2>2, <3>1, <3>2
  <2>3. ASSUME NEW answer, LateEnds(r, answer) PROVE Order'
    BY <1>2, <2>1, <2>3 DEF Locked, Requests
  <2> QED
    BY <1>5, <2>2, <2>3 DEF CheckLate, ChecksLate
<1>6. CASE LandLate(r)
  <2>1. \A q \in late \ {r} : ~q.checked
    BY <1>6 DEF LandLate, Order, Requests
  <2> QED
    BY <1>2, <1>6, <2>1 DEF LandLate, budget
<1> QED
  BY <1>3, <1>4, <1>5, <1>6

LEMMA OrderStep ==
  ASSUME CancelsInTime, CallsOK, Order, [Next]_vars
  PROVE  Order'
<1>n. faults \in Nat /\ \A r \in late : r.no \in Nat
  BY DEF CallsOK, Calls
<1>1. CASE Wake \/ AgentBoot \/ (\E p \in Pids : EngineStep(p) \/ Crash(p)) \/ UNCHANGED vars
  <2>1. UNCHANGED <<call, late>>
    BY <1>1 DEF Wake, AgentBoot, EngineStep, Boot, Reread, Terminate, Supervise, Crash, Becomes,
                panel, vars
  <2>2. faults' \in {faults, faults + 1}
    BY <1>1 DEF Wake, AgentBoot, EngineStep, Boot, Reread, Terminate, Supervise, Crash, Fault,
                budget, vars
  <2>3. \A r \in late : r.no < faults'
    BY <1>n, <2>2 DEF Order
  <2> QED
    BY <2>1, <2>3 DEF Order, Requests
<1>2. CASE AgentCrash
  <2>1. late' = {}
    BY <1>2 DEF AgentCrash
  <2>2. call' # None => ~call'.over /\ ~call'.gone
    <3>1. CASE call # None /\ call.answer = None
      <4>1. call' = [call EXCEPT !.answer = "error", !.checked = FALSE] /\ call \in Calls
        BY <1>2, <3>1 DEF AgentCrash, CallsOK
      <4>2. call'.over = call.over /\ call'.gone = call.gone
        BY <4>1 DEF Calls
      <4> QED
        BY <3>1, <4>2 DEF Order
    <3>2. CASE ~(call # None /\ call.answer = None)
      BY <1>2, <3>2 DEF AgentCrash, Order
    <3> QED
      BY <3>1, <3>2
  <2> QED
    BY <2>1, <2>2 DEF Order, Requests
<1> QED
  BY <1>1, <1>2, OrderPanel, OrderCall, OrderLate DEF Next, AgentStep, LateStep

LEMMA OrderInv ==
  ASSUME CancelsInTime
  PROVE  Spec => [](CallsOK /\ Order)
<1>1. Init => CallsOK /\ Order
  BY DEF Init, CallsOK, Order, Requests
<1>2. CallsOK /\ Order /\ [Next]_vars => (CallsOK /\ Order)'
  BY CallsStep, OrderStep
<1> QED
  BY <1>1, <1>2, PTL DEF Spec

-----------------------------------------------------------------------------
(* Results *)

\* The hash the agent's status reports is the config its settled engine serves:
\* Apply, the supervisor's restarts and Restore, in any order.
THEOREM ReportsWhatItServes ==
  ASSUME ~ExitsUnseen
  PROVE  Spec => []StatusHonest
<1>1. IInv => StatusHonest
  BY DEF IInv, Coherent, Held, StatusHonest
<1> QED
  BY Invariant, <1>1, PTL

\* A restart booked by the supervisor and an Apply that comes first never leave
\* two engines running.
THEOREM OneEngine ==
  ASSUME ~ExitsUnseen
  PROVE  Spec => []SingleEngine
<1>1. IInv => SingleEngine
  BY DEF IInv, Coherent
<1> QED
  BY Invariant, <1>1, PTL

\* Of the POSTs the panel gave up on one may land after that, past its check,
\* but none that a later one has overtaken: Apply's lock and the context of its
\* check, where the agent notices a closed connection before the next POST, and
\* even where engines exit behind an Apply.
THEOREM OvertakenNeverLands ==
  ASSUME CancelsInTime
  PROVE  Spec => LandsInOrder
<1> DEFINE InOrder == up /\ up' /\ rendered' # rendered =>
                        \E r \in Requests : r.checked /\ ~r.over /\ rendered' = r.conf
<1>1. CallsOK /\ Order /\ [Next]_vars => InOrder
  <2> SUFFICES ASSUME CallsOK, Order, [Next]_vars, up, up', rendered' # rendered
               PROVE  \E r \in Requests : r.checked /\ ~r.over /\ rendered' = r.conf
    OBVIOUS
  <2>0. \A c, answer : Lands(c, answer) => rendered' = c \/ rendered' = rendered
    BY DEF Lands, StartNew, Reload, Remember
  <2>1. CASE (\E s \in Specs : Edit(s)) \/ PanelStep \/ GiveUp \/ PanelRestart
    BY <2>1 DEF Edit, PanelStep, Push, Answered, Reconcile, ThrottleEnds, GiveUp,
                PanelRestart, manager, memory
  <2>2. CASE Resolve \/ Check \/ Wake \/ AgentBoot
    BY <2>2 DEF Resolve, Check, AlreadyRuns, Rejected, Wake, AgentBoot, manager, memory
  <2>3. CASE Land
    <3>1. call \in Requests /\ call.checked /\ ~call.over
      BY <2>3 DEF Land, Order, Requests
    <3> QED
      BY <2>0, <2>3, <3>1 DEF Land
  <2>4. ASSUME NEW r \in late, Notice(r) \/ ResolveLate(r) \/ CheckLate(r) PROVE FALSE
    BY <2>4 DEF Notice, ResolveLate, CheckLate, ChecksLate, AlreadyRuns, Rejected, manager, memory
  <2>5. ASSUME NEW r \in late, LandLate(r)
        PROVE  \E q \in Requests : q.checked /\ ~q.over /\ rendered' = q.conf
    <3>1. r \in Requests /\ r.checked /\ ~r.over
      BY <2>5 DEF LandLate, Order, Requests
    <3> QED
      BY <2>0, <2>5, <3>1 DEF LandLate
  <2>6. CASE AgentCrash
    BY <2>6 DEF AgentCrash
  <2>7. CASE \E p \in Pids : EngineStep(p) \/ Crash(p)
    BY <2>7 DEF EngineStep, Boot, Reread, Terminate, Supervise, Crash, Becomes, memory
  <2>8. CASE UNCHANGED vars
    BY <2>8 DEF vars, manager, memory
  <2> QED
    BY <2>1, <2>2, <2>3, <2>4, <2>5, <2>6, <2>7, <2>8 DEF Next, AgentStep, LateStep
<1>2. CallsOK /\ Order /\ [Next]_vars => [InOrder]_vars
  BY <1>1
<1> QED
  BY OrderInv, <1>2, PTL DEF Spec, LandsInOrder
=============================================================================
