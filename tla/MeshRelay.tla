------------------------------ MODULE MeshRelay ------------------------------
(***************************************************************************)
(* Relays of the mesh (mesh/relay.go, driven by mesh/reconcile.go): an     *)
(* exit node is published through the entry nodes by giving its hosts, the *)
(* rows of the panel's database that subscriptions advertise, the relay    *)
(* address and a relay port, and by forwarding that port on every entry.   *)
(* What a host looked like before is kept in a journal on the panel's disk *)
(* until it is restored.                                                   *)
(*                                                                         *)
(* One controller goroutine does all of it, one call at a time; between    *)
(* two of its calls the operator edits hosts, HostSync rewrites them, a    *)
(* call fails, or the panel restarts.  Reading the hosts and saving the    *)
(* plan made from them is one step: nobody but the controller reads the    *)
(* journal, so an edit between the two is an edit after them.              *)
(*                                                                         *)
(* A port stands for its stable index in ports.json; exits are numbered by *)
(* their relay slots.                                                      *)
(***************************************************************************)
EXTENDS Naturals, FiniteSets

CONSTANTS
  Exits,        \* exit nodes, by slot
  Entries,      \* entry nodes
  Hosts,        \* placement hosts (their uuids)
  ExitOf,       \* [Hosts -> Exits]: the node a host is placed on
  Published,    \* [Hosts -> 0..99]: raw port its placement gives it, 0 = the inbound's
  Late,         \* hosts created later
  Moving,       \* exits whose public IP changes once
  Modes,        \* relay modes the operator chooses from
  EditKinds,    \* what the operator does to hosts
  InboundsMove, \* TRUE: an inbound's port changes under a relay as well
  None,         \* no record
  Deleted,      \* a host row that was deleted
  MaxEdits, MaxModes, MaxFaults   \* bounds of the exploration

ASSUME ConstAssumption ==
  /\ Exits \subseteq 0..99 /\ Entries # {}
  /\ ExitOf \in [Hosts -> Exits] /\ Published \in [Hosts -> 0..99]
  /\ Late \subseteq Hosts /\ Moving \subseteq Exits
  /\ Modes \subseteq {"relay", "direct", "auto"}
  /\ EditKinds \subseteq {"toggle", "move", "reset", "delete", "inbound"}
  /\ InboundsMove \in BOOLEAN
  /\ MaxEdits \in Nat /\ MaxModes \in Nat /\ MaxFaults \in Nat

Ports == 1..99
RelayPort(x, p) == 55000 + 100 * x + p
RawPort == 0..99 \cup {RelayPort(x, p) : x \in Exits, p \in Ports}
Address == {"ip1", "ip2", "manual", "relay"}

Host == [addr : Address, raw : RawPort, custom : BOOLEAN, enable : BOOLEAN]
\* HostPlan; its relay address and port follow from the exit and the port.
HostPlan == [h : Hosts, addr : Address, port : Ports, raw : RawPort, custom : BOOLEAN]
Operation == [target : BOOLEAN, plans : SUBSET HostPlan]
RelayState == [on : BOOLEAN, saved : SUBSET HostPlan, op : Operation \cup {None}]
NewPort(p) == RelayPort(ExitOf[p.h], p.port)

ASSUME RecordAssumption == None \notin Operation /\ None \notin Exits /\ {None, Deleted} \cap Host = {}

VARIABLES
  host,      \* the database: each host's row
  inb,       \* the database: port of each host's inbound
  ip,        \* the database: address of each exit node
  fwd,       \* per entry: the forwarding rules in force
  journal,   \* relays.json
  ipMove,    \* ip-pending.json: per exit, none, journaled or done
  mode,      \* flags.json: the operator's mode of each exit
  relays,    \* the controller's memory of relays.json
  pc,        \* where the controller is
  pass,      \* whether it runs a cycle or an operator's update
  cur,       \* the exit it works on
  todo,      \* exits this pass has still to decide
  ret,       \* where finishRelay returns to
  rules,     \* the rules being pushed
  left,      \* entries still to be pushed to
  patches,   \* host patches still to be applied
  advert,    \* history: per host, address and raw port last given to it by
             \* anyone but the controller
  edited,    \* history: edited by the operator and not reset since
  edits, modes, faults   \* how many, for the bounds

db == <<host, inb, ip>>
files == <<journal, ipMove, mode>>
control == <<pc, pass, cur, todo, ret, rules, left, patches>>
ghosts == <<advert, edited>>
bounds == <<edits, modes, faults>>
vars == <<db, fwd, files, relays, control, ghosts, bounds>>

Exists(h) == host[h] \notin {None, Deleted}
Effective(raw, h) == IF raw = 0 THEN inb[h] ELSE raw
PortOf(h) == Effective(host[h].raw, h)
HostsOf(x) == {h \in Hosts : ExitOf[h] = x}
OnRelay(h) == Exists(h) /\ host[h].addr = "relay"

\* Where finishRelay is at work.
Finishing == {"push", "read", "patch", "unpush", "commit"}

HostsOK ==
  /\ host \in [Hosts -> Host \cup {None, Deleted}]
  /\ inb \in [Hosts -> Ports] /\ ip \in [Exits -> {"ip1", "ip2"}]
  /\ fwd \in [Entries -> SUBSET (Exits \X Ports)]
  /\ ipMove \in [Exits -> {"none", "journaled", "done"}]
  /\ mode \in [Exits -> {"relay", "direct", "auto"}]
  /\ advert \in [Hosts -> [addr : Address, raw : RawPort]] /\ edited \in [Hosts -> BOOLEAN]

\* A record of the journal: an operation's plans are saved, and nothing is
\* saved without a relay.
Sound(s) ==
  /\ s \in RelayState
  /\ s.op # None => s.op.plans \subseteq s.saved
  /\ ~s.on /\ s.op = None => s.saved = {}

RelaysOK ==
  /\ relays \in [Exits -> RelayState] /\ journal \in [Exits -> RelayState]
  /\ \A x \in Exits : Sound(relays[x]) /\ Sound(journal[x])

ControlOK ==
  /\ pc \in {"idle", "ips", "ipsSave", "ipsDone", "recover", "decide", "extend"} \cup Finishing
  /\ pass \in {"cycle", "update"} /\ ret \in {"none", "recover", "decide", "extend", "next"}
  /\ cur \in Exits \cup {None} /\ todo \subseteq Exits /\ left \subseteq Entries
  /\ pc \in {"ipsSave", "ipsDone", "extend"} \cup Finishing => cur \in Exits
  /\ pc \in Finishing => ret # "none" /\ relays[cur].op # None /\ patches \subseteq relays[cur].op.plans
  /\ pc = "push" => relays[cur].op.target
  /\ pc = "unpush" => ~relays[cur].op.target
  /\ rules \subseteq Exits \X Ports
  /\ edits \in Nat /\ modes \in Nat /\ faults \in Nat

TypeOK == HostsOK /\ RelaysOK /\ ControlOK

NewRow(h) == [addr |-> ip[ExitOf[h]], raw |-> Published[h], custom |-> FALSE, enable |-> TRUE]
Direct == [on |-> FALSE, saved |-> {}, op |-> None]

Init ==
  /\ ip = [x \in Exits |-> "ip1"]
  /\ host = [h \in Hosts |-> IF h \in Late THEN None
               ELSE [addr |-> "ip1", raw |-> Published[h], custom |-> FALSE, enable |-> TRUE]]
  /\ inb = [h \in Hosts |-> IF Published[h] = 0 THEN 1 ELSE Published[h]]
  /\ fwd = [e \in Entries |-> {}]
  /\ relays = [x \in Exits |-> Direct] /\ journal = relays
  /\ ipMove = [x \in Exits |-> "none"]
  /\ mode = [x \in Exits |-> "auto"]
  /\ pc = "idle" /\ pass = "cycle" /\ cur = None /\ todo = {} /\ ret = "none"
  /\ rules = {} /\ left = {} /\ patches = {}
  /\ advert = [h \in Hosts |-> [addr |-> "ip1", raw |-> Published[h]]]
  /\ edited = [h \in Hosts |-> FALSE]
  /\ edits = 0 /\ modes = 0 /\ faults = 0

-----------------------------------------------------------------------------
(* Plans and patches *)

\* A direct host of the exit, in use, that a relay can take.
Relayable(x, h) ==
  /\ h \in HostsOf(x) /\ Exists(h) /\ host[h].enable /\ host[h].addr # "relay"
  /\ host[h].raw = 0 \/ host[h].raw = inb[h]

PlanOf(h) == [h |-> h, addr |-> host[h].addr, port |-> PortOf(h),
              raw |-> host[h].raw, custom |-> host[h].custom]
NewPlans(x) == {PlanOf(h) : h \in {k \in HostsOf(x) : Relayable(x, k)}}

\* A host that is planned already left the relay by someone else's hand.
PlanRefused(x) == \E p \in relays[x].saved : Relayable(x, p.h)

IsOriginal(p) == host[p.h].addr = p.addr /\ PortOf(p.h) = p.port
IsRelayed(p) == host[p.h].addr = "relay" /\ PortOf(p.h) = NewPort(p)
Conflict(op) == \E p \in op.plans : Exists(p.h) /\ ~IsOriginal(p) /\ ~IsRelayed(p)
\* Fault: a disabled host is left as it is.
PatchesEnabled(op) ==
  {p \in op.plans : Exists(p.h) /\ host[p.h].enable
                    /\ IF op.target THEN ~IsRelayed(p) ELSE ~IsOriginal(p)}
Patches(op) ==
  {p \in op.plans : Exists(p.h) /\ IF op.target THEN ~IsRelayed(p) ELSE ~IsOriginal(p)}

\* The rules that belong on every entry; `on` is what exit x is counted as.
\* Fault: an exit whose relay is being switched on is not counted yet.
ActiveIfOn(x, y, on) == IF y = x THEN on ELSE relays[y].on
Active(x, y, on) ==
  IF y = x THEN on
  ELSE relays[y].on \/ (relays[y].op # None /\ relays[y].op.target)
Forwarding(x, on) ==
  {<<ExitOf[h], inb[h]>> : h \in {k \in Hosts : Active(x, ExitOf[k], on)}}

-----------------------------------------------------------------------------
(* The controller's steps.  A call or a save may fail, which ends the pass; *)
(* so may the panel, which also loses the controller's memory.              *)

Idle ==
  /\ pc' = "idle" /\ pass' = "cycle" /\ cur' = None /\ todo' = {} /\ ret' = "none"
  /\ rules' = {} /\ left' = {} /\ patches' = {}

Fault == faults < MaxFaults /\ faults' = faults + 1 /\ UNCHANGED <<edits, modes>>

\* Any call or save of the pass fails before it changed anything.
PassFails ==
  /\ pc \notin {"idle", "ips", "ipsSave", "ipsDone"}
  /\ Fault /\ Idle
  /\ UNCHANGED <<db, fwd, files, relays, ghosts>>

Restart ==
  /\ Fault /\ Idle
  /\ relays' = journal
  /\ UNCHANGED <<db, fwd, files, ghosts>>

Goto(l) ==
  /\ pc' = l
  /\ UNCHANGED <<pass, cur, todo, ret, rules, left, patches>>

Jump(l, x, t) ==
  /\ pc' = l /\ cur' = x /\ todo' = t
  /\ ret' = "none" /\ rules' = {} /\ left' = {} /\ patches' = {}
  /\ UNCHANGED pass

StartCycle ==
  /\ pc = "idle"
  /\ Jump("ips", None, {})
  /\ UNCHANGED <<db, fwd, files, relays, ghosts, bounds>>

-----------------------------------------------------------------------------
(* reconcileIPs: what fails here is logged and the cycle goes on. *)

\* Three observations agree on a new address: journal the change first.
JournalIP(x) ==
  /\ pc = "ips" /\ x \in Moving /\ ipMove[x] = "none"
  /\ ipMove' = [ipMove EXCEPT ![x] = "journaled"]
  /\ UNCHANGED <<db, fwd, journal, mode, relays, control, ghosts, bounds>>

NewAddress(a) == IF a = "ip1" THEN "ip2" ELSE a
\* The node-ip callback: the node, and every host that has its old address.
MoveIP(x) ==
  LET Readdressed(rec, h) ==
        IF h \in HostsOf(x) /\ Exists(h) THEN [rec EXCEPT !.addr = NewAddress(@)] ELSE rec IN
  /\ pc = "ips" /\ ipMove[x] = "journaled"
  /\ ip' = [ip EXCEPT ![x] = "ip2"]
  /\ host' = [h \in Hosts |-> Readdressed(host[h], h)]
  /\ advert' = [h \in Hosts |-> Readdressed(advert[h], h)]
  /\ Jump("ipsSave", x, {})
  /\ UNCHANGED <<inb, fwd, files, relays, edited, bounds>>

MovedPlans(plans) == {[p EXCEPT !.addr = NewAddress(@)] : p \in plans}
MovedOperation(op) ==
  IF op = None THEN None ELSE [target |-> op.target, plans |-> MovedPlans(op.plans)]
\* Fault: only the plans of an operation in flight learn the new address.
MovedInFlight(s) == [on |-> s.on, saved |-> s.saved, op |-> MovedOperation(s.op)]
Moved(s) == [on |-> s.on, saved |-> MovedPlans(s.saved), op |-> MovedOperation(s.op)]

\* The plans follow, in memory and then on disk.
MovePlans ==
  /\ pc = "ipsSave"
  /\ relays' = [relays EXCEPT ![cur] = Moved(@)]
  /\ \/ journal' = relays' /\ Goto("ipsDone") /\ UNCHANGED bounds
     \/ Fault /\ Jump("recover", None, {}) /\ UNCHANGED journal
  /\ UNCHANGED <<db, fwd, ipMove, mode, ghosts>>

ForgetIP ==
  /\ pc = "ipsDone"
  /\ ipMove' = [ipMove EXCEPT ![cur] = "done"]
  /\ Jump("ips", None, {})
  /\ UNCHANGED <<db, fwd, journal, mode, relays, ghosts, bounds>>

\* No change is left, or a call failed and the rest waits for the next cycle.
LeaveIPs ==
  /\ pc \in {"ips", "ipsSave", "ipsDone"}
  /\ \/ pc = "ips" /\ (\A x \in Exits : ipMove[x] # "journaled") /\ UNCHANGED bounds
     \/ pc # "ipsSave" /\ (\E x \in Exits : ipMove[x] = "journaled") /\ Fault
  /\ Jump("recover", None, {})
  /\ UNCHANGED <<db, fwd, files, relays, ghosts>>

-----------------------------------------------------------------------------
(* finishRelay *)

Finish(x, op, to) ==
  /\ pc' = IF op.target THEN "push" ELSE "read"
  /\ cur' = x /\ ret' = to
  /\ rules' = IF op.target THEN Forwarding(x, TRUE) ELSE {}
  /\ left' = IF op.target THEN Entries ELSE {}
  /\ patches' = {}
  /\ UNCHANGED <<pass, todo>>

Op == relays[cur].op

\* One entry takes the rules; when the answer is lost it has them all the same.
PushForward(e) ==
  /\ pc \in {"push", "unpush"} /\ e \in left
  /\ fwd' = [fwd EXCEPT ![e] = rules]
  /\ \/ /\ left' = left \ {e}
        /\ pc' = IF left' # {} THEN pc ELSE IF pc = "push" THEN "read" ELSE "commit"
        /\ UNCHANGED <<pass, cur, todo, ret, rules, patches, bounds>>
     \/ Fault /\ Idle
  /\ UNCHANGED <<db, files, relays, ghosts>>

ReadHosts ==
  /\ pc = "read"
  /\ IF Conflict(Op) THEN Idle
     ELSE /\ pc' = "patch" /\ patches' = Patches(Op)
          /\ UNCHANGED <<pass, cur, todo, ret, rules, left>>
  /\ UNCHANGED <<db, fwd, files, relays, ghosts, bounds>>

\* The host-patch callback compares, in its transaction, with what was read.
\* Fault: it compares with nothing.
AsReadNever(p) == TRUE
AsRead(p) == IF Op.target THEN IsOriginal(p) ELSE IsRelayed(p)

PatchHost(p) ==
  /\ pc = "patch" /\ p \in patches
  /\ IF Exists(p.h) /\ AsRead(p)
       THEN /\ host' = [host EXCEPT ![p.h] =
                  IF Op.target
                    THEN [@ EXCEPT !.addr = "relay", !.raw = NewPort(p), !.custom = TRUE]
                    ELSE [@ EXCEPT !.addr = p.addr, !.raw = p.raw, !.custom = p.custom]]
            /\ patches' = patches \ {p}
            /\ UNCHANGED <<pc, pass, cur, todo, ret, rules, left>>
       ELSE Idle /\ UNCHANGED host
  /\ UNCHANGED <<inb, ip, fwd, files, relays, ghosts, bounds>>

\* Read again: everything must be where the operation wants it.
Settled == ~Conflict(Op) /\ Patches(Op) = {}

VerifyHosts ==
  /\ pc = "patch" /\ patches = {}
  /\ IF ~Settled THEN Idle
     ELSE IF Op.target THEN Goto("commit")
     ELSE /\ pc' = "unpush" /\ rules' = Forwarding(cur, FALSE) /\ left' = Entries
          /\ UNCHANGED <<pass, cur, todo, ret, patches>>
  /\ UNCHANGED <<db, fwd, files, relays, ghosts, bounds>>

AfterCommit == IF ret = "next" THEN Jump("decide", None, todo \ {cur}) ELSE Jump(ret, cur, todo)
\* Fault: the plans of a finished restore stay.
FinishedKeeping(s) == [on |-> s.op.target, saved |-> s.saved, op |-> None]
Finished(s) == [on |-> s.op.target, saved |-> IF s.op.target THEN s.saved ELSE {}, op |-> None]

\* Fault: the save fails and the memory is not taken back.
CommitKept ==
  /\ pc = "commit"
  /\ relays' = [relays EXCEPT ![cur] = Finished(@)]
  /\ \/ journal' = relays' /\ AfterCommit /\ UNCHANGED bounds
     \/ UNCHANGED journal /\ Fault /\ Idle
  /\ UNCHANGED <<db, fwd, ipMove, mode, ghosts>>

Commit ==
  /\ pc = "commit"
  /\ relays' = [relays EXCEPT ![cur] = Finished(@)]
  /\ journal' = relays' /\ AfterCommit
  /\ UNCHANGED <<db, fwd, ipMove, mode, ghosts, bounds>>

-----------------------------------------------------------------------------
(* reconcileRelays and setRelay *)

\* Operations found in the journal are finished before anything is decided.
Recover(x) ==
  /\ pc = "recover" /\ relays[x].op # None
  /\ Finish(x, relays[x].op, "recover")
  /\ UNCHANGED <<db, fwd, files, relays, ghosts, bounds>>

Recovered ==
  /\ pc = "recover" /\ \A x \in Exits : relays[x].op = None
  /\ Jump("decide", None, Exits)
  /\ UNCHANGED <<db, fwd, files, relays, ghosts, bounds>>

\* A new operation is journaled, then carried out.
Begin(x, op, saved, to) ==
  /\ relays' = [relays EXCEPT ![x] = [@ EXCEPT !.saved = saved, !.op = op]]
  /\ journal' = relays'
  /\ Finish(x, op, to)

AfterSetRelay(x) ==
  IF pass = "cycle" THEN Jump("extend", x, todo) ELSE Jump("decide", None, todo \ {x})
Target(on, plans) == [target |-> on, plans |-> plans]

\* What setRelay(x, on) does, by cases.
SetRelay(x, on) ==
  LET s == relays[x]
      to == IF pass = "cycle" THEN "extend" ELSE "next" IN
  \/ /\ s.op # None                               \* a pending operation first
     /\ Finish(x, s.op, "decide") /\ UNCHANGED <<relays, journal>>
  \/ /\ s.op = None /\ s.on = on
     /\ AfterSetRelay(x) /\ UNCHANGED <<relays, journal>>
  \/ /\ s.op = None /\ ~s.on /\ on
     /\ PlanRefused(x) \/ NewPlans(x) = {}        \* an error: nothing to relay
     /\ Idle /\ UNCHANGED <<relays, journal>>
  \/ /\ s.op = None /\ ~s.on /\ on
     /\ ~PlanRefused(x) /\ NewPlans(x) # {}
     /\ Begin(x, Target(TRUE, NewPlans(x)), s.saved \cup NewPlans(x), to)
  \/ /\ s.op = None /\ s.on /\ ~on
     /\ Begin(x, Target(FALSE, s.saved), s.saved, to)

\* The operator's mode, or the health of the path (any verdict, or none).
Wanted(x) == IF mode[x] = "auto" THEN BOOLEAN ELSE {mode[x] = "relay"}

Decide(x) ==
  /\ pc = "decide" /\ x \in todo
  /\ \/ \E on \in Wanted(x) : SetRelay(x, on)
     \/ /\ mode[x] = "auto" /\ UNCHANGED <<relays, journal>>
        /\ Jump("extend", x, todo) \/ Jump("decide", None, todo \ {x})
  /\ UNCHANGED <<db, fwd, ipMove, mode, ghosts, bounds>>

\* A relay that is on takes in the direct hosts that have appeared since.
Extend ==
  LET s == relays[cur] IN
  /\ pc = "extend"
  /\ \/ /\ ~s.on \/ NewPlans(cur) = {}
        /\ Jump("decide", None, todo \ {cur}) /\ UNCHANGED <<relays, journal>>
     \/ /\ s.on /\ PlanRefused(cur)
        /\ Idle /\ UNCHANGED <<relays, journal>>
     \/ /\ s.on /\ ~PlanRefused(cur) /\ NewPlans(cur) # {}
        /\ Begin(cur, Target(TRUE, NewPlans(cur)), s.saved \cup NewPlans(cur), "next")
  /\ UNCHANGED <<db, fwd, ipMove, mode, ghosts, bounds>>

EndPass ==
  /\ pc = "decide" /\ todo = {}
  /\ Idle
  /\ UNCHANGED <<db, fwd, files, relays, ghosts, bounds>>

-----------------------------------------------------------------------------
(* The operator and HostSync, between any two steps of the controller *)

Edit(kind) ==
  /\ kind \in EditKinds /\ edits < MaxEdits
  /\ edits' = edits + 1
  /\ UNCHANGED <<fwd, files, relays, control, ip, modes, faults>>

\* UpdateBundleHost, with the address and the port the form has shown.
Toggle(h) ==
  /\ Edit("toggle") /\ Exists(h)
  /\ host' = [host EXCEPT ![h].enable = ~@, ![h].custom = TRUE]
  /\ edited' = [edited EXCEPT ![h] = TRUE]
  /\ UNCHANGED <<inb, advert>>

\* UpdateBundleHost, with an address of the operator's own.
Move(h) ==
  /\ Edit("move") /\ Exists(h)
  /\ host' = [host EXCEPT ![h].addr = "manual", ![h].raw = 0, ![h].custom = TRUE]
  /\ edited' = [edited EXCEPT ![h] = TRUE]
  /\ advert' = [advert EXCEPT ![h] = [addr |-> "manual", raw |-> 0]]
  /\ UNCHANGED inb

\* ResetBundleHost: the next HostSync rewrites the host.
Reset(h) ==
  /\ Edit("reset") /\ Exists(h)
  /\ host' = [host EXCEPT ![h].custom = FALSE]
  /\ edited' = [edited EXCEPT ![h] = FALSE]
  /\ UNCHANGED <<inb, advert>>

Delete(h) ==
  /\ Edit("delete") /\ Exists(h)
  /\ host' = [host EXCEPT ![h] = Deleted]
  /\ UNCHANGED <<inb, ghosts>>

\* The inbound gets another port (a host with a raw port keeps its own).
ChangeInbound(h) ==
  /\ Edit("inbound") /\ inb[h] # 2
  /\ ~InboundsMove => journal[ExitOf[h]] = Direct
  /\ inb' = [inb EXCEPT ![h] = 2]
  /\ UNCHANGED <<host, ghosts>>

\* HostSync writes what the placement says into a host nobody customized, and
\* creates the host of a new placement (a deletion is remembered).
HostSync(h) ==
  /\ \/ Exists(h) /\ ~host[h].custom
     \/ host[h] = None
  /\ host' = [host EXCEPT ![h] = NewRow(h)]
  /\ advert' = [advert EXCEPT ![h] = [addr |-> ip[ExitOf[h]], raw |-> Published[h]]]
  /\ UNCHANGED <<inb, ip, fwd, files, relays, control, edited, bounds>>

\* `update`: the mode is stored, then every manual mode is applied.
SetMode(x, m) ==
  /\ pc = "idle" /\ modes < MaxModes /\ m \in Modes /\ m # mode[x]
  /\ mode' = [mode EXCEPT ![x] = m]
  /\ modes' = modes + 1
  /\ pc' = "decide" /\ pass' = "update" /\ todo' = {y \in Exits : mode'[y] # "auto"}
  /\ UNCHANGED <<cur, ret, rules, left, patches>>
  /\ UNCHANGED <<db, fwd, journal, ipMove, relays, ghosts, edits, faults>>

-----------------------------------------------------------------------------
Controller ==
  \/ (\E x \in Exits : JournalIP(x) \/ MoveIP(x)) \/ MovePlans \/ ForgetIP \/ LeaveIPs
  \/ (\E x \in Exits : Recover(x)) \/ Recovered
  \/ (\E x \in Exits : Decide(x)) \/ Extend \/ EndPass
  \/ (\E e \in Entries : PushForward(e)) \/ ReadHosts
  \/ (\E h \in Hosts : \E p \in patches : p.h = h /\ PatchHost(p)) \/ VerifyHosts \/ Commit

Operator ==
  \/ \E h \in Hosts : Toggle(h) \/ Move(h) \/ Reset(h) \/ Delete(h) \/ ChangeInbound(h)
  \/ \E x \in Exits, m \in Modes : SetMode(x, m)

Next ==
  \/ StartCycle \/ Controller \/ PassFails \/ Restart
  \/ Operator \/ \E h \in Hosts : HostSync(h)

Spec == Init /\ [][Next]_vars

\* Cycles are timed and calls return.  Each pass ranges over Go maps, in an
\* order of its own, so no exit is behind another one every time.
Fairness ==
  /\ WF_vars(StartCycle) /\ WF_vars(Controller)
  /\ \A x \in Exits : SF_vars(Recover(x)) /\ SF_vars(Decide(x))

FairSpec == Spec /\ Fairness

-----------------------------------------------------------------------------
(* Properties *)

\* Subscriptions never send clients to a relay port that some entry does not
\* forward to the host's own port.
RelayBacked ==
  \A h \in Hosts : OnRelay(h) =>
    /\ host[h].raw = RelayPort(ExitOf[h], inb[h])
    /\ \A e \in Entries : <<ExitOf[h], inb[h]>> \in fwd[e]

\* An address, up to a change of the exit's IP that is still being carried out.
SameAddress(x, a, b) == a = b \/ (ipMove[x] = "journaled" /\ a = "ip1" /\ b = "ip2")

\* Whatever fails, the journal on disk knows the address and the port that a
\* host on the relay had, and a host that is not there has them.
OriginalKept ==
  \A h \in Hosts : Exists(h) =>
    LET x == ExitOf[h]  port == Effective(advert[h].raw, h) IN
    IF OnRelay(h)
      THEN \E p \in journal[x].saved :
             p.h = h /\ p.port = port /\ SameAddress(x, p.addr, advert[h].addr)
      ELSE PortOf(h) = port /\ SameAddress(x, host[h].addr, advert[h].addr)

\* A step that replaces an address the operator set: the operator's own, that
\* of a HostSync of a host nobody customized, or one the journal can undo.
ManualStep ==
  \A h \in Hosts : Exists(h) /\ host[h].addr = "manual" /\ host'[h] # host[h]
    => \/ edits' # edits \/ ~host[h].custom
       \/ \E p \in journal[ExitOf[h]].saved : p.h = h /\ p.addr = "manual"

\* An address the operator set is replaced by the controller only when the
\* journal has it, and so will give it back.
ManualKept == [][ManualStep]_vars

\* Between two passes the memory and the journal agree, so a restart is
\* harmless (a change of IP not yet saved is repeated from its own journal).
JournalKept ==
  \A x \in Exits :
    pc = "idle" /\ ipMove[x] # "journaled" => relays[x] = journal[x]

\* An exit that stays in direct mode ends up with its relay off and its hosts
\* restored, unless some host was given an address that conflicts.
IsDirect(x) == relays[x] = Direct /\ \A h \in HostsOf(x) : ~OnRelay(h)
InConflict == \E h \in Hosts : Exists(h) /\ host[h].addr = "manual"
RestoreCompletes ==
  \A x \in Exits : <>[](mode[x] = "direct" /\ ~InConflict) => <>[]IsDirect(x)

\* What the operator edited stays customized, so that HostSync leaves it alone,
\* until the operator resets it.
EditKept == \A h \in Hosts : Exists(h) /\ edited[h] => host[h].custom

-----------------------------------------------------------------------------
(* The inductive invariant behind RelayBacked, which is proved for inbounds *)
(* that keep their ports under a relay (MeshRelay_proofs).                  *)

\* The exit counts when rules are computed.
Carried(s) == s.on \/ (s.op # None /\ s.op.target)
Planned(s, h) == \E p \in s.saved : p.h = h

\* A relay's plans are of its own hosts, name the port those have, and lead
\* off the relay; a restore is of all of them.
GoodRecord(x, s) ==
  /\ \A p \in s.saved : ExitOf[p.h] = x /\ p.port = inb[p.h] /\ p.addr # "relay"
  /\ s.op # None /\ ~s.op.target => s.on /\ s.op.plans = s.saved

\* The memory and the journal differ at most in the addresses of the plans.
Alike(s, t) ==
  /\ s.on = t.on
  /\ s.op = None <=> t.op = None
  /\ s.op # None => s.op.target = t.op.target
  /\ \A h \in Hosts : Planned(s, h) <=> Planned(t, h)

RecordsInv ==
  \A x \in Exits :
    GoodRecord(x, relays[x]) /\ GoodRecord(x, journal[x]) /\ Alike(relays[x], journal[x])

\* A host on the relay is planned, and its exit counts.
RelayedInv ==
  \A h \in Hosts : OnRelay(h) => Carried(relays[ExitOf[h]]) /\ Planned(relays[ExitOf[h]], h)

\* The rules on their way to the entries cover what is on the relay already and
\* what is about to be; when they are everywhere, hosts may follow.
PushInv ==
  /\ pc \in {"push", "unpush"} =>
       /\ \A h \in Hosts : OnRelay(h) => <<ExitOf[h], inb[h]>> \in rules
       /\ \A e \in Entries \ left : fwd[e] = rules
  /\ pc = "push" => \A p \in relays[cur].op.plans : <<cur, p.port>> \in rules
  /\ pc \in {"read", "patch"} /\ relays[cur].op.target =>
       \A p \in relays[cur].op.plans : \A e \in Entries : <<cur, p.port>> \in fwd[e]
  /\ pc = "unpush" \/ (pc = "commit" /\ ~relays[cur].op.target) =>
       \A h \in HostsOf(cur) : ~OnRelay(h)

BackedInv == TypeOK /\ RecordsInv /\ RelayedInv /\ PushInv /\ RelayBacked

\* The invariant behind JournalKept: the two differ only by plans whose new
\* address is still to be journaled.
JournalInv ==
  /\ \A x \in Exits : ipMove[x] # "journaled" => relays[x] = journal[x]
  /\ pc = "ipsSave" => ipMove[cur] = "journaled"
  /\ pc = "ipsDone" => relays[cur] = journal[cur]

-----------------------------------------------------------------------------
(* The inductive invariants behind ManualKept and OriginalKept              *)
(* (MeshRelay_proofs).                                                *)

\* Plans are of the exit's own hosts, and what the memory would restore, the
\* journal would restore as well, up to a change of IP being carried out.
LagInv ==
  \A x \in Exits :
    /\ \A p \in relays[x].saved \cup journal[x].saved : ExitOf[p.h] = x
    /\ \A q \in relays[x].saved :
         \E p \in journal[x].saved : p.h = q.h /\ SameAddress(x, p.addr, q.addr)

\* An address off the relay goes with one raw port: an operator's with none,
\* the node's with the placement's.
RawOf(a, h) == IF a = "manual" THEN 0 ELSE Published[h]
RowsInv ==
  \A h \in Hosts :
    /\ advert[h].addr # "relay" /\ advert[h].raw = RawOf(advert[h].addr, h)
    /\ Exists(h) /\ ~OnRelay(h) => host[h].raw = RawOf(host[h].addr, h)

\* A host has one plan, which restores such a row.
PlansOK(plans) ==
  /\ \A p \in plans : p.raw = RawOf(p.addr, p.h)
  /\ \A p, q \in plans : p.h = q.h => p = q
PlansInv == \A x \in Exits : PlansOK(relays[x].saved) /\ PlansOK(journal[x].saved)

\* Where a host was before the relay, or is without it.
KeptAt(h) ==
  LET x == ExitOf[h] IN
  IF OnRelay(h)
    THEN /\ Effective(advert[h].raw, h) = inb[h]
         /\ \A p \in relays[x].saved : p.h = h => SameAddress(x, p.addr, advert[h].addr)
    ELSE SameAddress(x, host[h].addr, advert[h].addr)
AddressInv == \A h \in Hosts : Exists(h) => KeptAt(h)

\* A change of IP is forgotten when nothing has the old address any more.
MovedInv ==
  pc \in {"ipsSave", "ipsDone"} =>
    /\ ip[cur] = "ip2"
    /\ \A h \in HostsOf(cur) : Exists(h) => host[h].addr # "ip1" /\ advert[h].addr # "ip1"
    /\ pc = "ipsDone" => \A p \in relays[cur].saved : p.addr # "ip1"

KeptInv == LagInv /\ RowsInv /\ PlansInv /\ AddressInv /\ MovedInv
=============================================================================
