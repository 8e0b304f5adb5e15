-------------------------- MODULE MeshRelay_proofs --------------------------
(***************************************************************************)
(* Proofs about MeshRelay, for every set of exits, entries and hosts and   *)
(* every bound: types, the journal, what backs a host on the relay, and    *)
(* what a host was before it.                                              *)
(*                                                                         *)
(* RelayBacked needs inbounds that keep their ports under a relay.  Rules  *)
(* are computed for every exit that counts (Carried), a host goes to the   *)
(* relay only in an operation of such an exit and after every entry has    *)
(* taken the rules, and an exit stops counting only when none of its hosts *)
(* is left there.  OriginalKept needs the same; ManualKept does not.       *)
(***************************************************************************)
EXTENDS MeshRelay, TLAPS

Constants == ConstAssumption /\ RecordAssumption

-----------------------------------------------------------------------------
(* What the operators of the model return *)

\* A plan made from a relayable host is a plan.
LEMMA PlansAreTyped ==
  ASSUME Constants, HostsOK, NEW x \in Exits
  PROVE  NewPlans(x) \subseteq HostPlan
<1> SUFFICES ASSUME NEW h \in HostsOf(x), Relayable(x, h)
             PROVE  PlanOf(h) \in HostPlan
  BY DEF NewPlans
<1>1. h \in Hosts /\ host[h] \in Host /\ inb[h] \in Ports
  BY DEF HostsOK, Relayable, Exists, HostsOf
<1>2. PortOf(h) \in Ports
  BY <1>1 DEF Relayable, PortOf, Effective
<1> QED
  BY <1>1, <1>2 DEF PlanOf, HostPlan, Host

\* The rules computed for the entries are rules.
LEMMA RulesAreTyped ==
  ASSUME Constants, HostsOK, NEW x, NEW on
  PROVE  Forwarding(x, on) \subseteq Exits \X Ports
BY DEF Constants, ConstAssumption, HostsOK, Forwarding

\* A relay port is a raw port of a host.
LEMMA NewPortIsTyped ==
  ASSUME Constants, NEW p \in HostPlan
  PROVE  NewPort(p) \in RawPort
<1>1. ExitOf[p.h] \in Exits /\ p.port \in Ports
  BY DEF Constants, ConstAssumption, HostPlan
<1> QED
  BY <1>1 DEF NewPort, RawPort

\* Following a change of IP keeps what a relay's record is.
LEMMA MovedIsSound ==
  ASSUME Constants, NEW s, Sound(s)
  PROVE  /\ Sound(Moved(s)) /\ Moved(s).on = s.on
         /\ s.op = None <=> Moved(s).op = None
         /\ s.op # None => Moved(s).op.target = s.op.target
<1>1. \A a \in Address : NewAddress(a) \in Address
  BY DEF Address, NewAddress
<1>2. ASSUME NEW S \in SUBSET HostPlan
      PROVE  MovedPlans(S) \in SUBSET HostPlan
  BY <1>1 DEF MovedPlans, HostPlan
<1>3. s.op # None => s.op.target \in BOOLEAN /\ s.op.plans \in SUBSET HostPlan
  BY DEF Sound, RelayState, Operation
<1>4. s.op # None => MovedOperation(s.op) \in Operation
  BY <1>2, <1>3 DEF Operation, MovedOperation
<1>5. s.op = None <=> MovedOperation(s.op) = None
  BY <1>4 DEF Constants, RecordAssumption, MovedOperation
<1>6. s.op # None => MovedPlans(s.op.plans) \subseteq MovedPlans(s.saved)
  BY DEF MovedPlans, Sound
<1>7. s.saved \in SUBSET HostPlan /\ s.on \in BOOLEAN
  BY DEF Sound, RelayState
<1>8. Moved(s) \in RelayState
  BY <1>2, <1>4, <1>7 DEF RelayState, Moved, MovedOperation
<1>9. s.saved = {} => MovedPlans(s.saved) = {}
  BY DEF MovedPlans
<1> QED
  BY <1>5, <1>6, <1>8, <1>9 DEF Sound, Moved, MovedOperation

\* A new operation, and a finished one, leave a sound record.
LEMMA OperationIsSound ==
  ASSUME Constants, NEW s \in RelayState, NEW on \in BOOLEAN,
         NEW plans \in SUBSET HostPlan, NEW saved \in SUBSET HostPlan, plans \subseteq saved
  PROVE  /\ Sound([s EXCEPT !.saved = saved, !.op = Target(on, plans)])
         /\ Target(on, plans) # None
         /\ Target(on, plans).target = on
<1>1. Target(on, plans) \in Operation /\ Target(on, plans) # None
  BY DEF Target, Operation, Constants, RecordAssumption
<1> QED
  BY <1>1 DEF Sound, RelayState, Target

LEMMA FinishedIsSound ==
  ASSUME Constants, NEW s, Sound(s), s.op # None
  PROVE  Sound(Finished(s)) /\ Finished(s).op = None
BY DEF Sound, Finished, RelayState, Operation

-----------------------------------------------------------------------------
(* Control *)

LEMMA IdleIsTyped ==
  ASSUME Constants, ControlOK, Idle, edits' \in Nat, modes' \in Nat, faults' \in Nat
  PROVE  ControlOK'
BY DEF ControlOK, Idle, Finishing

LEMMA JumpIsTyped ==
  ASSUME Constants, ControlOK, NEW l, NEW x, NEW t \in SUBSET Exits, Jump(l, x, t),
         \/ l \in {"ips", "recover", "decide"} /\ x \in Exits \cup {None}
         \/ l \in {"ips", "ipsSave", "ipsDone", "recover", "decide", "extend"} /\ x \in Exits,
         edits' \in Nat, modes' \in Nat, faults' \in Nat
  PROVE  ControlOK'
BY DEF ControlOK, Jump, Finishing

LEMMA FinishIsTyped ==
  ASSUME Constants, HostsOK, ControlOK, NEW x \in Exits, NEW op, NEW to, Finish(x, op, to),
         to \in {"recover", "decide", "extend", "next"},
         op # None, relays'[x].op = op, UNCHANGED bounds
  PROVE  ControlOK'
BY RulesAreTyped DEF ControlOK, Finish, Finishing, bounds

LEMMA FaultIsTyped ==
  ASSUME ConstAssumption, ControlOK, Fault \/ UNCHANGED bounds
  PROVE  edits' \in Nat /\ modes' \in Nat /\ faults' \in Nat
BY DEF ControlOK, Fault, bounds

LEMMA HostsUnchanged ==
  ASSUME HostsOK, UNCHANGED <<db, fwd, ipMove, mode, ghosts>>
  PROVE  HostsOK'
BY DEF HostsOK, db, ghosts

LEMMA RelaysUnchanged ==
  ASSUME RelaysOK, UNCHANGED <<relays, journal>>
  PROVE  RelaysOK'
BY DEF RelaysOK

-----------------------------------------------------------------------------
(* Types, action by action *)

LEMMA InitTyped == ASSUME Constants, Init PROVE TypeOK
<1>1. HostsOK
  <2>1. \A h \in Hosts : Published[h] \in RawPort
    BY DEF Constants, ConstAssumption, RawPort
  <2>2. \A h \in Hosts : [addr |-> "ip1", raw |-> Published[h], custom |-> FALSE, enable |-> TRUE] \in Host
    BY <2>1 DEF Host, Address
  <2>3. inb \in [Hosts -> Ports]
    BY DEF Init, Constants, ConstAssumption, Ports
  <2> QED
    BY <2>1, <2>2, <2>3 DEF Init, HostsOK, Address
<1>2. RelaysOK
  BY DEF Init, RelaysOK, Direct, Sound, RelayState
<1>3. ControlOK
  BY DEF Init, ControlOK, Finishing
<1> QED
  BY <1>1, <1>2, <1>3 DEF TypeOK

\* Steps that only move the controller.
LEMMA ControlStepsTyped ==
  ASSUME Constants, TypeOK,
         \/ StartCycle \/ PassFails \/ ForgetIP \/ LeaveIPs \/ Recovered \/ EndPass
         \/ ReadHosts \/ VerifyHosts \/ \E x \in Exits : JournalIP(x) \/ Recover(x)
  PROVE  TypeOK'
<1> USE DEF TypeOK
<1>1. CASE StartCycle
  BY <1>1, HostsUnchanged, RelaysUnchanged, JumpIsTyped, FaultIsTyped
  DEF StartCycle, files, Constants
<1>2. CASE PassFails
  BY <1>2, HostsUnchanged, RelaysUnchanged, IdleIsTyped, FaultIsTyped
  DEF PassFails, files, Constants
<1>3. CASE ForgetIP
  <2>1. HostsOK'
    BY <1>3 DEF ForgetIP, HostsOK, db, ghosts
  <2> QED
    BY <1>3, <2>1, RelaysUnchanged, JumpIsTyped, FaultIsTyped DEF ForgetIP, Constants
<1>4. CASE LeaveIPs
  BY <1>4, HostsUnchanged, RelaysUnchanged, JumpIsTyped, FaultIsTyped
  DEF LeaveIPs, files, Constants
<1>5. CASE Recovered
  BY <1>5, HostsUnchanged, RelaysUnchanged, JumpIsTyped, FaultIsTyped
  DEF Recovered, files, Constants
<1>6. CASE EndPass
  BY <1>6, HostsUnchanged, RelaysUnchanged, IdleIsTyped, FaultIsTyped
  DEF EndPass, files, Constants
<1>7. CASE ReadHosts
  <2>1. CASE Conflict(Op)
    BY <1>7, <2>1, HostsUnchanged, RelaysUnchanged, IdleIsTyped, FaultIsTyped
    DEF ReadHosts, files, Constants
  <2>2. CASE ~Conflict(Op)
    <3>1. ControlOK'
      BY <1>7, <2>2 DEF ReadHosts, ControlOK, Finishing, Patches, Op, bounds
    <3> QED
      BY <1>7, <3>1, HostsUnchanged, RelaysUnchanged DEF ReadHosts, files
  <2> QED
    BY <2>1, <2>2
<1>8. CASE VerifyHosts
  <2>1. CASE ~Settled
    BY <1>8, <2>1, HostsUnchanged, RelaysUnchanged, IdleIsTyped, FaultIsTyped
    DEF VerifyHosts, files, Constants
  <2>2. CASE Settled
    <3>1. Forwarding(cur, FALSE) \subseteq Exits \X Ports
      BY RulesAreTyped
    <3>2. ControlOK'
      BY <1>8, <2>2, <3>1 DEF VerifyHosts, Goto, ControlOK, Finishing, Op, bounds
    <3> QED
      BY <1>8, <3>2, HostsUnchanged, RelaysUnchanged DEF VerifyHosts, files
  <2> QED
    BY <2>1, <2>2
<1>9. ASSUME NEW x \in Exits, JournalIP(x)
      PROVE  TypeOK'
  <2>1. HostsOK'
    BY <1>9 DEF JournalIP, HostsOK, db, ghosts
  <2>2. ControlOK'
    BY <1>9 DEF JournalIP, ControlOK, control, bounds
  <2> QED
    BY <1>9, <2>1, <2>2, RelaysUnchanged DEF JournalIP
<1>10. ASSUME NEW x \in Exits, Recover(x)
       PROVE  TypeOK'
  BY <1>10, HostsUnchanged, RelaysUnchanged, FinishIsTyped DEF Recover, files
<1> QED
  BY <1>1, <1>2, <1>3, <1>4, <1>5, <1>6, <1>7, <1>8, <1>9, <1>10

\* setRelay: whatever it does, the records stay sound.
LEMMA SetRelayTyped ==
  ASSUME Constants, TypeOK, NEW x \in Exits, NEW on \in BOOLEAN, SetRelay(x, on),
         pc = "decide", UNCHANGED bounds
  PROVE  RelaysOK' /\ ControlOK'
<1> USE DEF TypeOK
<1> DEFINE s == relays[x]
<1>1. /\ s \in RelayState /\ Sound(s) /\ NewPlans(x) \subseteq HostPlan
      /\ s.saved \in SUBSET HostPlan
  BY PlansAreTyped DEF RelaysOK, RelayState
<1>2. CASE s.op # None /\ Finish(x, s.op, "decide") /\ UNCHANGED <<relays, journal>>
  BY <1>2, RelaysUnchanged, FinishIsTyped
<1>3. CASE AfterSetRelay(x) /\ UNCHANGED <<relays, journal>>
  <2>1. edits' \in Nat /\ modes' \in Nat /\ faults' \in Nat
    BY FaultIsTyped DEF Constants
  <2>2. todo \in SUBSET Exits /\ todo \ {x} \in SUBSET Exits
    BY DEF ControlOK
  <2> QED
    BY <1>3, <2>1, <2>2, RelaysUnchanged, JumpIsTyped DEF AfterSetRelay
<1>4. CASE Idle /\ UNCHANGED <<relays, journal>>
  BY <1>4, RelaysUnchanged, IdleIsTyped, FaultIsTyped DEF Constants
<1>5. ASSUME NEW tgt \in BOOLEAN, NEW plans \in SUBSET HostPlan, NEW saved \in SUBSET HostPlan,
             plans \subseteq saved, NEW to \in {"extend", "next"},
             Begin(x, Target(tgt, plans), saved, to)
      PROVE  RelaysOK' /\ ControlOK'
  <2> DEFINE new == [s EXCEPT !.saved = saved, !.op = Target(tgt, plans)]
  <2>1. Sound(new) /\ Target(tgt, plans) # None
    BY <1>1, <1>5, OperationIsSound
  <2>2. new.op = Target(tgt, plans)
    BY <1>1 DEF RelayState
  <2>3. relays' = [relays EXCEPT ![x] = new] /\ journal' = relays'
    BY <1>5 DEF Begin
  <2>4. RelaysOK'
    BY <2>1, <2>3 DEF RelaysOK, Sound
  <2>5. ControlOK'
    BY <1>5, <2>1, <2>2, <2>3, FinishIsTyped DEF Begin, RelaysOK
  <2> QED
    BY <2>4, <2>5
<1>6. CASE Begin(x, Target(TRUE, NewPlans(x)), s.saved \cup NewPlans(x),
                 IF pass = "cycle" THEN "extend" ELSE "next")
  BY <1>1, <1>5, <1>6
<1>7. CASE Begin(x, Target(FALSE, s.saved), s.saved, IF pass = "cycle" THEN "extend" ELSE "next")
  BY <1>1, <1>5, <1>7
<1> QED
  BY <1>2, <1>3, <1>4, <1>6, <1>7 DEF SetRelay

\* Steps that change what the controller remembers or has saved.
LEMMA RelayStepsTyped ==
  ASSUME Constants, TypeOK,
         Restart \/ MovePlans \/ Commit \/ Extend \/ \E x \in Exits : Decide(x)
  PROVE  TypeOK'
<1> USE DEF TypeOK
<1>1. CASE Restart
  <2>1. RelaysOK'
    BY <1>1 DEF Restart, RelaysOK, files
  <2> QED
    BY <1>1, <2>1, HostsUnchanged, IdleIsTyped, FaultIsTyped DEF Restart, files, Constants
<1>2. CASE MovePlans
  <2>1. cur \in Exits
    BY <1>2 DEF MovePlans, ControlOK
  <2>2. Sound(Moved(relays[cur]))
    BY <2>1, MovedIsSound DEF RelaysOK
  <2>3. RelaysOK'
    BY <1>2, <2>1, <2>2 DEF MovePlans, RelaysOK, Sound
  <2>4. edits' \in Nat /\ modes' \in Nat /\ faults' \in Nat
    BY <1>2, FaultIsTyped DEF MovePlans, Constants
  <2>5. CASE Goto("ipsDone")
    BY <1>2, <2>1, <2>3, <2>4, <2>5, HostsUnchanged DEF MovePlans, Goto, ControlOK, Finishing
  <2>6. CASE Jump("recover", None, {})
    BY <1>2, <2>3, <2>4, <2>6, HostsUnchanged, JumpIsTyped DEF MovePlans
  <2> QED
    BY <1>2, <2>5, <2>6 DEF MovePlans
<1>3. CASE Commit
  <2>1. cur \in Exits /\ relays[cur].op # None
    BY <1>3 DEF Commit, ControlOK, Finishing
  <2>2. Sound(Finished(relays[cur]))
    BY <2>1, FinishedIsSound DEF RelaysOK
  <2>3. RelaysOK'
    BY <1>3, <2>1, <2>2 DEF Commit, RelaysOK, Sound
  <2>4. edits' \in Nat /\ modes' \in Nat /\ faults' \in Nat
    BY <1>3, FaultIsTyped DEF Commit, Constants
  <2>5. ControlOK'
    <3>1. CASE ret = "next"
      <4>1. Jump("decide", None, todo \ {cur}) /\ todo \ {cur} \in SUBSET Exits
        BY <1>3, <3>1 DEF Commit, AfterCommit, ControlOK
      <4> QED
        BY <2>4, <4>1, JumpIsTyped
    <3>2. CASE ret # "next"
      <4>1. Jump(ret, cur, todo) /\ todo \in SUBSET Exits
        BY <1>3, <3>2 DEF Commit, AfterCommit, ControlOK
      <4>2. ret \in {"recover", "decide", "extend"}
        BY <1>3, <3>2 DEF Commit, ControlOK, Finishing
      <4> QED
        BY <2>1, <2>4, <4>1, <4>2, JumpIsTyped
    <3> QED
      BY <3>1, <3>2
  <2> QED
    BY <1>3, <2>3, <2>5, HostsUnchanged DEF Commit
<1>4. CASE Extend
  <2> DEFINE s == relays[cur]
  <2>1. /\ cur \in Exits /\ s \in RelayState /\ Sound(s)
        /\ NewPlans(cur) \subseteq HostPlan /\ s.saved \in SUBSET HostPlan
    BY <1>4, PlansAreTyped DEF Extend, ControlOK, RelaysOK, RelayState
  <2>2. edits' \in Nat /\ modes' \in Nat /\ faults' \in Nat
    BY <1>4, FaultIsTyped DEF Extend, Constants
  <2>3. HostsOK'
    BY <1>4, HostsUnchanged DEF Extend
  <2>4. CASE Jump("decide", None, todo \ {cur}) /\ UNCHANGED <<relays, journal>>
    <3>1. todo \ {cur} \in SUBSET Exits
      BY DEF ControlOK
    <3> QED
      BY <2>2, <2>3, <2>4, <3>1, RelaysUnchanged, JumpIsTyped
  <2>5. CASE Idle /\ UNCHANGED <<relays, journal>>
    BY <2>2, <2>3, <2>5, RelaysUnchanged, IdleIsTyped
  <2>6. CASE Begin(cur, Target(TRUE, NewPlans(cur)), s.saved \cup NewPlans(cur), "next")
    <3> DEFINE op == Target(TRUE, NewPlans(cur))
               new == [s EXCEPT !.saved = s.saved \cup NewPlans(cur), !.op = op]
    <3>1. Sound(new) /\ op # None
      BY <2>1, OperationIsSound
    <3>2. new.op = op
      BY <2>1 DEF RelayState
    <3>3. relays' = [relays EXCEPT ![cur] = new] /\ journal' = relays'
      BY <2>6 DEF Begin
    <3>4. RelaysOK'
      BY <2>1, <3>1, <3>3 DEF RelaysOK, Sound
    <3>5. relays'[cur].op = op
      BY <2>1, <3>2, <3>3 DEF RelaysOK
    <3>6. ControlOK'
      BY <1>4, <2>1, <2>6, <3>1, <3>5, FinishIsTyped DEF Begin, Extend
    <3> QED
      BY <2>3, <3>4, <3>6
  <2> QED
    BY <1>4, <2>4, <2>5, <2>6 DEF Extend
<1>5. ASSUME NEW x \in Exits, Decide(x)
      PROVE  TypeOK'
  <2>1. HostsOK' /\ UNCHANGED bounds /\ pc = "decide"
    BY <1>5, HostsUnchanged DEF Decide
  <2>2. edits' \in Nat /\ modes' \in Nat /\ faults' \in Nat
    BY <2>1, FaultIsTyped DEF Constants
  <2>3. todo \in SUBSET Exits /\ todo \ {x} \in SUBSET Exits
    BY DEF ControlOK
  <2>4. ASSUME NEW on \in Wanted(x), SetRelay(x, on)
        PROVE  RelaysOK' /\ ControlOK'
    <3>1. on \in BOOLEAN
      BY DEF Wanted
    <3> QED
      BY <2>1, <2>4, <3>1, SetRelayTyped
  <2>5. CASE Jump("extend", x, todo) /\ UNCHANGED <<relays, journal>>
    BY <2>1, <2>2, <2>3, <2>5, RelaysUnchanged, JumpIsTyped
  <2>6. CASE Jump("decide", None, todo \ {x}) /\ UNCHANGED <<relays, journal>>
    BY <2>1, <2>2, <2>3, <2>6, RelaysUnchanged, JumpIsTyped
  <2> QED
    BY <1>5, <2>1, <2>4, <2>5, <2>6 DEF Decide
<1> QED
  BY <1>1, <1>2, <1>3, <1>4, <1>5

\* Steps that change the hosts, the nodes or the entries.
LEMMA DatabaseStepsTyped ==
  ASSUME Constants, TypeOK,
         \/ \E x \in Exits : MoveIP(x)
         \/ \E e \in Entries : PushForward(e)
         \/ \E p \in patches : PatchHost(p)
         \/ \E h \in Hosts : HostSync(h)
         \/ \E h \in Hosts : Toggle(h) \/ Move(h) \/ Reset(h) \/ Delete(h) \/ ChangeInbound(h)
         \/ \E x \in Exits, m \in Modes : SetMode(x, m)
  PROVE  TypeOK'
<1> USE DEF TypeOK
<1>1. ASSUME NEW x \in Exits, MoveIP(x)
      PROVE  TypeOK'
  <2>1. \A a \in Address : NewAddress(a) \in Address
    BY DEF Address, NewAddress
  <2>2. host' \in [Hosts -> Host \cup {None, Deleted}]
    <3>1. host \in [Hosts -> Host \cup {None, Deleted}]
      BY DEF HostsOK
    <3>2. \A r \in Host : [r EXCEPT !.addr = NewAddress(@)] \in Host
      BY <2>1 DEF Host
    <3>3. \A h \in Hosts : Exists(h) => host[h] \in Host
      BY <3>1 DEF Exists
    <3>4. host' = [h \in Hosts |-> IF h \in HostsOf(x) /\ Exists(h)
                                     THEN [host[h] EXCEPT !.addr = NewAddress(@)] ELSE host[h]]
      BY <1>1 DEF MoveIP
    <3> QED
      BY <3>1, <3>2, <3>3, <3>4
  <2>3. advert' \in [Hosts -> [addr : Address, raw : RawPort]]
    BY <1>1, <2>1 DEF HostsOK, MoveIP
  <2>4. HostsOK'
    BY <1>1, <2>2, <2>3 DEF HostsOK, MoveIP, files
  <2>5. edits' \in Nat /\ modes' \in Nat /\ faults' \in Nat
    BY <1>1, FaultIsTyped DEF MoveIP, Constants
  <2> QED
    BY <1>1, <2>4, <2>5, RelaysUnchanged, JumpIsTyped DEF MoveIP, files
<1>2. ASSUME NEW e \in Entries, PushForward(e)
      PROVE  TypeOK'
  <2>1. rules \subseteq Exits \X Ports
    BY DEF ControlOK
  <2>2. HostsOK'
    BY <1>2, <2>1 DEF HostsOK, PushForward, db, files, ghosts
  <2>3. RelaysOK'
    BY <1>2, RelaysUnchanged DEF PushForward, files
  <2>4. edits' \in Nat /\ modes' \in Nat /\ faults' \in Nat
    BY <1>2, FaultIsTyped DEF PushForward, Constants
  <2>5. CASE Idle
    BY <2>2, <2>3, <2>4, <2>5, IdleIsTyped
  <2>6. CASE /\ left' = left \ {e}
             /\ pc' = IF left' # {} THEN pc ELSE IF pc = "push" THEN "read" ELSE "commit"
             /\ UNCHANGED <<pass, cur, todo, ret, rules, patches, bounds>>
    <3>1. pc \in {"push", "unpush"}
      BY <1>2 DEF PushForward
    <3>2. ControlOK'
      BY <1>2, <2>6, <3>1 DEF PushForward, ControlOK, Finishing, bounds
    <3> QED
      BY <2>2, <2>3, <3>2
  <2> QED
    BY <1>2, <2>5, <2>6 DEF PushForward
<1>3. ASSUME NEW p \in patches, PatchHost(p)
      PROVE  TypeOK'
  <2>1. p \in HostPlan /\ cur \in Exits /\ relays[cur].op # None
    <3>1. cur \in Exits /\ relays[cur].op # None /\ p \in relays[cur].op.plans
      BY <1>3 DEF PatchHost, ControlOK, Finishing
    <3> QED
      BY <3>1 DEF RelaysOK, RelayState, Operation
  <2>2. CASE Exists(p.h) /\ AsRead(p)
    <3>1. NewPort(p) \in RawPort
      BY <2>1, NewPortIsTyped
    <3>2. p.h \in Hosts /\ host[p.h] \in Host /\ p.addr \in Address /\ p.raw \in RawPort
          /\ p.custom \in BOOLEAN
      BY <2>1, <2>2 DEF HostsOK, Exists, HostPlan
    <3>3. CASE Op.target
      <4>1. host' = [host EXCEPT ![p.h] =
              [@ EXCEPT !.addr = "relay", !.raw = NewPort(p), !.custom = TRUE]]
        BY <1>3, <2>2, <3>3 DEF PatchHost
      <4>2. [host[p.h] EXCEPT !.addr = "relay", !.raw = NewPort(p), !.custom = TRUE] \in Host
        BY <3>1, <3>2 DEF Host, Address
      <4> QED
        BY <1>3, <2>2, <4>1, <4>2, RelaysUnchanged
        DEF PatchHost, HostsOK, ControlOK, Finishing, files, ghosts, bounds
    <3>4. CASE ~Op.target
      <4>1. host' = [host EXCEPT ![p.h] =
              [@ EXCEPT !.addr = p.addr, !.raw = p.raw, !.custom = p.custom]]
        BY <1>3, <2>2, <3>4 DEF PatchHost
      <4>2. [host[p.h] EXCEPT !.addr = p.addr, !.raw = p.raw, !.custom = p.custom] \in Host
        BY <3>2 DEF Host
      <4> QED
        BY <1>3, <2>2, <4>1, <4>2, RelaysUnchanged
        DEF PatchHost, HostsOK, ControlOK, Finishing, files, ghosts, bounds
    <3> QED
      BY <3>3, <3>4
  <2>3. CASE ~(Exists(p.h) /\ AsRead(p))
    <3>1. Idle /\ UNCHANGED host
      BY <1>3, <2>3 DEF PatchHost
    <3>2. HostsOK'
      BY <1>3, <3>1 DEF PatchHost, HostsOK, files, ghosts
    <3> QED
      BY <1>3, <3>1, <3>2, RelaysUnchanged, IdleIsTyped, FaultIsTyped DEF PatchHost, files, Constants
  <2> QED
    BY <2>2, <2>3
<1>4. ASSUME NEW h \in Hosts, HostSync(h)
      PROVE  TypeOK'
  <2>1. /\ Published[h] \in RawPort /\ ip[ExitOf[h]] \in Address
    <3>1. Published[h] \in 0..99 /\ ExitOf[h] \in Exits
      BY DEF Constants, ConstAssumption
    <3>2. 0..99 \subseteq RawPort
      BY DEF RawPort
    <3> QED
      BY <3>1, <3>2 DEF HostsOK, Address
  <2>2. NewRow(h) \in Host
    BY <2>1 DEF NewRow, Host
  <2>3. [addr |-> ip[ExitOf[h]], raw |-> Published[h]] \in [addr : Address, raw : RawPort]
    BY <2>1
  <2>4. HostsOK'
    BY <1>4, <2>2, <2>3 DEF HostSync, HostsOK, files
  <2>5. ControlOK'
    BY <1>4 DEF HostSync, ControlOK, control, bounds
  <2> QED
    BY <1>4, <2>4, <2>5, RelaysUnchanged DEF HostSync, files
<1>5. ASSUME NEW h \in Hosts, Toggle(h) \/ Move(h) \/ Reset(h) \/ Delete(h) \/ ChangeInbound(h)
      PROVE  TypeOK'
  <2>1. /\ UNCHANGED <<fwd, files, relays, control, ip, modes, faults>> /\ edits' = edits + 1
    BY <1>5 DEF Toggle, Move, Reset, Delete, ChangeInbound, Edit
  <2>2. RelaysOK' /\ ControlOK'
    BY <2>1, RelaysUnchanged DEF ControlOK, files, control
  <2>3. 0 \in RawPort
    BY DEF RawPort
  <2>4. CASE Toggle(h)
    <3>1. h \in Hosts /\ host[h] \in Host
      BY <2>4 DEF Toggle, HostsOK, Exists
    <3>2. [[host[h] EXCEPT !.enable = ~@] EXCEPT !.custom = TRUE] \in Host
      BY <3>1 DEF Host
    <3>3. host' \in [Hosts -> Host \cup {None, Deleted}]
      BY <2>4, <3>2 DEF Toggle, HostsOK
    <3> QED
      BY <2>1, <2>2, <2>4, <3>3 DEF Toggle, HostsOK, files
  <2>5. CASE Move(h)
    <3>1. h \in Hosts /\ host[h] \in Host
      BY <2>5 DEF Move, HostsOK, Exists
    <3>2. [[[host[h] EXCEPT !.addr = "manual"] EXCEPT !.raw = 0] EXCEPT !.custom = TRUE] \in Host
      BY <2>3, <3>1 DEF Host, Address
    <3>3. host' \in [Hosts -> Host \cup {None, Deleted}]
      BY <2>5, <3>2 DEF Move, HostsOK
    <3>4. advert' \in [Hosts -> [addr : Address, raw : RawPort]]
      BY <2>3, <2>5 DEF Move, HostsOK, Address
    <3> QED
      BY <2>1, <2>2, <2>5, <3>3, <3>4 DEF Move, HostsOK, files
  <2>6. CASE Reset(h)
    <3>1. [host[h] EXCEPT !.custom = FALSE] \in Host
      BY <2>6 DEF Reset, HostsOK, Exists, Host
    <3>2. host' \in [Hosts -> Host \cup {None, Deleted}]
      BY <2>6, <3>1 DEF Reset, HostsOK
    <3> QED
      BY <2>1, <2>2, <2>6, <3>2 DEF Reset, HostsOK, files
  <2>7. CASE Delete(h)
    BY <2>1, <2>2, <2>7 DEF Delete, HostsOK, files, ghosts
  <2>8. CASE ChangeInbound(h)
    <3>1. inb' \in [Hosts -> Ports]
      BY <2>8 DEF ChangeInbound, HostsOK, Ports
    <3> QED
      BY <2>1, <2>2, <2>8, <3>1 DEF ChangeInbound, HostsOK, files, ghosts
  <2> QED
    BY <1>5, <2>4, <2>5, <2>6, <2>7, <2>8
<1>6. ASSUME NEW x \in Exits, NEW m \in Modes, SetMode(x, m)
      PROVE  TypeOK'
  <2>1. HostsOK'
    BY <1>6 DEF SetMode, HostsOK, Constants, ConstAssumption, db, ghosts
  <2>2. ControlOK'
    BY <1>6 DEF SetMode, ControlOK, Finishing
  <2> QED
    BY <1>6, <2>1, <2>2, RelaysUnchanged DEF SetMode
<1> QED
  BY <1>1, <1>2, <1>3, <1>4, <1>5, <1>6

\* Every step of the system is one of the steps above.
LEMMA TypeStep == ASSUME Constants, TypeOK, [Next]_vars PROVE TypeOK'
<1>1. CASE Next
  BY <1>1, ControlStepsTyped, RelayStepsTyped, DatabaseStepsTyped DEF Next, Controller, Operator
<1>2. CASE UNCHANGED vars
  BY <1>2 DEF vars, TypeOK, HostsOK, RelaysOK, ControlOK, db, files, control, ghosts, bounds
<1> QED
  BY <1>1, <1>2

\* Every reachable state has the types of TypeOK: no step of the controller,
\* the operator or HostSync, no failure and no restart leaves a record of the
\* journal unsound, or the controller inside finishRelay without an operation.
THEOREM TypeCorrect == Spec => []TypeOK
<1> USE ConstAssumption, RecordAssumption DEF Constants
<1>1. Init => TypeOK
  BY InitTyped
<1>2. TypeOK /\ [Next]_vars => TypeOK'
  BY TypeStep
<1> QED
  BY <1>1, <1>2, PTL DEF Spec

-----------------------------------------------------------------------------
(* The memory and the journal *)

\* Away from a change of IP, whatever leaves both alone, or writes the memory
\* to the journal, keeps the invariant.
LEMMA JournalWritten ==
  ASSUME JournalInv,
         UNCHANGED <<relays, journal>> \/ journal' = relays',
         UNCHANGED ipMove,
         pc' \notin {"ipsSave", "ipsDone"} \/ UNCHANGED <<pc, cur>>
  PROVE  JournalInv'
BY DEF JournalInv

LEMMA JournalStep == ASSUME Constants, TypeOK, JournalInv, [Next]_vars PROVE JournalInv'
<1>1. CASE UNCHANGED vars
  BY <1>1, JournalWritten DEF vars, files, control
<1>2. CASE \E h \in Hosts :
             Toggle(h) \/ Move(h) \/ Reset(h) \/ Delete(h) \/ ChangeInbound(h) \/ HostSync(h)
  <2>1. UNCHANGED <<relays, journal, ipMove, pc, cur>>
    BY <1>2 DEF Toggle, Move, Reset, Delete, ChangeInbound, HostSync, Edit, files, control
  <2> QED
    BY <2>1, JournalWritten
<1>3. CASE \E x \in Exits, m \in Modes : SetMode(x, m)
  BY <1>3, JournalWritten DEF SetMode
<1>4. CASE StartCycle \/ LeaveIPs \/ PassFails \/ Recovered \/ EndPass
  BY <1>4, JournalWritten DEF StartCycle, LeaveIPs, PassFails, Recovered, EndPass, Idle, Jump, files
<1>5. CASE Restart
  BY <1>5, JournalWritten DEF Restart, Idle, files
<1>6. CASE ReadHosts \/ VerifyHosts
  BY <1>6, JournalWritten DEF ReadHosts, VerifyHosts, Idle, Goto, files
<1>7. CASE \E p \in patches : PatchHost(p)
  BY <1>7, JournalWritten DEF PatchHost, Idle, files
<1>8. CASE \E e \in Entries : PushForward(e)
  BY <1>8, JournalWritten DEF PushForward, Idle, files
<1>9. CASE \E x \in Exits : Recover(x)
  BY <1>9, JournalWritten DEF Recover, Finish, files
<1>10. CASE Commit
  <2>1. ret \in {"none", "recover", "decide", "extend", "next"}
    BY DEF TypeOK, ControlOK
  <2>2. pc' \notin {"ipsSave", "ipsDone"}
    BY <1>10, <2>1 DEF Commit, AfterCommit, Jump
  <2> QED
    BY <1>10, <2>2, JournalWritten DEF Commit
<1>11. CASE Extend \/ \E x \in Exits : Decide(x)
  <2>1. UNCHANGED <<relays, journal>> \/ journal' = relays'
    BY <1>11 DEF Extend, Decide, SetRelay, Begin
  <2>2. pc' \notin {"ipsSave", "ipsDone"} /\ UNCHANGED ipMove
    BY <1>11 DEF Extend, Decide, SetRelay, AfterSetRelay, Begin, Finish, Jump, Idle
  <2> QED
    BY <2>1, <2>2, JournalWritten
<1>12. CASE \E x \in Exits : JournalIP(x)
  BY <1>12 DEF JournalIP, JournalInv, TypeOK, HostsOK, control
<1>13. CASE \E x \in Exits : MoveIP(x)
  BY <1>13 DEF MoveIP, JournalInv, Jump, files
<1>14. CASE MovePlans
  <2>1. /\ cur \in Exits /\ ipMove[cur] = "journaled" /\ UNCHANGED ipMove
        /\ \A x \in Exits : x # cur => relays'[x] = relays[x]
    BY <1>14 DEF MovePlans, JournalInv, TypeOK, ControlOK, RelaysOK
  <2>2. CASE journal' = relays' /\ Goto("ipsDone")
    BY <2>1, <2>2 DEF JournalInv, Goto
  <2>3. CASE Jump("recover", None, {}) /\ UNCHANGED journal
    BY <2>1, <2>3 DEF JournalInv, Jump
  <2> QED
    BY <1>14, <2>2, <2>3 DEF MovePlans
<1>15. CASE ForgetIP
  BY <1>15 DEF ForgetIP, JournalInv, Jump, TypeOK, HostsOK, ControlOK
<1> QED
  BY <1>1, <1>2, <1>3, <1>4, <1>5, <1>6, <1>7, <1>8, <1>9, <1>10, <1>11, <1>12, <1>13, <1>14,
     <1>15 DEF Next, Controller, Operator

\* A restart between two passes loses nothing: what the controller remembers of
\* every exit (save writes first, then adopts) is what relays.json says, up to
\* a change of IP that its own journal will repeat.
THEOREM JournalIsKept == Spec => []JournalKept
<1> USE ConstAssumption, RecordAssumption DEF Constants
<1>1. Init => TypeOK /\ JournalInv
  BY InitTyped DEF Init, JournalInv
<1>2. TypeOK /\ JournalInv /\ [Next]_vars => TypeOK' /\ JournalInv'
  BY TypeStep, JournalStep
<1>3. JournalInv => JournalKept
  BY DEF JournalInv, JournalKept
<1> QED
  BY <1>1, <1>2, <1>3, PTL DEF Spec

-----------------------------------------------------------------------------
(* Steps that leave parts of the invariant alone *)

LEMMA OutsideFinishing ==
  ASSUME pc' \notin Finishing
  PROVE  PushInv'
BY DEF PushInv, Finishing

LEMMA IdleIsOutside ==
  ASSUME Idle PROVE PushInv'
BY OutsideFinishing DEF Idle, Finishing

LEMMA JumpIsOutside ==
  ASSUME NEW l, NEW x, NEW t, Jump(l, x, t), l \notin Finishing
  PROVE  PushInv'
BY OutsideFinishing DEF Jump

LEMMA RecordsUnchanged ==
  ASSUME RecordsInv, UNCHANGED <<inb, relays, journal>>
  PROVE  RecordsInv'
BY DEF RecordsInv, GoodRecord, Alike, Planned

LEMMA RelayedUnchanged ==
  ASSUME RelayedInv, UNCHANGED <<host, relays>>
  PROVE  RelayedInv'
BY DEF RelayedInv, OnRelay, Exists, Carried, Planned

LEMMA BackedUnchanged ==
  ASSUME RelayBacked, UNCHANGED <<host, inb, fwd>>
  PROVE  RelayBacked'
BY DEF RelayBacked, OnRelay, Exists

\* The rules computed with x counted as `on` cover every host on the relay
\* and, when x counts, every plan of x.
LEMMA RulesCover ==
  ASSUME Constants, TypeOK, RecordsInv, RelayedInv, NEW x \in Exits, NEW on \in BOOLEAN
  PROVE  /\ \A h \in Hosts : OnRelay(h) /\ (ExitOf[h] = x => on)
                              => <<ExitOf[h], inb[h]>> \in Forwarding(x, on)
         /\ on => \A h \in HostsOf(x) : <<x, inb[h]>> \in Forwarding(x, on)
<1>1. \A h \in Hosts : OnRelay(h) /\ (ExitOf[h] = x => on) => Active(x, ExitOf[h], on)
  BY DEF Active, RelayedInv, Carried
<1>2. on => \A h \in HostsOf(x) : h \in Hosts /\ Active(x, ExitOf[h], on) /\ ExitOf[h] = x
  BY DEF Active, HostsOf
<1> QED
  BY <1>1, <1>2 DEF Forwarding

\* finishRelay begins with rules that cover what they must.
LEMMA FinishCovers ==
  ASSUME Constants, BackedInv, NEW x \in Exits, NEW op, NEW to, Finish(x, op, to),
         relays'[x].op = op, op.target \in BOOLEAN,
         \A p \in op.plans : p.h \in HostsOf(x) /\ p.port = inb[p.h],
         UNCHANGED <<db, fwd>>
  PROVE  PushInv'
<1>1. CASE op.target
  <2>1. pc' = "push" /\ rules' = Forwarding(x, TRUE) /\ left' = Entries /\ cur' = x
    BY <1>1 DEF Finish
  <2>2. \A h \in Hosts : OnRelay(h)' => <<ExitOf[h], inb'[h]>> \in rules'
    BY <2>1, RulesCover DEF BackedInv, OnRelay, Exists, db
  <2>3. \A p \in relays'[cur'].op.plans : <<cur', p.port>> \in rules'
    BY <2>1, RulesCover DEF BackedInv
  <2> QED
    BY <2>1, <2>2, <2>3 DEF PushInv
<1>2. CASE ~op.target
  <2>1. pc' = "read" /\ cur' = x /\ ~relays'[cur'].op.target
    BY <1>2 DEF Finish
  <2> QED
    BY <2>1 DEF PushInv
<1> QED
  BY <1>1, <1>2

-----------------------------------------------------------------------------
(* The controller's steps *)

LEMMA InitBacked == ASSUME Constants, Init PROVE BackedInv
<1>1. \A h \in Hosts : ~OnRelay(h)
  BY DEF Init, OnRelay, Exists
<1>2. RecordsInv
  BY DEF Init, RecordsInv, GoodRecord, Alike, Direct
<1>3. PushInv
  BY DEF Init, PushInv
<1> QED
  BY <1>1, <1>2, <1>3, InitTyped DEF BackedInv, RelayedInv, RelayBacked

LEMMA ControlStepsBacked ==
  ASSUME Constants, BackedInv, TypeOK',
         \/ StartCycle \/ PassFails \/ ForgetIP \/ LeaveIPs \/ Recovered \/ EndPass
         \/ ReadHosts \/ VerifyHosts \/ \E x \in Exits : JournalIP(x) \/ Recover(x)
  PROVE  BackedInv'
<1> USE DEF BackedInv
<1>1. UNCHANGED <<host, inb, fwd, relays, journal>>
  BY DEF StartCycle, PassFails, ForgetIP, LeaveIPs, Recovered, EndPass, ReadHosts, VerifyHosts,
         JournalIP, Recover, db, files
<1>2. RecordsInv' /\ RelayedInv' /\ RelayBacked'
  BY <1>1, RecordsUnchanged, RelayedUnchanged, BackedUnchanged
<1>3. CASE StartCycle \/ ForgetIP \/ LeaveIPs \/ Recovered
  BY <1>2, <1>3, JumpIsOutside DEF StartCycle, ForgetIP, LeaveIPs, Recovered, Finishing
<1>4. CASE PassFails \/ EndPass
  BY <1>2, <1>4, IdleIsOutside DEF PassFails, EndPass
<1>5. CASE ReadHosts
  <2>1. CASE Conflict(Op)
    BY <1>2, <1>5, <2>1, IdleIsOutside DEF ReadHosts
  <2>2. CASE ~Conflict(Op)
    <3>1. pc = "read" /\ pc' = "patch" /\ cur' = cur
      BY <1>5, <2>2 DEF ReadHosts
    <3>2. PushInv'
      BY <1>1, <3>1 DEF PushInv
    <3> QED
      BY <1>2, <3>2
  <2> QED
    BY <2>1, <2>2
<1>6. CASE VerifyHosts
  <2>1. CASE ~Settled
    BY <1>2, <1>6, <2>1, IdleIsOutside DEF VerifyHosts
  <2>2. CASE Settled /\ Op.target
    <3>1. pc' = "commit" /\ cur' = cur
      BY <1>6, <2>2 DEF VerifyHosts, Goto
    <3>2. PushInv'
      BY <1>1, <2>2, <3>1 DEF PushInv, Op
    <3> QED
      BY <1>2, <3>2
  <2>3. CASE Settled /\ ~Op.target
    <3>1. /\ pc = "patch" /\ pc' = "unpush" /\ cur' = cur /\ rules' = Forwarding(cur, FALSE)
          /\ left' = Entries
      BY <1>6, <2>3 DEF VerifyHosts
    <3>2. cur \in Exits /\ Op # None
      BY <3>1 DEF TypeOK, ControlOK, Finishing, Op
    <3>3. Op.plans = relays[cur].saved
      BY <2>3, <3>2 DEF RecordsInv, GoodRecord, Op
    <3>4. ASSUME NEW h \in HostsOf(cur), OnRelay(h)
          PROVE  FALSE
      <4>1. PICK p \in relays[cur].saved : p.h = h
        BY <3>4 DEF RelayedInv, HostsOf, Planned
      <4>2. p.addr # "relay"
        BY <3>2, <4>1 DEF RecordsInv, GoodRecord
      <4>3. IsOriginal(p)
        BY <2>3, <3>3, <3>4, <4>1 DEF Settled, Patches, OnRelay
      <4> QED
        BY <3>4, <4>1, <4>2, <4>3 DEF IsOriginal, OnRelay
    <3>5. \A h \in Hosts : OnRelay(h) => <<ExitOf[h], inb[h]>> \in Forwarding(cur, FALSE)
      BY <3>2, <3>4, RulesCover DEF HostsOf
    <3>6. PushInv'
      BY <1>1, <3>1, <3>4, <3>5 DEF PushInv, OnRelay, Exists
    <3> QED
      BY <1>2, <3>6
  <2> QED
    BY <2>1, <2>2, <2>3
<1>7. ASSUME NEW x \in Exits, JournalIP(x)
      PROVE  BackedInv'
  BY <1>1, <1>2, <1>7 DEF JournalIP, control, PushInv, OnRelay, Exists
<1>8. ASSUME NEW x \in Exits, Recover(x)
      PROVE  BackedInv'
  <2>1. relays[x].op # None /\ Finish(x, relays[x].op, "recover") /\ UNCHANGED <<db, fwd, relays>>
    BY <1>8 DEF Recover
  <2>2. relays[x].op \in Operation /\ relays[x].op.plans \subseteq relays[x].saved
    BY <2>1 DEF TypeOK, RelaysOK, Sound, RelayState
  <2>3. \A p \in relays[x].op.plans : p.h \in HostsOf(x) /\ p.port = inb[p.h]
    BY <2>2 DEF RecordsInv, GoodRecord, HostsOf, Operation, HostPlan
  <2>4. PushInv'
    BY <2>1, <2>2, <2>3, FinishCovers DEF Operation
  <2> QED
    BY <1>2, <2>4
<1> QED
  BY <1>3, <1>4, <1>5, <1>6, <1>7, <1>8

\* A new operation: the journal has it, the exit counts from now on, or still.
LEMMA BeginBacked ==
  ASSUME Constants, BackedInv, TypeOK', NEW x \in Exits, NEW on \in BOOLEAN,
         NEW plans \in SUBSET HostPlan, NEW saved \in SUBSET HostPlan, NEW to,
         Begin(x, Target(on, plans), saved, to), UNCHANGED <<db, fwd>>,
         plans \subseteq saved, relays[x].saved \subseteq saved,
         on \/ (relays[x].on /\ plans = saved),
         \A p \in saved : ExitOf[p.h] = x /\ p.port = inb[p.h] /\ p.addr # "relay"
  PROVE  BackedInv'
<1> USE DEF BackedInv
<1> DEFINE op == Target(on, plans)
           new == [relays[x] EXCEPT !.saved = saved, !.op = op]
<1>1. /\ relays \in [Exits -> RelayState] /\ relays[x] \in RelayState
  BY DEF TypeOK, RelaysOK
<1>2. op # None /\ op.target = on /\ op.plans = plans
  BY <1>1, OperationIsSound DEF Target
<1>3. new.on = relays[x].on /\ new.saved = saved /\ new.op = op
  BY <1>1 DEF RelayState
<1>4. relays' = [relays EXCEPT ![x] = new] /\ journal' = relays' /\ Finish(x, op, to)
  BY DEF Begin
<1>5. relays'[x] = new /\ \A y \in Exits : y # x => relays'[y] = relays[y]
  BY <1>1, <1>4
<1>6. RecordsInv'
  <2>1. ASSUME NEW y \in Exits, NEW s, s = relays'[y]
        PROVE  GoodRecord(y, s)' /\ Alike(s, s)'
    <3>1. CASE y = x
      BY <1>2, <1>3, <1>5, <2>1, <3>1 DEF GoodRecord, Alike, db
    <3>2. CASE y # x
      BY <1>5, <2>1, <3>2 DEF RecordsInv, GoodRecord, Alike, db
    <3> QED
      BY <3>1, <3>2
  <2> QED
    BY <1>4, <2>1 DEF RecordsInv
<1>7. RelayedInv'
  <2> SUFFICES ASSUME NEW h \in Hosts, OnRelay(h)'
               PROVE  Carried(relays[ExitOf[h]])' /\ Planned(relays[ExitOf[h]], h)'
    BY DEF RelayedInv
  <2>1. OnRelay(h) /\ ExitOf[h] \in Exits
    BY DEF OnRelay, Exists, db, Constants, ConstAssumption
  <2>2. Carried(relays[ExitOf[h]]) /\ Planned(relays[ExitOf[h]], h)
    BY <2>1 DEF RelayedInv
  <2>3. CASE ExitOf[h] = x
    <3>1. /\ relays'[x].on = relays[x].on /\ relays'[x].saved = saved
          /\ relays'[x].op # None /\ relays'[x].op.target = on
      BY <1>2, <1>3, <1>5
    <3>2. Carried(relays[x])'
      BY <3>1 DEF Carried
    <3>3. Planned(relays[x], h)'
      BY <2>2, <2>3, <3>1 DEF Planned
    <3> QED
      BY <2>3, <3>2, <3>3
  <2>4. CASE ExitOf[h] # x
    BY <1>5, <2>1, <2>2, <2>4 DEF Carried, Planned
  <2> QED
    BY <2>3, <2>4
<1>8. PushInv'
  <2>1. \A p \in plans : p.h \in HostsOf(x) /\ p.port = inb[p.h]
    BY DEF HostsOf, HostPlan
  <2> QED
    BY <1>2, <1>3, <1>4, <1>5, <2>1, FinishCovers
<1>9. RelayBacked'
  BY BackedUnchanged DEF db
<1> QED
  BY <1>6, <1>7, <1>8, <1>9

\* New plans are of direct hosts of the exit, at their inbound's port.
LEMMA NewPlansAreGood ==
  ASSUME Constants, TypeOK, NEW x \in Exits, NEW p \in NewPlans(x)
  PROVE  p \in HostPlan /\ ExitOf[p.h] = x /\ p.port = inb[p.h] /\ p.addr # "relay"
<1>1. p \in HostPlan
  BY PlansAreTyped DEF TypeOK
<1>2. PICK h \in HostsOf(x) : Relayable(x, h) /\ p = PlanOf(h)
  BY DEF NewPlans
<1>3. p.h = h /\ p.port = PortOf(h) /\ p.addr = host[h].addr
  BY <1>2 DEF PlanOf
<1>4. PortOf(h) = inb[h]
  BY <1>2 DEF PortOf, Effective, Relayable
<1> QED
  BY <1>1, <1>2, <1>3, <1>4 DEF Relayable, HostsOf

LEMMA DecideBacked ==
  ASSUME Constants, BackedInv, TypeOK', Extend \/ \E x \in Exits : Decide(x)
  PROVE  BackedInv'
<1> USE DEF BackedInv
<1>1. UNCHANGED <<db, fwd>>
  BY DEF Extend, Decide
<1>2. ASSUME UNCHANGED <<relays, journal>>, PushInv'
      PROVE  BackedInv'
  BY <1>1, <1>2, RecordsUnchanged, RelayedUnchanged, BackedUnchanged DEF db, RecordsInv
<1>3. \A x \in Exits : /\ relays[x].saved \in SUBSET HostPlan /\ relays[x] \in RelayState
                       /\ NewPlans(x) \in SUBSET HostPlan
  BY PlansAreTyped DEF TypeOK, RelaysOK, RelayState
<1>4. \A x \in Exits : \A p \in relays[x].saved \cup NewPlans(x) :
        ExitOf[p.h] = x /\ p.port = inb[p.h] /\ p.addr # "relay"
  BY NewPlansAreGood DEF RecordsInv, GoodRecord
<1>5. ASSUME NEW x \in Exits, NEW to,
             Begin(x, Target(TRUE, NewPlans(x)), relays[x].saved \cup NewPlans(x), to)
      PROVE  BackedInv'
  <2>1. /\ NewPlans(x) \in SUBSET HostPlan /\ relays[x].saved \cup NewPlans(x) \in SUBSET HostPlan
        /\ TRUE \in BOOLEAN
    BY <1>3
  <2>2. \A p \in relays[x].saved \cup NewPlans(x) :
          ExitOf[p.h] = x /\ p.port = inb[p.h] /\ p.addr # "relay"
    BY <1>4
  <2> QED
    BY <1>1, <1>5, <2>1, <2>2, BeginBacked
<1>6. CASE Extend
  <2>1. cur \in Exits
    BY <1>6 DEF Extend, TypeOK, ControlOK
  <2>2. CASE UNCHANGED <<relays, journal>> /\ (Jump("decide", None, todo \ {cur}) \/ Idle)
    BY <1>2, <2>2, JumpIsOutside, IdleIsOutside DEF Finishing
  <2> QED
    BY <1>5, <1>6, <2>1, <2>2 DEF Extend
<1>7. ASSUME NEW x \in Exits, Decide(x)
      PROVE  BackedInv'
  <2> DEFINE s == relays[x]
             to == IF pass = "cycle" THEN "extend" ELSE "next"
  <2>1. ASSUME NEW on \in Wanted(x), SetRelay(x, on)
        PROVE  BackedInv'
    <3>1. CASE UNCHANGED <<relays, journal>> /\ (AfterSetRelay(x) \/ Idle)
      BY <1>2, <3>1, JumpIsOutside, IdleIsOutside DEF Finishing, AfterSetRelay
    <3>2. CASE s.op # None /\ Finish(x, s.op, "decide") /\ UNCHANGED <<relays, journal>>
      <4>1. s.op \in Operation /\ s.op.plans \subseteq s.saved
        BY <3>2 DEF TypeOK, RelaysOK, Sound, RelayState
      <4>2. \A p \in s.op.plans : p.h \in HostsOf(x) /\ p.port = inb[p.h]
        BY <4>1 DEF RecordsInv, GoodRecord, HostsOf, Operation, HostPlan
      <4>3. relays'[x].op = s.op /\ s.op.target \in BOOLEAN
        BY <3>2, <4>1 DEF Operation
      <4>4. PushInv'
        BY <1>1, <3>2, <4>2, <4>3, FinishCovers
      <4> QED
        BY <1>2, <3>2, <4>4
    <3>3. CASE Begin(x, Target(TRUE, NewPlans(x)), s.saved \cup NewPlans(x), to)
      BY <1>5, <3>3
    <3>4. CASE s.on /\ Begin(x, Target(FALSE, s.saved), s.saved, to)
      <4>1. s.saved \in SUBSET HostPlan /\ FALSE \in BOOLEAN
        BY <1>3
      <4>2. \A p \in s.saved : ExitOf[p.h] = x /\ p.port = inb[p.h] /\ p.addr # "relay"
        BY <1>4
      <4> QED
        BY <1>1, <3>4, <4>1, <4>2, BeginBacked
    <3> QED
      BY <2>1, <3>1, <3>2, <3>3, <3>4 DEF SetRelay
  <2>2. CASE /\ UNCHANGED <<relays, journal>>
             /\ Jump("extend", x, todo) \/ Jump("decide", None, todo \ {x})
    BY <1>2, <2>2, JumpIsOutside DEF Finishing
  <2> QED
    BY <1>7, <2>1, <2>2 DEF Decide
<1> QED
  BY <1>6, <1>7

\* The plans of a moved exit keep their hosts and their ports.
LEMMA MovedIsGood ==
  ASSUME Constants, NEW x \in Exits, NEW s, Sound(s), GoodRecord(x, s)
  PROVE  /\ GoodRecord(x, Moved(s))
         /\ \A h \in Hosts : Planned(s, h) <=> Planned(Moved(s), h)
<1>1. \A p \in HostPlan : /\ [p EXCEPT !.addr = NewAddress(@)].h = p.h
                          /\ [p EXCEPT !.addr = NewAddress(@)].port = p.port
                          /\ [p EXCEPT !.addr = NewAddress(@)].addr = NewAddress(p.addr)
  BY DEF HostPlan
<1>2. \A a : a # "relay" => NewAddress(a) # "relay"
  BY DEF NewAddress
<1>3. s.saved \subseteq HostPlan
  BY DEF Sound, RelayState
<1>4. Moved(s).saved = MovedPlans(s.saved)
  BY DEF Moved
<1>5. \A p \in Moved(s).saved : \E q \in s.saved :
        p.h = q.h /\ p.port = q.port /\ p.addr = NewAddress(q.addr)
  BY <1>1, <1>3, <1>4 DEF MovedPlans
<1>6. \A q \in s.saved : \E p \in Moved(s).saved : p.h = q.h
  BY <1>1, <1>3, <1>4 DEF MovedPlans
<1>7. Moved(s).op # None /\ ~Moved(s).op.target => Moved(s).on /\ Moved(s).op.plans = Moved(s).saved
  BY DEF GoodRecord, Moved, MovedOperation
<1> QED
  BY <1>2, <1>5, <1>6, <1>7 DEF GoodRecord, Planned

LEMMA MovePlansBacked ==
  ASSUME Constants, BackedInv, TypeOK', MovePlans
  PROVE  BackedInv'
<1> USE DEF BackedInv
<1> DEFINE new == Moved(relays[cur])
<1>1. /\ cur \in Exits /\ relays \in [Exits -> RelayState] /\ journal \in [Exits -> RelayState]
      /\ Sound(relays[cur]) /\ GoodRecord(cur, relays[cur])
  BY DEF MovePlans, TypeOK, ControlOK, RelaysOK, RecordsInv
<1>2. /\ GoodRecord(cur, new) /\ \A h \in Hosts : Planned(relays[cur], h) <=> Planned(new, h)
      /\ new.on = relays[cur].on /\ (new.op = None <=> relays[cur].op = None)
      /\ relays[cur].op # None => new.op.target = relays[cur].op.target
  BY <1>1, MovedIsSound, MovedIsGood
<1>3. /\ relays' = [relays EXCEPT ![cur] = new] /\ UNCHANGED <<host, inb, fwd>>
      /\ journal' = relays' \/ journal' = journal
  BY DEF MovePlans, db
<1> HIDE DEF new
<1>4. \A x \in Exits : relays'[x] = IF x = cur THEN new ELSE relays[x]
  BY <1>1, <1>3
<1>5. \A x \in Exits :
        /\ GoodRecord(x, relays'[x])
        /\ Carried(relays[x]) => Carried(relays'[x])
        /\ Alike(relays'[x], relays'[x]) /\ Alike(relays'[x], journal[x])
        /\ \A h \in Hosts : Planned(relays[x], h) => Planned(relays'[x], h)
  BY <1>2, <1>4 DEF RecordsInv, Alike, Carried
<1>6. RecordsInv'
  <2>1. \A x \in Exits : GoodRecord(x, relays'[x]) /\ GoodRecord(x, journal'[x])
    BY <1>3, <1>5 DEF RecordsInv
  <2>2. \A x \in Exits : Alike(relays'[x], journal'[x])
    BY <1>3, <1>5
  <2>3. ASSUME NEW x \in Exits, NEW s, GoodRecord(x, s)
        PROVE  GoodRecord(x, s)'
    BY <1>3, <2>3 DEF GoodRecord
  <2> QED
    BY <2>1, <2>2, <2>3 DEF RecordsInv, Alike, Planned
<1>7. RelayedInv'
  <2> SUFFICES ASSUME NEW h \in Hosts, OnRelay(h)'
               PROVE  Carried(relays'[ExitOf[h]]) /\ Planned(relays'[ExitOf[h]], h)
    BY DEF RelayedInv, Carried, Planned
  <2>1. OnRelay(h) /\ ExitOf[h] \in Exits
    BY <1>3 DEF OnRelay, Exists, Constants, ConstAssumption
  <2> QED
    BY <1>5, <2>1 DEF RelayedInv
<1>8. pc' \notin Finishing
  BY DEF MovePlans, Goto, Jump, Finishing
<1> QED
  BY <1>3, <1>6, <1>7, <1>8, OutsideFinishing, BackedUnchanged

\* A finished operation: the relay is on, or nothing of the exit is on it.
LEMMA CommitBacked ==
  ASSUME Constants, BackedInv, TypeOK', Commit
  PROVE  BackedInv'
<1> USE DEF BackedInv
<1> DEFINE s == relays[cur]  new == Finished(s)
<1>1. /\ cur \in Exits /\ relays \in [Exits -> RelayState] /\ s.op # None /\ pc = "commit"
      /\ s.op.target \in BOOLEAN /\ ret # "none" /\ ret \in {"none", "recover", "decide", "extend", "next"}
  BY DEF Commit, TypeOK, ControlOK, RelaysOK, Finishing, RelayState, Operation
<1>2. /\ relays' = [relays EXCEPT ![cur] = new] /\ journal' = relays'
      /\ UNCHANGED <<host, inb, fwd>>
  BY DEF Commit, db
<1>3. new.op = None /\ new.on = s.op.target /\ new.saved = IF s.op.target THEN s.saved ELSE {}
  BY DEF Finished
<1> HIDE DEF new
<1>4. \A x \in Exits : relays'[x] = IF x = cur THEN new ELSE relays[x]
  BY <1>1, <1>2
<1>5. RecordsInv'
  <2>1. \A x \in Exits : GoodRecord(x, relays'[x])
    BY <1>1, <1>3, <1>4 DEF RecordsInv, GoodRecord
  <2>2. ASSUME NEW x \in Exits, NEW r, GoodRecord(x, r)
        PROVE  GoodRecord(x, r)'
    BY <1>2, <2>2 DEF GoodRecord
  <2> QED
    BY <1>2, <2>1, <2>2 DEF RecordsInv, Alike
<1>6. RelayedInv'
  <2> SUFFICES ASSUME NEW h \in Hosts, OnRelay(h)'
               PROVE  Carried(relays'[ExitOf[h]]) /\ Planned(relays'[ExitOf[h]], h)
    BY DEF RelayedInv, Carried, Planned
  <2>1. OnRelay(h) /\ ExitOf[h] \in Exits
    BY <1>2 DEF OnRelay, Exists, Constants, ConstAssumption
  <2>2. Carried(relays[ExitOf[h]]) /\ Planned(relays[ExitOf[h]], h)
    BY <2>1 DEF RelayedInv
  <2>3. CASE ExitOf[h] # cur
    BY <1>4, <2>1, <2>2, <2>3
  <2>4. CASE ExitOf[h] = cur
    <3>1. s.op.target
      BY <1>1, <2>1, <2>4 DEF PushInv, HostsOf
    <3> QED
      BY <1>3, <1>4, <2>1, <2>2, <2>4, <3>1 DEF Carried, Planned
  <2> QED
    BY <2>3, <2>4
<1>7. pc' \notin Finishing
  BY <1>1 DEF Commit, AfterCommit, Jump, Finishing
<1> QED
  BY <1>2, <1>5, <1>6, <1>7, OutsideFinishing, BackedUnchanged

\* A restart: the journal says of every exit what the memory said.
LEMMA RestartBacked ==
  ASSUME Constants, BackedInv, TypeOK', Restart
  PROVE  BackedInv'
<1> USE DEF BackedInv
<1>1. relays' = journal /\ journal' = journal /\ UNCHANGED <<host, inb, fwd>>
  BY DEF Restart, db, files
<1>2. RecordsInv'
  BY <1>1 DEF RecordsInv, GoodRecord, Alike, Planned
<1>3. \A x \in Exits : Carried(relays[x]) => Carried(journal[x])
  BY DEF RecordsInv, Alike, Carried
<1>4. \A x \in Exits, h \in Hosts : Planned(relays[x], h) => Planned(journal[x], h)
  BY DEF RecordsInv, Alike
<1>5. RelayedInv'
  <2> SUFFICES ASSUME NEW h \in Hosts, OnRelay(h)'
               PROVE  Carried(journal[ExitOf[h]]) /\ Planned(journal[ExitOf[h]], h)
    BY <1>1 DEF RelayedInv, Carried, Planned
  <2>1. ExitOf[h] \in Exits
    BY DEF Constants, ConstAssumption
  <2>2. OnRelay(h)
    BY <1>1 DEF OnRelay, Exists
  <2>3. Carried(relays[ExitOf[h]]) /\ Planned(relays[ExitOf[h]], h)
    BY <2>2 DEF RelayedInv
  <2> QED
    BY <1>3, <1>4, <2>1, <2>3
<1> QED
  BY <1>1, <1>2, <1>5, IdleIsOutside, BackedUnchanged DEF Restart

-----------------------------------------------------------------------------
(* Pushes, and steps that change the hosts *)

LEMMA PushForwardBacked ==
  ASSUME Constants, BackedInv, TypeOK', NEW e \in Entries, PushForward(e)
  PROVE  BackedInv'
<1> USE DEF BackedInv
<1>1. /\ pc \in {"push", "unpush"} /\ fwd' = [fwd EXCEPT ![e] = rules]
      /\ UNCHANGED <<host, inb, relays, journal>>
  BY DEF PushForward, db, files
<1>2. fwd \in [Entries -> SUBSET (Exits \X Ports)]
  BY DEF TypeOK, HostsOK
<1>3. fwd'[e] = rules /\ \A f \in Entries : f # e => fwd'[f] = fwd[f]
  BY <1>1, <1>2
<1>4. RecordsInv' /\ RelayedInv'
  BY <1>1, RecordsUnchanged, RelayedUnchanged
<1>5. \A h \in Hosts : OnRelay(h) => <<ExitOf[h], inb[h]>> \in rules
  BY <1>1 DEF PushInv
<1>6. RelayBacked'
  BY <1>1, <1>3, <1>5 DEF RelayBacked, OnRelay, Exists
<1>7. CASE Idle
  BY <1>4, <1>6, <1>7, IdleIsOutside
<1>8. CASE /\ left' = left \ {e} /\ UNCHANGED <<cur, rules>>
           /\ pc' = IF left' # {} THEN pc ELSE IF pc = "push" THEN "read" ELSE "commit"
  <2>1. \A f \in Entries \ left' : fwd'[f] = rules
    BY <1>1, <1>3, <1>8 DEF PushInv
  <2>2. \A h \in Hosts : OnRelay(h)' => <<ExitOf[h], inb'[h]>> \in rules'
    BY <1>1, <1>5, <1>8 DEF OnRelay, Exists
  <2>3. pc = "push" => \A p \in relays[cur].op.plans : <<cur, p.port>> \in rules
    BY DEF PushInv
  <2>4. pc = "unpush" => ~relays[cur].op.target /\ \A h \in HostsOf(cur) : ~OnRelay(h)'
    BY <1>1 DEF PushInv, TypeOK, ControlOK, OnRelay, Exists
  <2>5. pc = "push" => relays[cur].op.target
    BY DEF TypeOK, ControlOK
  <2>6. CASE left' # {}
    <3>1. pc' = pc
      BY <1>8, <2>6
    <3> QED
      BY <1>1, <1>4, <1>6, <1>8, <2>1, <2>2, <2>3, <2>4, <3>1 DEF PushInv
  <2>7. CASE left' = {} /\ pc = "push"
    <3>1. pc' = "read"
      BY <1>8, <2>7
    <3>2. \A p \in relays'[cur'].op.plans : \A f \in Entries : <<cur', p.port>> \in fwd'[f]
      BY <1>1, <1>8, <2>1, <2>3, <2>7
    <3> QED
      BY <1>4, <1>6, <3>1, <3>2 DEF PushInv
  <2>8. CASE left' = {} /\ pc = "unpush"
    <3>1. pc' = "commit"
      BY <1>8, <2>8
    <3>2. ~relays'[cur'].op.target /\ \A h \in HostsOf(cur') : ~OnRelay(h)'
      BY <1>1, <1>8, <2>4, <2>8
    <3> QED
      BY <1>4, <1>6, <3>1, <3>2 DEF PushInv
  <2> QED
    BY <1>1, <2>6, <2>7, <2>8
<1> QED
  BY <1>7, <1>8 DEF PushForward

\* A step that brings no host to the relay and leaves the ports of those there.
LEMMA HostsLeaveOnly ==
  ASSUME Constants, BackedInv, TypeOK', UNCHANGED <<inb, fwd, relays, journal>>,
         \A h \in Hosts : OnRelay(h)' => OnRelay(h) /\ host'[h].raw = host[h].raw,
         pc' \notin Finishing \/ UNCHANGED <<pc, cur, rules, left>>
  PROVE  BackedInv'
<1> USE DEF BackedInv
<1>1. RecordsInv'
  BY RecordsUnchanged
<1>2. RelayedInv'
  BY DEF RelayedInv, Carried, Planned
<1>3. RelayBacked'
  BY DEF RelayBacked
<1>4. CASE pc' \notin Finishing
  BY <1>1, <1>2, <1>3, <1>4, OutsideFinishing
<1>5. CASE UNCHANGED <<pc, cur, rules, left>>
  <2>1. PushInv'
    BY <1>5 DEF PushInv, HostsOf
  <2> QED
    BY <1>1, <1>2, <1>3, <2>1
<1> QED
  BY <1>4, <1>5

\* A host goes to the relay as its operation has planned, after the rules.
LEMMA PatchHostBacked ==
  ASSUME Constants, BackedInv, TypeOK', NEW p \in patches, PatchHost(p)
  PROVE  BackedInv'
<1> USE DEF BackedInv
<1>1. /\ pc = "patch" /\ UNCHANGED <<inb, fwd, relays, journal>>
  BY DEF PatchHost, files
<1>2. /\ cur \in Exits /\ relays[cur].op # None /\ p \in relays[cur].op.plans
      /\ relays[cur].op.plans \subseteq relays[cur].saved /\ p \in HostPlan
  BY <1>1 DEF TypeOK, ControlOK, Finishing, RelaysOK, Sound, RelayState, Operation
<1>3. ExitOf[p.h] = cur /\ p.port = inb[p.h] /\ p.addr # "relay" /\ p.h \in Hosts
  BY <1>2 DEF RecordsInv, GoodRecord, HostPlan
<1>4. CASE ~(Exists(p.h) /\ AsRead(p))
  <2>1. Idle /\ UNCHANGED host
    BY <1>4 DEF PatchHost
  <2> QED
    BY <1>1, <2>1, HostsLeaveOnly DEF Idle, Finishing, OnRelay, Exists
<1>5. CASE Exists(p.h) /\ AsRead(p) /\ ~Op.target
  <2>1. /\ host' = [host EXCEPT ![p.h] =
              [@ EXCEPT !.addr = p.addr, !.raw = p.raw, !.custom = p.custom]]
        /\ UNCHANGED <<pc, cur, rules, left>>
    BY <1>5 DEF PatchHost
  <2>2. host[p.h] \in Host /\ host \in [Hosts -> Host \cup {None, Deleted}]
    BY <1>3, <1>5 DEF TypeOK, HostsOK, Exists
  <2>3. host'[p.h].addr = p.addr /\ \A k \in Hosts : k # p.h => host'[k] = host[k]
    BY <1>3, <2>1, <2>2 DEF Host
  <2>4. \A k \in Hosts : OnRelay(k)' => OnRelay(k) /\ host'[k].raw = host[k].raw
    BY <1>3, <2>3 DEF OnRelay, Exists
  <2> QED
    BY <1>1, <2>1, <2>4, HostsLeaveOnly
<1>6. CASE Exists(p.h) /\ AsRead(p) /\ Op.target
  <2>1. /\ host' = [host EXCEPT ![p.h] =
              [@ EXCEPT !.addr = "relay", !.raw = NewPort(p), !.custom = TRUE]]
        /\ UNCHANGED <<pc, cur, rules, left>>
    BY <1>6 DEF PatchHost
  <2>2. host[p.h] \in Host /\ host \in [Hosts -> Host \cup {None, Deleted}]
    BY <1>3, <1>6 DEF TypeOK, HostsOK, Exists
  <2>3. host'[p.h].raw = NewPort(p) /\ \A k \in Hosts : k # p.h => host'[k] = host[k]
    BY <1>3, <2>1, <2>2 DEF Host
  <2>4. \A k \in Hosts : k # p.h /\ OnRelay(k)' => OnRelay(k)
    BY <2>3 DEF OnRelay, Exists
  <2>5. relays[cur].op.target
    BY <1>6 DEF Op
  <2>6. Carried(relays[cur]) /\ Planned(relays[cur], p.h)
    BY <1>2, <2>5 DEF Carried, Planned
  <2>7. RelayedInv'
    <3> SUFFICES ASSUME NEW k \in Hosts, OnRelay(k)'
                 PROVE  Carried(relays[ExitOf[k]]) /\ Planned(relays[ExitOf[k]], k)
      BY <1>1 DEF RelayedInv, Carried, Planned
    <3> QED
      BY <1>3, <2>4, <2>6 DEF RelayedInv
  <2>8. \A e \in Entries : <<cur, p.port>> \in fwd[e]
    BY <1>1, <1>2, <2>5 DEF PushInv
  <2>9. NewPort(p) = RelayPort(ExitOf[p.h], inb[p.h])
    BY <1>3 DEF NewPort
  <2>10. RelayBacked'
    BY <1>1, <1>3, <2>3, <2>4, <2>8, <2>9 DEF RelayBacked, RelayPort
  <2>11. PushInv'
    BY <1>1, <2>1 DEF PushInv
  <2> QED
    BY <1>1, <2>7, <2>10, <2>11, RecordsUnchanged
<1> QED
  BY <1>4, <1>5, <1>6

\* An inbound changes its port only when no relay knows its host.
LEMMA ChangeInboundBacked ==
  ASSUME Constants, ~InboundsMove, BackedInv, TypeOK', NEW h \in Hosts, ChangeInbound(h)
  PROVE  BackedInv'
<1> USE DEF BackedInv
<1>1. /\ journal[ExitOf[h]] = Direct /\ inb' = [inb EXCEPT ![h] = 2]
      /\ UNCHANGED <<host, fwd, relays, journal, pc, cur, rules, left>>
  BY DEF ChangeInbound, Edit, files, control
<1>2. ExitOf[h] \in Exits /\ inb \in [Hosts -> Ports]
  BY DEF Constants, ConstAssumption, TypeOK, HostsOK
<1>3. ~Planned(journal[ExitOf[h]], h)
  BY <1>1 DEF Direct, Planned
<1>4. ~Planned(relays[ExitOf[h]], h)
  BY <1>2, <1>3 DEF RecordsInv, Alike
<1>5. ~OnRelay(h)
  BY <1>4 DEF RelayedInv
<1>6. \A k \in Hosts : k # h => inb'[k] = inb[k]
  BY <1>1, <1>2
<1>7. \A k \in Hosts : OnRelay(k)' => OnRelay(k) /\ inb'[k] = inb[k]
  BY <1>1, <1>5, <1>6 DEF OnRelay, Exists
<1>8. \A x \in Exits : relays[x].saved \subseteq HostPlan /\ journal[x].saved \subseteq HostPlan
  BY DEF TypeOK, RelaysOK, RelayState
<1>9. ASSUME NEW x \in Exits, NEW s, GoodRecord(x, s), s.saved \subseteq HostPlan,
             x = ExitOf[h] => ~Planned(s, h)
      PROVE  GoodRecord(x, s)'
  <2>1. \A p \in s.saved : p.h \in Hosts /\ p.h # h
    BY <1>9 DEF GoodRecord, Planned, HostPlan
  <2> QED
    BY <1>6, <1>9, <2>1 DEF GoodRecord
<1>10. RecordsInv'
  BY <1>1, <1>3, <1>4, <1>8, <1>9 DEF RecordsInv, Alike, Planned, GoodRecord
<1>11. RelayedInv'
  BY <1>1, RelayedUnchanged
<1>12. RelayBacked'
  BY <1>1, <1>7 DEF RelayBacked
<1>13. PushInv'
  BY <1>1, <1>7 DEF PushInv, HostsOf
<1> QED
  BY <1>10, <1>11, <1>12, <1>13

LEMMA DatabaseStepsBacked ==
  ASSUME Constants, ~InboundsMove, BackedInv, TypeOK',
         \/ \E x \in Exits : MoveIP(x)
         \/ \E h \in Hosts : HostSync(h)
         \/ \E h \in Hosts : Toggle(h) \/ Move(h) \/ Reset(h) \/ Delete(h) \/ ChangeInbound(h)
         \/ \E x \in Exits, m \in Modes : SetMode(x, m)
  PROVE  BackedInv'
<1> USE DEF BackedInv
<1>1. host \in [Hosts -> Host \cup {None, Deleted}] /\ ip \in [Exits -> {"ip1", "ip2"}]
  BY DEF TypeOK, HostsOK
<1>2. ASSUME NEW x \in Exits, MoveIP(x)
      PROVE  BackedInv'
  <2>1. /\ UNCHANGED <<inb, fwd, relays, journal>> /\ pc' = "ipsSave"
    BY <1>2 DEF MoveIP, Jump, files
  <2>2. \A a : NewAddress(a) = "relay" => a = "relay"
    BY DEF NewAddress
  <2>3. \A h \in Hosts : host'[h] = IF h \in HostsOf(x) /\ Exists(h)
                                    THEN [host[h] EXCEPT !.addr = NewAddress(host[h].addr)]
                                    ELSE host[h]
    BY <1>2 DEF MoveIP
  <2>4. ASSUME NEW h \in Hosts, OnRelay(h)'
        PROVE  OnRelay(h) /\ host'[h].raw = host[h].raw
    <3>1. CASE h \in HostsOf(x) /\ Exists(h)
      <4>1. host[h] \in Host
        BY <1>1, <3>1 DEF Exists
      <4>2. host'[h].addr = NewAddress(host[h].addr) /\ host'[h].raw = host[h].raw
        BY <2>3, <3>1, <4>1 DEF Host
      <4> QED
        BY <2>2, <2>4, <3>1, <4>2 DEF OnRelay
    <3>2. CASE ~(h \in HostsOf(x) /\ Exists(h))
      BY <2>3, <2>4, <3>2 DEF OnRelay, Exists
    <3> QED
      BY <3>1, <3>2
  <2> QED
    BY <2>1, <2>4, HostsLeaveOnly DEF Finishing
<1>3. ASSUME NEW h \in Hosts, HostSync(h)
      PROVE  BackedInv'
  <2>1. /\ UNCHANGED <<inb, fwd, relays, journal, pc, cur, rules, left>>
        /\ host' = [host EXCEPT ![h] = NewRow(h)]
    BY <1>3 DEF HostSync, files, control
  <2>2. NewRow(h).addr # "relay"
    BY <1>1 DEF NewRow, Constants, ConstAssumption
  <2>3. \A k \in Hosts : OnRelay(k)' => OnRelay(k) /\ host'[k].raw = host[k].raw
    BY <1>1, <2>1, <2>2 DEF OnRelay, Exists
  <2> QED
    BY <2>1, <2>3, HostsLeaveOnly
<1>4. ASSUME NEW h \in Hosts, Toggle(h) \/ Move(h) \/ Reset(h) \/ Delete(h)
      PROVE  BackedInv'
  <2>1. UNCHANGED <<inb, fwd, relays, journal, pc, cur, rules, left>>
    BY <1>4 DEF Toggle, Move, Reset, Delete, Edit, files, control
  <2>2. \A k \in Hosts : k # h => host'[k] = host[k]
    BY <1>1, <1>4 DEF Toggle, Move, Reset, Delete
  <2>3. OnRelay(h)' => OnRelay(h) /\ host'[h].raw = host[h].raw
    <3>1. CASE Toggle(h)
      BY <1>1, <3>1 DEF Toggle, OnRelay, Exists, Host
    <3>2. CASE Move(h)
      BY <1>1, <3>2 DEF Move, OnRelay, Exists, Host
    <3>3. CASE Reset(h)
      BY <1>1, <3>3 DEF Reset, OnRelay, Exists, Host
    <3>4. CASE Delete(h)
      BY <1>1, <3>4 DEF Delete, OnRelay, Exists
    <3> QED
      BY <1>4, <3>1, <3>2, <3>3, <3>4
  <2>4. \A k \in Hosts : OnRelay(k)' => OnRelay(k) /\ host'[k].raw = host[k].raw
    BY <2>2, <2>3 DEF OnRelay, Exists
  <2> QED
    BY <2>1, <2>4, HostsLeaveOnly
<1>5. ASSUME NEW x \in Exits, NEW m \in Modes, SetMode(x, m)
      PROVE  BackedInv'
  <2>1. UNCHANGED <<host, inb, fwd, relays, journal>> /\ pc' = "decide"
    BY <1>5 DEF SetMode, db
  <2> QED
    BY <2>1, HostsLeaveOnly DEF Finishing, OnRelay, Exists
<1> QED
  BY <1>2, <1>3, <1>4, <1>5, ChangeInboundBacked

-----------------------------------------------------------------------------
LEMMA BackedStep ==
  ASSUME Constants, ~InboundsMove, BackedInv, [Next]_vars
  PROVE  BackedInv'
<1>1. TypeOK'
  BY TypeStep DEF BackedInv
<1>2. CASE Next
  BY <1>1, <1>2, ControlStepsBacked, MovePlansBacked, CommitBacked, RestartBacked, DecideBacked,
     PushForwardBacked, PatchHostBacked, DatabaseStepsBacked DEF Next, Controller, Operator
<1>3. CASE UNCHANGED vars
  <2>1. UNCHANGED <<host, inb, fwd, relays, journal, pc, cur, rules, left>>
    BY <1>3 DEF vars, db, files, control
  <2> QED
    BY <1>1, <2>1, HostsLeaveOnly DEF OnRelay, Exists
<1> QED
  BY <1>2, <1>3

\* A host that subscriptions send to the relay is forwarded by every entry node
\* to its own inbound, through every failure, restart and edit (finishRelay
\* pushes before it patches and takes the rules away after it restores), as
\* long as inbounds keep their ports under a relay.
THEOREM RelayIsBacked ==
  ASSUME ~InboundsMove
  PROVE  Spec => []RelayBacked
<1> USE ConstAssumption, RecordAssumption DEF Constants
<1>1. Init => BackedInv
  BY InitBacked
<1>2. BackedInv /\ [Next]_vars => BackedInv'
  BY BackedStep
<1>3. BackedInv => RelayBacked
  BY DEF BackedInv
<1> QED
  BY <1>1, <1>2, <1>3, PTL DEF Spec

\* Memory and journal never disagree on anything a restart could lose: which
\* relays are on, which operation is pending and whose original settings are
\* saved (they may differ in the addresses of an exit whose IP has just moved).
THEOREM RecordsStayAlike ==
  ASSUME ~InboundsMove
  PROVE  Spec => []RecordsInv
<1> USE ConstAssumption, RecordAssumption DEF Constants
<1>1. Init => BackedInv
  BY InitBacked
<1>2. BackedInv /\ [Next]_vars => BackedInv'
  BY BackedStep
<1>3. BackedInv => RecordsInv
  BY DEF BackedInv
<1> QED
  BY <1>1, <1>2, <1>3, PTL DEF Spec

-----------------------------------------------------------------------------
(* What the operator set: the memory never runs ahead of the journal *)

LEMMA LagWritten ==
  ASSUME LagInv,
         \/ UNCHANGED <<relays, journal, ipMove>>
         \/ journal' = relays' /\ \A x \in Exits : \A p \in relays'[x].saved : ExitOf[p.h] = x
  PROVE  LagInv'
BY DEF LagInv, SameAddress

\* The steps that write a record, or what a change of IP is at.
LEMMA LagStep == ASSUME Constants, TypeOK, JournalInv, LagInv, [Next]_vars PROVE LagInv'
<1>1. CASE UNCHANGED vars
  BY <1>1, LagWritten DEF vars, files
<1>2. CASE \E h \in Hosts :
             Toggle(h) \/ Move(h) \/ Reset(h) \/ Delete(h) \/ ChangeInbound(h) \/ HostSync(h)
  <2>1. UNCHANGED <<relays, journal, ipMove>>
    BY <1>2 DEF Toggle, Move, Reset, Delete, ChangeInbound, HostSync, Edit, files
  <2> QED
    BY <2>1, LagWritten
<1>3. CASE \/ StartCycle \/ LeaveIPs \/ PassFails \/ Recovered \/ EndPass \/ ReadHosts \/ VerifyHosts
           \/ (\E e \in Entries : PushForward(e)) \/ (\E p \in patches : PatchHost(p))
           \/ (\E x \in Exits : Recover(x) \/ MoveIP(x)) \/ \E x \in Exits, m \in Modes : SetMode(x, m)
  <2>1. UNCHANGED <<relays, journal, ipMove>>
    BY <1>3 DEF StartCycle, LeaveIPs, PassFails, Recovered, EndPass, ReadHosts, VerifyHosts,
                PushForward, PatchHost, Recover, MoveIP, SetMode, files
  <2> QED
    BY <2>1, LagWritten
<1>4. CASE Restart \/ Commit \/ Extend \/ \E x \in Exits : Decide(x)
  <2>1. UNCHANGED <<relays, journal, ipMove>> \/ journal' = relays'
    BY <1>4 DEF Restart, Commit, Extend, Decide, SetRelay, Begin, files
  <2>2. /\ relays \in [Exits -> RelayState] /\ cur \in Exits \cup {None}
        /\ \A x \in Exits : \A p \in relays[x].saved \cup NewPlans(x) : ExitOf[p.h] = x
    BY DEF TypeOK, RelaysOK, ControlOK, LagInv, NewPlans, PlanOf, HostsOf
  <2>3. \A x \in Exits : \A p \in relays'[x].saved : ExitOf[p.h] = x
    <3>1. CASE Restart
      BY <3>1 DEF Restart, LagInv
    <3>2. CASE Commit
      <4>1. cur \in Exits /\ relays' = [relays EXCEPT ![cur] = Finished(@)]
        BY <3>2 DEF Commit, TypeOK, ControlOK, Finishing
      <4> QED
        BY <2>2, <4>1 DEF Finished
    <3>3. ASSUME NEW y \in Exits, NEW op, NEW saved, NEW to, Begin(y, op, saved, to),
                 saved \subseteq relays[y].saved \cup NewPlans(y)
          PROVE  \A x \in Exits : \A p \in relays'[x].saved : ExitOf[p.h] = x
      <4>1. relays' = [relays EXCEPT ![y] = [@ EXCEPT !.saved = saved, !.op = op]]
        BY <3>3 DEF Begin
      <4>2. relays'[y].saved = saved /\ \A x \in Exits : x # y => relays'[x] = relays[x]
        BY <2>2, <4>1 DEF RelayState
      <4> QED
        BY <2>2, <3>3, <4>2
    <3>4. CASE Extend
      BY <2>2, <3>3, <3>4 DEF Extend, TypeOK, ControlOK
    <3>5. ASSUME NEW y \in Exits, Decide(y)
          PROVE  \A x \in Exits : \A p \in relays'[x].saved : ExitOf[p.h] = x
      BY <2>2, <3>3, <3>5 DEF Decide, SetRelay
    <3> QED
      BY <1>4, <3>1, <3>2, <3>4, <3>5
  <2> QED
    BY <2>1, <2>3, LagWritten
<1>5. ASSUME NEW y \in Exits, JournalIP(y)
      PROVE  LagInv'
  <2>1. /\ UNCHANGED <<relays, journal>>
        /\ \A x \in Exits : ipMove[x] = "journaled" => ipMove'[x] = "journaled"
    BY <1>5 DEF JournalIP, TypeOK, HostsOK
  <2> QED
    BY <2>1 DEF LagInv, SameAddress
<1>6. CASE MovePlans
  <2>1. /\ cur \in Exits /\ ipMove[cur] = "journaled" /\ UNCHANGED ipMove
        /\ relays' = [relays EXCEPT ![cur] = Moved(@)] /\ relays \in [Exits -> RelayState]
    BY <1>6 DEF MovePlans, JournalInv, TypeOK, ControlOK, RelaysOK
  <2>2. CASE journal' = relays'
    <3>1. \A x \in Exits : \A p \in relays'[x].saved : ExitOf[p.h] = x
      BY <2>1 DEF LagInv, Moved, MovedPlans, RelayState, HostPlan
    <3> QED
      BY <2>2, <3>1, LagWritten
  <2>3. CASE UNCHANGED journal
    <3> SUFFICES ASSUME NEW x \in Exits, NEW r \in relays'[x].saved
                 PROVE  /\ ExitOf[r.h] = x
                        /\ \E p \in journal[x].saved : p.h = r.h /\ SameAddress(x, p.addr, r.addr)
      BY <2>1, <2>3 DEF LagInv, SameAddress
    <3>1. CASE x # cur
      BY <2>1, <3>1 DEF LagInv
    <3>2. CASE x = cur
      <4>1. relays'[x].saved = MovedPlans(relays[x].saved)
        BY <2>1, <3>2 DEF Moved
      <4>2. PICK q \in relays[x].saved : r = [q EXCEPT !.addr = NewAddress(@)]
        BY <4>1 DEF MovedPlans
      <4>3. q \in HostPlan
        BY <2>1 DEF RelayState
      <4>4. r.h = q.h /\ r.addr = NewAddress(q.addr)
        BY <4>2, <4>3 DEF HostPlan
      <4>5. ExitOf[q.h] = x
        BY DEF LagInv
      <4>6. PICK p \in journal[x].saved : p.h = q.h /\ SameAddress(x, p.addr, q.addr)
        BY DEF LagInv
      <4> QED
        BY <2>1, <3>2, <4>2, <4>4, <4>5, <4>6 DEF SameAddress, NewAddress
    <3> QED
      BY <3>1, <3>2
  <2> QED
    BY <1>6, <2>2, <2>3 DEF MovePlans
<1>7. CASE ForgetIP
  <2>1. /\ UNCHANGED <<relays, journal>> /\ relays[cur] = journal[cur]
        /\ \A x \in Exits : x # cur => ipMove'[x] = ipMove[x]
    BY <1>7 DEF ForgetIP, JournalInv, TypeOK, HostsOK
  <2> QED
    BY <2>1 DEF LagInv, SameAddress
<1> QED
  BY <1>1, <1>2, <1>3, <1>4, <1>5, <1>6, <1>7 DEF Next, Controller, Operator

LEMMA ManualStepKept ==
  ASSUME Constants, TypeOK, JournalInv, LagInv, [Next]_vars
  PROVE  [ManualStep]_vars
<1> SUFFICES ASSUME Next, NEW h \in Hosts, Exists(h), host[h].addr = "manual", host'[h] # host[h],
                    edits' = edits, host[h].custom
             PROVE  \E p \in journal[ExitOf[h]].saved : p.h = h /\ p.addr = "manual"
  BY DEF ManualStep
<1>1. host \in [Hosts -> Host \cup {None, Deleted}] /\ host[h] \in Host /\ edits \in Nat
  BY DEF TypeOK, HostsOK, ControlOK, Exists
<1>2. ASSUME NEW x \in Exits, MoveIP(x)
      PROVE  FALSE
  BY <1>1, <1>2 DEF MoveIP, NewAddress, Host
<1>3. ASSUME NEW k \in Hosts, HostSync(k)
      PROVE  FALSE
  BY <1>1, <1>3 DEF HostSync, Exists
<1>4. ASSUME NEW k \in Hosts, Toggle(k) \/ Move(k) \/ Reset(k) \/ Delete(k) \/ ChangeInbound(k)
      PROVE  FALSE
  BY <1>1, <1>4 DEF Toggle, Move, Reset, Delete, ChangeInbound, Edit
<1>5. ASSUME NEW p \in patches, PatchHost(p)
      PROVE  \E q \in journal[ExitOf[h]].saved : q.h = h /\ q.addr = "manual"
  <2>1. /\ cur \in Exits /\ p \in relays[cur].saved /\ Exists(p.h) /\ AsRead(p)
    BY <1>5 DEF PatchHost, TypeOK, ControlOK, RelaysOK, Sound, Finishing
  <2>2. p.h = h
    BY <1>1, <1>5 DEF PatchHost
  <2>3. Op.target /\ p.addr = "manual"
    BY <2>1, <2>2 DEF AsRead, IsOriginal, IsRelayed
  <2>4. PICK q \in journal[cur].saved : q.h = h /\ SameAddress(cur, q.addr, "manual")
    BY <2>1, <2>2, <2>3 DEF LagInv
  <2>5. ExitOf[h] = cur /\ q.addr = "manual"
    BY <2>1, <2>2, <2>4 DEF LagInv, SameAddress
  <2> QED
    BY <2>4, <2>5
<1> QED
  BY <1>2, <1>3, <1>4, <1>5
  DEF Next, Controller, Operator, StartCycle, PassFails, Restart, JournalIP, MovePlans, ForgetIP,
      LeaveIPs, Recover, Recovered, Decide, Extend, EndPass, PushForward, ReadHosts, VerifyHosts,
      Commit, SetMode, db

-----------------------------------------------------------------------------
(* What a host was before the relay *)

KeptAll == BackedInv /\ JournalInv /\ KeptInv

LEMMA SameRows ==
  ASSUME NEW x, NEW a, NEW b, SameAddress(x, a, b), NEW h
  PROVE  RawOf(a, h) = RawOf(b, h)
BY DEF SameAddress, RawOf

LEMMA PlansUnchanged == ASSUME PlansInv, UNCHANGED <<relays, journal>> PROVE PlansInv'
BY DEF PlansInv, PlansOK, RawOf

LEMMA RowsUnchanged == ASSUME RowsInv, UNCHANGED <<host, advert>> PROVE RowsInv'
BY DEF RowsInv, OnRelay, Exists, RawOf

LEMMA MovedElsewhere == ASSUME pc' \notin {"ipsSave", "ipsDone"} PROVE MovedInv'
BY DEF MovedInv

\* A record may lose plans, and take in those of hosts off the relay.
LEMMA AddressUnchanged ==
  ASSUME Constants, AddressInv, UNCHANGED <<host, inb, advert>>,
         \A x \in Exits : ipMove[x] = "journaled" => ipMove'[x] = "journaled",
         \A x \in Exits : \A p \in relays'[x].saved : p \in relays[x].saved \/ ~OnRelay(p.h)
  PROVE  AddressInv'
<1> SUFFICES ASSUME NEW h \in Hosts, Exists(h)'
             PROVE  KeptAt(h)'
  BY DEF AddressInv
<1>1. Exists(h) /\ KeptAt(h) /\ ExitOf[h] \in Exits
  BY DEF AddressInv, Exists, Constants, ConstAssumption
<1>2. OnRelay(h)' <=> OnRelay(h)
  BY DEF OnRelay, Exists
<1> QED
  BY <1>1, <1>2 DEF KeptAt, SameAddress, Effective

\* The records at a restart: the journal's plan of a host is the only one.
LEMMA RestartKept ==
  ASSUME Constants, KeptAll, Restart
  PROVE  PlansInv' /\ RowsInv' /\ AddressInv' /\ MovedInv'
<1> USE DEF KeptAll, KeptInv, BackedInv
<1>1. /\ relays' = journal /\ journal' = journal /\ UNCHANGED <<host, inb, ip, advert, ipMove>>
      /\ pc' = "idle"
  BY DEF Restart, Idle, db, files, ghosts
<1>2. PlansInv'
  BY <1>1 DEF PlansInv, PlansOK, RawOf
<1>3. ASSUME NEW h \in Hosts, Exists(h)'
      PROVE  KeptAt(h)'
  <2>1. /\ Exists(h) /\ KeptAt(h) /\ ExitOf[h] \in Exits
        /\ OnRelay(h)' <=> OnRelay(h)
    BY <1>1, <1>3 DEF AddressInv, OnRelay, Exists, Constants, ConstAssumption
  <2>2. CASE ~OnRelay(h)
    BY <1>1, <2>1, <2>2 DEF KeptAt, SameAddress
  <2>3. CASE OnRelay(h)
    <3>1. PICK q \in relays[ExitOf[h]].saved : q.h = h
      BY <2>3 DEF RelayedInv, Planned
    <3>2. PICK r \in journal[ExitOf[h]].saved : r.h = h /\ SameAddress(ExitOf[h], r.addr, q.addr)
      BY <2>1, <3>1 DEF LagInv
    <3>3. SameAddress(ExitOf[h], q.addr, advert[h].addr)
      BY <2>1, <2>3, <3>1 DEF KeptAt
    <3>4. \A p \in journal[ExitOf[h]].saved : p.h = h => p = r
      BY <2>1, <3>2 DEF PlansInv, PlansOK
    <3>5. SameAddress(ExitOf[h], r.addr, advert[h].addr)
      BY <3>2, <3>3 DEF SameAddress
    <3> QED
      BY <1>1, <2>1, <2>3, <3>4, <3>5 DEF KeptAt, SameAddress, Effective
  <2> QED
    BY <2>2, <2>3
<1> QED
  BY <1>1, <1>2, <1>3, RowsUnchanged, MovedElsewhere DEF AddressInv

\* Following a change of IP: plans of one host stay one, and restore such a row.
LEMMA MovedPlansOK ==
  ASSUME NEW S \in SUBSET HostPlan, PlansOK(S)
  PROVE  /\ PlansOK(MovedPlans(S))
         /\ \A r \in MovedPlans(S) : \E q \in S : r.h = q.h /\ r.addr = NewAddress(q.addr)
<1>1. \A r \in MovedPlans(S) : \E q \in S :
        /\ r = [q EXCEPT !.addr = NewAddress(@)]
        /\ r.h = q.h /\ r.raw = q.raw /\ r.addr = NewAddress(q.addr)
  BY DEF MovedPlans, HostPlan
<1>2. \A a, h : RawOf(NewAddress(a), h) = RawOf(a, h)
  BY DEF RawOf, NewAddress
<1>3. \A r \in MovedPlans(S) : r.raw = RawOf(r.addr, r.h)
  BY <1>1, <1>2 DEF PlansOK
<1>4. ASSUME NEW r \in MovedPlans(S), NEW t \in MovedPlans(S), r.h = t.h
      PROVE  r = t
  BY <1>1, <1>4 DEF PlansOK
<1> QED
  BY <1>1, <1>3, <1>4 DEF PlansOK

LEMMA MovePlansKept ==
  ASSUME Constants, KeptAll, MovePlans
  PROVE  PlansInv' /\ RowsInv' /\ AddressInv' /\ MovedInv'
<1> USE DEF KeptAll, KeptInv, BackedInv
<1>1. /\ pc = "ipsSave" /\ cur \in Exits /\ ipMove[cur] = "journaled"
      /\ UNCHANGED <<host, inb, ip, advert, ipMove>>
      /\ relays' = [relays EXCEPT ![cur] = Moved(@)]
      /\ relays \in [Exits -> RelayState] /\ journal \in [Exits -> RelayState]
  BY DEF MovePlans, JournalInv, TypeOK, ControlOK, RelaysOK, db, ghosts
<1>2. /\ relays'[cur].saved = MovedPlans(relays[cur].saved)
      /\ \A x \in Exits : x # cur => relays'[x] = relays[x]
  BY <1>1 DEF Moved
<1>3. relays[cur].saved \in SUBSET HostPlan /\ PlansOK(relays[cur].saved)
  BY <1>1 DEF RelayState, PlansInv
<1>4. /\ PlansOK(relays'[cur].saved)
      /\ \A r \in relays'[cur].saved :
           \E q \in relays[cur].saved : r.h = q.h /\ r.addr = NewAddress(q.addr)
  BY <1>2, <1>3, MovedPlansOK
<1>5. \A x \in Exits : PlansOK(relays'[x].saved)
  BY <1>2, <1>4 DEF PlansInv
<1>6. PlansInv'
  <2>1. UNCHANGED journal \/ journal' = relays'
    BY DEF MovePlans
  <2>2. \A x \in Exits : PlansOK(journal'[x].saved)
    BY <1>5, <2>1 DEF PlansInv
  <2> QED
    BY <1>5, <2>2 DEF PlansInv, PlansOK, RawOf
<1>7. ASSUME NEW h \in Hosts, Exists(h)'
      PROVE  KeptAt(h)'
  <2>1. /\ Exists(h) /\ KeptAt(h) /\ ExitOf[h] \in Exits
        /\ OnRelay(h)' <=> OnRelay(h)
    BY <1>1, <1>7 DEF AddressInv, OnRelay, Exists, Constants, ConstAssumption
  <2>2. CASE ~OnRelay(h) \/ ExitOf[h] # cur
    BY <1>1, <1>2, <2>1, <2>2 DEF KeptAt, SameAddress, Effective
  <2>3. CASE OnRelay(h) /\ ExitOf[h] = cur
    <3>1. advert[h].addr # "ip1"
      BY <1>1, <2>1, <2>3 DEF MovedInv, HostsOf
    <3>2. ASSUME NEW r \in relays'[cur].saved, r.h = h
          PROVE  SameAddress(cur, r.addr, advert[h].addr)
      <4>1. PICK q \in relays[cur].saved : r.h = q.h /\ r.addr = NewAddress(q.addr)
        BY <1>4
      <4>2. SameAddress(cur, q.addr, advert[h].addr)
        BY <2>1, <2>3, <3>2, <4>1 DEF KeptAt
      <4> QED
        BY <1>1, <3>1, <4>1, <4>2 DEF SameAddress, NewAddress
    <3> QED
      BY <1>1, <2>1, <2>3, <3>2 DEF KeptAt, SameAddress, Effective
  <2> QED
    BY <2>2, <2>3
<1>8. MovedInv'
  <2>1. \A r \in relays'[cur].saved : r.addr # "ip1"
    BY <1>4 DEF NewAddress
  <2>2. CASE Goto("ipsDone")
    BY <1>1, <2>1, <2>2 DEF MovedInv, Goto, HostsOf, Exists
  <2>3. CASE Jump("recover", None, {})
    BY <2>3, MovedElsewhere DEF Jump
  <2> QED
    BY <2>2, <2>3 DEF MovePlans
<1> QED
  BY <1>1, <1>6, <1>7, <1>8, RowsUnchanged DEF AddressInv

\* The change of IP is forgotten: nothing has the old address.
LEMMA ForgetIPKept ==
  ASSUME Constants, KeptAll, ForgetIP
  PROVE  PlansInv' /\ RowsInv' /\ AddressInv' /\ MovedInv'
<1> USE DEF KeptAll, KeptInv, BackedInv
<1>1. /\ pc = "ipsDone" /\ cur \in Exits /\ UNCHANGED <<host, inb, advert, relays, journal>>
      /\ \A x \in Exits : x # cur => ipMove'[x] = ipMove[x]
      /\ pc' = "ips"
  BY DEF ForgetIP, Jump, TypeOK, HostsOK, ControlOK, db, ghosts
<1>2. ASSUME NEW h \in Hosts, Exists(h)'
      PROVE  KeptAt(h)'
  <2>1. /\ Exists(h) /\ KeptAt(h) /\ ExitOf[h] \in Exits
        /\ OnRelay(h)' <=> OnRelay(h)
    BY <1>1, <1>2 DEF AddressInv, OnRelay, Exists, Constants, ConstAssumption
  <2>2. CASE ExitOf[h] # cur
    BY <1>1, <2>1, <2>2 DEF KeptAt, SameAddress, Effective
  <2>3. CASE ExitOf[h] = cur
    <3>1. host[h].addr # "ip1" /\ \A p \in relays[cur].saved : p.addr # "ip1"
      BY <1>1, <2>1, <2>3 DEF MovedInv, HostsOf
    <3> QED
      BY <1>1, <2>1, <2>3, <3>1 DEF KeptAt, SameAddress, Effective
  <2> QED
    BY <2>2, <2>3
<1> QED
  BY <1>1, <1>2, RowsUnchanged, PlansUnchanged, MovedElsewhere DEF AddressInv

\* Steps that move the controller, or the entries' rules, only.
LEMMA ControlStepsKept ==
  ASSUME Constants, KeptAll,
         \/ StartCycle \/ PassFails \/ LeaveIPs \/ Recovered \/ EndPass \/ ReadHosts \/ VerifyHosts
         \/ (\E x \in Exits : JournalIP(x) \/ Recover(x)) \/ (\E e \in Entries : PushForward(e))
         \/ \E x \in Exits, m \in Modes : SetMode(x, m)
  PROVE  PlansInv' /\ RowsInv' /\ AddressInv' /\ MovedInv'
<1> USE DEF KeptAll, KeptInv, BackedInv
<1>1. /\ UNCHANGED <<host, inb, advert, relays, journal>>
      /\ pc' \notin {"ipsSave", "ipsDone"}
  BY DEF StartCycle, PassFails, LeaveIPs, Recovered, EndPass, ReadHosts, VerifyHosts, JournalIP,
         Recover, PushForward, SetMode, Idle, Jump, Goto, Finish, db, files, ghosts, control
<1>2. \A x \in Exits : ipMove[x] = "journaled" => ipMove'[x] = "journaled"
  BY DEF StartCycle, PassFails, LeaveIPs, Recovered, EndPass, ReadHosts, VerifyHosts, JournalIP,
         Recover, PushForward, SetMode, files, TypeOK, HostsOK
<1> QED
  BY <1>1, <1>2, AddressUnchanged, PlansUnchanged, RowsUnchanged, MovedElsewhere

LEMMA CommitKeepsOriginals ==
  ASSUME Constants, KeptAll, Commit
  PROVE  PlansInv' /\ RowsInv' /\ AddressInv' /\ MovedInv'
<1> USE DEF KeptAll, KeptInv, BackedInv
<1>1. /\ cur \in Exits /\ UNCHANGED <<host, inb, advert, ipMove>> /\ journal' = relays'
      /\ relays' = [relays EXCEPT ![cur] = Finished(@)] /\ relays \in [Exits -> RelayState]
      /\ ret \in {"none", "recover", "decide", "extend", "next"}
  BY DEF Commit, TypeOK, RelaysOK, ControlOK, Finishing, db, ghosts
<1>2. \A x \in Exits : relays'[x].saved = relays[x].saved \/ relays'[x].saved = {}
  BY <1>1 DEF Finished
<1>3. PlansInv'
  BY <1>1, <1>2 DEF PlansInv, PlansOK, RawOf
<1>4. pc' \notin {"ipsSave", "ipsDone"}
  BY <1>1 DEF Commit, AfterCommit, Jump
<1> QED
  BY <1>1, <1>2, <1>3, <1>4, AddressUnchanged, RowsUnchanged, MovedElsewhere

\* New plans are of hosts off the relay that have none yet.
LEMMA NewPlansOK ==
  ASSUME Constants, TypeOK, RowsInv, NEW x \in Exits, PlansOK(relays[x].saved),
         \A p \in relays[x].saved : ExitOf[p.h] = x, ~PlanRefused(x)
  PROVE  /\ PlansOK(relays[x].saved \cup NewPlans(x))
         /\ \A p \in NewPlans(x) : ~OnRelay(p.h)
<1>1. \A p \in NewPlans(x) :
        /\ p.h \in Hosts /\ Relayable(x, p.h) /\ p = PlanOf(p.h)
        /\ p.raw = host[p.h].raw /\ p.addr = host[p.h].addr
  BY DEF NewPlans, PlanOf, HostsOf
<1>2. \A p \in NewPlans(x) : ~OnRelay(p.h) /\ p.raw = RawOf(p.addr, p.h)
  BY <1>1 DEF Relayable, OnRelay, RowsInv
<1>3. \A p \in NewPlans(x), q \in relays[x].saved : p.h # q.h
  BY <1>1 DEF PlanRefused
<1>4. \A p, q \in NewPlans(x) : p.h = q.h => p = q
  BY <1>1
<1> QED
  BY <1>2, <1>3, <1>4 DEF PlansOK

LEMMA DecideKept ==
  ASSUME Constants, KeptAll, Extend \/ \E x \in Exits : Decide(x)
  PROVE  PlansInv' /\ RowsInv' /\ AddressInv' /\ MovedInv'
<1> USE DEF KeptAll, KeptInv, BackedInv
<1>1. /\ UNCHANGED <<host, inb, advert, ipMove>> /\ relays \in [Exits -> RelayState]
      /\ \A x \in Exits : \A p \in relays[x].saved : ExitOf[p.h] = x
  BY DEF Extend, Decide, db, ghosts, TypeOK, RelaysOK, LagInv
<1>2. pc' \notin {"ipsSave", "ipsDone"}
  BY DEF Extend, Decide, SetRelay, AfterSetRelay, Begin, Finish, Jump, Idle
<1>3. ASSUME NEW y \in Exits, NEW op, NEW saved, NEW to, Begin(y, op, saved, to),
             PlansOK(saved), \A p \in saved : p \in relays[y].saved \/ ~OnRelay(p.h)
      PROVE  PlansInv' /\ AddressInv'
  <2>1. relays' = [relays EXCEPT ![y] = [@ EXCEPT !.saved = saved, !.op = op]] /\ journal' = relays'
    BY <1>3 DEF Begin
  <2>2. relays'[y].saved = saved /\ \A x \in Exits : x # y => relays'[x] = relays[x]
    BY <1>1, <2>1 DEF RelayState
  <2>3. PlansInv'
    BY <1>3, <2>1, <2>2 DEF PlansInv, PlansOK, RawOf
  <2> QED
    BY <1>1, <1>3, <2>2, <2>3, AddressUnchanged
<1>4. ASSUME NEW y \in Exits, NEW to, ~PlanRefused(y),
             Begin(y, Target(TRUE, NewPlans(y)), relays[y].saved \cup NewPlans(y), to)
      PROVE  PlansInv' /\ AddressInv'
  <2>1. PlansOK(relays[y].saved)
    BY DEF PlansInv
  <2> QED
    BY <1>1, <1>3, <1>4, <2>1, NewPlansOK
<1>5. ASSUME NEW y \in Exits, NEW op, NEW to, Begin(y, op, relays[y].saved, to)
      PROVE  PlansInv' /\ AddressInv'
  BY <1>3, <1>5 DEF PlansInv
<1>6. ASSUME UNCHANGED <<relays, journal>>
      PROVE  PlansInv' /\ AddressInv'
  BY <1>1, <1>6, AddressUnchanged, PlansUnchanged
<1>7. PlansInv' /\ AddressInv'
  <2>1. CASE Extend
    <3>1. cur \in Exits
      BY <2>1 DEF Extend, TypeOK, ControlOK
    <3> QED
      BY <1>4, <1>6, <2>1, <3>1 DEF Extend
  <2>2. ASSUME NEW x \in Exits, NEW on \in BOOLEAN, SetRelay(x, on)
        PROVE  PlansInv' /\ AddressInv'
    BY <1>4, <1>5, <1>6, <2>2 DEF SetRelay
  <2>3. ASSUME NEW x \in Exits, Decide(x)
        PROVE  PlansInv' /\ AddressInv'
    BY <1>6, <2>2, <2>3 DEF Decide, Wanted
  <2> QED
    BY <2>1, <2>3
<1> QED
  BY <1>1, <1>2, <1>7, RowsUnchanged, MovedElsewhere

-----------------------------------------------------------------------------
(* Steps that change the hosts *)

\* A step that touches one host leaves the others where they are kept.
LEMMA OneHostKept ==
  ASSUME Constants, KeptAll, UNCHANGED <<inb, relays, journal, ipMove, ip>>,
         NEW h \in Hosts,
         \A k \in Hosts : k # h => host'[k] = host[k] /\ advert'[k] = advert[k],
         Exists(h)' => KeptAt(h)',
         /\ advert'[h].addr # "relay" /\ advert'[h].raw = RawOf(advert'[h].addr, h)
         /\ Exists(h)' /\ ~OnRelay(h)' => host'[h].raw = RawOf(host'[h].addr, h),
         \/ pc' \notin {"ipsSave", "ipsDone"}
         \/ /\ UNCHANGED <<pc, cur>>
            /\ pc \in {"ipsSave", "ipsDone"} /\ h \in HostsOf(cur) /\ Exists(h)'
                 => host'[h].addr # "ip1" /\ advert'[h].addr # "ip1"
  PROVE  PlansInv' /\ RowsInv' /\ AddressInv' /\ MovedInv'
<1> USE DEF KeptAll, KeptInv, BackedInv
<1>1. RowsInv'
  BY DEF RowsInv, OnRelay, Exists, RawOf
<1>2. ASSUME NEW k \in Hosts, Exists(k)', k # h
      PROVE  KeptAt(k)'
  <2>1. Exists(k) /\ KeptAt(k) /\ (OnRelay(k)' <=> OnRelay(k))
    BY <1>2 DEF AddressInv, OnRelay, Exists
  <2> QED
    BY <1>2, <2>1 DEF KeptAt, SameAddress, Effective
<1>3. MovedInv'
  <2>1. CASE pc' \notin {"ipsSave", "ipsDone"}
    BY <2>1, MovedElsewhere
  <2>2. CASE UNCHANGED <<pc, cur>>
    BY <2>2 DEF MovedInv, HostsOf, Exists
  <2> QED
    BY <2>1, <2>2
<1> QED
  BY <1>1, <1>2, <1>3, PlansUnchanged DEF AddressInv

\* A host goes to the relay as it was planned, and comes back so.
LEMMA PatchHostKept ==
  ASSUME Constants, KeptAll, NEW p \in patches, PatchHost(p)
  PROVE  PlansInv' /\ RowsInv' /\ AddressInv' /\ MovedInv'
<1> USE DEF KeptAll, KeptInv, BackedInv
<1>1. /\ pc = "patch" /\ UNCHANGED <<inb, ip, relays, journal, ipMove, advert>>
      /\ pc' \notin {"ipsSave", "ipsDone"}
  BY DEF PatchHost, Idle, files, ghosts
<1>2. /\ cur \in Exits /\ p \in relays[cur].saved /\ p \in HostPlan /\ p.h \in Hosts
  BY <1>1 DEF TypeOK, ControlOK, Finishing, RelaysOK, Sound, RelayState, Operation, HostPlan
<1>3. ExitOf[p.h] = cur /\ p.port = inb[p.h] /\ p.addr # "relay" /\ p.raw = RawOf(p.addr, p.h)
  BY <1>2 DEF RecordsInv, GoodRecord, PlansInv, PlansOK
<1>4. /\ advert[p.h].addr # "relay" /\ advert[p.h].raw = RawOf(advert[p.h].addr, p.h)
  BY <1>2 DEF RowsInv
<1>5. CASE ~(Exists(p.h) /\ AsRead(p))
  <2>1. UNCHANGED host
    BY <1>5 DEF PatchHost
  <2> QED
    BY <1>1, <2>1, AddressUnchanged, PlansUnchanged, RowsUnchanged, MovedElsewhere
<1>6. CASE Exists(p.h) /\ AsRead(p)
  <2>1. host[p.h] \in Host /\ host \in [Hosts -> Host \cup {None, Deleted}] /\ KeptAt(p.h)
    BY <1>2, <1>6 DEF TypeOK, HostsOK, Exists, AddressInv
  <2>2. \A k \in Hosts : k # p.h => host'[k] = host[k]
    BY <1>2, <1>6, <2>1 DEF PatchHost
  <2>3. CASE Op.target
    <3>1. host'[p.h].addr = "relay"
      <4>1. host' = [host EXCEPT ![p.h] =
              [@ EXCEPT !.addr = "relay", !.raw = NewPort(p), !.custom = TRUE]]
        BY <1>6, <2>3 DEF PatchHost
      <4> QED
        BY <1>2, <2>1, <4>1 DEF Host
    <3>2. host[p.h].addr = p.addr /\ PortOf(p.h) = p.port /\ ~OnRelay(p.h)
      BY <1>3, <1>6, <2>3 DEF AsRead, IsOriginal, OnRelay
    <3>3. SameAddress(cur, p.addr, advert[p.h].addr)
      BY <1>3, <3>2, <2>1 DEF KeptAt
    <3>4. host[p.h].raw = advert[p.h].raw
      BY <1>2, <1>3, <1>4, <1>6, <3>2, <3>3, SameRows DEF RowsInv
    <3>5. Effective(advert[p.h].raw, p.h) = inb[p.h]
      BY <1>3, <3>2, <3>4 DEF PortOf
    <3>6. \A q \in relays[cur].saved : q.h = p.h => q = p
      BY <1>2 DEF PlansInv, PlansOK
    <3>7. Exists(p.h)' => KeptAt(p.h)'
      BY <1>1, <1>3, <3>1, <3>3, <3>5, <3>6 DEF KeptAt, SameAddress, Effective, OnRelay
    <3>8. ~Exists(p.h)' \/ OnRelay(p.h)'
      BY <3>1 DEF OnRelay
    <3> QED
      BY <1>1, <1>2, <1>4, <2>2, <3>7, <3>8, OneHostKept
  <2>4. CASE ~Op.target
    <3>1. host'[p.h].addr = p.addr /\ host'[p.h].raw = p.raw
      <4>1. host' = [host EXCEPT ![p.h] =
              [@ EXCEPT !.addr = p.addr, !.raw = p.raw, !.custom = p.custom]]
        BY <1>6, <2>4 DEF PatchHost
      <4> QED
        BY <1>2, <2>1, <4>1 DEF Host
    <3>2. OnRelay(p.h)
      BY <1>6, <2>4 DEF AsRead, IsRelayed, OnRelay
    <3>3. SameAddress(cur, p.addr, advert[p.h].addr)
      BY <1>2, <1>3, <2>1, <3>2 DEF KeptAt
    <3>4. KeptAt(p.h)'
      BY <1>1, <1>3, <3>1, <3>3 DEF KeptAt, SameAddress, OnRelay
    <3>5. host'[p.h].raw = RawOf(host'[p.h].addr, p.h)
      BY <1>3, <3>1
    <3> QED
      BY <1>1, <1>2, <1>4, <2>2, <3>4, <3>5, OneHostKept
  <2> QED
    BY <2>3, <2>4
<1> QED
  BY <1>5, <1>6

\* HostSync, and the operator: what they write is what is advertised.
LEMMA EditsKept ==
  ASSUME Constants, KeptAll, NEW h \in Hosts,
         HostSync(h) \/ Toggle(h) \/ Move(h) \/ Reset(h) \/ Delete(h)
  PROVE  PlansInv' /\ RowsInv' /\ AddressInv' /\ MovedInv'
<1> USE DEF KeptAll, KeptInv, BackedInv
<1>1. /\ UNCHANGED <<inb, ip, relays, journal, ipMove, pc, cur>>
      /\ host \in [Hosts -> Host \cup {None, Deleted}] /\ ip \in [Exits -> {"ip1", "ip2"}]
      /\ advert \in [Hosts -> [addr : Address, raw : RawPort]] /\ ExitOf[h] \in Exits
  BY DEF HostSync, Toggle, Move, Reset, Delete, Edit, files, control, TypeOK, HostsOK, Constants,
         ConstAssumption
<1>2. \A k \in Hosts : k # h => host'[k] = host[k] /\ advert'[k] = advert[k]
  BY <1>1 DEF HostSync, Toggle, Move, Reset, Delete, ghosts
<1>3. /\ advert[h].addr # "relay" /\ advert[h].raw = RawOf(advert[h].addr, h)
      /\ Exists(h) /\ ~OnRelay(h) => host[h].raw = RawOf(host[h].addr, h)
  BY DEF RowsInv
<1>4. CASE HostSync(h)
  <2>1. /\ host'[h].addr = ip[ExitOf[h]] /\ host'[h].raw = Published[h]
        /\ advert'[h].addr = ip[ExitOf[h]] /\ advert'[h].raw = Published[h]
    BY <1>1, <1>4 DEF HostSync, NewRow
  <2>2. ip[ExitOf[h]] # "relay" /\ Published[h] = RawOf(ip[ExitOf[h]], h)
    BY <1>1 DEF RawOf
  <2>3. KeptAt(h)'
    BY <2>1, <2>2 DEF KeptAt, SameAddress, OnRelay
  <2>4. pc \in {"ipsSave", "ipsDone"} /\ h \in HostsOf(cur) => ip[ExitOf[h]] # "ip1"
    BY DEF MovedInv, HostsOf
  <2> QED
    BY <1>1, <1>2, <2>1, <2>2, <2>3, <2>4, OneHostKept
<1>5. CASE Move(h)
  <2>1. host'[h].addr = "manual" /\ host'[h].raw = 0
    <3>1. host[h] \in Host /\ host'[h] = [host[h] EXCEPT !.addr = "manual", !.raw = 0, !.custom = TRUE]
      BY <1>1, <1>5 DEF Move, Exists
    <3> QED
      BY <3>1 DEF Host
  <2>2. advert'[h].addr = "manual" /\ advert'[h].raw = 0
    BY <1>1, <1>5 DEF Move
  <2>3. KeptAt(h)'
    BY <2>1, <2>2 DEF KeptAt, SameAddress, OnRelay
  <2>4. 0 = RawOf("manual", h)
    BY DEF RawOf
  <2> QED
    BY <1>1, <1>2, <2>1, <2>2, <2>3, <2>4, OneHostKept
<1>6. CASE Toggle(h) \/ Reset(h)
  <2>1. host'[h].addr = host[h].addr /\ host'[h].raw = host[h].raw /\ Exists(h)
    BY <1>1, <1>6 DEF Toggle, Reset, Exists, Host
  <2>2. UNCHANGED advert
    BY <1>6 DEF Toggle, Reset
  <2>3. KeptAt(h) /\ (Exists(h)' => (OnRelay(h)' <=> OnRelay(h)))
    BY <2>1 DEF AddressInv, OnRelay
  <2>4. Exists(h)' => KeptAt(h)'
    BY <1>1, <2>1, <2>2, <2>3 DEF KeptAt, SameAddress, Effective
  <2>5. pc \in {"ipsSave", "ipsDone"} /\ h \in HostsOf(cur)
          => host[h].addr # "ip1" /\ advert[h].addr # "ip1"
    BY <2>1 DEF MovedInv
  <2> QED
    BY <1>1, <1>2, <1>3, <2>1, <2>2, <2>3, <2>4, <2>5, OneHostKept
<1>7. CASE Delete(h)
  <2>1. ~Exists(h)' /\ UNCHANGED advert
    BY <1>1, <1>7 DEF Delete, Exists, ghosts
  <2> QED
    BY <1>1, <1>2, <1>3, <2>1, OneHostKept
<1> QED
  BY <1>4, <1>5, <1>6, <1>7

\* An inbound without a raw port changes it for the host and for what is
\* advertised of it; no relay knows the host.
LEMMA ChangeInboundKept ==
  ASSUME Constants, ~InboundsMove, KeptAll, NEW h \in Hosts, ChangeInbound(h)
  PROVE  PlansInv' /\ RowsInv' /\ AddressInv' /\ MovedInv'
<1> USE DEF KeptAll, KeptInv, BackedInv
<1>1. /\ journal[ExitOf[h]] = Direct /\ inb' = [inb EXCEPT ![h] = 2] /\ inb \in [Hosts -> Ports]
      /\ UNCHANGED <<host, ip, relays, journal, ipMove, pc, cur, advert>> /\ ExitOf[h] \in Exits
  BY DEF ChangeInbound, Edit, files, control, ghosts, TypeOK, HostsOK, Constants, ConstAssumption
<1>2. ~OnRelay(h)
  BY <1>1 DEF RecordsInv, Alike, RelayedInv, Direct, Planned
<1>3. ASSUME NEW k \in Hosts, Exists(k)'
      PROVE  KeptAt(k)'
  <2>1. Exists(k) /\ KeptAt(k) /\ (OnRelay(k)' <=> OnRelay(k)) /\ (k # h => inb'[k] = inb[k])
    BY <1>1, <1>3 DEF AddressInv, OnRelay, Exists
  <2> QED
    BY <1>1, <1>2, <2>1 DEF KeptAt, SameAddress, Effective
<1>4. MovedInv'
  BY <1>1 DEF MovedInv, HostsOf, Exists
<1> QED
  BY <1>1, <1>3, <1>4, PlansUnchanged, RowsUnchanged DEF AddressInv

\* The node and its hosts get the new address, on the relay or not.
LEMMA MoveIPKept ==
  ASSUME Constants, KeptAll, NEW y \in Exits, MoveIP(y)
  PROVE  PlansInv' /\ RowsInv' /\ AddressInv' /\ MovedInv'
<1> USE DEF KeptAll, KeptInv, BackedInv
<1>1. /\ UNCHANGED <<inb, relays, journal, ipMove>> /\ ipMove[y] = "journaled"
      /\ pc' = "ipsSave" /\ cur' = y /\ ip' = [ip EXCEPT ![y] = "ip2"]
      /\ ip \in [Exits -> {"ip1", "ip2"}] /\ host \in [Hosts -> Host \cup {None, Deleted}]
      /\ advert \in [Hosts -> [addr : Address, raw : RawPort]]
  BY DEF MoveIP, Jump, files, TypeOK, HostsOK
<1>2. ASSUME NEW h \in Hosts, ~(h \in HostsOf(y) /\ Exists(h))
      PROVE  host'[h] = host[h] /\ advert'[h] = advert[h]
  BY <1>2 DEF MoveIP
<1>3. ASSUME NEW h \in HostsOf(y), Exists(h)
      PROVE  /\ h \in Hosts /\ host[h] \in Host
             /\ host'[h].addr = NewAddress(host[h].addr) /\ host'[h].raw = host[h].raw
             /\ advert'[h].addr = NewAddress(advert[h].addr) /\ advert'[h].raw = advert[h].raw
  <2>1. h \in Hosts /\ host[h] \in Host /\ advert[h] \in [addr : Address, raw : RawPort]
    BY <1>1, <1>3 DEF HostsOf, Exists
  <2>2. /\ host'[h] = [host[h] EXCEPT !.addr = NewAddress(host[h].addr)]
        /\ advert'[h] = [advert[h] EXCEPT !.addr = NewAddress(advert[h].addr)]
    BY <1>3, <2>1 DEF MoveIP
  <2> QED
    BY <2>1, <2>2 DEF Host
<1>4. \A a, h : RawOf(NewAddress(a), h) = RawOf(a, h) /\ (NewAddress(a) = "relay" <=> a = "relay")
  BY DEF RawOf, NewAddress
<1>5. ASSUME NEW h \in Hosts, Exists(h)'
      PROVE  Exists(h) /\ (OnRelay(h)' <=> OnRelay(h))
  BY <1>2, <1>3, <1>4, <1>5 DEF OnRelay, Exists
<1>6. RowsInv'
  <2> SUFFICES ASSUME NEW h \in Hosts
               PROVE  /\ advert'[h].addr # "relay" /\ advert'[h].raw = RawOf(advert'[h].addr, h)
                      /\ Exists(h)' /\ ~OnRelay(h)' => host'[h].raw = RawOf(host'[h].addr, h)
    BY DEF RowsInv, RawOf
  <2>1. /\ advert[h].addr # "relay" /\ advert[h].raw = RawOf(advert[h].addr, h)
        /\ Exists(h) /\ ~OnRelay(h) => host[h].raw = RawOf(host[h].addr, h)
    BY DEF RowsInv
  <2> QED
    BY <1>2, <1>3, <1>4, <1>5, <2>1
<1>7. ASSUME NEW h \in Hosts, Exists(h)'
      PROVE  KeptAt(h)'
  <2>1. Exists(h) /\ KeptAt(h) /\ (OnRelay(h)' <=> OnRelay(h))
    BY <1>5, <1>7 DEF AddressInv
  <2>2. CASE h \notin HostsOf(y)
    BY <1>1, <1>2, <2>1, <2>2 DEF KeptAt, SameAddress, Effective
  <2>3. CASE h \in HostsOf(y)
    <3>1. ExitOf[h] = y
      BY <2>3 DEF HostsOf
    <3> QED
      BY <1>1, <1>3, <2>1, <2>3, <3>1 DEF KeptAt, SameAddress, Effective, NewAddress
  <2> QED
    BY <2>2, <2>3
<1>8. MovedInv'
  <2>1. \A h \in HostsOf(y) : Exists(h)' => host'[h].addr # "ip1" /\ advert'[h].addr # "ip1"
    BY <1>3, <1>5 DEF HostsOf, NewAddress
  <2> QED
    BY <1>1, <2>1 DEF MovedInv, HostsOf
<1> QED
  BY <1>1, <1>6, <1>7, <1>8, PlansUnchanged DEF AddressInv

-----------------------------------------------------------------------------
LEMMA InitKept == ASSUME Constants, Init PROVE LagInv /\ KeptInv
<1>1. \A h \in Hosts : ~OnRelay(h) /\ SameAddress(ExitOf[h], "ip1", "ip1")
                       /\ RawOf("ip1", h) = Published[h]
  BY DEF Init, OnRelay, Exists, SameAddress, RawOf
<1>2. LagInv /\ PlansInv
  BY DEF Init, Direct, LagInv, PlansInv, PlansOK
<1>3. RowsInv /\ AddressInv /\ MovedInv
  BY <1>1 DEF Init, RowsInv, AddressInv, KeptAt, MovedInv, Exists
<1> QED
  BY <1>2, <1>3 DEF KeptInv

LEMMA KeptStep ==
  ASSUME Constants, ~InboundsMove, KeptAll, [Next]_vars
  PROVE  KeptAll'
<1>1. BackedInv' /\ JournalInv' /\ LagInv'
  BY BackedStep, JournalStep, LagStep DEF KeptAll, KeptInv, BackedInv
<1>2. CASE UNCHANGED vars
  <2>1. UNCHANGED <<host, inb, ip, advert, relays, journal, ipMove, pc, cur>>
    BY <1>2 DEF vars, db, files, control, ghosts
  <2>2. PlansInv' /\ RowsInv'
    BY <2>1, PlansUnchanged, RowsUnchanged DEF KeptAll, KeptInv
  <2>3. AddressInv'
    BY <2>1, AddressUnchanged DEF KeptAll, KeptInv
  <2>4. MovedInv'
    BY <2>1 DEF MovedInv, HostsOf, Exists, KeptAll, KeptInv
  <2> QED
    BY <1>1, <2>2, <2>3, <2>4 DEF KeptAll, KeptInv
<1>3. CASE Next
  <2>1. PlansInv' /\ RowsInv' /\ AddressInv' /\ MovedInv'
    BY <1>3, ControlStepsKept, RestartKept, MovePlansKept, ForgetIPKept, CommitKeepsOriginals,
       DecideKept, PatchHostKept, EditsKept, ChangeInboundKept, MoveIPKept
    DEF Next, Controller, Operator
  <2> QED
    BY <1>1, <2>1 DEF KeptAll, KeptInv
<1> QED
  BY <1>2, <1>3

LEMMA KeptIsOriginal == ASSUME Constants, KeptAll PROVE OriginalKept
<1> USE DEF KeptAll, KeptInv, BackedInv
<1> SUFFICES ASSUME NEW h \in Hosts, Exists(h)
             PROVE  LET x == ExitOf[h]  port == Effective(advert[h].raw, h) IN
                    IF OnRelay(h)
                      THEN \E p \in journal[x].saved :
                             p.h = h /\ p.port = port /\ SameAddress(x, p.addr, advert[h].addr)
                      ELSE PortOf(h) = port /\ SameAddress(x, host[h].addr, advert[h].addr)
  BY DEF OriginalKept
<1>1. KeptAt(h) /\ ExitOf[h] \in Exits
  BY DEF AddressInv, Constants, ConstAssumption
<1>2. CASE ~OnRelay(h)
  <2>1. SameAddress(ExitOf[h], host[h].addr, advert[h].addr)
    BY <1>1, <1>2 DEF KeptAt
  <2>2. host[h].raw = advert[h].raw
    BY <1>2, <2>1, SameRows DEF RowsInv
  <2> QED
    BY <1>2, <2>1, <2>2 DEF PortOf
<1>3. CASE OnRelay(h)
  <2>1. PICK q \in relays[ExitOf[h]].saved : q.h = h
    BY <1>3 DEF RelayedInv, Planned
  <2>2. PICK p \in journal[ExitOf[h]].saved : p.h = h /\ SameAddress(ExitOf[h], p.addr, q.addr)
    BY <1>1, <2>1 DEF LagInv
  <2>3. SameAddress(ExitOf[h], q.addr, advert[h].addr) /\ Effective(advert[h].raw, h) = inb[h]
    BY <1>1, <1>3, <2>1 DEF KeptAt
  <2>4. SameAddress(ExitOf[h], p.addr, advert[h].addr)
    BY <2>2, <2>3 DEF SameAddress
  <2>5. p.port = inb[h]
    BY <1>1, <2>2 DEF RecordsInv, GoodRecord
  <2> QED
    BY <1>3, <2>2, <2>3, <2>4, <2>5
<1> QED
  BY <1>2, <1>3

\* Whatever fails or is edited in between, a host on the relay can be given
\* back the address and the port it last had from anyone but the controller,
\* and a restored host has them, as long as inbounds keep their ports under a
\* relay.
THEOREM OriginalIsKept ==
  ASSUME ~InboundsMove
  PROVE  Spec => []OriginalKept
<1> USE ConstAssumption, RecordAssumption DEF Constants
<1>1. Init => KeptAll
  BY InitBacked, InitKept DEF KeptAll, Init, JournalInv
<1>2. KeptAll /\ [Next]_vars => KeptAll'
  BY KeptStep
<1>3. KeptAll => OriginalKept
  BY KeptIsOriginal
<1> QED
  BY <1>1, <1>2, <1>3, PTL DEF Spec

\* The controller never replaces an address the operator set (PatchHost, in
\* the callback that compares with what was read) unless the journal on disk
\* can give it back, even when inbounds change their ports under a relay.
THEOREM ManualIsKept == Spec => ManualKept
<1> USE ConstAssumption, RecordAssumption DEF Constants
<1>1. Init => TypeOK /\ JournalInv /\ LagInv
  BY InitTyped, InitKept DEF Init, JournalInv
<1>2. TypeOK /\ JournalInv /\ LagInv /\ [Next]_vars => TypeOK' /\ JournalInv' /\ LagInv'
  BY TypeStep, JournalStep, LagStep
<1>3. TypeOK /\ JournalInv /\ LagInv /\ [Next]_vars => [ManualStep]_vars
  BY ManualStepKept
<1> QED
  BY <1>1, <1>2, <1>3, PTL DEF Spec, ManualKept
=============================================================================
