--------------------------- MODULE Iec61850Proofs ---------------------------
(***************************************************************************)
(* Theorems about Iec61850, for any controls and requests, any clock and   *)
(* any alarm band: the battery behind a server is a BatteryUnit, and what  *)
(* the server shows of it is true.                                         *)
(***************************************************************************)
EXTENDS Iec61850, BatteryUnitProofs

\* A control makes the two writes of standby, or one write at most.
LEMMA ShapeOfWrites ==
    ASSUME NEW c, Writes(c) # <<>>
    PROVE  \/ IsStandby(c) /\ Writes(c) = Standby
           \/ ~IsStandby(c) /\ Writes(c) = <<Command(c)>>
<1>1. CASE IsStandby(c)
  BY <1>1 DEF Writes
<1>2. CASE ~IsStandby(c)
  <2>1. c.ok /\ Command(c) # NoWrite
    BY <1>2, ZenonT(60) DEF Writes
  <2> QED BY <1>2, <2>1, Zenon DEF Writes
<1> QED BY <1>1, <1>2

\* What is left of a control are requests that any client could have made, and
\* none that overwrites a status.
Commands == {w \in Requests : DOMAIN w \cap Status = {}}
JobOK == job \in Seq(Commands)

LEMMA CommandKeepsStatus == ASSUME NEW c PROVE DOMAIN Command(c) \cap Status = {}
<1>1. ASSUME NEW r, NEW v, r \notin Status PROVE DOMAIN One(r, v) \cap Status = {}
  <2>1. DOMAIN One(r, v) = {r}
    BY DEF One
  <2> QED BY <1>1, <2>1
<1>2. DOMAIN NoWrite \cap Status = {}
  BY DEF NoWrite
<1> QED BY <1>1, <1>2, ZenonT(60) DEF Command, Status

LEMMA WritesAreRequests ==
    ASSUME NEW c \in Operations, Writes(c) # <<>> PROVE Writes(c) \in Seq(Commands)
<1>1. \A i \in DOMAIN Writes(c) : Writes(c)[i] \in Requests
  BY IecAssumption
<1>2. CASE Writes(c) = Standby
  <2>1. /\ Writes(c)[1] = One("powerCmd", 0) /\ Writes(c)[2] = One("reactiveCmd", 0)
        /\ DOMAIN Writes(c) = 1..2
    BY <1>2 DEF Standby
  <2>2. One("powerCmd", 0) \in Requests /\ One("reactiveCmd", 0) \in Requests
    BY <1>1, <2>1
  <2>3. One("powerCmd", 0) \in Commands /\ One("reactiveCmd", 0) \in Commands
    BY <2>2 DEF Commands, One, Status
  <2> QED BY <1>2, <2>3 DEF Standby
<1>3. ASSUME Writes(c) = <<Command(c)>> PROVE Writes(c) \in Seq(Commands)
  <2>1. Writes(c)[1] = Command(c) /\ 1 \in DOMAIN Writes(c)
    BY <1>3
  <2>2. Command(c) \in Commands
    BY <1>1, <2>1, CommandKeepsStatus DEF Commands
  <2> QED BY <1>3, <2>2
<1> QED BY <1>2, <1>3, ShapeOfWrites

LEMMA JobStep == ASSUME JobOK, [IecNext]_iecVars PROVE JobOK'
<1> USE DEF JobOK
<1>1. CASE IecTick \/ Lock \/ Copy \/ Unlock \/ NotDue \/ Publish \/ PublishFails
  BY <1>1 DEF IecTick, Lock, Copy, Unlock, NotDue, Publish, PublishFails, SyncEnds
<1>2. ASSUME NEW c \in Operations, Operate(c) PROVE JobOK'
  BY <1>2, WritesAreRequests DEF Operate
<1>3. CASE ControlWrite
  BY <1>3 DEF ControlWrite
<1>4. ASSUME NEW w \in Requests, Client(w) PROVE JobOK'
  BY <1>4 DEF Client
<1>5. CASE UNCHANGED iecVars
  BY <1>5 DEF iecVars, server
<1> QED BY <1>1, <1>2, <1>3, <1>4, <1>5 DEF IecNext

\* Each step is one of the battery unit or leaves it alone.
LEMMA UnitStep == ASSUME JobOK, [IecNext]_iecVars PROVE [Next]_vars
<1>1. CASE IecTick
  BY <1>1 DEF IecTick, Next
<1>2. CASE Lock \/ Copy \/ Unlock \/ NotDue \/ Publish \/ PublishFails
  BY <1>2 DEF Lock, Copy, Unlock, NotDue, Publish, PublishFails, SyncEnds
<1>3. ASSUME NEW c \in Operations, Operate(c) PROVE [Next]_vars
  BY <1>3 DEF Operate
<1>4. CASE ControlWrite
  <2>1. Head(job) \in Requests
    BY <1>4 DEF ControlWrite, JobOK, Commands
  <2> QED BY <1>4, <2>1 DEF ControlWrite, WriteTarget, Next
<1>5. ASSUME NEW w \in Requests, Client(w) PROVE [Next]_vars
  BY <1>5 DEF Client, Next
<1>6. CASE UNCHANGED iecVars
  BY <1>6 DEF iecVars
<1> QED BY <1>1, <1>2, <1>3, <1>4, <1>5, <1>6 DEF IecNext

LEMMA JobInvariant == IecSpec => []JobOK
<1>1. IecInit => JobOK
  BY DEF IecInit, JobOK
<1> QED BY <1>1, JobStep, PTL DEF IecSpec

\* A server implements the battery unit it stands for.
THEOREM ServerIsUnit == IecSpec => BehavesAsUnit
<1>1. IecInit => Init
  BY DEF IecInit
<1> QED BY <1>1, UnitStep, JobInvariant, PTL DEF IecSpec, BehavesAsUnit, Spec

\* No control, and no write between the two a control makes, takes the battery
\* out of its safe states.
THEOREM ServerIsSafe == IecSpec =>
    /\ [](DeadUnitIsIdle /\ DeadBusIsFaulted /\ AliasesAgree /\ CapacityRespected)
    /\ FaultIsLatched /\ StopWins /\ NoFlowPastLimit /\ LedgerBalances
BY ServerIsUnit, IdleWhenDead, FaultedOnDeadBus, AliasCoherence, CapacityBounded,
   FaultLatch, StopPrevails, NoOvercharge, LedgerAccounts, PTL DEF BehavesAsUnit

LEMMA UnitSafe == IecSpec => [](TypeOK /\ DeadUnitIsIdle /\ AliasesAgree)
BY ServerIsUnit, TypeCorrect, IdleWhenDead, AliasCoherence, PTL DEF BehavesAsUnit

-----------------------------------------------------------------------------
\* A change of the alarm leaves its trace at the edge of the band it crossed.
SwingAtEdge ==
    /\ alarms.soc \in BOOLEAN /\ swing \in Int
    /\ IF alarms.soc THEN swing >= RaiseAt ELSE swing <= ClearAt

\* The alarm does not chatter, whatever the band and however the energy moves.
THEOREM AlarmIsSteady == IecSpec => AlarmSwings
<1>0. RaiseAt \in Int /\ ClearAt \in Int /\ ClearAt < RaiseAt
  BY IecAssumption, UnitAssumption
<1>1. IecInit => SwingAtEdge
  BY <1>0 DEF IecInit, SwingAtEdge
<1>2. SwingAtEdge /\ TypeOK /\ [IecNext]_iecVars
        => SwingAtEdge' /\ (alarms'.soc # alarms.soc
                               => Abs(energy - swing) >= RaiseAt - ClearAt)
  <2> SUFFICES ASSUME SwingAtEdge, TypeOK, [IecNext]_iecVars
               PROVE  SwingAtEdge' /\ (alarms'.soc # alarms.soc
                                          => Abs(energy - swing) >= RaiseAt - ClearAt)
    OBVIOUS
  <2>1. CASE Unlock
    <3>1. alarms'.soc = SOCHigh(alarms.soc) /\ energy \in Int
      BY <2>1, UnitAssumption DEF Unlock, TypeOK
    <3>2. swing' = IF alarms'.soc = alarms.soc THEN swing ELSE energy
      BY <2>1 DEF Unlock
    <3>3. CASE alarms.soc = TRUE
      <4>2. CASE ~(energy <= ClearAt)
        <5>1. alarms'.soc = TRUE
          BY <3>1, <3>3, <4>2 DEF SOCHigh
        <5> QED BY <3>2, <3>3, <5>1 DEF SwingAtEdge
      <4>3. CASE energy <= ClearAt
        <5>1. alarms'.soc = FALSE
          BY <3>1, <3>3, <4>3 DEF SOCHigh
        <5>2. swing' = energy
          BY <3>2, <3>3, <5>1
        <5>3. swing >= RaiseAt /\ swing \in Int
          BY <3>3 DEF SwingAtEdge
        <5>4. Abs(energy - swing) >= RaiseAt - ClearAt
          BY <1>0, <3>1, <4>3, <5>3 DEF Abs
        <5> QED BY <3>1, <4>3, <5>1, <5>2, <5>4 DEF SwingAtEdge
      <4> QED BY <4>2, <4>3
    <3>4. CASE alarms.soc = FALSE
      <4>1. CASE energy >= RaiseAt
        <5>1. alarms'.soc = TRUE
          BY <3>1, <3>4, <4>1 DEF SOCHigh
        <5>2. swing' = energy
          BY <3>2, <3>4, <5>1
        <5>3. swing <= ClearAt /\ swing \in Int
          BY <3>4 DEF SwingAtEdge
        <5>4. Abs(energy - swing) >= RaiseAt - ClearAt
          BY <1>0, <3>1, <4>1, <5>3 DEF Abs
        <5> QED BY <3>1, <4>1, <5>1, <5>2, <5>4 DEF SwingAtEdge
      <4>2. CASE ~(energy >= RaiseAt)
        <5>1. alarms'.soc = FALSE
          BY <3>1, <3>4, <4>2 DEF SOCHigh
        <5> QED BY <3>2, <3>4, <5>1 DEF SwingAtEdge
      <4> QED BY <4>1, <4>2
    <3> QED BY <3>3, <3>4 DEF SwingAtEdge
  <2>2. CASE UNCHANGED <<alarms, swing>>
    BY <2>2 DEF SwingAtEdge
  <2>3. IecNext => Unlock \/ UNCHANGED <<alarms, swing>>
    BY DEF IecNext, IecTick, Lock, Copy, NotDue, Publish, PublishFails, SyncEnds,
           Operate, ControlWrite, Client
  <2> QED BY <2>1, <2>2, <2>3 DEF iecVars, server
<1>3. SwingAtEdge /\ TypeOK /\ [IecNext]_iecVars
        => [alarms'.soc # alarms.soc
              => Abs(energy - swing) >= RaiseAt - ClearAt]_iecVars
  BY <1>2
<1> QED BY <1>1, <1>2, <1>3, UnitSafe, PTL DEF IecSpec, AlarmSwings

-----------------------------------------------------------------------------
\* A tick under remote control and without the Q-U curve that finds both
\* set-points at zero ends without power.
LEMMA ZeroIsIdle ==
    ASSUME TypeOK, AliasesAgree, Tick, ctl["powerCmd"] = 0, ctl["reactiveCmd"] = 0,
           ctl["remoteLocal"] = 1, ctl["reactiveMode"] # 2
    PROVE  p' = 0 /\ q' = 0
<1>1. SelectedCommand = 0
  BY DEF SelectedCommand, AliasesAgree
<1>2. Tracked(0) = {0}
  BY UnitAssumption DEF Tracked
<1>3. Clamp(0, -Rated, Rated) = 0
  BY UnitAssumption DEF Clamp
<1>4. ASSUME NEW v PROVE ReactiveTargets(0, v) = {0}
  <2>1. FromPowerFactor(0) = 0
    <3> DEFINE pf == IF ctl["powerFactorCmd"] = 0 THEN 1000 ELSE ctl["powerFactorCmd"]
    <3>1. pf \in Int
      BY DEF TypeOK, Controls, Settings
    <3>2. Abs(0) = 0 /\ \A t \in Int : 0 * t = 0
      BY DEF Abs
    <3>3. Abs(0) * TanAcos[Factor(pf)] = 0
      <4> HIDE DEF pf
      <4>1. TanAcos[Factor(pf)] \in Int
        BY <3>1, TangentType
      <4> QED BY <3>2, <4>1
    <3> QED BY <3>3 DEF FromPowerFactor, Factor
  <2> QED BY <1>2, <2>1 DEF ReactiveTargets
<1>5. Limited(0, 0) = {0}
  <2>1. RatedUnits \in Nat /\ RatedUnits * RatedUnits \in Nat
    BY UnitAssumption DEF RatedUnits
  <2> QED BY <2>1 DEF Limited
<1>6. PICK dt \in Delays :
        \E v \in Relaxed(volt, BusTarget(PowerAfter(p), PowerAfter(q)), dt) :
          \E out : TickWith(dt, v, out)
  BY TickParts
<1>7. PICK v \in Relaxed(volt, BusTarget(PowerAfter(p), PowerAfter(q)), dt) :
        \E out : TickWith(dt, v, out)
  BY <1>6
<1>8. PICK out : TickWith(dt, v, out)
  BY <1>7
<1>9. remote' = TRUE /\ out \in Outputs(running', remote', hv', v)
  BY <1>8 DEF TickWith
<1>10. out[1] = 0 /\ out[2] = 0
  <2>1. CASE /\ out[1] \in Tracked(Clamp(SelectedCommand, -Rated, Rated))
             /\ \E t \in ReactiveTargets(out[1], v) : out[2] \in Limited(t, out[1])
    <3>1. out[1] = 0
      BY <1>1, <1>2, <1>3, <2>1
    <3> QED BY <1>4, <1>5, <2>1, <3>1
  <2> QED BY <1>9, <2>1, OutputCases
<1> QED BY <1>8, <1>10 DEF TickWith, UpdateEnergy, Blocked

\* How a write changes the set-points.
LEMMA SetPointsAfter ==
    ASSUME TypeOK, NEW w, Write(w)
    PROVE  /\ Active \cap DOMAIN w = {} => ctl'["powerCmd"] = ctl["powerCmd"]
           /\ "reactiveCmd" \notin DOMAIN w => ctl'["reactiveCmd"] = ctl["reactiveCmd"]
           /\ w = One("powerCmd", 0) => ctl'["powerCmd"] = 0
           /\ w = One("reactiveCmd", 0) => ctl'["reactiveCmd"] = 0
<1>1. /\ {"powerCmd", "powerCmdAlias", "reactiveCmd"} \subseteq Controls
      /\ ctl \in [Controls -> Int]
  BY DEF TypeOK, Controls, Settings
<1>2. \A r \in Controls : Overlay(ctl, w)[r] = IF r \in DOMAIN w THEN w[r] ELSE ctl[r]
  BY <1>1 DEF Overlay
<1>3. DOMAIN Overlay(ctl, w) = Controls
  BY <1>1 DEF Overlay
<1>4. CASE PowerWrite(w) = {} /\ ctl' = Overlay(ctl, w)
  <2>1. Active \cap DOMAIN w = {}
    BY <1>4 DEF PowerWrite, Active
  <2> QED BY <1>1, <1>2, <1>4, <2>1 DEF One, Active
<1>5. ASSUME NEW v \in PowerWrite(w), ctl' = Mirrored(w, v)
      PROVE  /\ Active \cap DOMAIN w = {} => ctl'["powerCmd"] = ctl["powerCmd"]
             /\ "reactiveCmd" \notin DOMAIN w => ctl'["reactiveCmd"] = ctl["reactiveCmd"]
             /\ w = One("powerCmd", 0) => ctl'["powerCmd"] = 0
             /\ w = One("reactiveCmd", 0) => ctl'["reactiveCmd"] = 0
  <2>1. Active \cap DOMAIN w # {}
    BY <1>5 DEF PowerWrite, Active
  <2>2. ctl'["powerCmd"] = v /\ ctl'["reactiveCmd"] = Overlay(ctl, w)["reactiveCmd"]
    BY <1>1, <1>3, <1>5 DEF Mirrored
  <2>3. w = One("powerCmd", 0) => v = 0
    BY <1>5 DEF PowerWrite, One
  <2> QED BY <1>1, <1>2, <2>1, <2>2, <2>3 DEF One
<1> QED BY <1>4, <1>5 DEF Write

-----------------------------------------------------------------------------
\* What a standby command in progress has done and has still to do; once it is
\* answered, no control in progress writes a set-point.
StandbyInv ==
    /\ standing \in {"none", "asked", "done"}
    /\ standing = "asked" =>
          \/ job = Standby
          \/ job = <<One("reactiveCmd", 0)>> /\ ctl["powerCmd"] = 0
    /\ standing = "done" =>
          /\ ctl["powerCmd"] = 0 /\ ctl["reactiveCmd"] = 0
          /\ job = <<>> \/ \E w : job = <<w>> /\ DOMAIN w \cap SetPoints = {}

LEMMA StandbyStep ==
    ASSUME StandbyInv, TypeOK, AliasesAgree, [IecNext]_iecVars
    PROVE  StandbyInv'
<1> USE DEF StandbyInv
<1>1. CASE IecTick
  <2>1. SelectedCommand = ctl["powerCmd"]
    BY DEF SelectedCommand, AliasesAgree
  <2>2. ctl'["powerCmd"] = ctl["powerCmd"] /\ ctl'["reactiveCmd"] = ctl["reactiveCmd"]
    BY <1>1, <2>1 DEF IecTick, Tick, Consumed, Controls, Settings, Pulses
  <2> QED BY <1>1, <2>2 DEF IecTick
<1>2. CASE Lock \/ Copy \/ Unlock \/ NotDue \/ Publish \/ PublishFails
  BY <1>2 DEF Lock, Copy, Unlock, NotDue, Publish, PublishFails, SyncEnds, vars
<1>3. ASSUME NEW c \in Operations, Operate(c) PROVE StandbyInv'
  <2>1. CASE IsStandby(c)
    <3>1. Writes(c) = Standby
      BY <1>3, <2>1, ShapeOfWrites DEF Operate
    <3> QED BY <1>3, <2>1, <3>1 DEF Operate
  <2>2. CASE ~IsStandby(c)
    <3>1. PICK w : Writes(c) = <<w>>
      BY <1>3, <2>2, ShapeOfWrites DEF Operate
    <3>2. standing' = IF SetPoints \cap DOMAIN w # {} THEN "none" ELSE standing
      BY <1>3, <2>2, <3>1 DEF Operate
    <3>3. job = <<>> /\ job' = <<w>> /\ UNCHANGED ctl
      BY <1>3, <3>1 DEF Operate, vars
    <3>4. standing # "asked"
      BY <3>3 DEF Standby
    <3> QED BY <3>2, <3>3, <3>4
  <2> QED BY <2>1, <2>2
<1>4. CASE ControlWrite
  <2>1. Write(Head(job)) /\ job' = Tail(job) /\ job # <<>>
    BY <1>4 DEF ControlWrite, WriteTarget
  <2>2. standing' = IF standing = "asked" /\ job' = <<>> THEN "done" ELSE standing
    BY <1>4 DEF ControlWrite
  <2>3. CASE standing = "none"
    BY <2>2, <2>3
  <2>4. CASE standing = "asked" /\ job = Standby
    <3>1. Head(job) = One("powerCmd", 0) /\ job' = <<One("reactiveCmd", 0)>>
      BY <2>1, <2>4 DEF Standby
    <3>2. ctl'["powerCmd"] = 0
      BY <2>1, <3>1, SetPointsAfter
    <3> QED BY <2>2, <2>4, <3>1, <3>2
  <2>5. CASE standing = "asked" /\ job = <<One("reactiveCmd", 0)>> /\ ctl["powerCmd"] = 0
    <3>1. Head(job) = One("reactiveCmd", 0) /\ job' = <<>>
      BY <2>1, <2>5
    <3>2. Active \cap DOMAIN One("reactiveCmd", 0) = {}
      BY DEF One, Active
    <3>3. ctl'["reactiveCmd"] = 0 /\ ctl'["powerCmd"] = 0
      BY <2>1, <2>5, <3>1, <3>2, SetPointsAfter
    <3> QED BY <2>2, <2>5, <3>1, <3>3
  <2>6. CASE standing = "done"
    <3>1. PICK w : job = <<w>> /\ DOMAIN w \cap SetPoints = {}
      BY <2>1, <2>6
    <3>2. Write(w) /\ job' = <<>>
      BY <2>1, <3>1
    <3>3. ctl'["reactiveCmd"] = 0 /\ ctl'["powerCmd"] = 0
      BY <2>6, <3>1, <3>2, SetPointsAfter DEF SetPoints
    <3> QED BY <2>2, <2>6, <3>2, <3>3
  <2> QED BY <2>3, <2>4, <2>5, <2>6
<1>5. ASSUME NEW w \in Requests, Client(w) PROVE StandbyInv'
  <2>1. standing' = IF DOMAIN w \cap SetPoints = {} THEN standing ELSE "none"
    BY <1>5 DEF Client
  <2>2. UNCHANGED job /\ Write(w)
    BY <1>5 DEF Client
  <2>3. CASE DOMAIN w \cap SetPoints = {}
    <3>1. UNCHANGED <<ctl["powerCmd"], ctl["reactiveCmd"]>>
      BY <2>2, <2>3, SetPointsAfter DEF SetPoints
    <3> QED BY <2>1, <2>2, <2>3, <3>1
  <2> QED BY <2>1, <2>3
<1>6. CASE UNCHANGED iecVars
  BY <1>6 DEF iecVars, server, vars
<1> QED BY <1>1, <1>2, <1>3, <1>4, <1>5, <1>6 DEF IecNext

\* Standby stops the unit, whatever comes between its two writes.
THEOREM StandbyStops == IecSpec => StandbyIdles
<1>1. IecInit => StandbyInv
  BY DEF IecInit, StandbyInv
<1>2. StandbyInv /\ TypeOK /\ AliasesAgree
        => [IecTick /\ standing = "done"
            /\ ctl["remoteLocal"] = 1 /\ ctl["reactiveMode"] # 2
            => p' = 0 /\ q' = 0]_iecVars
  BY ZeroIsIdle DEF StandbyInv, IecTick
<1> QED BY <1>1, <1>2, StandbyStep, UnitSafe, PTL DEF IecSpec, StandbyIdles

-----------------------------------------------------------------------------
\* The status registers as the last tick left them.
StatusTrue ==
    /\ tel["pcsFault"] = Flag(fault)
    /\ tel["gridStatus"] = Flag(~gridTied)
    /\ tel["pcsStatus"] = IF ~running THEN 1 ELSE IF p = 0 THEN 2
                          ELSE IF p < 0 THEN 3 ELSE 4

\* What iec61850PCSStatus makes of them.
TrueStatus ==
    IF fault THEN 6 ELSE IF ~gridTied /\ running THEN 5
    ELSE IF ~running THEN 0 ELSE IF p = 0 THEN 1 ELSE IF p < 0 THEN 2 ELSE 3

LEMMA StatusFollows == ASSUME StatusTrue PROVE PCSStatus = TrueStatus
BY DEF StatusTrue, PCSStatus, TrueStatus, Flag

\* While the data model is locked no control is in progress, and the points
\* copied so far hold what their registers do, if no client wrote those since.
CopyInv ==
    /\ stage \in {"tick", "lock", "copy", "publish"}
    /\ stage \in {"lock", "copy"} /\ touched \cap Status = {} => StatusTrue
    /\ stage = "copy" =>
          /\ job = <<>>
          /\ todo \in {Order, <<"AnIn8", "APCS1">>, <<"APCS1">>, <<>>}
          /\ todo # Order => "AnIn3" \in DOMAIN shown
          /\ todo # Order /\ touched \cap Status = {} => shown["AnIn3"] = TrueStatus
          /\ todo \in {<<"APCS1">>, <<>>} => "AnIn8" \in DOMAIN shown
          /\ todo \in {<<"APCS1">>, <<>>} /\ touched \cap Active = {}
                => shown["AnIn8"] = ctl["powerCmd"]
          /\ todo = <<>> /\ touched \cap Active = {}
                => shown["APCS1"] = ctl["powerCmd"]
    /\ stage = "publish" =>
          /\ touched \cap Status = {} => shown["AnIn3"] = TrueStatus
          /\ alarms.dc = fault

\* A write keeps the state, and the registers it does not name.
LEMMA WriteLeaves ==
    ASSUME TypeOK, NEW w, Write(w)
    PROVE  /\ UNCHANGED <<fault, gridTied, running, p>>
           /\ TrueStatus' = TrueStatus
           /\ Status \cap DOMAIN w = {} => StatusTrue' = StatusTrue
<1>1. UNCHANGED <<fault, gridTied, running, p>> /\ tel' = Overlay(tel, w)
  BY DEF Write
<1>2. Status \subseteq Telemetry /\ tel \in [Telemetry -> Int]
  BY DEF TypeOK, Status, Telemetry
<1>3. \A r \in Status : r \notin DOMAIN w => tel'[r] = tel[r]
  BY <1>1, <1>2 DEF Overlay
<1> QED BY <1>1, <1>3 DEF TrueStatus, StatusTrue, Status

LEMMA TickShows == ASSUME Tick PROVE StatusTrue'
<1>1. tel' = Synced(running', hv', remote', gridTied', fault', p', q', energy')
  BY DEF Tick
<1> QED BY <1>1 DEF Synced, StatusTrue

LEMMA CopyStep ==
    ASSUME CopyInv, JobOK, TypeOK, [IecNext]_iecVars
    PROVE  CopyInv'
<1> USE DEF CopyInv
<1>1. CASE IecTick
  BY <1>1, TickShows DEF IecTick
<1>2. CASE Lock
  BY <1>2 DEF Lock, vars, StatusTrue, Order
<1>3. CASE Copy
  <2>1. /\ stage = "copy" /\ stage' = "copy" /\ todo # <<>> /\ todo' = Tail(todo)
        /\ shown' = [x \in DOMAIN shown \cup {Head(todo)} |->
                        IF x = Head(todo) THEN Value(x) ELSE shown[x]]
        /\ UNCHANGED <<vars, job, touched>>
    BY <1>3 DEF Copy
  <2>2. StatusTrue' = StatusTrue /\ TrueStatus' = TrueStatus
    BY <2>1 DEF vars, StatusTrue, TrueStatus
  <2>3. CASE todo = Order
    <3>1. Head(todo) = "AnIn3" /\ todo' = <<"AnIn8", "APCS1">>
      BY <2>1, <2>3 DEF Order
    <3>2. "AnIn3" \in DOMAIN shown' /\ shown'["AnIn3"] = PCSStatus
      BY <2>1, <3>1 DEF Value
    <3>3. todo' \notin {<<"APCS1">>, <<>>}
      BY <3>1
    <3>4. touched \cap Status = {} => shown'["AnIn3"] = TrueStatus
      BY <2>1, <3>2, StatusFollows
    <3> QED BY <2>1, <2>2, <3>1, <3>2, <3>3, <3>4
  <2>4. CASE todo = <<"AnIn8", "APCS1">>
    <3>1. Head(todo) = "AnIn8" /\ todo' = <<"APCS1">> /\ todo # Order
      BY <2>1, <2>4 DEF Order
    <3>2. /\ {"AnIn3", "AnIn8"} \subseteq DOMAIN shown'
          /\ shown'["AnIn8"] = ctl["powerCmd"] /\ shown'["AnIn3"] = shown["AnIn3"]
      BY <2>1, <3>1 DEF Value
    <3>3. todo' # <<>> /\ ctl'["powerCmd"] = ctl["powerCmd"]
      BY <2>1, <3>1 DEF vars
    <3>4. touched \cap Status = {} => shown["AnIn3"] = TrueStatus
      BY <2>1, <3>1
    <3> QED BY <2>1, <2>2, <3>1, <3>2, <3>3, <3>4
  <2>5. CASE todo = <<"APCS1">>
    <3>1. Head(todo) = "APCS1" /\ todo' = <<>> /\ todo # Order
      BY <2>1, <2>5 DEF Order
    <3>2. /\ {"AnIn3", "AnIn8"} \subseteq DOMAIN shown'
          /\ shown'["APCS1"] = ctl["powerCmd"]
          /\ shown'["AnIn3"] = shown["AnIn3"] /\ shown'["AnIn8"] = shown["AnIn8"]
      BY <2>1, <2>5, <3>1 DEF Value
    <3> QED BY <2>1, <2>2, <2>5, <3>1, <3>2 DEF vars
  <2> QED BY <2>1, <2>3, <2>4, <2>5
<1>4. CASE Unlock
  <2>1. /\ stage = "copy" /\ todo = <<>> /\ stage' = "publish" /\ alarms'.dc = fault
        /\ UNCHANGED <<vars, shown>> /\ touched' = touched \ Active
    BY <1>4 DEF Unlock
  <2>2. todo # Order /\ (touched' \cap Status = {} => touched \cap Status = {})
    BY <2>1 DEF Order, Status, Active
  <2> QED BY <2>1, <2>2 DEF vars, TrueStatus
<1>5. CASE NotDue \/ Publish \/ PublishFails
  BY <1>5 DEF NotDue, Publish, PublishFails, SyncEnds
<1>6. ASSUME NEW c \in Operations, Operate(c) PROVE CopyInv'
  <2>1. stage # "copy" /\ UNCHANGED <<vars, stage, shown, alarms, touched>>
    BY <1>6 DEF Operate, ModelFree
  <2> QED BY <2>1 DEF vars, StatusTrue, TrueStatus
<1>7. ASSUME NEW w, Write(w), UNCHANGED <<stage, todo, shown, alarms>>,
             touched' = touched \cup (DOMAIN w \cap Disturbed),
             stage = "copy" => UNCHANGED job
      PROVE  CopyInv'
  <2>1. CASE stage \in {"tick", "publish"}
    BY <1>7, <2>1, WriteLeaves DEF Disturbed
  <2>2. CASE stage = "lock"
    BY <1>7, <2>2, WriteLeaves DEF Disturbed
  <2>3. CASE stage = "copy"
    <3>1. touched' = touched \cup (DOMAIN w \cap (Status \cup Active))
      BY <1>7, <2>3 DEF Disturbed
    <3>2. touched' \cap Status = {} => touched \cap Status = {} /\ StatusTrue'
      BY <1>7, <2>3, <3>1, WriteLeaves
    <3>3. touched' \cap Active = {}
            => touched \cap Active = {} /\ ctl'["powerCmd"] = ctl["powerCmd"]
      BY <1>7, <2>3, <3>1, SetPointsAfter
    <3> QED BY <1>7, <2>3, <3>2, <3>3, WriteLeaves
  <2> QED BY <2>1, <2>2, <2>3
<1>8. CASE ControlWrite
  <2>1. stage # "copy" /\ Write(Head(job))
        /\ UNCHANGED <<stage, todo, shown, alarms, touched>>
    BY <1>8 DEF ControlWrite, WriteTarget
  <2>2. Status \cap DOMAIN Head(job) = {}
    BY <1>8 DEF ControlWrite, JobOK, Commands
  <2> QED BY <2>1, <2>2, WriteLeaves
<1>9. ASSUME NEW w \in Requests, Client(w) PROVE CopyInv'
  BY <1>7, <1>9 DEF Client
<1>10. CASE UNCHANGED iecVars
  BY <1>10 DEF iecVars, server, vars, StatusTrue, TrueStatus
<1> QED BY <1>1, <1>2, <1>3, <1>4, <1>5, <1>6, <1>8, <1>9, <1>10 DEF IecNext

LEMMA CopyInvariant == IecSpec => []CopyInv
<1>1. IecInit => CopyInv
  <2> SUFFICES ASSUME IecInit PROVE CopyInv
    OBVIOUS
  <2>1. StatusTrue
    BY DEF IecInit, Init, Synced, StatusTrue
  <2> QED BY <2>1 DEF IecInit, CopyInv
<1> QED BY <1>1, CopyStep, JobInvariant, UnitSafe, PTL DEF IecSpec

\* What GOOSE carries and what is read back of a set-point agree.
THEOREM ReadBack == IecSpec => []ReadBackWhole
<1>1. CopyInv => ReadBackWhole
  BY DEF CopyInv, ReadBackWhole
<1> QED BY <1>1, CopyInvariant, PTL

\* The state published is the state the last tick left, in every grid mode.
THEOREM PublishedTrue == IecSpec => []PublishedStatusTrue
<1>1. CopyInv /\ TypeOK /\ DeadUnitIsIdle => PublishedStatusTrue
  BY DEF CopyInv, PublishedStatusTrue, TrueStatus, DeadUnitIsIdle, TypeOK
<1> QED BY <1>1, CopyInvariant, UnitSafe, PTL
=============================================================================
