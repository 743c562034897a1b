---------------------------- MODULE Xn3477Proofs ----------------------------
(***************************************************************************)
(* Theorems about Xn3477, for any number of clusters and any requests: the *)
(* battery behind an endpoint is a BatteryUnit, so that what is proved of  *)
(* that holds of it, and stack and clusters report the same state.         *)
(***************************************************************************)
EXTENDS Xn3477, BatteryUnitProofs

\* What is forwarded is a request that any client could have made.
LEMMA ForwardedRequest ==
    ASSUME NEW w, NEW r \in Forwarded(w)
    PROVE  r \in {"bmsReset", "closeHV", "openHV"} /\ [x \in {r} |-> 1] \in Requests
BY XnAssumption DEF Forwarded

\* Each step is one of the battery unit or leaves it alone.
LEMMA UnitStep == XnNext => [Next]_vars
<1> SUFFICES ASSUME XnNext PROVE [Next]_vars
  OBVIOUS
<1>1. CASE XnTick
  BY <1>1 DEF XnTick, Next
<1>2. CASE SyncBAU \/ SyncBCU \/ Reject
  BY <1>2 DEF SyncBAU, SyncBCU, Reject
<1>3. ASSUME NEW w \in Requests, Client(w) PROVE [Next]_vars
  BY <1>3 DEF Client, Next
<1>4. ASSUME NEW s \in XnRequests, Receive(s) PROVE [Next]_vars
  BY <1>4 DEF Receive
<1>5. CASE HandleOne
  <2>1. UNCHANGED vars \/ \E r \in Forwarded(Head(job)) : Write([x \in {r} |-> 1])
    BY <1>5 DEF HandleOne, Forward
  <2> QED BY <2>1, ForwardedRequest DEF Next
<1> QED BY <1>1, <1>2, <1>3, <1>4, <1>5 DEF XnNext

\* An endpoint implements the battery unit it stands for.
THEOREM EndpointIsUnit == XnSpec => BehavesAsUnit
<1>1. XnInit => Init
  BY DEF XnInit
<1>2. UNCHANGED xnVars => UNCHANGED vars
  BY DEF xnVars
<1> QED BY <1>1, <1>2, UnitStep, PTL DEF XnSpec, BehavesAsUnit, Spec

\* Nothing an endpoint forwards, in any order with ticks and with the writes of
\* other clients, takes the battery behind it out of its safe states.
THEOREM EndpointIsSafe == XnSpec =>
    /\ [](DeadUnitIsIdle /\ DeadBusIsFaulted /\ AliasesAgree /\ CapacityRespected)
    /\ FaultIsLatched /\ StopWins /\ NoFlowPastLimit /\ LedgerBalances
BY EndpointIsUnit, IdleWhenDead, FaultedOnDeadBus, AliasCoherence, CapacityBounded,
   FaultLatch, StopPrevails, NoOvercharge, LedgerAccounts, PTL DEF BehavesAsUnit

-----------------------------------------------------------------------------
\* Unless a client has overwritten it, 40102 tells the state the tick left.
StatusTrue ==
    tel["bmsStatus"] = IF ~hv THEN 2 ELSE IF p = 0 THEN 1
                       ELSE IF p < 0 THEN 3 ELSE 4

\* The copies made so far are those of the present state.
XnInv ==
    /\ at \in 0..(Clusters + 1)
    /\ DOMAIN bcu = 1..Clusters
    /\ ~spoiled => /\ StatusTrue
                   /\ at > 0 => bau = StackNow
                   /\ \A i \in 1..Clusters : i < at => bcu[i] = ClusterNow

\* A true status makes the copies agree, and as no power flows over an open
\* contactor, it tells the flow too.
LEMMA CopiesAgree ==
    ASSUME StatusTrue, p \in Int, DeadUnitIsIdle
    PROVE  /\ StackNow = ClusterNow
           /\ (StackNow.main = 3) <=> ~hv
           /\ StackNow.work = IF p < 0 THEN 2 ELSE IF p > 0 THEN 1 ELSE 0
<1>1. tel["bmsStatus"] = IF ~hv THEN 2 ELSE IF p = 0 THEN 1
                         ELSE IF p < 0 THEN 3 ELSE 4
  BY DEF StatusTrue
<1>2. CASE ~hv
  BY <1>1, <1>2 DEF DeadUnitIsIdle, StackNow, ClusterNow, XnStatus, XnClusterStatus, ClusterStatus
<1>3. CASE hv /\ p = 0
  BY <1>1, <1>3 DEF StackNow, ClusterNow, XnStatus, XnClusterStatus, ClusterStatus,
                    OnlineMain
<1>4. CASE hv /\ p # 0
  BY <1>1, <1>4 DEF StackNow, ClusterNow, XnStatus, XnClusterStatus, ClusterStatus,
                    OnlineMain
<1> QED BY <1>2, <1>3, <1>4

\* A write leaves the state of the unit alone, and the copied registers too
\* unless it names them.
LEMMA WriteKeeps ==
    ASSUME TypeOK, NEW w, Write(w), Source \cap DOMAIN w = {}
    PROVE  /\ UNCHANGED <<hv, p, running>>
           /\ tel'["bmsStatus"] = tel["bmsStatus"]
           /\ tel'["chargeForbid"] = tel["chargeForbid"]
           /\ tel'["dischargeForbid"] = tel["dischargeForbid"]
BY DEF Write, Overlay, TypeOK, Telemetry, Source

LEMMA TickSyncs == ASSUME Tick PROVE StatusTrue'
<1>1. tel' = Synced(running', hv', remote', gridTied', fault', p', q', energy')
  BY DEF Tick
<1> QED BY <1>1 DEF Synced, StatusTrue

LEMMA XnStep ==
    ASSUME XnInv, TypeOK, [XnNext]_xnVars
    PROVE  XnInv'
<1> USE DEF XnInv
<1>0. Clusters \in Nat
  BY XnAssumption
<1>1. CASE XnTick
  BY <1>0, <1>1, TickSyncs DEF XnTick
<1>2. CASE SyncBAU
  BY <1>0, <1>2 DEF SyncBAU, vars, StatusTrue, StackNow, ClusterNow, ClusterStatus
<1>3. CASE SyncBCU
  BY <1>0, <1>3 DEF SyncBCU, vars, StatusTrue, StackNow, ClusterNow, ClusterStatus
<1>4. ASSUME NEW w \in Requests, Client(w) PROVE XnInv'
  <2>1. CASE spoiled'
    BY <1>4, <2>1 DEF Client
  <2>2. CASE ~spoiled'
    <3>1. ~spoiled /\ Source \cap DOMAIN w = {} /\ Write(w)
      BY <1>4, <2>2 DEF Client
    <3>2. StatusTrue' /\ StackNow' = StackNow /\ ClusterNow' = ClusterNow
      BY <3>1, WriteKeeps DEF StatusTrue, StackNow, ClusterNow, ClusterStatus
    <3> QED BY <1>4, <3>1, <3>2 DEF Client
  <2> QED BY <2>1, <2>2
<1>5. ASSUME NEW s \in XnRequests, Receive(s) PROVE XnInv'
  BY <1>5 DEF Receive, vars, StatusTrue, StackNow, ClusterNow, ClusterStatus
<1>6. CASE HandleOne
  <2>1. UNCHANGED at /\ DOMAIN bcu' = DOMAIN bcu
    BY <1>6 DEF HandleOne, Stored
  <2>2. CASE spoiled'
    BY <2>1, <2>2
  <2>3. CASE ~spoiled'
    <3>1. ~spoiled /\ UNCHANGED <<bau, bcu>>
      BY <1>6, <2>3 DEF HandleOne, Stored
    <3>2. CASE UNCHANGED vars
      BY <2>1, <3>1, <3>2
      DEF vars, StatusTrue, StackNow, ClusterNow, ClusterStatus
    <3>3. ASSUME NEW r \in Forwarded(Head(job)), Write([x \in {r} |-> 1]) PROVE XnInv'
      <4>1. Source \cap DOMAIN [x \in {r} |-> 1] = {}
        BY ForwardedRequest DEF Source
      <4>2. StatusTrue' /\ StackNow' = StackNow /\ ClusterNow' = ClusterNow
        BY <3>1, <3>3, <4>1, WriteKeeps
        DEF StatusTrue, StackNow, ClusterNow, ClusterStatus
      <4> QED BY <2>1, <3>1, <4>2
    <3> QED BY <1>6, <3>2, <3>3 DEF HandleOne, Forward
  <2> QED BY <2>2, <2>3
<1>7. CASE Reject
  BY <1>7 DEF Reject, vars, StatusTrue, StackNow, ClusterNow, ClusterStatus
<1>8. CASE UNCHANGED xnVars
  BY <1>8 DEF xnVars, endpoint, vars, StatusTrue, StackNow, ClusterNow, ClusterStatus
<1> QED BY <1>1, <1>2, <1>3, <1>4, <1>5, <1>6, <1>7, <1>8 DEF XnNext

\* For any number of clusters, in any interleaving of the copies with the writes
\* of all clients, stack and clusters agree once a tick's copies are made.
THEOREM StackAndClusters == XnSpec => []StackAndClustersAgree
<1>1. XnInit => XnInv
  <2> SUFFICES ASSUME XnInit PROVE XnInv
    OBVIOUS
  <2>1. StatusTrue
    BY DEF XnInit, Init, Synced, StatusTrue
  <2> QED BY <2>1, XnAssumption DEF XnInit, XnInv
<1>2. XnInv /\ TypeOK /\ DeadUnitIsIdle => StackAndClustersAgree
  <2> SUFFICES ASSUME XnInv, TypeOK, DeadUnitIsIdle, at = Clusters + 1, ~spoiled
               PROVE  /\ \A i \in 1..Clusters : bcu[i] = bau
                      /\ (bau.main = 3) <=> ~hv
                      /\ bau.work = IF p < 0 THEN 2 ELSE IF p > 0 THEN 1 ELSE 0
    BY DEF StackAndClustersAgree
  <2>1. Clusters \in Nat /\ p \in Int /\ StatusTrue
    BY XnAssumption DEF XnInv, TypeOK
  <2>2. bau = StackNow /\ \A i \in 1..Clusters : bcu[i] = ClusterNow
    BY <2>1 DEF XnInv
  <2> QED BY <2>1, <2>2, CopiesAgree
<1>3. XnSpec => []TypeOK
  BY EndpointIsUnit, TypeCorrect, PTL DEF BehavesAsUnit
<1>4. XnSpec => []DeadUnitIsIdle
  BY EndpointIsUnit, IdleWhenDead, PTL DEF BehavesAsUnit
<1> QED BY <1>1, <1>2, <1>3, <1>4, XnStep, PTL DEF XnSpec

\* A forwarded open command is a pending pulse until the tick that takes it.
OpenPending == openDue \in BOOLEAN /\ (openDue => ctl["openHV"] = 1)

\* No interleaving of clients and forwarded writes loses a forwarded open command.
THEOREM OpenNotLost == XnSpec => ForwardedOpenOpens
<1>1. XnInit => OpenPending
  BY DEF XnInit, OpenPending
<1>2. OpenPending /\ TypeOK /\ [XnNext]_xnVars => OpenPending'
  <2> SUFFICES ASSUME OpenPending, TypeOK, [XnNext]_xnVars PROVE OpenPending'
    OBVIOUS
  <2> USE DEF OpenPending
  <2>1. CASE XnTick
    BY <2>1 DEF XnTick
  <2>2. CASE SyncBAU \/ SyncBCU \/ Reject \/ UNCHANGED xnVars
    BY <2>2 DEF SyncBAU, SyncBCU, Reject, xnVars, endpoint, vars
  <2>3. ASSUME NEW w, Write(w)
        PROVE  ctl'["openHV"] = IF "openHV" \in DOMAIN w THEN w["openHV"] ELSE ctl["openHV"]
    <3>1. "openHV" \in Controls /\ ctl \in [Controls -> Int]
      BY DEF TypeOK, Controls, Pulses
    <3>2. \/ ctl' = Overlay(ctl, w)
          \/ \E v \in PowerWrite(w) :
                ctl' = [Overlay(ctl, w) EXCEPT !["powerCmd"] = v, !["powerCmdAlias"] = v]
      BY <2>3 DEF Write, Mirrored
    <3>3. /\ DOMAIN Overlay(ctl, w) = Controls
          /\ Overlay(ctl, w)["openHV"]
                = IF "openHV" \in DOMAIN w THEN w["openHV"] ELSE ctl["openHV"]
      BY <3>1 DEF Overlay
    <3>4. ctl'["openHV"] = Overlay(ctl, w)["openHV"]
      BY <3>1, <3>2, <3>3
    <3> QED BY <3>3, <3>4
  <2>4. ASSUME NEW w \in Requests, Client(w) PROVE OpenPending'
    BY <2>3, <2>4 DEF Client
  <2>5. ASSUME NEW s \in XnRequests, Receive(s) PROVE OpenPending'
    BY <2>5 DEF Receive, vars
  <2>6. CASE HandleOne
    <3>1. CASE UNCHANGED <<vars, openDue>>
      BY <3>1 DEF vars
    <3>2. ASSUME NEW r \in Forwarded(Head(job)), Write([x \in {r} |-> 1]),
                 openDue' = (openDue \/ (Head(job).reg = "hvControl"
                                           /\ Head(job).value = 2))
          PROVE  OpenPending'
      <4>1. ctl'["openHV"] = IF r = "openHV" THEN 1 ELSE ctl["openHV"]
        BY <2>3, <3>2
      <4>2. Head(job).reg = "hvControl" /\ Head(job).value = 2 => r = "openHV"
        BY <3>2 DEF Forwarded
      <4> QED BY <3>2, <4>1, <4>2
    <3> QED BY <2>6, <3>1, <3>2 DEF HandleOne, Forward
  <2> QED BY <2>1, <2>2, <2>4, <2>5, <2>6 DEF XnNext
<1>3. OpenPending /\ TypeOK
        /\ [Tick => /\ Pulse("shutdown") \/ Pulse("estop") => ~running'
                    /\ Pulse("openHV") => ~hv'
                    /\ Tripped => p' = 0 /\ q' = 0]_vars
        => [XnTick /\ openDue => ~hv' /\ p' = 0 /\ q' = 0]_xnVars
  <2> SUFFICES ASSUME OpenPending, TypeOK, XnTick, openDue,
                      [Tick => /\ Pulse("shutdown") \/ Pulse("estop") => ~running'
                               /\ Pulse("openHV") => ~hv'
                               /\ Tripped => p' = 0 /\ q' = 0]_vars
               PROVE  ~hv' /\ p' = 0 /\ q' = 0
    OBVIOUS
  <2>1. Tick /\ Pulse("openHV") /\ Tripped
    BY DEF XnTick, OpenPending, Pulse, Tripped
  <2>2. ctl' = Consumed(SelectedCommand)
    BY <2>1 DEF Tick
  <2>3. ctl'["openHV"] = 0 /\ ctl["openHV"] = 1
    BY <2>1, <2>2 DEF Consumed, Controls, Pulses, Pulse
  <2>4. vars' # vars
    BY <2>3 DEF vars
  <2> QED BY <2>1, <2>4
<1>4. XnSpec => []TypeOK
  BY EndpointIsUnit, TypeCorrect, PTL DEF BehavesAsUnit
<1>5. XnSpec => StopWins
  BY EndpointIsUnit, StopPrevails, PTL DEF BehavesAsUnit
<1> QED BY <1>1, <1>2, <1>3, <1>4, <1>5, PTL DEF XnSpec, ForwardedOpenOpens, StopWins
=============================================================================
